----------------------- MODULE ImportResolution_proofs -----------------------
(***************************************************************************)
(* Proofs about ImportResolution, for every module and every import graph, *)
(* about the initialization of the program in the order it records, about  *)
(* the comments that the parser takes from the scanner, and about the      *)
(* semicolons that the scanner inserts.                                    *)
(***************************************************************************)
EXTENDS ProgramInit, CommentGroups, SequenceTheorems, FunctionTheorems, FiniteSetTheorems,
        WellFoundedInduction, TLAPS

\* The recursion is a path of distinct packages from the main package on, and
\* what is marked is recorded or on that path.
PathOK ==
  /\ stack # <<>> => stack[1].pkg = Main
  /\ \A k \in DOMAIN stack : k # 1 => stack[k].pkg \in visited
  /\ \A k, l \in DOMAIN stack : stack[k].pkg = stack[l].pkg => k = l

RecordOK ==
  /\ \A n \in DOMAIN imports : imports[n] \in visited
  /\ \A k \in DOMAIN stack, n \in DOMAIN imports : stack[k].pkg # imports[n]
  /\ RecordedOnce
  /\ ~failed => \A p \in visited :
       \/ \E n \in DOMAIN imports : imports[n] = p
       \/ \E k \in DOMAIN stack : k # 1 /\ stack[k].pkg = p

\* What a call has passed is marked or in stdlib_imports.
Passed(p, n) == \A i \in 1 .. n : graph[p][i] \in visited \cup stdlib
PassedOK ==
  /\ \A k \in DOMAIN stack : Passed(stack[k].pkg, stack[k].next - 1)
  /\ \A n \in DOMAIN imports : Passed(imports[n], Len(graph[imports[n]]))
  /\ Resolved => Passed(Main, Len(graph[Main]))

\* A numbering that falls along the imports falls along the recursion.
Ranks == [Locals \cup {Main} -> 0 .. Cardinality(Locals)]
Descent == \A rank \in Ranks : Falls(rank) =>
  \A k, l \in DOMAIN stack : k < l => rank[stack[l].pkg] < rank[stack[k].pkg]

IInv == TypeOK /\ PathOK /\ RecordOK /\ PassedOK /\ Descent

-----------------------------------------------------------------------------
\* What the steps do to the stack.
LEMMA AdvancedStack ==
  ASSUME TypeOK, HasNext, GraphAssumption
  PROVE  /\ Advanced \in Seq(Frames)
         /\ Len(Advanced) = Len(stack)
         /\ \A k \in DOMAIN stack : Advanced[k].pkg = stack[k].pkg
         /\ \A k \in DOMAIN stack : k # Len(stack) => Advanced[k] = stack[k]
         /\ Advanced[Len(stack)].next = Top.next + 1
         /\ Here \in Locals \cup Stdlib
         /\ Len(stack) \in DOMAIN stack
<1>1. /\ Len(stack) \in Nat \ {0}
      /\ \A k \in 1 .. Len(stack) : stack[k] \in Frames
      /\ DOMAIN stack = 1 .. Len(stack)
  BY DEF TypeOK, HasNext
<1>2. Top \in Frames
  BY <1>1 DEF Top
<1>3. Here \in Locals \cup Stdlib
  <2>1. graph[Top.pkg] \in Seq(Locals \cup Stdlib)
    BY <1>2 DEF TypeOK, GraphAssumption, Frames
  <2>2. Top.next \in 1 .. Len(graph[Top.pkg])
    BY <1>2, <2>1 DEF HasNext, Frames
  <2> QED BY <2>1, <2>2 DEF Here
<1> DEFINE frame == [pkg |-> Top.pkg, next |-> Top.next + 1]
<1>4. frame \in Frames /\ frame.pkg = stack[Len(stack)].pkg /\ frame.next = Top.next + 1
  BY <1>1, <1>2 DEF Top, Frames
<1>5. /\ Advanced \in Seq(Frames)
      /\ Len(Advanced) = Len(stack)
      /\ DOMAIN Advanced = DOMAIN stack
      /\ Advanced[Len(stack)] = frame
      /\ \A k \in DOMAIN stack : k # Len(stack) => Advanced[k] = stack[k]
  <2> HIDE DEF frame
  <2>1. Advanced = [stack EXCEPT ![Len(stack)] = frame]
    BY DEF Advanced, frame
  <2> QED BY <1>1, <1>4, <2>1 DEF TypeOK
<1> QED BY <1>1, <1>3, <1>4, <1>5

LEMMA EnteredStack ==
  ASSUME TypeOK, HasNext, GraphAssumption, Here \in Locals, stack' = Append(Advanced, Frame(Here))
  PROVE  /\ stack' \in Seq(Frames)
         /\ Len(stack') = Len(stack) + 1
         /\ DOMAIN stack' = 1 .. Len(stack) + 1
         /\ DOMAIN stack = 1 .. Len(stack)
         /\ \A k \in DOMAIN stack : stack'[k].pkg = stack[k].pkg
         /\ \A k \in DOMAIN stack : k # Len(stack) => stack'[k] = stack[k]
         /\ stack'[Len(stack)].next = Top.next + 1
         /\ stack'[Len(stack) + 1] = Frame(Here)
<1>1. Frame(Here) \in Frames
  BY DEF Frame, Frames
<1>2. DOMAIN stack = 1 .. Len(stack) /\ Len(stack) \in Nat
  BY DEF TypeOK
<1>3. /\ Advanced \in Seq(Frames)
      /\ Len(Advanced) = Len(stack)
      /\ Len(stack) \in DOMAIN stack
  BY AdvancedStack
<1> DEFINE s == stack'
           a == Advanced
<1>4. /\ s \in Seq(Frames)
      /\ Len(s) = Len(stack) + 1
      /\ \A k \in 1 .. Len(stack) : s[k] = a[k]
      /\ s[Len(stack) + 1] = Frame(Here)
  <2>1. s = Append(a, Frame(Here)) /\ a \in Seq(Frames) /\ Len(a) = Len(stack)
    BY <1>3
  <2> HIDE DEF s, a
  <2> QED BY <1>1, <2>1
<1>5. DOMAIN s = 1 .. Len(stack) + 1
  <2> HIDE DEF s
  <2> QED BY <1>2, <1>4
<1>6. /\ \A k \in DOMAIN stack : a[k].pkg = stack[k].pkg
      /\ \A k \in DOMAIN stack : k # Len(stack) => a[k] = stack[k]
      /\ a[Len(stack)].next = Top.next + 1
  BY AdvancedStack
<1> HIDE DEF a
<1> QED BY <1>2, <1>3, <1>4, <1>5, <1>6

LEMMA LeftStack ==
  ASSUME TypeOK, stack # <<>>, stack' = SubSeq(stack, 1, Len(stack) - 1)
  PROVE  /\ stack' \in Seq(Frames)
         /\ Len(stack') = Len(stack) - 1
         /\ Len(stack) \in DOMAIN stack
         /\ DOMAIN stack = 1 .. Len(stack)
         /\ DOMAIN stack' = 1 .. Len(stack) - 1
         /\ \A k \in DOMAIN stack' : stack'[k] = stack[k]
         /\ Top \in Frames
<1>1. stack \in Seq(Frames) /\ Len(stack) \in Nat \ {0}
  BY DEF TypeOK
<1> DEFINE s == stack'
<1>2. s = SubSeq(stack, 1, Len(stack) - 1)
  OBVIOUS
<1> HIDE DEF s
<1>3. /\ s \in Seq(Frames)
      /\ Len(s) = Len(stack) - 1
      /\ DOMAIN s = 1 .. Len(stack) - 1
      /\ \A k \in DOMAIN s : s[k] = stack[k]
  <2>1. \A k \in 1 .. Len(stack) - 1 : stack[k] \in Frames
    BY <1>1
  <2>2. /\ s \in Seq(Frames)
        /\ Len(s) = IF 1 <= Len(stack) - 1 THEN Len(stack) - 1 - 1 + 1 ELSE 0
        /\ \A k \in 1 .. Len(stack) - 1 - 1 + 1 : s[k] = stack[1 + k - 1]
    BY <1>1, <1>2, <2>1, SubSeqProperties, 1 \in Int, Len(stack) - 1 \in Int
  <2>3. Len(s) = Len(stack) - 1
    <3>1. Len(s) = IF 1 <= Len(stack) - 1 THEN Len(stack) - 1 - 1 + 1 ELSE 0
      BY <2>2, Zenon
    <3> DEFINE l == Len(s)
               n == Len(stack)
    <3>2. n \in Nat \ {0} /\ l = IF 1 <= n - 1 THEN n - 1 - 1 + 1 ELSE 0
      BY <1>1, <3>1
    <3>3. l = n - 1
      <4> HIDE DEF l, n
      <4> QED BY <3>2
    <3> QED BY <3>3
  <2>4. DOMAIN s = 1 .. Len(stack) - 1
    BY <2>2, <2>3
  <2>5. \A k \in 1 .. Len(stack) - 1 : s[k] = stack[k]
    <3> SUFFICES ASSUME NEW k \in 1 .. Len(stack) - 1 PROVE s[k] = stack[k]
      OBVIOUS
    <3>1. k \in 1 .. Len(stack) - 1 - 1 + 1 /\ 1 + k - 1 = k
      BY <1>1
    <3>2. s[k] = stack[1 + k - 1]
      BY <2>2, <3>1
    <3> QED BY <3>1, <3>2
  <2> QED BY <2>2, <2>3, <2>4, <2>5
<1>4. Len(stack) \in DOMAIN stack /\ DOMAIN stack = 1 .. Len(stack) /\ Top \in Frames
  BY <1>1 DEF Top
<1> QED BY <1>3, <1>4 DEF s

-----------------------------------------------------------------------------
LEMMA InitIInv == Init => IInv
<1> SUFFICES ASSUME Init PROVE IInv
  OBVIOUS
<1>1. Frame(Main) \in Frames /\ Frame(Main).pkg = Main /\ Frame(Main).next = 1
  BY DEF Frame, Frames
<1>2. stack \in Seq(Frames) /\ Len(stack) = 1 /\ DOMAIN stack = {1} /\ stack[1] = Frame(Main) /\ stack # <<>>
  BY <1>1 DEF Init
<1>3. imports = <<>> /\ imports \in Seq(Locals) /\ DOMAIN imports = {}
  BY DEF Init
<1>4. TypeOK
  BY <1>2, <1>3 DEF Init, TypeOK
<1>5. PathOK
  BY <1>1, <1>2 DEF PathOK
<1>6. RecordOK
  BY <1>3 DEF Init, RecordOK, RecordedOnce
<1>7. PassedOK
  BY <1>1, <1>2, <1>3 DEF PassedOK, Passed, Resolved
<1>8. Descent
  BY <1>2 DEF Descent
<1> QED BY <1>4, <1>5, <1>6, <1>7, <1>8 DEF IInv

LEMMA NextTypeOK == ASSUME TypeOK, PathOK, [Next]_vars PROVE TypeOK'
<1>1. CASE SkipVisited
  BY <1>1, AdvancedStack, GraphAssumption DEF SkipVisited, TypeOK
<1>2. CASE AddStdlib
  BY <1>2, AdvancedStack, GraphAssumption DEF AddStdlib, TypeOK
<1>3. CASE Enter
  BY <1>3, EnteredStack, GraphAssumption DEF Enter, TypeOK
<1>4. CASE Fail
  <2>1. stack' \in Seq(Frames)
    BY <1>4 DEF Fail
  <2> QED BY <1>4, <2>1 DEF Fail, TypeOK
<1>5. CASE Leave
  <2>1. Len(stack) > 1 => Top.pkg \in Locals
    BY <1>5, LeftStack DEF Leave, TypeOK, PathOK, Top
  <2>2. imports' \in Seq(Locals)
    BY <1>5, <2>1 DEF Leave, TypeOK
  <2> QED BY <1>5, <2>2, LeftStack DEF Leave, TypeOK
<1>6. CASE UNCHANGED vars
  BY <1>6 DEF vars, TypeOK
<1> QED BY <1>1, <1>2, <1>3, <1>4, <1>5, <1>6 DEF Next

LEMMA SameFalls == ASSUME graph' = graph, NEW rank PROVE Falls(rank)' <=> Falls(rank)
  BY DEF Falls, ImportsOf

\* A step that moves on to the next import of the same call.
LEMMA AdvanceStep ==
  ASSUME IInv, HasNext, stack' = Advanced, UNCHANGED <<graph, visited, imports, failed>>,
         stdlib \subseteq stdlib', Here \in visited \cup stdlib'
  PROVE  PathOK' /\ RecordOK' /\ PassedOK' /\ Descent'
<1> USE GraphAssumption
<1>1. TypeOK /\ PathOK /\ RecordOK /\ PassedOK /\ Descent
  BY DEF IInv
<1>2. /\ stack' \in Seq(Frames)
      /\ DOMAIN stack' = DOMAIN stack
      /\ stack # <<>> /\ stack' # <<>>
      /\ \A k \in DOMAIN stack : stack'[k].pkg = stack[k].pkg
      /\ \A k \in DOMAIN stack : k # Len(stack) => stack'[k] = stack[k]
      /\ stack'[Len(stack)].next = Top.next + 1
      /\ Len(stack) \in DOMAIN stack
      /\ 1 \in DOMAIN stack
      /\ \A k \in DOMAIN stack : stack[k] \in Frames
  <2>1. stack \in Seq(Frames) /\ stack # <<>>
    BY <1>1 DEF TypeOK, HasNext
  <2> DEFINE a == Advanced
  <2>2. /\ a \in Seq(Frames)
        /\ Len(a) = Len(stack)
        /\ \A k \in DOMAIN stack : a[k].pkg = stack[k].pkg
        /\ \A k \in DOMAIN stack : k # Len(stack) => a[k] = stack[k]
        /\ a[Len(stack)].next = Top.next + 1
        /\ Len(stack) \in DOMAIN stack
    BY <1>1, AdvancedStack
  <2>3. stack' = a
    OBVIOUS
  <2> HIDE DEF a
  <2> QED BY <2>1, <2>2, <2>3
<1>3. PathOK'
  BY <1>1, <1>2 DEF PathOK
<1>4. RecordOK'
  BY <1>1, <1>2 DEF RecordOK, RecordedOnce
<1>5. PassedOK'
  <2>1. ASSUME NEW k \in DOMAIN stack', NEW i \in 1 .. stack'[k].next - 1
        PROVE  graph[stack'[k].pkg][i] \in visited \cup stdlib'
    <3>1. CASE k # Len(stack)
      BY <1>1, <1>2, <2>1, <3>1 DEF PassedOK, Passed
    <3>2. CASE k = Len(stack) /\ i = Top.next
      BY <1>2, <3>2 DEF Here, Top
    <3>3. CASE k = Len(stack) /\ i # Top.next
      <4>1. i \in 1 .. stack[k].next - 1
        BY <1>2, <2>1, <3>3 DEF Top, Frames
      <4> QED BY <1>1, <1>2, <4>1 DEF PassedOK, Passed
    <3> QED BY <3>1, <3>2, <3>3
  <2>2. ASSUME NEW n \in DOMAIN imports, NEW i \in 1 .. Len(graph[imports[n]])
        PROVE  graph[imports[n]][i] \in visited \cup stdlib'
    BY <1>1 DEF PassedOK, Passed
  <2> QED BY <1>2, <2>1, <2>2 DEF PassedOK, Passed, Resolved
<1>6. Descent'
  BY <1>1, <1>2, SameFalls DEF Descent
<1> QED BY <1>3, <1>4, <1>5, <1>6

\* A step that enters a package.
LEMMA EnterStep == ASSUME IInv, Enter PROVE PathOK' /\ RecordOK' /\ PassedOK' /\ Descent'
<1> USE GraphAssumption
<1>1. TypeOK /\ PathOK /\ RecordOK /\ PassedOK /\ Descent
  BY DEF IInv
<1> DEFINE n == Len(stack)
<1>2. /\ stack' \in Seq(Frames)
      /\ n \in Nat \ {0}
      /\ DOMAIN stack' = 1 .. n + 1
      /\ DOMAIN stack = 1 .. n
      /\ stack # <<>> /\ stack' # <<>>
      /\ \A k \in 1 .. n : stack'[k].pkg = stack[k].pkg
      /\ \A k \in 1 .. n : k # n => stack'[k] = stack[k]
      /\ stack'[n].next = Top.next + 1
      /\ stack'[n + 1].pkg = Here /\ stack'[n + 1].next = 1
      /\ \A k \in 1 .. n : stack[k] \in Frames
      /\ stack[n] = Top
  <2>1. stack \in Seq(Frames) /\ stack # <<>>
    BY <1>1 DEF TypeOK, HasNext, Enter
  <2>2. n \in Nat \ {0} /\ DOMAIN stack = 1 .. n /\ \A k \in 1 .. n : stack[k] \in Frames
    BY <2>1
  <2> DEFINE s == stack'
  <2>3. /\ s \in Seq(Frames)
        /\ Len(s) = n + 1
        /\ DOMAIN s = 1 .. n + 1
        /\ \A k \in 1 .. n : s[k].pkg = stack[k].pkg
        /\ \A k \in 1 .. n : k # n => s[k] = stack[k]
        /\ s[n].next = Top.next + 1
        /\ s[n + 1] = Frame(Here)
    BY <1>1, <2>2, EnteredStack DEF Enter
  <2> HIDE DEF s
  <2>4. s # <<>>
    <3>1. Len(s) = n + 1 /\ n \in Nat
      BY <2>2, <2>3
    <3> HIDE DEF n
    <3> QED BY <3>1
  <2>5. stack[n] = Top
    BY DEF Top
  <2>6. s[n + 1].pkg = Here /\ s[n + 1].next = 1
    BY <2>3 DEF Frame
  <2> HIDE DEF n
  <2> QED BY <2>1, <2>2, <2>3, <2>4, <2>5, <2>6 DEF s
<1> HIDE DEF n
<1>3. /\ Here \in Locals \ visited /\ Here # Main
      /\ visited' = visited \cup {Here}
      /\ UNCHANGED <<graph, imports, stdlib, failed>>
      /\ ~failed
  BY DEF Enter, HasNext
<1>4. \A k \in 1 .. n : stack[k].pkg # Here
  BY <1>1, <1>2, <1>3 DEF PathOK
<1>5. PathOK'
  BY <1>1, <1>2, <1>3, <1>4 DEF PathOK
<1>6. RecordOK'
  <2>1. \A k \in DOMAIN stack', m \in DOMAIN imports : stack'[k].pkg # imports[m]
    BY <1>1, <1>2, <1>3 DEF RecordOK
  <2>2. ASSUME NEW p \in visited'
        PROVE  \/ \E m \in DOMAIN imports : imports[m] = p
               \/ \E k \in DOMAIN stack' : k # 1 /\ stack'[k].pkg = p
    <3>1. CASE p = Here
      BY <1>2, <3>1
    <3>2. CASE p \in visited
      BY <1>1, <1>2, <1>3, <3>2 DEF RecordOK
    <3> QED BY <1>3, <2>2, <3>1, <3>2
  <2> QED BY <1>1, <1>3, <2>1, <2>2 DEF RecordOK, RecordedOnce
<1>7. PassedOK'
  <2>1. ASSUME NEW k \in 1 .. n + 1, NEW i \in 1 .. stack'[k].next - 1
        PROVE  graph[stack'[k].pkg][i] \in visited' \cup stdlib
    <3>1. CASE k < n
      BY <1>1, <1>2, <1>3, <2>1, <3>1 DEF PassedOK, Passed
    <3>2. CASE k = n /\ i = Top.next
      BY <1>2, <1>3, <3>2 DEF Here
    <3>3. CASE k = n /\ i # Top.next
      <4>1. i \in 1 .. stack[n].next - 1
        BY <1>2, <2>1, <3>3 DEF Frames
      <4> QED BY <1>1, <1>2, <1>3, <3>3, <4>1 DEF PassedOK, Passed
    <3>4. CASE k = n + 1
      BY <1>2, <2>1, <3>4
    <3> QED BY <1>2, <3>1, <3>2, <3>3, <3>4
  <2>2. ASSUME NEW m \in DOMAIN imports, NEW i \in 1 .. Len(graph[imports[m]])
        PROVE  graph[imports[m]][i] \in visited' \cup stdlib
    BY <1>1, <1>3 DEF PassedOK, Passed
  <2> QED BY <1>2, <1>3, <2>1, <2>2 DEF PassedOK, Passed, Resolved
<1>8. /\ stack[n].pkg \in Locals \cup {Main}
      /\ Here \in ImportsOf(stack[n].pkg)
  <2>1. stack[n] = Top /\ Top \in Frames
    BY <1>2
  <2>2. Top.pkg \in Locals \cup {Main} /\ Top.next \in Nat \ {0}
    BY <2>1 DEF Frames
  <2>3. graph[Top.pkg] \in Seq(Locals \cup Stdlib)
    BY <1>1, <2>2 DEF TypeOK
  <2>4. Top.next \in DOMAIN graph[Top.pkg]
    BY <2>2, <2>3 DEF Enter, HasNext
  <2> QED BY <2>1, <2>2, <2>4 DEF Here, ImportsOf
<1>9. Descent'
  <2> SUFFICES ASSUME NEW rank \in Ranks, Falls(rank), NEW k \in 1 .. n + 1, NEW l \in 1 .. n + 1, k < l
               PROVE  rank[stack'[l].pkg] < rank[stack'[k].pkg]
    BY <1>2, <1>3, SameFalls DEF Descent
  <2>1. CASE l <= n
    <3>1. stack'[l].pkg = stack[l].pkg /\ stack'[k].pkg = stack[k].pkg
      BY <1>2, <2>1
    <3>2. rank[stack[l].pkg] < rank[stack[k].pkg]
      <4>1. k \in DOMAIN stack /\ l \in DOMAIN stack
        BY <1>2, <2>1
      <4> QED BY <1>1, <4>1 DEF Descent
    <3> QED BY <3>1, <3>2
  <2>2. CASE l = n + 1
    <3>3. rank[Here] < rank[stack[n].pkg]
      <4>1. stack[n].pkg \in Locals \cup {Main}
        BY <1>8
      <4> QED BY <1>3, <1>8, <4>1 DEF Falls
    <3>4. k = n \/ rank[stack[n].pkg] < rank[stack[k].pkg]
      BY <1>1, <1>2, <2>2 DEF Descent
    <3>5. /\ rank[Here] \in Nat /\ rank[stack[n].pkg] \in Nat /\ rank[stack[k].pkg] \in Nat
      <4>1. /\ Here \in Locals \cup {Main}
            /\ stack[n].pkg \in Locals \cup {Main}
            /\ stack[k].pkg \in Locals \cup {Main}
        BY <1>2, <1>3, <2>2 DEF Frames
      <4>2. \A q \in Locals \cup {Main} : rank[q] \in 0 .. Cardinality(Locals)
        BY DEF Ranks
      <4> QED BY <4>1, <4>2
    <3> QED BY <1>2, <2>2, <3>3, <3>4, <3>5
  <2> QED BY <1>2, <2>1, <2>2
<1> QED BY <1>5, <1>6, <1>7, <1>9

\* A step that returns from a call.
LEMMA LeaveStep == ASSUME IInv, Leave PROVE PathOK' /\ RecordOK' /\ PassedOK' /\ Descent'
<1> USE GraphAssumption
<1>1. TypeOK /\ PathOK /\ RecordOK /\ PassedOK /\ Descent
  BY DEF IInv
<1> DEFINE n == Len(stack)
<1>2. /\ n \in Nat \ {0}
      /\ DOMAIN stack = 1 .. n
      /\ DOMAIN stack' = 1 .. n - 1
      /\ \A k \in 1 .. n - 1 : stack'[k] = stack[k]
      /\ Len(stack') = n - 1
      /\ stack' \in Seq(Frames)
      /\ stack[n] = Top /\ Top \in Frames
  BY <1>1, LeftStack DEF Leave, TypeOK, Top
<1> HIDE DEF n
<1>3. UNCHANGED <<graph, visited, stdlib, failed>> /\ ~failed
  BY DEF Leave
<1>4. stack' = <<>> <=> n = 1
  BY <1>2
<1>5. n > 1 => Top.pkg \in visited
  BY <1>1, <1>2 DEF PathOK
<1>6. /\ imports \in Seq(Locals)
      /\ n = 1 => imports' = imports
      /\ n > 1 => /\ DOMAIN imports' = 1 .. Len(imports) + 1
                  /\ \A m \in 1 .. Len(imports) : imports'[m] = imports[m]
                  /\ imports'[Len(imports) + 1] = Top.pkg
      /\ DOMAIN imports = 1 .. Len(imports) /\ Len(imports) \in Nat
  <2>1. imports \in Seq(Locals)
    BY <1>1 DEF TypeOK
  <2>2. imports' = IF n > 1 THEN Append(imports, Top.pkg) ELSE imports
    BY DEF Leave, n
  <2> QED BY <1>2, <2>1, <2>2
<1>7. PathOK'
  <2>1. stack' # <<>> => stack'[1].pkg = Main
    BY <1>1, <1>2, <1>4 DEF PathOK
  <2> QED BY <1>1, <1>2, <1>3, <2>1 DEF PathOK
<1>8. RecordOK'
  <2>1. \A m \in DOMAIN imports' : imports'[m] \in visited
    <3>1. \A m \in DOMAIN imports : imports[m] \in visited
      BY <1>1 DEF RecordOK
    <3>2. CASE n = 1
      BY <1>6, <3>1, <3>2
    <3>3. CASE n > 1
      <4> DEFINE i == imports'
      <4>1. /\ DOMAIN i = 1 .. Len(imports) + 1
            /\ \A m \in 1 .. Len(imports) : i[m] \in visited
            /\ i[Len(imports) + 1] \in visited
        BY <1>5, <1>6, <3>1, <3>3
      <4> HIDE DEF i
      <4>2. \A m \in DOMAIN i : i[m] \in visited
        BY <1>6, <4>1
      <4> QED BY <4>2 DEF i
    <3> QED BY <1>2, <3>2, <3>3
  <2>2. \A k \in DOMAIN stack', m \in DOMAIN imports' : stack'[k].pkg # imports'[m]
    BY <1>1, <1>2, <1>6 DEF RecordOK, PathOK
  <2>3. \A m \in DOMAIN imports : imports[m] # Top.pkg
    BY <1>1, <1>2 DEF RecordOK
  <2>4. RecordedOnce'
    <3>1. RecordedOnce
      BY <1>1 DEF RecordOK
    <3>2. CASE n = 1
      BY <1>6, <3>1, <3>2 DEF RecordedOnce
    <3>3. CASE n > 1
      <4> DEFINE i == imports'
      <4>1. /\ DOMAIN i = 1 .. Len(imports) + 1
            /\ \A m \in 1 .. Len(imports) : i[m] = imports[m] /\ i[m] # Top.pkg
            /\ i[Len(imports) + 1] = Top.pkg
        BY <1>6, <2>3, <3>3
      <4> HIDE DEF i
      <4>2. \A m, l \in DOMAIN i : i[m] = i[l] => m = l
        BY <1>6, <3>1, <4>1 DEF RecordedOnce
      <4> QED BY <4>2 DEF i, RecordedOnce
    <3> QED BY <1>2, <3>2, <3>3
  <2>5. ASSUME NEW p \in visited
        PROVE  \/ \E m \in DOMAIN imports' : imports'[m] = p
               \/ \E k \in DOMAIN stack' : k # 1 /\ stack'[k].pkg = p
    <3>1. CASE \E m \in DOMAIN imports : imports[m] = p
      BY <1>2, <1>6, <3>1
    <3>2. CASE \E k \in DOMAIN stack : k # 1 /\ stack[k].pkg = p
      BY <1>2, <1>6, <3>2
    <3> QED BY <1>1, <1>3, <3>1, <3>2 DEF RecordOK
  <2> QED BY <1>3, <2>1, <2>2, <2>4, <2>5 DEF RecordOK
<1>9. Passed(Top.pkg, Len(graph[Top.pkg]))
  <2>1. graph[Top.pkg] \in Seq(Locals \cup Stdlib) /\ Top.next \in Nat \ {0}
    BY <1>1, <1>2 DEF TypeOK, Frames
  <2>2. \A i \in 1 .. Len(graph[Top.pkg]) : i \in 1 .. Top.next - 1
    BY <2>1 DEF Leave
  <2> QED BY <1>1, <1>2, <2>2 DEF PassedOK, Passed
<1>10. PassedOK'
  <2>1. ASSUME NEW k \in 1 .. n - 1, NEW i \in 1 .. stack'[k].next - 1
        PROVE  graph[stack'[k].pkg][i] \in visited \cup stdlib
    <3>1. stack'[k] = stack[k] /\ k \in DOMAIN stack
      BY <1>2
    <3> QED BY <1>1, <2>1, <3>1 DEF PassedOK, Passed
  <2>2. ASSUME NEW m \in DOMAIN imports', NEW i \in 1 .. Len(graph[imports'[m]])
        PROVE  graph[imports'[m]][i] \in visited \cup stdlib
    <3>1. CASE m \in DOMAIN imports /\ imports'[m] = imports[m]
      BY <1>1, <2>2, <3>1 DEF PassedOK, Passed
    <3>2. CASE imports'[m] = Top.pkg
      BY <1>9, <2>2, <3>2 DEF Passed
    <3> QED BY <1>2, <1>6, <2>2, <3>1, <3>2
  <2>3. ASSUME n = 1, NEW i \in 1 .. Len(graph[Main])
        PROVE  graph[Main][i] \in visited \cup stdlib
    <3>1. Top.pkg = Main
      <4>1. stack # <<>>
        BY DEF Leave
      <4> QED BY <1>1, <1>2, <2>3, <4>1 DEF PathOK
    <3> QED BY <1>9, <2>3, <3>1 DEF Passed
  <2> QED BY <1>2, <1>3, <1>4, <2>1, <2>2, <2>3 DEF PassedOK, Passed, Resolved
<1>11. Descent'
  BY <1>1, <1>2, <1>3, SameFalls DEF Descent
<1> QED BY <1>7, <1>8, <1>10, <1>11

\* A step that gives up.
LEMMA FailStep == ASSUME IInv, Fail PROVE PathOK' /\ RecordOK' /\ PassedOK' /\ Descent'
<1>1. DOMAIN stack' = {} /\ stack' = <<>> /\ failed' /\ UNCHANGED <<graph, visited, imports, stdlib>>
  BY DEF Fail
<1> QED BY <1>1 DEF IInv, PathOK, RecordOK, RecordedOnce, PassedOK, Passed, Resolved, Descent

LEMMA NextIInv == ASSUME IInv, [Next]_vars PROVE IInv'
<1>1. TypeOK'
  BY NextTypeOK DEF IInv
<1>2. PathOK' /\ RecordOK' /\ PassedOK' /\ Descent'
  <2>1. CASE SkipVisited
    BY <2>1, AdvanceStep DEF SkipVisited
  <2>2. CASE AddStdlib
    BY <2>2, AdvanceStep DEF AddStdlib
  <2>3. CASE Enter
    BY <2>3, EnterStep
  <2>4. CASE Fail
    BY <2>4, FailStep
  <2>5. CASE Leave
    BY <2>5, LeaveStep
  <2>6. CASE UNCHANGED vars
    BY <2>6, SameFalls
    DEF vars, IInv, PathOK, RecordOK, RecordedOnce, PassedOK, Passed, Resolved, Descent
  <2> QED BY <2>1, <2>2, <2>3, <2>4, <2>5, <2>6 DEF Next
<1> QED BY <1>1, <1>2 DEF IInv

THEOREM IInvAlways == Spec => []IInv
  BY InitIInv, NextIInv, PTL DEF Spec

\* Every variable keeps its type (resolve_imports_recursive).
THEOREM TypeCorrect == Spec => []TypeOK
<1>1. IInv => TypeOK
  BY DEF IInv
<1> QED BY <1>1, IInvAlways, PTL

\* The visited set makes the record, and so the initialization, of every
\* package happen once, on cyclic imports as well.
THEOREM RecordedOnceAlways == Spec => []RecordedOnce
<1>1. IInv => RecordedOnce
  BY DEF IInv, RecordOK
<1> QED BY <1>1, IInvAlways, PTL

\* At the end no import of the program is missing from the record.
THEOREM ClosedAlways == Spec => []Closed
<1>1. ASSUME IInv PROVE Closed
  <2> SUFFICES ASSUME Resolved, NEW p \in Recorded(Len(imports)) \cup {Main},
                      NEW q \in ImportsOf(p)
               PROVE  /\ q \in Locals => q \in Recorded(Len(imports))
                      /\ q \in Stdlib => q \in stdlib
    BY DEF Closed
  <2>1. TypeOK /\ RecordOK /\ PassedOK
    BY <1>1 DEF IInv
  <2>2. DOMAIN imports = 1 .. Len(imports) /\ p \in Locals \cup {Main}
    BY <2>1 DEF TypeOK, Recorded
  <2>3. graph[p] \in Seq(Locals \cup Stdlib)
    BY <2>1, <2>2, GraphAssumption DEF TypeOK
  <2>4. PICK i \in 1 .. Len(graph[p]) : q = graph[p][i]
    BY <2>3 DEF ImportsOf
  <2>5. q \in visited \cup stdlib
    BY <2>1, <2>2, <2>4 DEF PassedOK, Passed, Recorded
  <2>6. q \in visited => q \in Recorded(Len(imports))
    BY <2>1, <2>2 DEF RecordOK, Resolved, Recorded
  <2>7. visited \subseteq Locals /\ stdlib \subseteq Stdlib
    BY <2>1 DEF TypeOK
  <2> QED BY <2>5, <2>6, <2>7, GraphAssumption
<1> QED BY <1>1, IInvAlways, PTL

-----------------------------------------------------------------------------
\* The package that Leave records has all its imports recorded before it:
\* none of them is still on the recursion's path.
LEMMA LeaveDependencies ==
  ASSUME IInv, Leave, NEW rank \in Ranks, Falls(rank), NEW q \in ImportsOf(Top.pkg) \cap Locals
  PROVE  \E m \in DOMAIN imports : imports[m] = q
<1>1. TypeOK /\ PathOK /\ RecordOK /\ PassedOK /\ Descent
  BY DEF IInv
<1> DEFINE n == Len(stack)
<1>2. /\ n \in Nat \ {0} /\ DOMAIN stack = 1 .. n
      /\ \A k \in 1 .. n : stack[k] \in Frames
      /\ stack[n] = Top /\ Top \in Frames
  BY <1>1 DEF Leave, TypeOK, Top
<1> HIDE DEF n
<1>3. graph[Top.pkg] \in Seq(Locals \cup Stdlib) /\ Top.next \in Nat \ {0}
  BY <1>1, <1>2, GraphAssumption DEF TypeOK, Frames
<1>4. PICK i \in 1 .. Len(graph[Top.pkg]) : q = graph[Top.pkg][i]
  BY <1>3 DEF ImportsOf
<1>5. i \in 1 .. stack[n].next - 1
  BY <1>2, <1>3, <1>4 DEF Leave
<1>6. q \in visited \cup stdlib
  BY <1>1, <1>2, <1>4, <1>5 DEF PassedOK, Passed
<1>7. q \in visited
  BY <1>1, <1>6, GraphAssumption DEF TypeOK
<1>8. ASSUME NEW k \in 1 .. n, stack[k].pkg = q PROVE FALSE
  <2>1. rank[q] < rank[Top.pkg]
    BY <1>2 DEF Falls, Frames
  <2>2. k = n \/ rank[Top.pkg] < rank[q]
    BY <1>1, <1>2, <1>8 DEF Descent
  <2>3. q \in Locals \cup {Main} /\ Top.pkg \in Locals \cup {Main}
    BY <1>2 DEF Frames
  <2>4. rank[q] \in Nat /\ rank[Top.pkg] \in Nat
    <3>1. \A p \in Locals \cup {Main} : rank[p] \in 0 .. Cardinality(Locals)
      BY DEF Ranks
    <3> QED BY <2>3, <3>1
  <2> QED BY <1>2, <1>8, <2>1, <2>2, <2>4
<1> QED BY <1>1, <1>2, <1>7, <1>8 DEF RecordOK, Leave

\* On acyclic imports no package is initialized before one it imports.
THEOREM DependenciesFirstAlways == Spec => []DependenciesFirst
<1>1. Init => DependenciesFirst
  BY DEF Init, DependenciesFirst
<1>2. ASSUME IInv, DependenciesFirst, [Next]_vars PROVE DependenciesFirst'
  <2>1. CASE Leave
    <3>0. graph' = graph
      BY <2>1 DEF Leave
    <3> SUFFICES ASSUME NEW rank \in Ranks, Falls(rank), NEW m \in DOMAIN imports',
                        NEW q \in ImportsOf(imports'[m]) \cap Locals
                 PROVE  q \in {imports'[j] : j \in 1 .. m - 1}
      <4>1. Acyclic' <=> \E rank \in Ranks : Falls(rank)
        BY <3>0, SameFalls DEF Acyclic, Ranks
      <4>2. \A p : ImportsOf(p)' = ImportsOf(p)
        BY <3>0 DEF ImportsOf
      <4> QED BY <3>0, <4>1, <4>2 DEF DependenciesFirst, Recorded, ImportsOf
    <3>1. /\ imports \in Seq(Locals)
          /\ DOMAIN imports = 1 .. Len(imports) /\ Len(imports) \in Nat
          /\ \/ imports' = imports
             \/ /\ DOMAIN imports' = 1 .. Len(imports) + 1
                /\ \A j \in 1 .. Len(imports) : imports'[j] = imports[j]
                /\ imports'[Len(imports) + 1] = Top.pkg
      BY <1>2, <2>1 DEF IInv, TypeOK, Leave
    <3>2. \A j \in DOMAIN imports : imports'[j] = imports[j]
      BY <3>1
    <3>4. CASE m \in DOMAIN imports
      <4>1. q \in Recorded(m - 1)
        BY <1>2, <3>2, <3>4 DEF DependenciesFirst, Acyclic, Ranks
      <4> QED BY <3>1, <3>2, <3>4, <4>1 DEF Recorded
    <3>5. CASE m = Len(imports) + 1 /\ imports'[m] = Top.pkg
      <4>1. PICK j \in DOMAIN imports : imports[j] = q
        BY <1>2, <2>1, <3>5, LeaveDependencies
      <4> QED BY <3>1, <3>2, <3>5, <4>1 DEF Recorded
    <3> QED BY <3>1, <3>4, <3>5
  <2>2. CASE UNCHANGED <<graph, imports>>
    BY <1>2, <2>2 DEF DependenciesFirst, Acyclic, Falls, ImportsOf, Recorded
  <2> QED BY <1>2, <2>1, <2>2 DEF Next, SkipVisited, AddStdlib, Enter, Fail, vars
<1> QED BY <1>1, <1>2, IInvAlways, PTL DEF Spec

-----------------------------------------------------------------------------
\* A set of numbers has a least one.
LEMMA Least ==
  ASSUME NEW S \in SUBSET Nat, S # {}
  PROVE  \E m \in S : \A k \in S : m <= k
<1>1. PICK m \in S : \A k \in S : ~(<<k, m>> \in OpToRel(<, Nat))
  BY WFMin, NatLessThanWellFounded
<1>2. \A k \in S : ~(k < m)
  BY <1>1 DEF OpToRel
<1> QED BY <1>2

\* The modules of a set can be listed by their names.
Sorted(s) == \A i, j \in DOMAIN s : i < j => Key[s[i]] < Key[s[j]]
Sortable(S) == \E s \in [1 .. Cardinality(S) -> S] : Sorted(s)

LEMMA StdlibSortable == ASSUME NEW S \in SUBSET Stdlib PROVE Sortable(S)
<1>0. \A T \in SUBSET Stdlib : IsFiniteSet(T) /\ Cardinality(T) \in Nat
  BY FS_Subset, FS_CardinalityType, ProgramAssumption
<1> DEFINE Bad == {n \in Nat : \E T \in SUBSET Stdlib : Cardinality(T) = n /\ ~Sortable(T)}
<1> SUFFICES ASSUME Bad # {} PROVE FALSE
  BY <1>0
<1>1. PICK n \in Bad : \A k \in Bad : n <= k
  <2>1. Bad \in SUBSET Nat
    OBVIOUS
  <2> HIDE DEF Bad
  <2> QED BY <2>1, Least
<1>2. PICK T \in SUBSET Stdlib : Cardinality(T) = n /\ ~Sortable(T)
  BY <1>1
<1>3. n \in Nat /\ T # {}
  <2>1. n \in Nat
    BY <1>1
  <2>2. ASSUME T = {} PROVE FALSE
    <3>1. Cardinality(T) = 0
      BY <2>2, FS_EmptySet
    <3> DEFINE s == [i \in 1 .. 0 |-> i]
    <3>2. s \in [1 .. 0 -> T] /\ Sorted(s)
      BY DEF Sorted
    <3> QED BY <1>2, <3>1, <3>2 DEF Sortable
  <2> QED BY <2>1, <2>2
<1>4. PICK t \in T : \A u \in T : Key[t] <= Key[u]
  <2> DEFINE K == {Key[u] : u \in T}
  <2>1. K \in SUBSET Nat /\ K # {}
    BY <1>3, ProgramAssumption
  <2>2. PICK m \in K : \A k \in K : m <= k
    <3> HIDE DEF K
    <3> QED BY <2>1, Least
  <2> QED BY <2>2
<1>5. \A u \in T \ {t} : Key[t] < Key[u]
  <2> SUFFICES ASSUME NEW u \in T \ {t} PROVE Key[t] < Key[u]
    OBVIOUS
  <2>1. Key[t] \in Nat /\ Key[u] \in Nat /\ Key[t] # Key[u]
    BY ProgramAssumption
  <2> QED BY <1>4, <2>1
<1> DEFINE R == T \ {t}
<1>6. Cardinality(R) = n - 1 /\ n \in Nat \ {0} /\ R \in SUBSET Stdlib
  <2>1. Cardinality(R) = n - 1 /\ Cardinality(R) \in Nat
    BY <1>0, <1>2, FS_RemoveElement
  <2> QED BY <1>3, <2>1
<1>7. PICK s \in [1 .. n - 1 -> R] : Sorted(s)
  <2>1. Sortable(R)
    <3> HIDE DEF R
    <3>1. n - 1 \notin Bad
      <4> HIDE DEF Bad
      <4> QED BY <1>1, <1>6
    <3> QED BY <1>6, <3>1
  <2> QED BY <1>6, <2>1 DEF Sortable
<1> DEFINE r == [i \in 1 .. n |-> IF i = 1 THEN t ELSE s[i - 1]]
<1>8. /\ r \in [1 .. n -> T]
      /\ 1 \in 1 .. n => r[1] = t
      /\ \A i \in 1 .. n : i # 1 => i - 1 \in 1 .. n - 1 /\ r[i] = s[i - 1] /\ r[i] \in R
  BY <1>3, <1>6, <1>7
<1>9. Sorted(r)
  <2> SUFFICES ASSUME NEW i \in 1 .. n, NEW j \in 1 .. n, i < j PROVE Key[r[i]] < Key[r[j]]
    BY <1>8 DEF Sorted
  <2>1. j # 1 /\ r[j] = s[j - 1] /\ r[j] \in R /\ j - 1 \in 1 .. n - 1
    BY <1>6, <1>8
  <2>2. CASE i = 1
    BY <1>5, <1>8, <2>1, <2>2
  <2>3. CASE i # 1
    <3>1. r[i] = s[i - 1] /\ i - 1 \in 1 .. n - 1 /\ i - 1 < j - 1
      BY <1>6, <1>8, <2>3
    <3>2. DOMAIN s = 1 .. n - 1
      BY <1>7
    <3> QED BY <1>7, <2>1, <3>1, <3>2 DEF Sorted
  <2> QED BY <2>2, <2>3
<1> QED BY <1>2, <1>8, <1>9 DEF Sortable

\* The calls into the standard library: each package with init functions once.
LEMMA StdlibCallsOnce ==
  ASSUME IInv
  PROVE  LET roots == {p \in stdlib \cap referred : inits[p] # <<>>} IN
         /\ StdlibCalls \in Seq(roots)
         /\ \A i, j \in DOMAIN StdlibCalls : StdlibCalls[i] = StdlibCalls[j] => i = j
         /\ \A p \in roots : \E i \in DOMAIN StdlibCalls : StdlibCalls[i] = p
<1> DEFINE R == {p \in stdlib \cap referred : inits[p] # <<>>}
           n == Cardinality(R)
           c == StdlibCalls
<1>1. R \in SUBSET Stdlib
  BY DEF IInv, TypeOK
<1>2. IsFiniteSet(R) /\ n \in Nat
  <2> HIDE DEF R
  <2> QED BY <1>1, FS_Subset, FS_CardinalityType, ProgramAssumption
<1>3. c \in [1 .. n -> R] /\ Sorted(c)
  <2>1. \E s \in [1 .. n -> R] : Sorted(s)
    <3> HIDE DEF R
    <3> QED BY <1>1, StdlibSortable DEF Sortable
  <2>2. c = CHOOSE s \in [1 .. n -> R] : Sorted(s)
    BY DEF StdlibCalls, Sorted
  <2> HIDE DEF R, n, c
  <2> QED BY <2>1, <2>2
<1> HIDE DEF c
<1>4. c \in Seq(R) /\ DOMAIN c = 1 .. n
  <2> HIDE DEF R, n
  <2> QED BY <1>2, <1>3
<1>5. \A i, j \in 1 .. n : c[i] = c[j] => i = j
  <2> SUFFICES ASSUME NEW i \in 1 .. n, NEW j \in 1 .. n, c[i] = c[j], i < j PROVE FALSE
    <3>1. \A i, j \in 1 .. n : i < j \/ j < i \/ i = j
      BY <1>2
    <3> QED BY <3>1
  <2>1. Key[c[i]] < Key[c[j]]
    BY <1>3, <1>4 DEF Sorted
  <2>2. Key[c[i]] \in Nat
    BY <1>1, <1>3, ProgramAssumption
  <2> HIDE DEF n
  <2> QED BY <2>1, <2>2
<1>6. c \in Surjection(1 .. n, R)
  <2>1. c \in Injection(1 .. n, R)
    BY <1>3, <1>5 DEF Injection, IsInjective
  <2>2. Cardinality(1 .. n) = n
    BY <1>2, FS_Interval
  <2> HIDE DEF n
  <2> QED BY <1>2, <2>1, <2>2, FS_Injection DEF n
<1>7. \A p \in R : \E i \in DOMAIN c : c[i] = p
  BY <1>6 DEF Surjection
<1> QED BY <1>4, <1>5, <1>7 DEF c

-----------------------------------------------------------------------------
\* The invariant of the initialization.  The packages yet to run:
Waiting == {calls[a] : a \in DOMAIN calls}
\* p's nth init function does not run any more.
Past(p, n) == p \notin Waiting \/ (p = calls[1] /\ n < next)

Events == {"var", "init", "main"} \X Packages \X Nat

PTypes ==
  /\ inits \in [Packages -> Seq({"end", "return"})]
  /\ calls \in Seq(Packages \cup {Body})
  /\ next \in Nat
  /\ log \in Seq(Events)
  /\ next = 0 => calls = <<>> /\ log = <<>>

\* main calls each package once, after the packages it imports, and its own
\* statements come last.
CallsOK ==
  /\ \A a, b \in DOMAIN calls : calls[a] = calls[b] => a = b
  /\ calls # <<>> => calls[Len(calls)] = Body
  /\ Acyclic => \A a, b \in DOMAIN calls :
       calls[a] \in Locals \cup {Main} /\ calls[b] \in ImportsOf(calls[a]) => b < a

\* What has happened does not happen again, and the packages that a begun
\* package imports have run.
LogOK ==
  /\ \A i \in DOMAIN log :
       /\ log[i][1] = "var" => log[i][2] \in forced
       /\ log[i][1] = "init" => Past(log[i][2], log[i][3])
       /\ log[i][1] = "main" => calls = <<>>
  /\ Acyclic => \A i \in DOMAIN log :
       log[i][1] = "init" /\ log[i][2] \in Locals \cup {Main}
         => ImportsOf(log[i][2]) \cap Waiting = {}

PInv == PTypes /\ CallsOK /\ LogOK /\ InitOrder

LEMMA SameGraph ==
  ASSUME UNCHANGED vars
  PROVE  /\ Acyclic' <=> Acyclic
         /\ \A p : ImportsOf(p)' = ImportsOf(p)
<1>1. graph' = graph
  BY DEF vars
<1>2. \A p : ImportsOf(p)' = ImportsOf(p)
  BY <1>1 DEF ImportsOf
<1>3. Acyclic' <=> Acyclic
  BY <1>1, SameFalls DEF Acyclic
<1> QED BY <1>2, <1>3

\* On acyclic imports no package imports itself.
LEMMA NoSelfImport ==
  ASSUME IInv, Acyclic, NEW p \in Locals \cup {Main}
  PROVE  p \notin ImportsOf(p)
<1> SUFFICES ASSUME p \in ImportsOf(p) PROVE FALSE
  OBVIOUS
<1>1. p \in Locals
  <2>1. graph[p] \in Seq(Locals \cup Stdlib)
    BY GraphAssumption DEF IInv, TypeOK
  <2> QED BY <2>1, GraphAssumption DEF ImportsOf
<1>2. PICK rank \in [Locals \cup {Main} -> 0 .. Cardinality(Locals)] : Falls(rank)
  BY DEF Acyclic
<1>3. rank[p] < rank[p]
  BY <1>1, <1>2 DEF Falls
<1>4. rank[p] \in 0 .. Cardinality(Locals)
  BY <1>2
<1> HIDE DEF Falls
<1> QED BY <1>3, <1>4

\* An event put at the end of the log.
LEMMA LogGrows ==
  ASSUME PTypes, NEW e \in Events, log' = Append(log, e)
  PROVE  /\ log' \in Seq(Events)
         /\ Len(log) \in Nat
         /\ DOMAIN log = 1 .. Len(log)
         /\ DOMAIN log' = 1 .. Len(log) + 1
         /\ \A i \in DOMAIN log : log'[i] = log[i]
         /\ log'[Len(log) + 1] = e
<1> DEFINE l == log'
<1>1. log \in Seq(Events) /\ l = Append(log, e)
  BY DEF PTypes
<1> HIDE DEF l
<1>2. /\ l \in Seq(Events)
      /\ Len(log) \in Nat
      /\ DOMAIN log = 1 .. Len(log)
      /\ DOMAIN l = 1 .. Len(log) + 1
      /\ \A i \in DOMAIN log : l[i] = log[i]
      /\ l[Len(log) + 1] = e
  <2> HIDE DEF Events
  <2> QED BY <1>1
<1> QED BY <1>2 DEF l

\* The order stands if the event is new, comes after no event that it had to
\* come before, and main's body has not begun.
LEMMA OrderGrows ==
  ASSUME IInv, PTypes, InitOrder, NEW e \in Events, log' = Append(log, e), UNCHANGED vars,
         \A i \in DOMAIN log : log[i] # e /\ log[i][1] # "main",
         Acyclic /\ e[1] = "init" => \A i \in DOMAIN log :
           log[i][1] = "init" /\ log[i][2] \in Locals \cup {Main} => e[2] \notin ImportsOf(log[i][2])
  PROVE  InitOrder'
<1> DEFINE l == log'
           n == Len(log)
<1>1. /\ n \in Nat
      /\ DOMAIN log = 1 .. n
      /\ DOMAIN l = 1 .. n + 1
      /\ \A i \in DOMAIN log : l[i] = log[i]
      /\ l[n + 1] = e
  BY LogGrows
<1> HIDE DEF l, n
<1>2. \A i \in DOMAIN l : i \in DOMAIN log \/ i = n + 1
  BY <1>1
<1>3. \A i, j \in DOMAIN l : l[i] = l[j] => i = j
  BY <1>1, <1>2 DEF InitOrder
<1>4. ASSUME Acyclic, NEW i \in DOMAIN l, NEW j \in DOMAIN l,
             l[i][1] = "init", l[j][1] = "init",
             l[j][2] \in Locals \cup {Main}, l[i][2] \in ImportsOf(l[j][2])
      PROVE  i < j
  <2>1. CASE i \in DOMAIN log /\ j \in DOMAIN log
    BY <1>1, <1>4, <2>1 DEF InitOrder
  <2>2. CASE i \in DOMAIN log /\ j = n + 1
    BY <1>1, <2>2
  <2>3. CASE i = n + 1 /\ j \in DOMAIN log
    BY <1>1, <1>4, <2>3
  <2>4. CASE i = n + 1 /\ j = n + 1
    BY <1>4, <2>4, NoSelfImport
  <2> QED BY <1>2, <2>1, <2>2, <2>3, <2>4
<1>5. ASSUME NEW i \in DOMAIN l, NEW j \in DOMAIN l, l[i][1] = "init", l[j][1] = "main"
      PROVE  i < j
  <2>1. j = n + 1
    BY <1>1, <1>2, <1>5
  <2>2. i # n + 1
    BY <1>1, <1>5, <2>1
  <2> QED BY <1>1, <1>2, <2>1, <2>2
<1> QED BY <1>3, <1>4, <1>5, SameGraph DEF InitOrder, l

\* The current call ends, or main does.
LEMMA CallsShrink ==
  ASSUME PTypes, CallsOK, calls # <<>>, UNCHANGED vars, calls' \in {Tail(calls), <<>>}
  PROVE  /\ calls' \in Seq(Packages \cup {Body})
         /\ CallsOK'
         /\ calls[1] \in Waiting /\ Waiting' \subseteq Waiting \ {calls[1]}
         /\ calls' = Tail(calls) => Waiting' = Waiting \ {calls[1]}
<1> DEFINE c == calls'
           n == Len(calls)
           S == Packages \cup {Body}
<1>1. /\ calls \in Seq(S) /\ n \in Nat \ {0} /\ DOMAIN calls = 1 .. n
  BY DEF PTypes
<1>2. CASE calls' = Tail(calls)
  <2>1. /\ c \in Seq(S) /\ Len(c) = n - 1 /\ DOMAIN c = 1 .. n - 1
        /\ \A a \in 1 .. n - 1 : c[a] = calls[a + 1]
    <3>1. c = Tail(calls)
      BY <1>2
    <3> HIDE DEF c, S
    <3> QED BY <1>1, <3>1
  <2> HIDE DEF c, S, n
  <2>2. \A a \in DOMAIN c : a + 1 \in DOMAIN calls /\ c[a] = calls[a + 1] /\ a + 1 # 1 /\ 1 \in DOMAIN calls
    BY <1>1, <2>1
  <2>3. \A a, b \in DOMAIN c : c[a] = c[b] => a = b
    <3> SUFFICES ASSUME NEW a \in DOMAIN c, NEW b \in DOMAIN c, c[a] = c[b] PROVE a = b
      OBVIOUS
    <3>1. a + 1 = b + 1
      BY <2>2 DEF CallsOK
    <3> QED BY <1>1, <2>1, <3>1
  <2>4. c # <<>> => c[Len(c)] = Body
    <3> SUFFICES ASSUME c # <<>> PROVE c[Len(c)] = Body
      OBVIOUS
    <3>1. Len(c) \in 1 .. n - 1 /\ Len(c) + 1 = n
      BY <1>1, <2>1
    <3>2. c[Len(c)] = calls[n]
      BY <2>1, <3>1
    <3> QED BY <3>2 DEF CallsOK, n
  <2>5. ASSUME Acyclic, NEW a \in DOMAIN c, NEW b \in DOMAIN c, c[a] \in Locals \cup {Main},
               c[b] \in ImportsOf(c[a])
        PROVE  b < a
    <3>1. b + 1 < a + 1
      BY <2>2, <2>5 DEF CallsOK
    <3> QED BY <1>1, <2>1, <3>1
  <2>6. CallsOK'
    BY <2>3, <2>4, <2>5, SameGraph DEF CallsOK, c
  <2>7. Waiting' = Waiting \ {calls[1]} /\ calls[1] \in Waiting
    <3>1. Waiting' = {c[a] : a \in DOMAIN c}
      BY DEF Waiting, c
    <3>2. \A a \in DOMAIN c : c[a] \in Waiting /\ c[a] # calls[1]
      BY <2>2 DEF CallsOK, Waiting
    <3>3. ASSUME NEW b \in DOMAIN calls, calls[b] # calls[1]
          PROVE  \E a \in DOMAIN c : c[a] = calls[b]
      <4>1. b - 1 \in DOMAIN c /\ (b - 1) + 1 = b
        BY <1>1, <2>1, <3>3
      <4> QED BY <2>2, <4>1
    <3>4. 1 \in DOMAIN calls
      BY <1>1
    <3>5. \A x \in Waiting' : x \in Waiting /\ x # calls[1]
      BY <3>1, <3>2
    <3>6. \A x \in Waiting : x # calls[1] => x \in Waiting'
      BY <3>1, <3>3 DEF Waiting
    <3>7. calls[1] \in Waiting
      BY <3>4 DEF Waiting
    <3> HIDE DEF Waiting
    <3> QED BY <3>5, <3>6, <3>7
  <2> QED BY <2>1, <2>6, <2>7 DEF c, S
<1>3. CASE calls' = <<>> /\ calls' # Tail(calls)
  <2>1. DOMAIN calls' = {} /\ calls' \in Seq(S)
    BY <1>3
  <2>2. Waiting' = {} /\ calls[1] \in Waiting
    <3>1. 1 \in DOMAIN calls
      BY <1>1
    <3> QED BY <2>1, <3>1 DEF Waiting
  <2> QED BY <1>3, <2>1, <2>2 DEF CallsOK
<1> QED BY <1>2, <1>3

\* main's calls: the standard library's packages, the recorded ones, main.
LEMMA CompiledCalls ==
  ASSUME IInv, Compile
  PROVE  LET k == Len(StdlibCalls)
             m == Len(imports)
         IN  /\ calls' \in Seq(Packages \cup {Body})
             /\ k \in Nat /\ m \in Nat
             /\ Len(calls') = k + m + 2
             /\ DOMAIN calls' = 1 .. k + m + 2
             /\ DOMAIN StdlibCalls = 1 .. k /\ DOMAIN imports = 1 .. m
             /\ \A a \in 1 .. k : calls'[a] = StdlibCalls[a] /\ calls'[a] \in Stdlib
             /\ \A a \in k + 1 .. k + m : calls'[a] = imports[a - k] /\ calls'[a] \in Locals
             /\ calls'[k + m + 1] = Main /\ calls'[k + m + 2] = Body
<1> DEFINE d == StdlibCalls
           c == calls'
           k == Len(d)
           m == Len(imports)
           S == Packages \cup {Body}
           t == <<Main, Body>>
           e == d \o imports
<1>1. d \in Seq(Stdlib) /\ imports \in Seq(Locals)
  <2>1. stdlib \subseteq Stdlib /\ imports \in Seq(Locals)
    BY DEF IInv, TypeOK
  <2> DEFINE R == {p \in stdlib \cap referred : inits[p] # <<>>}
  <2>2. d \in Seq(R) /\ R \subseteq Stdlib
    BY <2>1, StdlibCallsOnce
  <2> HIDE DEF R, d
  <2> QED BY <2>1, <2>2
<1>2. c = e \o t
  BY DEF Compile
<1>3. t \in Seq(S) /\ Len(t) = 2 /\ t[1] = Main /\ t[2] = Body
  BY DEF Packages
<1>4. Stdlib \subseteq S /\ Locals \subseteq S
  BY DEF Packages
<1> HIDE DEF d, c, S, t
<1>5. d \in Seq(S) /\ imports \in Seq(S) /\ k \in Nat /\ m \in Nat /\ DOMAIN d = 1 .. k /\ DOMAIN imports = 1 .. m
  BY <1>1, <1>4
<1>6. /\ e \in Seq(S) /\ Len(e) = k + m
      /\ \A a \in 1 .. k : e[a] = d[a]
      /\ \A a \in k + 1 .. k + m : e[a] = imports[a - k]
  BY <1>5
<1> HIDE DEF e
<1>7. /\ c \in Seq(S) /\ Len(c) = k + m + 2 /\ DOMAIN c = 1 .. k + m + 2
      /\ \A a \in 1 .. k + m : c[a] = e[a]
      /\ c[k + m + 1] = t[1] /\ c[k + m + 2] = t[2]
  <2> DEFINE n == Len(e)
  <2>1. n \in Nat /\ n = k + m
    BY <1>5, <1>6
  <2>2. /\ c \in Seq(S) /\ Len(c) = n + 2 /\ DOMAIN c = 1 .. n + 2
        /\ \A a \in 1 .. n : c[a] = e[a]
        /\ c[n + 1] = t[1] /\ c[n + 2] = t[2]
    <3>1. /\ c \in Seq(S) /\ Len(c) = Len(e) + Len(t)
          /\ \A a \in 1 .. Len(e) + Len(t) : c[a] = IF a <= Len(e) THEN e[a] ELSE t[a - Len(e)]
      <4>1. e \in Seq(S) /\ t \in Seq(S)
        BY <1>3, <1>6
      <4>2. /\ e \o t \in Seq(S) /\ Len(e \o t) = Len(e) + Len(t)
            /\ \A a \in 1 .. Len(e) + Len(t) : (e \o t)[a] = IF a <= Len(e) THEN e[a] ELSE t[a - Len(e)]
        BY <4>1, ConcatProperties, Zenon
      <4> QED BY <1>2, <4>2, Zenon
    <3>2. Len(e) + Len(t) = n + 2
      BY <1>3
    <3> HIDE DEF n
    <3>3. /\ \A a \in 1 .. n : c[a] = e[a]
          /\ c[n + 1] = t[1] /\ c[n + 2] = t[2]
      <4>1. \A a \in 1 .. n + 2 : c[a] = IF a <= n THEN e[a] ELSE t[a - n]
        BY <3>1, <3>2 DEF n
      <4>2. n + 1 \in 1 .. n + 2 /\ n + 2 \in 1 .. n + 2 /\ ~(n + 1 <= n) /\ ~(n + 2 <= n)
            /\ (n + 1) - n = 1 /\ (n + 2) - n = 2 /\ \A a \in 1 .. n : a \in 1 .. n + 2 /\ a <= n
        BY <2>1
      <4> QED BY <4>1, <4>2
    <3> QED BY <3>1, <3>2, <3>3
  <2> HIDE DEF n, k, m
  <2> QED BY <2>1, <2>2
<1>8. \A a \in 1 .. k : c[a] = d[a] /\ c[a] \in Stdlib
  <2> SUFFICES ASSUME NEW a \in 1 .. k PROVE c[a] = d[a] /\ c[a] \in Stdlib
    OBVIOUS
  <2>1. a \in 1 .. k + m
    BY <1>5
  <2>2. d[a] \in Stdlib
    BY <1>1, <1>5
  <2> QED BY <1>6, <1>7, <2>1, <2>2
<1>9. \A a \in k + 1 .. k + m : c[a] = imports[a - k] /\ c[a] \in Locals
  <2> SUFFICES ASSUME NEW a \in k + 1 .. k + m PROVE c[a] = imports[a - k] /\ c[a] \in Locals
    OBVIOUS
  <2>1. a \in 1 .. k + m /\ a - k \in 1 .. m
    BY <1>5
  <2>2. imports[a - k] \in Locals
    BY <1>1, <1>5, <2>1
  <2> QED BY <1>6, <1>7, <2>1, <2>2
<1> QED BY <1>3, <1>5, <1>7, <1>8, <1>9 DEF c, d, S

LEMMA CompileStep ==
  ASSUME IInv, DependenciesFirst, PInv, Compile
  PROVE  PInv'
<1> DEFINE d == StdlibCalls
           c == calls'
           k == Len(d)
           m == Len(imports)
<1>1. /\ c \in Seq(Packages \cup {Body})
      /\ k \in Nat /\ m \in Nat
      /\ Len(c) = k + m + 2
      /\ DOMAIN c = 1 .. k + m + 2
      /\ DOMAIN d = 1 .. k /\ DOMAIN imports = 1 .. m
      /\ \A a \in 1 .. k : c[a] = d[a] /\ c[a] \in Stdlib
      /\ \A a \in k + 1 .. k + m : c[a] = imports[a - k] /\ c[a] \in Locals
      /\ c[k + m + 1] = Main /\ c[k + m + 2] = Body
  BY CompiledCalls
<1>2. \A a, b \in DOMAIN d : d[a] = d[b] => a = b
  BY StdlibCallsOnce
<1>3. RecordedOnce
  BY DEF IInv, RecordOK
<1> HIDE DEF c, d, k, m
<1>4. \A a \in DOMAIN c : a \in 1 .. k \/ a \in k + 1 .. k + m \/ a = k + m + 1 \/ a = k + m + 2
  BY <1>1
<1>5. Main \notin Locals \cup Stdlib /\ Locals \cap Stdlib = {} /\ Body \notin Locals \cup Stdlib \cup {Main}
  BY GraphAssumption, ProgramAssumption DEF Packages
<1>6. \A a, b \in DOMAIN c : c[a] = c[b] => a = b
  <2> SUFFICES ASSUME NEW a \in DOMAIN c, NEW b \in DOMAIN c, c[a] = c[b] PROVE a = b
    OBVIOUS
  <2>1. CASE a \in 1 .. k
    <3>1. b \in 1 .. k
      BY <1>1, <1>4, <1>5, <2>1
    <3> QED BY <1>1, <1>2, <2>1, <3>1
  <2>2. CASE a \in k + 1 .. k + m
    <3>1. b \in k + 1 .. k + m
      BY <1>1, <1>4, <1>5, <2>2
    <3>2. a - k \in DOMAIN imports /\ b - k \in DOMAIN imports
      BY <1>1, <2>2, <3>1
    <3>3. a - k = b - k
      BY <1>1, <1>3, <2>2, <3>1, <3>2 DEF RecordedOnce
    <3> QED BY <1>1, <2>2, <3>1, <3>3
  <2>3. CASE a = k + m + 1
    BY <1>1, <1>4, <1>5, <2>3
  <2>4. CASE a = k + m + 2
    BY <1>1, <1>4, <1>5, <2>4
  <2> QED BY <1>4, <2>1, <2>2, <2>3, <2>4
<1>7. ASSUME Acyclic, NEW a \in DOMAIN c, NEW b \in DOMAIN c, c[a] \in Locals \cup {Main},
             c[b] \in ImportsOf(c[a])
      PROVE  b < a
  <2>1. c[b] \in Locals \cup Stdlib
    <3>1. graph[c[a]] \in Seq(Locals \cup Stdlib)
      BY <1>7, GraphAssumption DEF IInv, TypeOK
    <3> QED BY <1>7, <3>1 DEF ImportsOf
  <2>2. b \in 1 .. k \/ b \in k + 1 .. k + m
    BY <1>1, <1>4, <1>5, <2>1
  <2>3. a \in k + 1 .. k + m \/ a = k + m + 1
    <3>1. ~(a \in 1 .. k)
      BY <1>1, <1>5, <1>7
    <3>2. a # k + m + 2
      BY <1>1, <1>5, <1>7
    <3> QED BY <1>4, <3>1, <3>2
  <2>4. CASE a \in k + 1 .. k + m /\ b \in k + 1 .. k + m
    <3>1. a - k \in DOMAIN imports /\ b - k \in DOMAIN imports
      BY <1>1, <2>4
    <3>2. c[a] = imports[a - k] /\ c[b] = imports[b - k] /\ c[b] \in Locals
      BY <1>1, <2>4
    <3>3. imports[b - k] \in Recorded(a - k - 1)
      BY <1>7, <3>1, <3>2 DEF DependenciesFirst
    <3>4. PICK j \in 1 .. a - k - 1 : imports[j] = imports[b - k]
      BY <3>3 DEF Recorded
    <3>5. j = b - k
      <4>1. j \in DOMAIN imports
        BY <1>1, <2>4, <3>4
      <4> QED BY <4>1, <1>1, <1>3, <2>4, <3>1, <3>4 DEF RecordedOnce
    <3> QED BY <1>1, <2>4, <3>5
  <2> QED BY <1>1, <2>2, <2>3, <2>4
<1>8. CallsOK'
  <2>1. UNCHANGED vars
    BY DEF Compile
  <2>2. c[Len(c)] = Body
    BY <1>1
  <2> QED BY <1>6, <1>7, <2>1, <2>2, SameGraph DEF CallsOK, c
<1>9. log = <<>> /\ log' = <<>> /\ DOMAIN log' = {}
  BY DEF PInv, PTypes, Compile, program
<1>10. PTypes'
  BY <1>1 DEF PInv, PTypes, Compile, program, c
<1>11. LogOK' /\ InitOrder'
  BY <1>9 DEF LogOK, InitOrder
<1> QED BY <1>8, <1>10, <1>11 DEF PInv

\* The event of a step of the generated main is new and keeps the order.
LEMMA InitVarStep ==
  ASSUME IInv, PInv, NEW p \in Packages, NEW q \in Packages, InitVar(p, q)
  PROVE  PInv'
<1> DEFINE e == <<"var", q, 0>>
<1>1. /\ UNCHANGED vars /\ UNCHANGED <<inits, calls, next>>
      /\ log' = Append(log, e) /\ forced' = forced \cup {q} /\ q \notin forced
      /\ next > 0 /\ calls # <<>>
  BY DEF InitVar, Runs, Pending, program
<1>2. e \in Events /\ e[1] = "var" /\ e[2] = q
  BY DEF Events
<1> HIDE DEF e
<1>3. \A i \in DOMAIN log : log[i] # e /\ log[i][1] # "main"
  BY <1>1, <1>2 DEF PInv, LogOK
<1>4. InitOrder'
  BY <1>1, <1>2, <1>3, OrderGrows DEF PInv
<1>5. /\ DOMAIN log' = 1 .. Len(log) + 1 /\ DOMAIN log = 1 .. Len(log) /\ log' \in Seq(Events)
      /\ \A i \in DOMAIN log : log'[i] = log[i]
      /\ log'[Len(log) + 1] = e /\ Len(log) \in Nat
  BY <1>1, <1>2, LogGrows DEF PInv
<1>6. PTypes' /\ CallsOK'
  BY <1>1, <1>5, SameGraph DEF PInv, PTypes, CallsOK
<1>7. LogOK'
  <2>1. \A r, n : Past(r, n)' <=> Past(r, n)
    BY <1>1 DEF Past, Waiting
  <2>2. Waiting' = Waiting
    BY <1>1 DEF Waiting
  <2>3. \A i \in DOMAIN log' : i \in DOMAIN log \/ i = Len(log) + 1
    BY <1>5
  <2>4. ASSUME NEW i \in DOMAIN log'
        PROVE  /\ log'[i][1] = "var" => log'[i][2] \in forced'
               /\ log'[i][1] = "init" => Past(log'[i][2], log'[i][3])
               /\ log'[i][1] = "main" => calls = <<>>
               /\ Acyclic /\ log'[i][1] = "init" /\ log'[i][2] \in Locals \cup {Main}
                    => ImportsOf(log'[i][2]) \cap Waiting = {}
    <3>1. CASE i \in DOMAIN log
      BY <1>1, <1>5, <3>1 DEF PInv, LogOK
    <3>2. CASE i = Len(log) + 1
      BY <1>1, <1>2, <1>5, <3>2
    <3> QED BY <2>3, <3>1, <3>2
  <2> QED BY <1>1, <2>1, <2>2, <2>4, SameGraph DEF LogOK
<1> QED BY <1>4, <1>6, <1>7 DEF PInv

\* What is past stays past when the call goes on to its next init function, and
\* all of the call is past when it ends.
LEMMA CallMovesOn ==
  ASSUME PTypes, CallsOK, UNCHANGED vars, next > 0, calls # <<>>,
         \/ calls' = calls /\ next' = next + 1
         \/ calls' \in {Tail(calls), <<>>}
  PROVE  /\ calls' \in Seq(Packages \cup {Body})
         /\ CallsOK'
         /\ calls[1] \in Waiting /\ Waiting' \subseteq Waiting
         /\ \A r : \A n \in Nat : Past(r, n) => Past(r, n)'
         /\ \A r, n : r = calls[1] /\ n = next => Past(r, n)'
<1>1. CASE calls' = calls /\ next' = next + 1
  <2>1. Waiting' = Waiting /\ next \in Nat
    BY <1>1 DEF Waiting, PTypes
  <2>2. CallsOK'
    BY <1>1, SameGraph DEF CallsOK
  <2>3. calls[1] \in Waiting
    <3>1. 1 \in DOMAIN calls
      BY DEF PTypes
    <3> QED BY <3>1 DEF Waiting
  <2>4. \A r : \A n \in Nat : Past(r, n) => Past(r, n)'
    <3> SUFFICES ASSUME NEW r, NEW n \in Nat, Past(r, n) PROVE Past(r, n)'
      OBVIOUS
    <3>1. n < next => n < next + 1
      BY <2>1
    <3> QED BY <1>1, <2>1, <3>1 DEF Past
  <2>5. \A r, n : r = calls[1] /\ n = next => Past(r, n)'
    <3>1. next < next + 1
      BY <2>1
    <3> QED BY <1>1, <3>1 DEF Past
  <2> QED BY <1>1, <2>1, <2>2, <2>3, <2>4, <2>5 DEF PTypes
<1>2. CASE calls' \in {Tail(calls), <<>>}
  <2>1. /\ calls' \in Seq(Packages \cup {Body}) /\ CallsOK'
        /\ calls[1] \in Waiting /\ Waiting' \subseteq Waiting \ {calls[1]}
    BY <1>2, CallsShrink
  <2>2. \A r, n : Past(r, n) => r \notin Waiting'
    BY <2>1 DEF Past
  <2>3. \A r, n : r = calls[1] /\ n = next => Past(r, n)'
    BY <2>1 DEF Past
  <2>4. \A r : \A n \in Nat : Past(r, n) => Past(r, n)'
    BY <2>2 DEF Past
  <2> QED BY <2>1, <2>3, <2>4
<1> QED BY <1>1, <1>2

\* The first of main's calls: none of its imports is waiting.
LEMMA FirstHasImports ==
  ASSUME PTypes, CallsOK, calls # <<>>, Acyclic, calls[1] \in Locals \cup {Main}
  PROVE  ImportsOf(calls[1]) \cap Waiting = {}
<1> SUFFICES ASSUME NEW b \in DOMAIN calls, calls[b] \in ImportsOf(calls[1]) PROVE FALSE
  BY DEF Waiting
<1>1. DOMAIN calls = 1 .. Len(calls) /\ Len(calls) \in Nat /\ 1 \in DOMAIN calls
  BY DEF PTypes
<1>2. b < 1
  BY <1>1 DEF CallsOK
<1> QED BY <1>1, <1>2

LEMMA RunInitStep ==
  ASSUME IInv, PInv, NEW p \in Packages, RunInit(p)
  PROVE  PInv'
<1> DEFINE e == <<"init", p, next>>
<1>0. PTypes /\ CallsOK /\ LogOK /\ InitOrder
  BY DEF PInv
<1>1. /\ UNCHANGED vars /\ UNCHANGED <<inits, forced>>
      /\ log' = Append(log, e)
      /\ next > 0 /\ calls # <<>> /\ p = calls[1]
      /\ \/ calls' = calls /\ next' = next + 1
         \/ calls' \in {Tail(calls), <<>>} /\ next' = 1
  BY DEF RunInit, Runs, Current, program
<1>2. e \in Events /\ e[1] = "init" /\ e[2] = p /\ e[3] = next
  BY <1>0 DEF Events, PTypes
<1> HIDE DEF e
<1>3. /\ calls' \in Seq(Packages \cup {Body}) /\ CallsOK'
      /\ p \in Waiting /\ Waiting' \subseteq Waiting
      /\ \A r : \A n \in Nat : Past(r, n) => Past(r, n)'
      /\ \A n : n = next => Past(p, n)'
  <2>1. /\ calls' \in Seq(Packages \cup {Body}) /\ CallsOK'
        /\ calls[1] \in Waiting /\ Waiting' \subseteq Waiting
        /\ \A r : \A n \in Nat : Past(r, n) => Past(r, n)'
        /\ \A r, n : r = calls[1] /\ n = next => Past(r, n)'
    BY <1>0, <1>1, CallMovesOn
  <2> QED BY <1>1, <2>1
<1>4. \A i \in DOMAIN log : log[i] # e /\ log[i][1] # "main"
  <2> SUFFICES ASSUME NEW i \in DOMAIN log, log[i] = e PROVE FALSE
    BY <1>0, <1>1 DEF LogOK
  <2>1. Past(p, next)
    BY <1>0, <1>2 DEF LogOK
  <2> QED BY <1>0, <1>1, <1>3, <2>1 DEF Past, PTypes
<1>5. InitOrder'
  <2>1. \A i \in DOMAIN log : Acyclic /\ log[i][1] = "init" /\ log[i][2] \in Locals \cup {Main}
          => e[2] \notin ImportsOf(log[i][2])
    BY <1>0, <1>2, <1>3 DEF LogOK
  <2> QED BY <1>0, <1>1, <1>2, <1>4, <2>1, OrderGrows
<1>6. /\ DOMAIN log' = 1 .. Len(log) + 1 /\ DOMAIN log = 1 .. Len(log) /\ log' \in Seq(Events)
      /\ \A i \in DOMAIN log : log'[i] = log[i]
      /\ log'[Len(log) + 1] = e /\ Len(log) \in Nat
  BY <1>0, <1>1, <1>2, LogGrows
<1>7. PTypes'
  <2>1. next' \in Nat \ {0}
    BY <1>0, <1>1 DEF PTypes
  <2> QED BY <1>0, <1>1, <1>3, <1>6, <2>1 DEF PTypes
<1>8. LogOK'
  <2>1. \A i \in DOMAIN log' : i \in DOMAIN log \/ i = Len(log) + 1
    BY <1>6
  <2>2. ASSUME NEW i \in DOMAIN log, log[i][1] = "init" PROVE Past(log[i][2], log[i][3])'
    <3>1. log[i] \in Events
      BY <1>0 DEF PTypes
    <3>2. PICK r \in Packages, n \in Nat : r = log[i][2] /\ n = log[i][3]
      BY <3>1 DEF Events
    <3>3. Past(r, n)
      BY <1>0, <2>2, <3>2 DEF LogOK
    <3>4. Past(r, n)'
      BY <1>3, <3>3
    <3>5. r = log'[i][2] /\ n = log'[i][3]
      BY <1>6, <3>2
    <3> QED BY <3>4, <3>5
  <2>3. ASSUME NEW i \in DOMAIN log', i = Len(log) + 1 PROVE Past(log[i][2], log[i][3])'
    <3>1. log'[i][2] = p /\ log'[i][3] = next
      BY <1>2, <1>6, <2>3
    <3>2. PICK r, n : r = p /\ n = next
      OBVIOUS
    <3>3. Past(r, n)'
      BY <1>3, <3>2
    <3> QED BY <3>1, <3>2, <3>3
  <2>4. \A i \in DOMAIN log' : log'[i][1] = "init" => Past(log[i][2], log[i][3])'
    BY <1>6, <2>1, <2>2, <2>3
  <2>5. \A i \in DOMAIN log' : /\ log'[i][1] = "var" => log'[i][2] \in forced
                               /\ log'[i][1] # "main"
    BY <1>0, <1>2, <1>4, <1>6, <2>1 DEF LogOK
  <2>6. ASSUME Acyclic, NEW i \in DOMAIN log', log'[i][1] = "init", log'[i][2] \in Locals \cup {Main}
        PROVE  ImportsOf(log'[i][2]) \cap Waiting' = {}
    <3>1. CASE i \in DOMAIN log
      BY <1>0, <1>3, <1>6, <2>6, <3>1 DEF LogOK
    <3>2. CASE i = Len(log) + 1
      BY <1>0, <1>1, <1>2, <1>3, <1>6, <2>6, <3>2, FirstHasImports
    <3> QED BY <2>1, <3>1, <3>2
  <2> QED BY <1>1, <2>4, <2>5, <2>6, SameGraph DEF LogOK
<1> QED BY <1>3, <1>5, <1>7, <1>8 DEF PInv

LEMMA EndCallStep ==
  ASSUME IInv, PInv, NEW p \in Packages, EndCall(p)
  PROVE  PInv'
<1>0. PTypes /\ CallsOK /\ LogOK /\ InitOrder
  BY DEF PInv
<1>1. /\ UNCHANGED vars /\ UNCHANGED <<inits, forced, log>>
      /\ next > 0 /\ calls # <<>> /\ calls' \in {Tail(calls), <<>>} /\ next' = 1
  BY DEF EndCall, Runs, program
<1>2. /\ calls' \in Seq(Packages \cup {Body}) /\ CallsOK'
      /\ Waiting' \subseteq Waiting
      /\ \A r : \A n \in Nat : Past(r, n) => Past(r, n)'
  BY <1>0, <1>1, CallMovesOn
<1>3. PTypes'
  BY <1>0, <1>1, <1>2 DEF PTypes
<1>4. InitOrder'
  BY <1>0, <1>1, SameGraph DEF InitOrder
<1>5. LogOK'
  <2>1. ASSUME NEW i \in DOMAIN log, log[i][1] = "init" PROVE Past(log[i][2], log[i][3])'
    <3>1. log[i] \in Events
      BY <1>0 DEF PTypes
    <3>2. PICK r \in Packages, n \in Nat : r = log[i][2] /\ n = log[i][3]
      BY <3>1 DEF Events
    <3>3. Past(r, n)'
      BY <1>0, <1>2, <2>1, <3>2 DEF LogOK
    <3> QED BY <1>1, <3>2, <3>3
  <2>2. \A i \in DOMAIN log : log[i][1] = "var" => log[i][2] \in forced
    BY <1>0 DEF LogOK
  <2>3. \A i \in DOMAIN log : log[i][1] # "main"
    BY <1>0, <1>1 DEF LogOK
  <2>4. Acyclic => \A i \in DOMAIN log : log[i][1] = "init" /\ log[i][2] \in Locals \cup {Main}
          => ImportsOf(log[i][2]) \cap Waiting' = {}
    BY <1>0, <1>2 DEF LogOK
  <2> QED BY <1>1, <2>1, <2>2, <2>3, <2>4, SameGraph DEF LogOK
<1> QED BY <1>2, <1>3, <1>4, <1>5 DEF PInv

LEMMA RunBodyStep ==
  ASSUME IInv, PInv, RunBody
  PROVE  PInv'
<1> DEFINE e == <<"main", Main, 0>>
<1>0. PTypes /\ CallsOK /\ LogOK /\ InitOrder
  BY DEF PInv
<1>1. /\ UNCHANGED vars /\ UNCHANGED <<inits, forced, next>>
      /\ log' = Append(log, e)
      /\ next > 0 /\ calls # <<>> /\ calls' = <<>>
  BY DEF RunBody, Runs, program
<1>2. e \in Events /\ e[1] = "main"
  BY DEF Events, Packages
<1> HIDE DEF e
<1>3. DOMAIN calls' = {} /\ calls' \in Seq(Packages \cup {Body}) /\ Waiting' = {}
  <2>1. DOMAIN calls' = {}
    BY <1>1
  <2> QED BY <1>1, <2>1 DEF Waiting
<1>4. \A i \in DOMAIN log : log[i] # e /\ log[i][1] # "main"
  BY <1>0, <1>1, <1>2 DEF LogOK
<1>5. InitOrder'
  BY <1>0, <1>1, <1>2, <1>4, OrderGrows
<1>6. /\ DOMAIN log' = 1 .. Len(log) + 1 /\ DOMAIN log = 1 .. Len(log) /\ log' \in Seq(Events)
      /\ \A i \in DOMAIN log : log'[i] = log[i]
      /\ log'[Len(log) + 1] = e /\ Len(log) \in Nat
  BY <1>0, <1>1, <1>2, LogGrows
<1>7. PTypes'
  BY <1>0, <1>1, <1>3, <1>6 DEF PTypes
<1>8. CallsOK'
  BY <1>1, <1>3 DEF CallsOK
<1>9. LogOK'
  <2>1. \A i \in DOMAIN log' : log'[i][1] = "var" => log'[i][2] \in forced
    <3>1. \A i \in DOMAIN log' : i \in DOMAIN log \/ i = Len(log) + 1
      BY <1>6
    <3> QED BY <1>0, <1>2, <1>6, <3>1 DEF LogOK
  <2>2. \A r, n : Past(r, n)'
    BY <1>3 DEF Past
  <2> QED BY <1>1, <1>3, <2>1, <2>2 DEF LogOK
<1> QED BY <1>5, <1>7, <1>8, <1>9 DEF PInv

\* Before main is compiled there is nothing to keep.
LEMMA NothingBegun ==
  ASSUME inits \in [Packages -> Seq({"end", "return"})], calls = <<>>, next = 0, log = <<>>
  PROVE  PInv
<1>1. calls \in Seq(Packages \cup {Body}) /\ log \in Seq(Events) /\ DOMAIN calls = {} /\ DOMAIN log = {}
  OBVIOUS
<1>2. PTypes
  BY <1>1 DEF PTypes
<1>3. CallsOK /\ LogOK /\ InitOrder
  BY <1>1 DEF CallsOK, LogOK, InitOrder
<1> QED BY <1>2, <1>3 DEF PInv

LEMMA NextPInv == ASSUME IInv, DependenciesFirst, PInv, [PNext]_allVars PROVE PInv'
<1>1. CASE Resolve
  <2>1. inits' \in [Packages -> Seq({"end", "return"})] /\ calls' = <<>> /\ next' = 0 /\ log' = <<>>
    BY <1>1 DEF Resolve, initVars, program, PInv, PTypes
  <2>2. calls' \in Seq(Packages \cup {Body}) /\ log' \in Seq(Events) /\ DOMAIN calls' = {} /\ DOMAIN log' = {}
    BY <2>1
  <2>3. PTypes'
    BY <2>1, <2>2 DEF PTypes
  <2>4. CallsOK' /\ LogOK' /\ InitOrder'
    BY <2>1, <2>2 DEF CallsOK, LogOK, InitOrder
  <2> QED BY <2>3, <2>4 DEF PInv
<1>2. CASE Compile
  BY <1>2, CompileStep
<1>3. CASE RunBody
  BY <1>3, RunBodyStep
<1>4. ASSUME NEW p \in Packages, RunInit(p) PROVE PInv'
  BY <1>4, RunInitStep
<1>5. ASSUME NEW p \in Packages, EndCall(p) PROVE PInv'
  BY <1>5, EndCallStep
<1>6. ASSUME NEW p \in Packages, NEW q \in Packages, InitVar(p, q) PROVE PInv'
  BY <1>6, InitVarStep
<1>7. CASE UNCHANGED allVars
  <2>1. UNCHANGED vars /\ UNCHANGED <<inits, calls, next, forced, log>>
    BY <1>7 DEF allVars, initVars, program
  <2>2. PTypes' /\ CallsOK' /\ InitOrder'
    BY <2>1, SameGraph DEF PInv, PTypes, CallsOK, InitOrder
  <2>3. Waiting' = Waiting /\ \A r, n : Past(r, n)' <=> Past(r, n)
    BY <2>1 DEF Waiting, Past
  <2>4. LogOK'
    BY <2>1, <2>3, SameGraph DEF PInv, LogOK
  <2> QED BY <2>2, <2>4 DEF PInv
<1> QED BY <1>1, <1>2, <1>3, <1>4, <1>5, <1>6, <1>7 DEF PNext

\* The generated main begins with a resolution.
LEMMA BeginsResolved == PSpec => Spec
<1>1. PInit => Init
  BY DEF PInit
<1>2. [PNext]_allVars => [Next]_vars
  BY DEF PNext, Resolve, Compile, RunBody, RunInit, EndCall, InitVar, allVars
<1> QED BY <1>1, <1>2, PTL DEF PSpec, Spec

LEMMA PInvAlways == PSpec => [](IInv /\ DependenciesFirst /\ PInv)
<1>1. PInit => PInv
  BY NothingBegun, ProgramAssumption DEF PInit
<1> QED BY <1>1, NextPInv, BeginsResolved, IInvAlways, DependenciesFirstAlways, PTL DEF PSpec

\* For every program: the init functions of a package run after those of the
\* packages it imports, each once, and main's body after all of them.
THEOREM InitOrderAlways == PSpec => []InitOrder
<1>1. PInv => InitOrder
  BY DEF PInv
<1> QED BY <1>1, PInvAlways, PTL

-----------------------------------------------------------------------------
\* One of the main package's own init functions returns.
MainCut == Cut(Main, Len(inits[Main]) + 1)

\* What has not run is still waiting for its turn.
Owed(p, n) == p \in Waiting /\ (p = calls[1] => next <= n)

\* An init function that no return cuts off has run or is owed, and none has
\* run that a return cuts off or whose package is not reached.
InitsOK ==
  \A p \in Packages : \A n \in DOMAIN inits[p] :
    /\ p \in Reached => Cut(p, n) \/ <<"init", p, n>> \in Logged \/ Owed(p, n)
    /\ <<"init", p, n>> \in Logged => p \in Reached /\ ~Cut(p, n)

\* No return has cut off what is to run next.
TurnOK ==
  /\ Waiting \subseteq Reached \cup {Body}
  /\ calls # <<>> /\ calls[1] # Body => ~Cut(calls[1], next)
  /\ \A a \in DOMAIN calls : a + 1 = Len(calls) => calls[a] = Main
  /\ calls # <<>> /\ calls[1] = Body => ~MainCut
  /\ <<"main", Main, 0>> \in Logged => ~MainCut
  /\ MainCut \/ <<"main", Main, 0>> \in Logged \/ Body \in Waiting

RunsOK == next > 0 => InitsOK /\ TurnOK

LEMMA LoggedGrows ==
  ASSUME PTypes, NEW e \in Events, log' = Append(log, e)
  PROVE  Logged' = Logged \cup {e}
<1>1. /\ Len(log) \in Nat
      /\ DOMAIN log = 1 .. Len(log)
      /\ DOMAIN log' = 1 .. Len(log) + 1
      /\ \A i \in DOMAIN log : log'[i] = log[i]
      /\ log'[Len(log) + 1] = e
  BY LogGrows
<1>2. \A i \in DOMAIN log : i \in DOMAIN log'
  BY <1>1
<1>3. Len(log) + 1 \in DOMAIN log' /\ \A i \in DOMAIN log' : i \in DOMAIN log \/ i = Len(log) + 1
  BY <1>1
<1>4. \A x \in Logged' : x \in Logged \cup {e}
  BY <1>1, <1>3 DEF Logged
<1>5. \A x \in Logged \cup {e} : x \in Logged'
  BY <1>1, <1>2, <1>3 DEF Logged
<1> QED BY <1>4, <1>5

\* A package's list of init functions, and what is cut off in it.
LEMMA InitList ==
  ASSUME PTypes, NEW p \in Packages
  PROVE  /\ Len(inits[p]) \in Nat
         /\ DOMAIN inits[p] = 1 .. Len(inits[p])
         /\ \A n \in DOMAIN inits[p] : inits[p][n] \in {"end", "return"}
         /\ ~Cut(p, 1)
         /\ \A n \in DOMAIN inits[p] : ~Cut(p, n) /\ inits[p][n] = "end" => ~Cut(p, n + 1)
         /\ \A n \in DOMAIN inits[p], k \in Nat : n < k /\ inits[p][n] = "return" => Cut(p, k)
         /\ \A k \in Nat : k > Len(inits[p]) /\ ~Cut(p, k) => ~Cut(p, Len(inits[p]) + 1)
<1> DEFINE l == inits[p]
<1>1. l \in Seq({"end", "return"})
  BY DEF PTypes
<1> HIDE DEF l
<1>2. Len(l) \in Nat /\ DOMAIN l = 1 .. Len(l) /\ \A n \in DOMAIN l : l[n] \in {"end", "return"}
  BY <1>1
<1>3. \A k : Cut(p, k) <=> \E m \in DOMAIN l : m < k /\ l[m] = "return"
  BY DEF Cut, l
<1>4. ~Cut(p, 1)
  BY <1>2, <1>3
<1>5. ASSUME NEW n \in DOMAIN l, ~Cut(p, n), l[n] = "end" PROVE ~Cut(p, n + 1)
  <2>1. \A m \in DOMAIN l : m < n + 1 => m < n \/ m = n
    BY <1>2
  <2> QED BY <1>3, <1>5, <2>1
<1>6. \A n \in DOMAIN l, k \in Nat : n < k /\ l[n] = "return" => Cut(p, k)
  BY <1>3
<1>7. ASSUME NEW k \in Nat, k > Len(l), ~Cut(p, k) PROVE ~Cut(p, Len(l) + 1)
  <2>1. \A m \in DOMAIN l : m < k
    BY <1>2, <1>7
  <2> QED BY <1>3, <1>7, <2>1
<1> QED BY <1>2, <1>4, <1>5, <1>6, <1>7 DEF l

\* A step that leaves the imports and the program alone.
LEMMA SameProgram ==
  ASSUME UNCHANGED vars, UNCHANGED program
  PROVE  Reached' = Reached /\ (MainCut' <=> MainCut) /\ \A p, n : Cut(p, n)' <=> Cut(p, n)
<1>1. inits' = inits /\ visited' = visited /\ stdlib' = stdlib /\ referred' = referred
  BY DEF vars, program
<1>2. \A p, n : Cut(p, n)' <=> Cut(p, n)
  BY <1>1 DEF Cut
<1>3. Reached' = Reached
  BY <1>1 DEF Reached
<1>4. MainCut' <=> MainCut
  BY <1>1 DEF MainCut, Cut
<1> QED BY <1>2, <1>3, <1>4

LEMMA ReachedPackages == ASSUME IInv, PTypes PROVE Reached \subseteq Packages
BY DEF Reached, IInv, TypeOK, Packages

\* main calls every package that the program reaches and that has something to
\* run, and no other.
LEMMA CompileRunsOK ==
  ASSUME IInv, PTypes, Compile
  PROVE  RunsOK'
<1> DEFINE d == StdlibCalls
           c == calls'
           k == Len(d)
           m == Len(imports)
           R == {p \in stdlib \cap referred : inits[p] # <<>>}
<1>1. /\ k \in Nat /\ m \in Nat
      /\ Len(c) = k + m + 2
      /\ DOMAIN c = 1 .. k + m + 2
      /\ DOMAIN d = 1 .. k /\ DOMAIN imports = 1 .. m
      /\ \A a \in 1 .. k : c[a] = d[a]
      /\ \A a \in k + 1 .. k + m : c[a] = imports[a - k]
      /\ c[k + m + 1] = Main /\ c[k + m + 2] = Body
  BY CompiledCalls
<1>2. d \in Seq(R) /\ \A p \in R : \E i \in DOMAIN d : d[i] = p
  BY StdlibCallsOnce
<1>3. UNCHANGED vars /\ UNCHANGED program /\ next' = 1 /\ log' = log /\ next = 0 /\ Resolved
  BY DEF Compile
<1>4. Waiting' = {c[a] : a \in DOMAIN c}
  BY DEF Waiting
<1>5. Reached' = Reached /\ (MainCut' <=> MainCut) /\ \A p, n : Cut(p, n)' <=> Cut(p, n)
  BY <1>3, SameProgram
<1>6. Logged' = {}
  <2>1. log' = <<>>
    BY <1>3 DEF PTypes
  <2> QED BY <2>1 DEF Logged
<1>7. R \subseteq Reached /\ \A a \in DOMAIN imports : imports[a] \in Reached
  BY DEF Reached, IInv, RecordOK
<1> HIDE DEF c, d, k, m
<1>8. \A p \in R : p \in Waiting'
  <2>1. \A i \in DOMAIN d : i \in DOMAIN c /\ c[i] = d[i]
    BY <1>1
  <2> HIDE DEF R
  <2> QED BY <1>2, <1>4, <2>1
<1>9. \A p \in visited : p \in Waiting'
  <2> SUFFICES ASSUME NEW p \in visited PROVE p \in Waiting'
    OBVIOUS
  <2>1. PICK j \in DOMAIN imports : imports[j] = p
    <3>1. DOMAIN stack = {} /\ ~failed
      BY <1>3 DEF Resolved
    <3> QED BY <3>1 DEF IInv, RecordOK
  <2>2. k + j \in DOMAIN c /\ k + j \in k + 1 .. k + m /\ (k + j) - k = j
    BY <1>1
  <2>3. c[k + j] = p
    BY <1>1, <2>1, <2>2
  <2> QED BY <1>4, <2>2, <2>3
<1>10. Main \in Waiting' /\ Body \in Waiting'
  <2>1. k + m + 1 \in DOMAIN c /\ k + m + 2 \in DOMAIN c
    BY <1>1
  <2> QED BY <1>1, <1>4, <2>1
<1>11. ASSUME NEW p \in Reached, NEW n \in DOMAIN inits[p] PROVE p \in Waiting' /\ 1 <= n
  <2>1. p \in Packages
    BY ReachedPackages
  <2>2. 1 <= n /\ inits[p] # <<>>
    <3>1. inits[p] \in Seq({"end", "return"})
      BY <2>1 DEF PTypes
    <3> QED BY <3>1
  <2> QED BY <1>8, <1>9, <1>10, <2>2 DEF Reached, R
<1>12. InitsOK'
  <2>1. \A p \in Reached : \A n \in DOMAIN inits[p] : Owed(p, n)'
    BY <1>3, <1>11 DEF Owed
  <2>2. inits' = inits
    BY <1>3 DEF program
  <2> QED BY <1>5, <1>6, <2>1, <2>2 DEF InitsOK
<1>13. ASSUME NEW a \in DOMAIN c PROVE /\ c[a] \in Reached \cup {Body}
                                       /\ a + 1 = Len(c) => c[a] = Main
                                       /\ c[a] = Body => a = k + m + 2
  <2>1. a \in 1 .. k \/ a \in k + 1 .. k + m \/ a = k + m + 1 \/ a = k + m + 2
    BY <1>1
  <2>2. Body \notin Reached
    BY ReachedPackages, ProgramAssumption
  <2>3. CASE a \in 1 .. k
    <3>1. d[a] \in R
      <4> HIDE DEF R
      <4> QED BY <1>1, <1>2, <2>3
    <3>2. c[a] \in Reached
      BY <1>1, <1>7, <2>3, <3>1
    <3>3. a + 1 # k + m + 2
      BY <1>1, <2>3
    <3> QED BY <1>1, <2>2, <3>2, <3>3
  <2>4. CASE a \in k + 1 .. k + m
    <3>1. a - k \in DOMAIN imports
      BY <1>1, <2>4
    <3>2. c[a] \in Reached
      BY <1>1, <1>7, <2>4, <3>1
    <3>3. a + 1 # k + m + 2
      BY <1>1, <2>4
    <3> QED BY <1>1, <2>2, <3>2, <3>3
  <2>5. CASE a = k + m + 1
    BY <1>1, <2>2, <2>5 DEF Reached
  <2>6. CASE a = k + m + 2
    BY <1>1, <2>6
  <2> QED BY <2>1, <2>3, <2>4, <2>5, <2>6
<1>14. TurnOK'
  <2>1. 1 \in DOMAIN c /\ 1 # k + m + 2
    BY <1>1
  <2>2. c[1] # Body /\ c[1] \in Reached
    BY <1>13, <2>1
  <2>3. ~Cut(c[1], 1)
    BY <2>2, ReachedPackages, InitList
  <2>4. ~Cut(calls[1], next)'
    BY <1>3, <2>3 DEF Cut, program, c
  <2>5. Waiting' \subseteq Reached \cup {Body}
    BY <1>4, <1>13
  <2>6. \A a \in DOMAIN c : a + 1 = Len(c) => c[a] = Main
    BY <1>13
  <2> QED BY <1>3, <1>5, <1>6, <1>10, <2>2, <2>4, <2>5, <2>6 DEF TurnOK, c
<1> QED BY <1>12, <1>14 DEF RunsOK

LEMMA InitVarRunsOK ==
  ASSUME PTypes, RunsOK, NEW p \in Packages, NEW q \in Packages, InitVar(p, q)
  PROVE  RunsOK'
<1> DEFINE e == <<"var", q, 0>>
<1>1. UNCHANGED vars /\ UNCHANGED program /\ UNCHANGED <<calls, next>> /\ log' = Append(log, e) /\ next > 0
  BY DEF InitVar, Runs
<1>2. e \in Events /\ e[1] = "var"
  BY DEF Events
<1> HIDE DEF e
<1>3. Logged' = Logged \cup {e}
  BY <1>1, <1>2, LoggedGrows
<1>4. Reached' = Reached /\ (MainCut' <=> MainCut) /\ \A r, n : Cut(r, n)' <=> Cut(r, n)
  BY <1>1, SameProgram
<1>5. Waiting' = Waiting /\ \A r, n : Owed(r, n)' <=> Owed(r, n)
  BY <1>1 DEF Owed, Waiting
<1>6. \A r, n : (<<"init", r, n>> \in Logged' <=> <<"init", r, n>> \in Logged)
  <2>1. \A r, n : <<"init", r, n>> # e
    BY <1>2
  <2> QED BY <1>3, <2>1
<1>7. <<"main", Main, 0>> \in Logged' <=> <<"main", Main, 0>> \in Logged
  BY <1>2, <1>3
<1>8. InitsOK'
  <2>1. inits' = inits
    BY <1>1 DEF program
  <2> QED BY <1>1, <1>4, <1>5, <1>6, <2>1 DEF RunsOK, InitsOK
<1>9. TurnOK'
  <2>1. calls # <<>> /\ calls[1] # Body => ~Cut(calls[1], next)'
    BY <1>1, <1>4 DEF RunsOK, TurnOK
  <2> QED BY <1>1, <1>4, <1>5, <1>7, <2>1 DEF RunsOK, TurnOK
<1> QED BY <1>8, <1>9 DEF RunsOK

\* The last but one of main's calls is main, also when the first has ended; and
\* when main is the first, nothing but its own statements comes after it.
LEMMA CallsEnd ==
  ASSUME PTypes, CallsOK, TurnOK, calls # <<>>
  PROVE  /\ calls[1] = Main => Waiting \subseteq {Main, Body}
         /\ calls' = Tail(calls) =>
              /\ \A a \in DOMAIN calls' : a + 1 = Len(calls') => calls'[a] = Main
              /\ calls' # <<>> /\ calls'[1] = Body => calls[1] = Main
<1> DEFINE n == Len(calls)
<1>1. /\ calls \in Seq(Packages \cup {Body}) /\ n \in Nat \ {0} /\ DOMAIN calls = 1 .. n
  BY DEF PTypes
<1>2. Main # Body
  BY ProgramAssumption DEF Packages
<1>3. calls[n] = Body
  BY DEF CallsOK
<1> HIDE DEF n
<1>4. \A a \in 1 .. n : a + 1 = n => calls[a] = Main
  BY <1>1 DEF TurnOK, n
<1>5. \A a, b \in 1 .. n : calls[a] = calls[b] => a = b
  BY <1>1 DEF CallsOK
<1>6. ASSUME calls[1] = Main PROVE Waiting \subseteq {Main, Body}
  <2>1. n # 1
    BY <1>2, <1>3, <1>6
  <2>2. n - 1 \in 1 .. n /\ (n - 1) + 1 = n /\ 1 \in 1 .. n
    BY <1>1, <2>1
  <2>3. n - 1 = 1
    BY <1>4, <1>5, <1>6, <2>2
  <2>4. \A a \in 1 .. n : a = 1 \/ a = n
    BY <1>1, <2>3
  <2> QED BY <1>1, <1>3, <1>6, <2>4 DEF Waiting
<1>7. ASSUME calls' = Tail(calls)
      PROVE  /\ \A a \in DOMAIN calls' : a + 1 = Len(calls') => calls'[a] = Main
             /\ calls' # <<>> /\ calls'[1] = Body => calls[1] = Main
  <2> DEFINE c == calls'
  <2>1. /\ Len(c) = n - 1 /\ DOMAIN c = 1 .. n - 1
        /\ \A a \in 1 .. n - 1 : c[a] = calls[a + 1]
    <3> DEFINE S == Packages \cup {Body}
    <3>1. calls \in Seq(S) /\ calls # <<>> /\ c = Tail(calls)
      BY <1>1, <1>7
    <3> HIDE DEF S, c
    <3> QED BY <1>1, <3>1 DEF n
  <2> HIDE DEF c
  <2>2. ASSUME NEW a \in DOMAIN c, a + 1 = Len(c) PROVE c[a] = Main
    <3>1. a + 1 \in 1 .. n /\ (a + 1) + 1 = n
      BY <1>1, <2>1, <2>2
    <3> QED BY <1>4, <2>1, <2>2, <3>1
  <2>3. ASSUME c # <<>>, c[1] = Body PROVE calls[1] = Main
    <3>1. 1 \in DOMAIN c
      <4>1. Len(c) # 0
        <5> DEFINE S == Packages \cup {Body}
        <5>1. c \in Seq(S)
          <6>1. calls \in Seq(S) /\ calls # <<>> /\ c = Tail(calls)
            BY <1>1, <1>7 DEF c
          <6> HIDE DEF S
          <6> QED BY <6>1
        <5> HIDE DEF S
        <5> QED BY <2>3, <5>1
      <4> QED BY <1>1, <2>1, <4>1
    <3>2. 1 \in 1 .. n - 1 /\ 2 \in 1 .. n /\ n \in 1 .. n /\ 1 \in 1 .. n
      BY <1>1, <2>1, <3>1
    <3>3. calls[2] = Body
      BY <2>1, <2>3, <3>2
    <3>4. n = 2
      BY <1>3, <1>5, <3>2, <3>3
    <3> QED BY <1>4, <3>2, <3>4
  <2> QED BY <2>2, <2>3 DEF c
<1> QED BY <1>6, <1>7

\* The current package's call ends and the next begins.
LEMMA NextTurn ==
  ASSUME IInv, PTypes, CallsOK, TurnOK, UNCHANGED vars, UNCHANGED program,
         calls # <<>>, calls[1] \in Packages, calls' = Tail(calls), next' = 1,
         Logged' \ Logged \subseteq {"init"} \X Packages \X Nat, Logged \subseteq Logged',
         calls[1] = Main => ~MainCut
  PROVE  TurnOK'
<1>1. Reached' = Reached /\ (MainCut' <=> MainCut) /\ \A r, n : Cut(r, n)' <=> Cut(r, n)
  BY SameProgram
<1>2. Waiting' = Waiting \ {calls[1]} /\ calls' \in Seq(Packages \cup {Body})
  BY CallsShrink
<1>3. /\ \A a \in DOMAIN calls' : a + 1 = Len(calls') => calls'[a] = Main
      /\ calls' # <<>> /\ calls'[1] = Body => calls[1] = Main
  BY CallsEnd
<1>4. ASSUME calls' # <<>>, calls'[1] # Body PROVE ~Cut(calls[1], next)'
  <2>1. calls'[1] \in Packages
    <3> DEFINE S == Packages \cup {Body}
               c == calls'
    <3>1. c \in Seq(S) /\ c # <<>>
      BY <1>2, <1>4
    <3> HIDE DEF S, c
    <3>2. c[1] \in S
      BY <3>1
    <3> QED BY <1>4, <3>2 DEF S, c
  <2>2. ~Cut(calls'[1], 1)
    BY <2>1, InitList
  <2> QED BY <1>1, <2>2 DEF Cut
<1>5. <<"main", Main, 0>> \in Logged' <=> <<"main", Main, 0>> \in Logged
  OBVIOUS
<1>6. Body \in Waiting => Body \in Waiting'
  BY <1>2, ProgramAssumption
<1> QED BY <1>1, <1>2, <1>3, <1>4, <1>5, <1>6 DEF TurnOK

LEMMA RunInitRunsOK ==
  ASSUME IInv, PTypes, CallsOK, RunsOK, NEW p \in Packages, RunInit(p)
  PROVE  RunsOK'
<1> DEFINE e == <<"init", p, next>>
           L == inits[p]
<1>1. /\ UNCHANGED vars /\ UNCHANGED program /\ inits' = inits /\ log' = Append(log, e)
      /\ next > 0 /\ calls # <<>> /\ p = calls[1] /\ next <= Len(L)
  BY DEF RunInit, Runs, Current, program
<1>2. e \in Events
  BY DEF Events, PTypes
<1>3. Logged' = Logged \cup {e}
  BY <1>1, <1>2, LoggedGrows
<1>4. Reached' = Reached /\ (MainCut' <=> MainCut) /\ \A r, n : Cut(r, n)' <=> Cut(r, n)
  BY <1>1, SameProgram
<1>5. InitsOK /\ TurnOK
  BY <1>1 DEF RunsOK
<1>6. /\ next \in DOMAIN L /\ L[next] \in {"end", "return"}
      /\ L[next] = "end" /\ ~Cut(p, next) => ~Cut(p, next + 1)
      /\ L[next] = "return" => \A k \in Nat : next < k => Cut(p, k)
  <2>1. next \in 1 .. Len(L)
    BY <1>1, InitList DEF PTypes
  <2> QED BY <2>1, InitList
<1>7. p \in Reached /\ ~Cut(p, next)
  <2>1. p \in Waiting
    <3>1. 1 \in DOMAIN calls
      BY <1>1 DEF PTypes
    <3> QED BY <1>1, <3>1 DEF Waiting
  <2>2. p # Body
    BY ProgramAssumption
  <2> QED BY <1>1, <1>5, <2>1, <2>2 DEF TurnOK
<1>8. next \in Nat
  BY DEF PTypes
<1>9. \A r \in Packages : \A n \in DOMAIN inits[r] : n \in Nat
  <2>1. \A r \in Packages : DOMAIN inits[r] = 1 .. Len(inits[r])
    BY InitList
  <2> QED BY <2>1
\* None runs that should not.
<1>10. \A r \in Packages : \A n \in DOMAIN inits[r] :
         <<"init", r, n>> \in Logged' => r \in Reached /\ ~Cut(r, n)
  <2> SUFFICES ASSUME NEW r \in Packages, NEW n \in DOMAIN inits[r], <<"init", r, n>> \in Logged'
               PROVE  r \in Reached /\ ~Cut(r, n)
    OBVIOUS
  <2>1. CASE <<"init", r, n>> \in Logged
    BY <1>5, <2>1 DEF InitsOK
  <2>2. CASE <<"init", r, n>> = e
    <3>1. r = p /\ n = next
      BY <2>2
    <3> QED BY <1>7, <3>1
  <2> QED BY <1>3, <2>1, <2>2
\* None that should is passed over.
<1>11. CASE L[next] = "end"
  <2>1. calls' = calls /\ next' = next + 1
    BY <1>11 DEF RunInit
  <2>2. Waiting' = Waiting
    BY <2>1 DEF Waiting
  <2>3. ASSUME NEW r \in Packages, NEW n \in DOMAIN inits[r], r \in Reached
        PROVE  Cut(r, n) \/ <<"init", r, n>> \in Logged' \/ Owed(r, n)'
    <3>1. n \in Nat
      BY <1>9
    <3>2. CASE Cut(r, n) \/ <<"init", r, n>> \in Logged
      BY <1>3, <3>2
    <3>3. CASE Owed(r, n) /\ r = p /\ n = next
      BY <1>3, <3>3
    <3>4. CASE Owed(r, n) /\ r # p
      BY <1>1, <2>1, <2>2, <3>4 DEF Owed
    <3>5. CASE Owed(r, n) /\ r = p /\ n # next
      <4>1. next + 1 <= n
        BY <1>1, <1>8, <3>1, <3>5 DEF Owed
      <4> QED BY <2>1, <2>2, <3>5, <4>1 DEF Owed
    <3> QED BY <1>5, <2>3, <3>2, <3>3, <3>4, <3>5 DEF InitsOK
  <2>4. InitsOK'
    BY <1>1, <1>4, <1>10, <2>3 DEF InitsOK
  <2>5. <<"main", Main, 0>> \in Logged' <=> <<"main", Main, 0>> \in Logged
    BY <1>3
  <2>6. ~Cut(calls[1], next)'
    <3>1. ~Cut(p, next + 1)
      BY <1>6, <1>7, <1>11
    <3> QED BY <1>1, <1>4, <2>1, <3>1 DEF Cut
  <2>7. calls'[1] # Body
    BY <1>1, <2>1, ProgramAssumption
  <2>8. TurnOK'
    BY <1>4, <1>5, <2>1, <2>2, <2>5, <2>6, <2>7 DEF TurnOK
  <2> QED BY <2>4, <2>8 DEF RunsOK
<1>12. CASE L[next] = "return" /\ p # Main
  <2>1. calls' = Tail(calls) /\ next' = 1
    BY <1>12 DEF RunInit
  <2>2. Waiting' = Waiting \ {p}
    BY <1>1, <2>1, CallsShrink
  <2>3. ASSUME NEW r \in Packages, NEW n \in DOMAIN inits[r], r \in Reached
        PROVE  Cut(r, n) \/ <<"init", r, n>> \in Logged' \/ Owed(r, n)'
    <3>1. n \in Nat /\ 1 <= n
      <4>1. DOMAIN inits[r] = 1 .. Len(inits[r])
        BY InitList
      <4> QED BY <4>1
    <3>2. CASE Cut(r, n) \/ <<"init", r, n>> \in Logged
      BY <1>3, <3>2
    <3>3. CASE Owed(r, n) /\ r = p /\ n = next
      BY <1>3, <3>3
    <3>4. CASE Owed(r, n) /\ r # p
      BY <2>1, <2>2, <3>1, <3>4 DEF Owed
    <3>5. CASE Owed(r, n) /\ r = p /\ n # next
      <4>1. next < n
        BY <1>1, <1>8, <3>1, <3>5 DEF Owed
      <4> QED BY <1>6, <1>12, <3>1, <3>5, <4>1
    <3> QED BY <1>5, <2>3, <3>2, <3>3, <3>4, <3>5 DEF InitsOK
  <2>4. InitsOK'
    BY <1>1, <1>4, <1>10, <2>3 DEF InitsOK
  <2>5. Logged' \ Logged \subseteq {"init"} \X Packages \X Nat /\ Logged \subseteq Logged'
    BY <1>3, <1>8
  <2>6. TurnOK'
    BY <1>1, <1>5, <1>12, <2>1, <2>5, NextTurn
  <2> QED BY <2>4, <2>6 DEF RunsOK
<1>13. CASE L[next] = "return" /\ p = Main
  <2>1. calls' = <<>> /\ next' = 1
    BY <1>13 DEF RunInit
  <2>2. Waiting' = {} /\ DOMAIN calls' = {}
    BY <2>1 DEF Waiting
  <2>3. Waiting \subseteq {Main, Body}
    BY <1>1, <1>5, <1>13, CallsEnd
  <2>4. ASSUME NEW r \in Packages, NEW n \in DOMAIN inits[r], r \in Reached
        PROVE  Cut(r, n) \/ <<"init", r, n>> \in Logged'
    <3>1. n \in Nat
      BY <1>9
    <3>2. CASE Cut(r, n) \/ <<"init", r, n>> \in Logged
      BY <1>3, <3>2
    <3>3. CASE Owed(r, n)
      <4>1. r = p /\ next <= n
        <5>1. r # Body
          BY ProgramAssumption
        <5> QED BY <1>1, <1>13, <2>3, <3>3, <5>1 DEF Owed
      <4>2. CASE n = next
        BY <1>3, <4>1, <4>2
      <4>3. CASE n # next
        <5>1. next < n
          BY <1>8, <3>1, <4>1, <4>3
        <5> QED BY <1>6, <1>13, <3>1, <4>1, <5>1
      <4> QED BY <4>2, <4>3
    <3> QED BY <1>5, <2>4, <3>2, <3>3 DEF InitsOK
  <2>5. InitsOK'
    BY <1>1, <1>4, <1>10, <2>4 DEF InitsOK
  <2>6. MainCut
    <3>1. Len(L) \in Nat
      BY InitList
    <3>2. Len(L) + 1 \in Nat /\ next < Len(L) + 1
      BY <1>1, <1>8, <3>1
    <3>3. Cut(p, Len(L) + 1)
      BY <1>6, <1>13, <3>2
    <3> QED BY <1>13, <3>3 DEF MainCut
  <2>7. <<"main", Main, 0>> \in Logged' <=> <<"main", Main, 0>> \in Logged
    BY <1>3
  <2>8. TurnOK'
    BY <1>4, <1>5, <2>1, <2>2, <2>6, <2>7 DEF TurnOK
  <2> QED BY <2>5, <2>8 DEF RunsOK
<1> QED BY <1>6, <1>11, <1>12, <1>13

LEMMA EndCallRunsOK ==
  ASSUME IInv, PTypes, CallsOK, RunsOK, NEW p \in Packages, EndCall(p)
  PROVE  RunsOK'
<1>1. /\ UNCHANGED vars /\ UNCHANGED program /\ inits' = inits /\ log' = log
      /\ next > 0 /\ calls # <<>> /\ p = calls[1] /\ next > Len(inits[p])
      /\ calls' = Tail(calls) /\ next' = 1
  BY DEF EndCall, Runs, Current, program
<1>2. Waiting' = Waiting \ {p}
  BY <1>1, CallsShrink
<1>3. Logged' = Logged
  BY <1>1 DEF Logged
<1>4. Reached' = Reached /\ (MainCut' <=> MainCut) /\ \A r, n : Cut(r, n)' <=> Cut(r, n)
  BY <1>1, SameProgram
<1>5. InitsOK /\ TurnOK
  BY <1>1 DEF RunsOK
<1>6. ASSUME NEW r \in Packages, NEW n \in DOMAIN inits[r], Owed(r, n) PROVE Owed(r, n)'
  <2>1. Len(inits[r]) \in Nat /\ n \in 1 .. Len(inits[r])
    BY InitList
  <2>2. r # p
    BY <1>1, <1>6, <2>1 DEF Owed, PTypes
  <2> QED BY <1>1, <1>2, <1>6, <2>1, <2>2 DEF Owed
<1>7. InitsOK'
  BY <1>1, <1>3, <1>4, <1>5, <1>6 DEF InitsOK
<1>8. p = Main => ~MainCut
  <2>1. ~Cut(p, next)
    BY <1>1, <1>5, ProgramAssumption DEF TurnOK
  <2>2. ~Cut(p, Len(inits[p]) + 1)
    BY <1>1, <2>1, InitList DEF PTypes
  <2> QED BY <2>2 DEF MainCut
<1>9. TurnOK'
  BY <1>1, <1>3, <1>5, <1>8, NextTurn
<1> QED BY <1>7, <1>9 DEF RunsOK

LEMMA RunBodyRunsOK ==
  ASSUME IInv, PTypes, CallsOK, RunsOK, RunBody
  PROVE  RunsOK'
<1> DEFINE e == <<"main", Main, 0>>
<1>1. /\ UNCHANGED vars /\ UNCHANGED program /\ inits' = inits /\ next' = next /\ log' = Append(log, e)
      /\ next > 0 /\ calls # <<>> /\ calls[1] = Body /\ calls' = <<>>
  BY DEF RunBody, Runs, Current, program
<1>2. e \in Events
  BY DEF Events, Packages
<1>3. Logged' = Logged \cup {e}
  BY <1>1, <1>2, LoggedGrows
<1>4. Waiting \subseteq {Body}
  <2>1. DOMAIN calls = 1 .. Len(calls) /\ Len(calls) \in Nat \ {0}
    BY <1>1 DEF PTypes
  <2>2. Len(calls) = 1
    BY <1>1, <2>1 DEF CallsOK
  <2> QED BY <1>1, <2>1, <2>2 DEF Waiting
<1>5. Reached' = Reached /\ (MainCut' <=> MainCut) /\ \A r, n : Cut(r, n)' <=> Cut(r, n)
  BY <1>1, SameProgram
<1>6. InitsOK /\ TurnOK
  BY <1>1 DEF RunsOK
<1>7. \A r, n : <<"init", r, n>> \in Logged' <=> <<"init", r, n>> \in Logged
  BY <1>3
<1>8. \A r \in Packages : \A n : ~Owed(r, n)
  BY <1>4, ProgramAssumption DEF Owed
<1>9. InitsOK'
  BY <1>1, <1>5, <1>6, <1>7, <1>8 DEF InitsOK
<1>10. TurnOK'
  <2>1. Waiting' = {} /\ DOMAIN calls' = {}
    BY <1>1 DEF Waiting
  <2>2. ~MainCut
    BY <1>1, <1>6 DEF TurnOK
  <2> QED BY <1>1, <1>3, <1>5, <2>1, <2>2 DEF TurnOK
<1> QED BY <1>9, <1>10 DEF RunsOK

\* For every program: the init functions that run are exactly those of the
\* packages the program reaches that no return of the same package cuts off,
\* and main's statements run unless one of main's own init functions returns.
THEOREM AllInitsRunAlways == PSpec => []AllInitsRun
<1>1. PInit => RunsOK
  BY DEF PInit, RunsOK
<1>2. ASSUME IInv /\ DependenciesFirst /\ PInv, RunsOK, [PNext]_allVars PROVE RunsOK'
  <2>0. PTypes /\ CallsOK
    BY <1>2 DEF PInv
  <2>1. CASE Resolve
    BY <2>1 DEF Resolve, initVars, RunsOK
  <2>2. CASE Compile
    BY <1>2, <2>0, <2>2, CompileRunsOK
  <2>3. CASE RunBody
    BY <1>2, <2>0, <2>3, RunBodyRunsOK
  <2>4. ASSUME NEW p \in Packages, RunInit(p) PROVE RunsOK'
    BY <1>2, <2>0, <2>4, RunInitRunsOK
  <2>5. ASSUME NEW p \in Packages, EndCall(p) PROVE RunsOK'
    BY <1>2, <2>0, <2>5, EndCallRunsOK
  <2>6. ASSUME NEW p \in Packages, NEW q \in Packages, InitVar(p, q) PROVE RunsOK'
    BY <1>2, <2>0, <2>6, InitVarRunsOK
  <2>7. CASE UNCHANGED allVars
    <3>1. UNCHANGED vars /\ UNCHANGED <<program, inits, calls, next, log>>
      BY <2>7 DEF allVars, initVars, program
    <3>2. Reached' = Reached /\ (MainCut' <=> MainCut) /\ \A r, n : Cut(r, n)' <=> Cut(r, n)
      BY <3>1, SameProgram
    <3>3. Waiting' = Waiting /\ Logged' = Logged /\ \A r, n : Owed(r, n)' <=> Owed(r, n)
      BY <3>1 DEF Waiting, Logged, Owed
    <3>4. Cut(calls[1], next)' <=> Cut(calls[1], next)
      BY <3>1 DEF Cut
    <3>5. InitsOK => InitsOK'
      BY <3>1, <3>2, <3>3 DEF InitsOK
    <3>6. TurnOK => TurnOK'
      BY <3>1, <3>2, <3>3, <3>4 DEF TurnOK
    <3> QED BY <1>2, <3>1, <3>5, <3>6 DEF RunsOK
  <2> QED BY <1>2, <2>1, <2>2, <2>3, <2>4, <2>5, <2>6, <2>7 DEF PNext
<1>3. ASSUME RunsOK PROVE AllInitsRun
  <2>1. Ended => Waiting = {}
    BY DEF Ended, Waiting
  <2> SUFFICES ASSUME Ended PROVE AllInitsRun
    BY DEF AllInitsRun
  <2>2. InitsOK /\ TurnOK
    BY <1>3 DEF RunsOK, Ended
  <2>3. \A p \in Packages : \A n \in DOMAIN inits[p] :
          <<"init", p, n>> \in Logged <=> p \in Reached /\ ~Cut(p, n)
    BY <2>1, <2>2 DEF InitsOK, Owed
  <2>4. <<"main", Main, 0>> \in Logged <=> ~Cut(Main, Len(inits[Main]) + 1)
    BY <2>1, <2>2 DEF TurnOK, MainCut
  <2> QED BY <2>3, <2>4 DEF AllInitsRun
<1> QED BY <1>1, <1>2, <1>3, PInvAlways, PTL DEF PSpec

-----------------------------------------------------------------------------
(***************************************************************************)
(* The parser's other input: the comments it takes from the scanner.       *)
(***************************************************************************)
LEMMA Associative ==
  ASSUME NEW X
  PROVE  \A a, b, c \in Seq(X) : (a \o b) \o c = a \o (b \o c)
BY ConcatAssociative

\* The recursive function in FlattenSeq.
IsFlat(s, f) == f = [i \in 1 .. Len(s) |-> IF i = 1 THEN s[i] ELSE f[i - 1] \o s[i]]

\* It exists, whatever is flattened.
LEMMA FlatExists ==
  ASSUME NEW X, NEW s \in Seq(Seq(X)), s # <<>>
  PROVE  \E f : IsFlat(s, f) /\ FlattenSeq(s) = f[Len(s)]
<1> DEFINE Has(k) == \E f : f = [i \in 1 .. k |-> IF i = 1 THEN s[i] ELSE f[i - 1] \o s[i]]
           T == {k \in 1 .. Len(s) : ~Has(k)}
<1>1. Len(s) \in Nat \ {0}
  BY EmptySeq
<1>2. T = {}
  <2> SUFFICES ASSUME T # {} PROVE FALSE
    OBVIOUS
  <2>1. PICK k \in T : \A j \in T : k <= j
    <3> HIDE DEF Has
    <3>1. T \in SUBSET Nat
      BY <1>1
    <3> HIDE DEF T
    <3> QED BY <3>1, Least
  <2>2. CASE k = 1
    <3> DEFINE f == [i \in 1 .. 1 |-> s[i]]
    <3>1. f = [i \in 1 .. 1 |-> IF i = 1 THEN s[i] ELSE f[i - 1] \o s[i]]
      OBVIOUS
    <3> QED BY <2>1, <2>2, <3>1
  <2>3. CASE k # 1
    <3>1. k - 1 \in 1 .. Len(s) /\ ~(k <= k - 1) /\ k \in Nat
      BY <1>1, <2>3
    <3>2. PICK f : f = [i \in 1 .. k - 1 |-> IF i = 1 THEN s[i] ELSE f[i - 1] \o s[i]]
      BY <2>1, <3>1
    <3>3. \A i \in 1 .. k - 1 : f[i] = IF i = 1 THEN s[i] ELSE f[i - 1] \o s[i]
      BY <3>2, Zenon
    <3> DEFINE last == f[k - 1] \o s[k]
               g == [i \in 1 .. k |-> IF i < k THEN f[i] ELSE last]
    <3>4. \A i \in 1 .. k : g[i] = IF i < k THEN f[i] ELSE last
      OBVIOUS
    <3>5. ASSUME NEW i \in 1 .. k PROVE g[i] = IF i = 1 THEN s[i] ELSE g[i - 1] \o s[i]
      <4> HIDE DEF g
      <4>1. CASE i = 1
        BY <2>3, <3>1, <3>3, <3>4, <4>1
      <4>2. CASE i # 1 /\ i < k
        <5>1. i \in 1 .. k - 1 /\ i - 1 \in 1 .. k /\ i - 1 < k
          BY <3>1, <4>2
        <5>2. g[i] = f[i] /\ g[i - 1] = f[i - 1]
          BY <3>4, <4>2, <5>1
        <5> QED BY <3>3, <4>2, <5>1, <5>2
      <4>3. CASE i # 1 /\ ~(i < k)
        <5>1. i = k /\ k \in 1 .. k /\ ~(k < k) /\ k - 1 \in 1 .. k /\ k - 1 < k
          BY <3>1, <4>3
        <5>2. g[k] = last /\ g[k - 1] = f[k - 1]
          BY <3>4, <5>1
        <5> QED BY <2>3, <5>1, <5>2
      <4> QED BY <4>1, <4>2, <4>3
    <3>6. g = [i \in 1 .. k |-> IF i = 1 THEN s[i] ELSE g[i - 1] \o s[i]]
      BY <3>5, Zenon
    <3> HIDE DEF g
    <3> QED BY <2>1, <3>6
  <2> QED BY <2>2, <2>3
<1>3. \E f : IsFlat(s, f)
  <2>1. Len(s) \in 1 .. Len(s)
    BY <1>1
  <2>2. Has(Len(s))
    BY <1>2, <2>1
  <2> QED BY <2>2 DEF IsFlat
<1> DEFINE f == CHOOSE f : IsFlat(s, f)
<1>4. FlattenSeq(s) = f[Len(s)]
  BY <1>1, Zenon DEF FlattenSeq, IsFlat
<1> QED BY <1>3, <1>4

\* Two sequences of sequences that begin alike do so flattened.
LEMMA FlatAlike ==
  ASSUME NEW s, NEW t, NEW f, NEW g, IsFlat(s, f), IsFlat(t, g), NEW n \in Nat,
         Len(s) \in Nat, Len(t) \in Nat, n <= Len(s), n <= Len(t),
         \A i \in 1 .. n : s[i] = t[i]
  PROVE  \A i \in 1 .. n : f[i] = g[i]
<1> DEFINE T == {i \in 1 .. n : f[i] # g[i]}
<1>1. \A i \in 1 .. n : /\ f[i] = IF i = 1 THEN s[i] ELSE f[i - 1] \o s[i]
                        /\ g[i] = IF i = 1 THEN t[i] ELSE g[i - 1] \o t[i]
  <2>1. \A i \in 1 .. Len(s) : f[i] = IF i = 1 THEN s[i] ELSE f[i - 1] \o s[i]
    BY Zenon DEF IsFlat
  <2>2. \A i \in 1 .. Len(t) : g[i] = IF i = 1 THEN t[i] ELSE g[i - 1] \o t[i]
    BY Zenon DEF IsFlat
  <2>3. \A i \in 1 .. n : i \in 1 .. Len(s) /\ i \in 1 .. Len(t)
    OBVIOUS
  <2> QED BY <2>1, <2>2, <2>3, Zenon
<1> SUFFICES ASSUME T # {} PROVE FALSE
  OBVIOUS
<1>2. PICK k \in T : \A j \in T : k <= j
  <2>1. T \in SUBSET Nat
    OBVIOUS
  <2> HIDE DEF T
  <2> QED BY <2>1, Least
<1>3. CASE k = 1
  BY <1>1, <1>2, <1>3
<1>4. CASE k # 1
  <2>1. k - 1 \in 1 .. n /\ ~(k <= k - 1)
    BY <1>4
  <2>2. f[k - 1] = g[k - 1]
    BY <1>2, <2>1
  <2> QED BY <1>1, <1>2, <1>4, <2>2
<1> QED BY <1>3, <1>4

LEMMA FlattenOne ==
  ASSUME NEW X, NEW g \in Seq(X)
  PROVE  FlattenSeq(<<>>) = <<>> /\ FlattenSeq(<<g>>) = g
<1>1. FlattenSeq(<<>>) = <<>>
  BY DEF FlattenSeq
<1>2. <<g>> \in Seq(Seq(X)) /\ <<g>> # <<>> /\ Len(<<g>>) = 1
  OBVIOUS
<1>3. PICK f : IsFlat(<<g>>, f) /\ FlattenSeq(<<g>>) = f[1]
  BY <1>2, FlatExists
<1>4. \A i \in 1 .. 1 : f[i] = IF i = 1 THEN <<g>>[i] ELSE f[i - 1] \o <<g>>[i]
  BY <1>2, <1>3, Zenon DEF IsFlat
<1> QED BY <1>1, <1>3, <1>4

\* One more group is one more at the end.
LEMMA FlattenAppend ==
  ASSUME NEW X, NEW s \in Seq(Seq(X)), NEW g \in Seq(X)
  PROVE  FlattenSeq(Append(s, g)) = FlattenSeq(s) \o g
<1>1. CASE s = <<>>
  <2>1. Append(s, g) = <<g>> /\ <<>> \o g = g
    BY <1>1, ConcatEmptySeq
  <2> QED BY <1>1, <2>1, FlattenOne
<1>2. CASE s # <<>>
  <2> DEFINE t == Append(s, g)
             n == Len(s)
  <2>1. /\ n \in Nat \ {0} /\ t \in Seq(Seq(X)) /\ t # <<>> /\ Len(t) = n + 1
        /\ \A i \in 1 .. n : t[i] = s[i]
        /\ t[n + 1] = g
    BY <1>2, EmptySeq, AppendProperties
  <2>2. PICK f : IsFlat(s, f) /\ FlattenSeq(s) = f[n]
    BY <1>2, FlatExists
  <2> HIDE DEF t
  <2>3. PICK h : IsFlat(t, h) /\ FlattenSeq(t) = h[n + 1]
    BY <2>1, FlatExists
  <2> HIDE DEF n
  <2>4. n \in 1 .. n /\ n + 1 \in 1 .. n + 1 /\ n + 1 # 1 /\ n + 1 - 1 = n
    BY <2>1
  <2>5. f[n] = h[n]
    <3>1. \A i \in 1 .. n : f[i] = h[i]
      <4>1. n <= Len(s) /\ n <= Len(t) /\ Len(s) \in Nat /\ Len(t) \in Nat /\ n \in Nat
        BY <2>1 DEF n
      <4>2. IsFlat(s, f) /\ IsFlat(t, h) /\ \A i \in 1 .. n : s[i] = t[i]
        BY <2>1, <2>2, <2>3
      <4> HIDE DEF n
      <4> QED BY <4>1, <4>2, FlatAlike
    <3> QED BY <2>4, <3>1
  <2>6. \A i \in 1 .. n + 1 : h[i] = IF i = 1 THEN t[i] ELSE h[i - 1] \o t[i]
    BY <2>1, <2>3, Zenon DEF IsFlat
  <2>7. h[n + 1] = h[n] \o g
    <3> DEFINE k == n + 1
    <3>1. k \in 1 .. n + 1 /\ k # 1 /\ k - 1 = n
      BY <2>4
    <3> HIDE DEF k
    <3>2. h[k] = h[k - 1] \o t[k]
      BY <2>6, <3>1
    <3> QED BY <2>1, <3>1, <3>2 DEF k
  <2> QED BY <2>2, <2>3, <2>5, <2>7 DEF t
<1> QED BY <1>1, <1>2

\* What holds of all sequences of length n.
FlattenTyped(X, n) ==
  \A u \in Seq(Seq(X)) : Len(u) = n => FlattenSeq(u) \in Seq(X)

LEMMA FlattenType ==
  ASSUME NEW X, NEW s \in Seq(Seq(X))
  PROVE  FlattenSeq(s) \in Seq(X)
<1> DEFINE T == {n \in Nat : ~FlattenTyped(X, n)}
<1>1. T = {}
  <2> SUFFICES ASSUME T # {} PROVE FALSE
    OBVIOUS
  <2>1. PICK n \in T : \A j \in T : n <= j
    <3>1. T \in SUBSET Nat
      OBVIOUS
    <3> HIDE DEF T
    <3> QED BY <3>1, Least
  <2>2. PICK t \in Seq(Seq(X)) : Len(t) = n /\ FlattenSeq(t) \notin Seq(X)
    BY <2>1 DEF FlattenTyped
  <2>3. t # <<>>
    BY <2>2, EmptySeq, FlattenOne
  <2>4. PICK u \in Seq(Seq(X)), g \in Seq(X) : t = Append(u, g)
    BY <2>3, SequenceEmptyOrAppend
  <2>5. Len(u) \in Nat /\ n = Len(u) + 1
    BY <2>2, <2>4, AppendProperties
  <2>6. FlattenTyped(X, Len(u))
    BY <2>1, <2>5
  <2>7. FlattenSeq(u) \in Seq(X)
    BY <2>6 DEF FlattenTyped
  <2>8. FlattenSeq(t) = FlattenSeq(u) \o g
    BY <2>4, FlattenAppend
  <2> QED BY <2>2, <2>7, <2>8, ConcatProperties
<1>2. FlattenTyped(X, Len(s))
  BY <1>1
<1> QED BY <1>2 DEF FlattenTyped

FlattenSplits(X, s, n) ==
  \A u \in Seq(Seq(X)) :
    Len(u) = n => FlattenSeq(s \o u) = FlattenSeq(s) \o FlattenSeq(u)

LEMMA FlattenConcat ==
  ASSUME NEW X, NEW s \in Seq(Seq(X)), NEW t \in Seq(Seq(X))
  PROVE  FlattenSeq(s \o t) = FlattenSeq(s) \o FlattenSeq(t)
<1> DEFINE T == {n \in Nat : ~FlattenSplits(X, s, n)}
<1>1. T = {}
  <2> SUFFICES ASSUME T # {} PROVE FALSE
    OBVIOUS
  <2>1. PICK n \in T : \A j \in T : n <= j
    <3>1. T \in SUBSET Nat
      OBVIOUS
    <3> HIDE DEF T
    <3> QED BY <3>1, Least
  <2>2. PICK u \in Seq(Seq(X)) :
          /\ Len(u) = n
          /\ FlattenSeq(s \o u) # FlattenSeq(s) \o FlattenSeq(u)
    BY <2>1 DEF FlattenSplits
  <2>3. FlattenSeq(s) \in Seq(X)
    BY FlattenType
  <2>4. u # <<>>
    BY <2>2, <2>3, ConcatEmptySeq, FlattenOne
  <2>5. PICK v \in Seq(Seq(X)), g \in Seq(X) : u = Append(v, g)
    BY <2>4, SequenceEmptyOrAppend
  <2>6. Len(v) \in Nat /\ n = Len(v) + 1
    BY <2>2, <2>5, AppendProperties
  <2>7. FlattenSplits(X, s, Len(v))
    BY <2>1, <2>6
  <2>8. FlattenSeq(s \o v) = FlattenSeq(s) \o FlattenSeq(v)
    BY <2>7 DEF FlattenSplits
  <2>9. s \o v \in Seq(Seq(X)) /\ s \o u = Append(s \o v, g)
    <3>1. s \o v \in Seq(Seq(X)) /\ u = v \o <<g>> /\ <<g>> \in Seq(Seq(X))
      BY <2>5, ConcatProperties, AppendIsConcat
    <3>2. s \o (v \o <<g>>) = (s \o v) \o <<g>>
      BY <3>1, ConcatAssociative
    <3>3. Append(s \o v, g) = (s \o v) \o <<g>>
      BY <3>1, AppendIsConcat
    <3> QED BY <3>1, <3>2, <3>3
  <2>10. /\ FlattenSeq(s \o u) = FlattenSeq(s \o v) \o g
         /\ FlattenSeq(u) = FlattenSeq(v) \o g
    BY <2>5, <2>9, FlattenAppend
  <2>11. FlattenSeq(v) \in Seq(X)
    BY FlattenType
  <2>12. (FlattenSeq(s) \o FlattenSeq(v)) \o g
            = FlattenSeq(s) \o (FlattenSeq(v) \o g)
    <3> DEFINE a == FlattenSeq(s)
               b == FlattenSeq(v)
    <3>1. a \in Seq(X) /\ b \in Seq(X) /\ g \in Seq(X)
      BY <2>3, <2>11
    <3> HIDE DEF a, b, T
    <3>2. (a \o b) \o g = a \o (b \o g)
      BY <3>1, Associative
    <3> QED BY <3>2 DEF a, b
  <2> QED BY <2>2, <2>8, <2>10, <2>12
<1>2. FlattenSplits(X, s, Len(t))
  BY <1>1
<1> QED BY <1>2 DEF FlattenSplits

-----------------------------------------------------------------------------
(* The groups of the comments that are set aside.                          *)

\* A group ends with one of the comments.
LEMMA GroupEnds ==
  ASSUME Len(comments) \in Nat, NEW k \in 1 .. Len(comments), NEW n
  PROVE  GroupEnd(k, n) \in k .. Len(comments)
<1> DEFINE L == Len(comments)
           S == {j \in k .. L : \A i \in k .. j - 1 :
                   Cardinality(Newlines(comments[i].to, comments[i + 1].from)) <= n}
           R == {L - j : j \in S}
<1>1. k \in S
  OBVIOUS
<1>2. S \subseteq k .. L
  OBVIOUS
<1>3. GroupEnd(k, n) = Max(S)
  BY DEF GroupEnd
<1> HIDE DEF S
<1>4. PICK m \in S : \A j \in S : m >= j
  <2>1. R \in SUBSET Nat /\ R # {}
    BY <1>1, <1>2
  <2>2. PICK r \in R : \A q \in R : r <= q
    <3> HIDE DEF R
    <3> QED BY <2>1, Least
  <2>3. PICK m \in S : r = L - m
    OBVIOUS
  <2>4. ASSUME NEW j \in S PROVE m >= j
    <3>1. L - m <= L - j
      BY <2>2, <2>3
    <3> QED BY <1>2, <3>1
  <2> QED BY <2>4
<1>5. Max(S) \in S
  BY <1>4 DEF Max
<1> QED BY <1>2, <1>3, <1>5

GroupsFrom(k, f) ==
  IF k > Len(comments) THEN <<>>
  ELSE <<SubSeq(comments, k, GroupEnd(k, 1))>> \o f[GroupEnd(k, 1) + 1]
IsGroups(i, f) == f = [k \in i .. Len(comments) + 1 |-> GroupsFrom(k, f)]
HasGroups(i) == \E f : IsGroups(i, f)

\* The recursive function in Groups exists.
LEMMA GroupsExist ==
  ASSUME Len(comments) \in Nat, NEW i \in 1 .. Len(comments) + 1
  PROVE  HasGroups(i)
<1> DEFINE L == Len(comments)
           T == {n \in 0 .. L : ~HasGroups(L + 1 - n)}
<1>1. T = {}
  <2> SUFFICES ASSUME T # {} PROVE FALSE
    OBVIOUS
  <2>1. PICK n \in T : \A j \in T : n <= j
    <3>1. T \in SUBSET Nat
      OBVIOUS
    <3> HIDE DEF T
    <3> QED BY <3>1, Least
  <2>2. n \in 0 .. L /\ ~HasGroups(L + 1 - n)
    BY <2>1
  <2> DEFINE m == L + 1 - n
  <2>3. CASE n = 0
    <3> DEFINE f == [k \in m .. L + 1 |-> <<>>]
    <3>1. ASSUME NEW k \in m .. L + 1 PROVE f[k] = GroupsFrom(k, f)
      BY <2>3, <3>1 DEF GroupsFrom
    <3>2. f = [k \in m .. L + 1 |-> GroupsFrom(k, f)]
      BY <3>1, Zenon
    <3> QED BY <2>2, <3>2 DEF HasGroups, IsGroups
  <2>4. CASE n # 0
    <3>1. n - 1 \in 0 .. L /\ ~(n <= n - 1) /\ m \in 1 .. L /\ L + 1 - (n - 1) = m + 1
      BY <2>2, <2>4
    <3>2. HasGroups(m + 1)
      BY <2>1, <3>1
    <3>3. PICK g : g = [k \in m + 1 .. L + 1 |-> GroupsFrom(k, g)]
      BY <3>2 DEF HasGroups, IsGroups
    <3>4. \A k \in m + 1 .. L + 1 : g[k] = GroupsFrom(k, g)
      BY <3>3, Zenon
    <3> DEFINE f == [k \in m .. L + 1 |-> IF k = m THEN GroupsFrom(m, g) ELSE g[k]]
    <3>5. \A k \in m .. L + 1 : f[k] = IF k = m THEN GroupsFrom(m, g) ELSE g[k]
      OBVIOUS
    <3> HIDE DEF f, m
    <3>6. ASSUME NEW k \in m .. L + 1 PROVE f[k] = GroupsFrom(k, f)
      <4>1. CASE k <= L
        <5>1. k \in 1 .. L
          BY <3>1, <4>1
        <5>2. GroupEnd(k, 1) \in k .. L
          BY <5>1, GroupEnds
        <5> DEFINE e == GroupEnd(k, 1) + 1
        <5>3. e \in m .. L + 1 /\ e # m
          BY <3>1, <5>1, <5>2
        <5>4. f[e] = g[e]
          BY <3>5, <5>3
        <5>5. GroupsFrom(k, f) = GroupsFrom(k, g)
          BY <5>4 DEF GroupsFrom
        <5>6. f[k] = GroupsFrom(k, g)
          <6>1. CASE k = m
            BY <3>5, <6>1
          <6>2. CASE k # m
            <7>1. k \in m + 1 .. L + 1
              BY <3>1, <6>2
            <7> QED BY <3>4, <3>5, <6>2, <7>1
          <6> QED BY <6>1, <6>2
        <5> QED BY <5>5, <5>6
      <4>2. CASE ~(k <= L)
        <5>1. k # m /\ k \in m + 1 .. L + 1 /\ k > L
          BY <3>1, <4>2
        <5>2. f[k] = g[k] /\ g[k] = GroupsFrom(k, g)
          BY <3>4, <3>5, <5>1
        <5> QED BY <5>1, <5>2 DEF GroupsFrom
      <4> QED BY <4>1, <4>2
    <3>7. f = [k \in m .. L + 1 |-> GroupsFrom(k, f)]
      <4>1. f = [k \in m .. L + 1 |-> f[k]]
        BY DEF f
      <4> QED BY <3>6, <4>1, Zenon
    <3> QED BY <2>2, <3>7 DEF HasGroups, IsGroups, m
  <2> QED BY <2>3, <2>4
<1> DEFINE n == L + 1 - i
<1>2. n \in 0 .. L /\ L + 1 - n = i
  OBVIOUS
<1> QED BY <1>1, <1>2

\* All comments from the k-th on, in their order.
Grouped(X, gs, k) ==
  /\ gs \in Seq(Seq(X))
  /\ FlattenSeq(gs) = SubSeq(comments, k, Len(comments))

LEMMA GroupsHoldAll ==
  ASSUME NEW X, comments \in Seq(X), NEW i \in 1 .. Len(comments) + 1
  PROVE  Grouped(X, Groups(i), i)
<1> DEFINE L == Len(comments)
<1>1. L \in Nat
  BY LenProperties
<1>2. PICK f : IsGroups(i, f) /\ Groups(i) = f[i]
  <2>1. \E f : IsGroups(i, f)
    BY <1>1, GroupsExist DEF HasGroups
  <2>2. Groups(i) = (CHOOSE f : IsGroups(i, f))[i]
    BY Zenon DEF Groups, IsGroups, GroupsFrom
  <2> QED BY <2>1, <2>2
<1>3. \A k \in i .. L + 1 : f[k] = GroupsFrom(k, f)
  BY <1>2, Zenon DEF IsGroups
<1> DEFINE T == {n \in 0 .. L + 1 - i : ~Grouped(X, f[L + 1 - n], L + 1 - n)}
<1>4. T = {}
  <2> SUFFICES ASSUME T # {} PROVE FALSE
    OBVIOUS
  <2>1. PICK n \in T : \A j \in T : n <= j
    <3>1. T \in SUBSET Nat
      OBVIOUS
    <3> HIDE DEF T
    <3> QED BY <3>1, Least
  <2> DEFINE k == L + 1 - n
  <2>2. n \in 0 .. L + 1 - i /\ ~Grouped(X, f[k], k) /\ k \in i .. L + 1
    BY <1>1, <2>1
  <2>3. f[k] = GroupsFrom(k, f)
    BY <1>3, <2>2
  <2>4. CASE k > L
    <3>1. f[k] = <<>>
      BY <2>3, <2>4 DEF GroupsFrom
    <3>2. SubSeq(comments, k, L) = <<>>
      BY <1>1, <2>2, <2>4, SubSeqEmpty
    <3>3. FlattenSeq(<<>>) = <<>>
      BY DEF FlattenSeq
    <3>4. <<>> \in Seq(Seq(X))
      BY EmptySeq
    <3> HIDE DEF k
    <3> QED BY <2>2, <3>1, <3>2, <3>3, <3>4 DEF Grouped
  <2>5. CASE k <= L
    <3> DEFINE e == GroupEnd(k, 1)
               rest == f[e + 1]
               group == SubSeq(comments, k, e)
    <3>1. k \in 1 .. L /\ e \in k .. L
      BY <1>1, <2>2, <2>5, GroupEnds
    <3> HIDE DEF e
    <3>2. Grouped(X, rest, e + 1)
      <4> DEFINE j == L - e
      <4>1. j \in 0 .. L + 1 - i /\ ~(n <= j) /\ L + 1 - j = e + 1
        BY <1>1, <2>2, <3>1
      <4> HIDE DEF k
      <4>2. Grouped(X, f[L + 1 - j], L + 1 - j)
        BY <2>1, <4>1
      <4> QED BY <4>1, <4>2
    <3>3. group \in Seq(X)
      <4>1. \A x \in k .. e : comments[x] \in X
        BY <1>1, <3>1, ElementOfSeq
      <4> QED BY <3>1, <4>1, SubSeqProperties
    <3>4. <<group>> \in Seq(Seq(X)) /\ rest \in Seq(Seq(X))
      BY <3>2, <3>3 DEF Grouped
    <3>5. f[k] = <<group>> \o rest
      BY <2>3, <2>5, <3>1 DEF GroupsFrom, e
    <3>6. FlattenSeq(f[k]) = group \o SubSeq(comments, e + 1, L)
      <4>1. FlattenSeq(<<group>>) = group
        BY <3>3, FlattenOne
      <4>2. FlattenSeq(<<group>> \o rest)
              = FlattenSeq(<<group>>) \o FlattenSeq(rest)
        BY <3>4, FlattenConcat
      <4> QED BY <3>2, <3>5, <4>1, <4>2 DEF Grouped
    <3>7. group \o SubSeq(comments, e + 1, L) = SubSeq(comments, k, L)
      <4>1. k \in 1 .. L + 1 /\ e \in k - 1 .. L /\ L \in e .. L
        BY <1>1, <3>1
      <4> HIDE DEF k
      <4> QED BY <4>1, ConcatAdjacentSubSeq
    <3>8. f[k] \in Seq(Seq(X))
      BY <3>4, <3>5, ConcatProperties
    <3> QED BY <2>2, <3>6, <3>7, <3>8 DEF Grouped
  <2> QED BY <1>1, <2>2, <2>4, <2>5
<1> DEFINE n == L + 1 - i
<1>5. n \in 0 .. L + 1 - i /\ L + 1 - n = i
  BY <1>1
<1>6. Grouped(X, f[i], i)
  <2> HIDE DEF L
  <2> QED BY <1>4, <1>5
<1> QED BY <1>2, <1>6

-----------------------------------------------------------------------------
(* Every comment is kept.                                                  *)

Places(its) == {i \in DOMAIN its : its[i].tok = "COMMENT"}
Upto(S, i) == {j \in S : j <= i}

\* kept are the comments among the items its, in their order.
Keeps(its, kept) ==
  /\ Len(kept) = Cardinality(Places(its))
  /\ \A i \in Places(its) : kept[Cardinality(Upto(Places(its), i))] = its[i]

LEMMA CommentsKeptIs == Keeps(items, Kept) => CommentsKept
BY Zenon DEF CommentsKept, CommentPlaces, Keeps, Places, Upto

LEMMA PlacesFinite ==
  ASSUME NEW X, NEW its \in Seq(X)
  PROVE  /\ Places(its) \subseteq 1 .. Len(its)
         /\ IsFiniteSet(Places(its))
         /\ Cardinality(Places(its)) \in Nat
         /\ \A i \in Places(its) :
              Cardinality(Upto(Places(its), i)) \in 1 .. Cardinality(Places(its))
<1>1. Len(its) \in Nat /\ DOMAIN its = 1 .. Len(its)
  BY LenProperties
<1>2. Places(its) \subseteq 1 .. Len(its)
  BY <1>1 DEF Places
<1>3. IsFiniteSet(Places(its)) /\ Cardinality(Places(its)) \in Nat
  <2>1. IsFiniteSet(1 .. Len(its))
    BY <1>1, FS_Interval
  <2>2. IsFiniteSet(Places(its))
    BY <1>2, <2>1, FS_Subset
  <2> QED BY <2>2, FS_CardinalityType
<1>4. ASSUME NEW i \in Places(its)
      PROVE  Cardinality(Upto(Places(its), i)) \in 1 .. Cardinality(Places(its))
  <2> DEFINE U == Upto(Places(its), i)
  <2>1. U \in SUBSET Places(its) /\ i \in U
    BY <1>1, <1>2 DEF Upto
  <2> HIDE DEF U
  <2>2. IsFiniteSet(U) /\ Cardinality(U) <= Cardinality(Places(its)) /\ Cardinality(U) \in Nat
    BY <1>3, <2>1, FS_Subset, FS_CardinalityType
  <2>3. Cardinality(U) # 0
    BY <2>1, <2>2, FS_EmptySet
  <2> QED BY <1>3, <2>2, <2>3 DEF U
<1> QED BY <1>2, <1>3, <1>4

\* The scanner returns an item that is no comment.
LEMMA KeepsSkipped ==
  ASSUME NEW X, NEW its \in Seq(X), NEW x \in X, x.tok # "COMMENT", NEW kept, Keeps(its, kept)
  PROVE  Keeps(Append(its, x), kept)
<1> DEFINE new == Append(its, x)
           n == Len(its)
<1>1. /\ n \in Nat /\ DOMAIN its = 1 .. n /\ DOMAIN new = 1 .. n + 1
      /\ \A i \in 1 .. n : new[i] = its[i]
      /\ new[n + 1] = x
  BY LenProperties, AppendProperties
<1> HIDE DEF new, n
<1>2. Places(new) = Places(its)
  BY <1>1 DEF Places
<1>3. \A i \in Places(its) : new[i] = its[i]
  BY <1>1 DEF Places
<1>4. Keeps(new, kept)
  BY <1>2, <1>3, Zenon DEF Keeps
<1> QED BY <1>4 DEF new

\* It returns a comment, which is set aside.
LEMMA KeepsTaken ==
  ASSUME NEW X, NEW its \in Seq(X), NEW x \in X, x.tok = "COMMENT",
         NEW kept \in Seq(X), Keeps(its, kept)
  PROVE  Keeps(Append(its, x), Append(kept, x))
<1> DEFINE new == Append(its, x)
           more == Append(kept, x)
           n == Len(its)
           P == Places(its)
           Q == Places(new)
           c == Cardinality(P)
<1>1. /\ n \in Nat /\ DOMAIN its = 1 .. n /\ DOMAIN new = 1 .. n + 1
      /\ \A i \in 1 .. n : new[i] = its[i]
      /\ new[n + 1] = x
  BY LenProperties, AppendProperties
<1>2. /\ P \subseteq 1 .. n /\ IsFiniteSet(P) /\ c \in Nat
      /\ \A i \in P : Cardinality(Upto(P, i)) \in 1 .. c
  BY PlacesFinite
<1>3. /\ Len(kept) = c /\ \A i \in P : kept[Cardinality(Upto(P, i))] = its[i]
  BY DEF Keeps
<1>4. /\ Len(more) = c + 1 /\ more[c + 1] = x
      /\ \A i \in 1 .. c : more[i] = kept[i]
  BY <1>3, AppendProperties
<1>5. Q = P \cup {n + 1}
  <2> HIDE DEF new, n
  <2> QED BY <1>1 DEF Places
<1> HIDE DEF new, n, P, Q, c, more
<1>6. Cardinality(Q) = c + 1
  <2>1. n + 1 \notin P
    BY <1>1, <1>2
  <2> QED BY <1>2, <1>5, <2>1, FS_AddElement DEF c
<1>7. ASSUME NEW i \in Q PROVE more[Cardinality(Upto(Q, i))] = new[i]
  <2>1. CASE i \in P
    <3>1. Upto(Q, i) = Upto(P, i)
      BY <1>1, <1>2, <1>5, <2>1 DEF Upto
    <3>2. new[i] = its[i]
      BY <1>1, <1>2, <2>1
    <3> QED BY <1>2, <1>3, <1>4, <2>1, <3>1, <3>2
  <2>2. CASE i = n + 1
    <3>1. Upto(Q, i) = Q
      <4>1. \A j \in Q : j <= i
        BY <1>1, <1>2, <1>5, <2>2
      <4> QED BY <4>1 DEF Upto
    <3> QED BY <1>1, <1>4, <1>6, <2>2, <3>1
  <2> QED BY <1>5, <2>1, <2>2
<1>8. Keeps(new, more)
  BY <1>4, <1>6, <1>7 DEF Keeps, Q
<1> QED BY <1>8 DEF new, more

-----------------------------------------------------------------------------
LEMMA ScanReturns == Scan => \E x : items' = Append(items, x)
BY DEF Scan, PendingSemicolon, InsertSemicolon, EndOfFile,
       Word, Operator, QuotedString, LineComment,
       GeneralComment, Slash, IllegalCharacter, Return,
       Error

\* After an error the scanner is asked for nothing more.
LEMMA ErrorEnds ==
  ASSUME NEW X, items \in Seq(X), NEW x \in X, items' = Append(items, x), x.tok = "error", Scan
  PROVE  done' = TRUE
<1>1. \E y : items' = Append(items, y) /\ (y.tok = "error" => done' = TRUE)
  <2>1. ASSUME NEW tok, NEW start, NEW end, Return(tok, start, end), tok # "error"
        PROVE  \E y : items' = Append(items, y) /\ y.tok # "error"
    BY <2>1 DEF Return, Item
  <2>2. ASSUME NEW start, Error(start)  PROVE done' = TRUE /\ \E y : items' = Append(items, y)
    BY <2>2 DEF Error
  <2>3. CASE PendingSemicolon
    BY <2>3 DEF PendingSemicolon, Item
  <2>4. CASE InsertSemicolon \/ EndOfFile \/ Word \/ Operator \/ Slash
    BY <2>1, <2>4 DEF InsertSemicolon, EndOfFile, Word, Operator, Slash
  <2>5. CASE QuotedString
    BY <2>1, <2>2, <2>5 DEF QuotedString
  <2>6. ASSUME NEW from, NEW to, NEW place, NEW hide,
               items' = Append(items, Item("COMMENT", from, to, place, hide))
        PROVE  \E y : items' = Append(items, y) /\ y.tok # "error"
    BY <2>6 DEF Item
  <2>7. CASE LineComment \/ GeneralComment
    <3>1. \/ \E start : Error(start)
          \/ \E start, end : Return("COMMENT", start, end)
          \/ \E from, to, place, hide :
               items' = Append(items, Item("COMMENT", from, to, place, hide))
      BY <2>7, Zenon DEF LineComment, GeneralComment
    <3> QED BY <2>1, <2>2, <2>6, <3>1
  <2>8. CASE IllegalCharacter
    BY <2>2, <2>8 DEF IllegalCharacter
  <2> QED BY <2>3, <2>4, <2>5, <2>7, <2>8 DEF Scan
<1>2. PICK y : items' = Append(items, y) /\ (y.tok = "error" => done' = TRUE)
  BY <1>1
<1>3. items'[Len(items) + 1] = x
  BY AppendProperties
<1>4. items'[Len(items) + 1] = y
  <2> DEFINE Z == X \cup {y}
  <2>1. items \in Seq(Z) /\ y \in Z
    BY SeqMonotonic
  <2> HIDE DEF Z
  <2> QED BY <1>2, <2>1, AppendProperties
<1> QED BY <1>2, <1>3, <1>4

\* The comments of a call that fails are lost, and no others.
LEMMA ErrorKeeps ==
  ASSUME NEW X, items \in Seq(X), comments \in Seq(X), all_comments \in Seq(Seq(X)),
         NEW x \in X, items' = Append(items, x), Keeps(items, Kept), TakeError(x)
  PROVE  CommentsKept'
<1> DEFINE a == FlattenSeq(all_comments)
           new == Append(items, x)
<1>1. a \in Seq(X) /\ Kept = a \o comments
  BY FlattenType DEF Kept
<1>2. Kept' = a
  <2>1. Kept' = a \o <<>>
    BY DEF Kept, TakeError
  <2> HIDE DEF a
  <2> QED BY <1>1, <2>1, ConcatEmptySeq
<1> HIDE DEF a
<1>3. \A n \in 1 .. Len(a) : Kept[n] = a[n]
  BY <1>1, ConcatProperties
<1>4. Keeps(new, Kept) /\ new \in Seq(X)
  <2>1. x.tok # "COMMENT"
    BY DEF TakeError
  <2> QED BY <2>1, KeepsSkipped, AppendProperties
<1>5. Failed'
  <2>1. Len(new) = Len(items) + 1 /\ new[Len(items) + 1] = x /\ new # <<>>
    <3>1. new \in Seq(X) /\ Len(items) \in Nat /\ Len(new) = Len(items) + 1
      BY AppendProperties, LenProperties
    <3> HIDE DEF new
    <3>2. new # <<>>
      BY <3>1, EmptySeq
    <3> QED BY <3>1, <3>2, AppendProperties DEF new
  <2>2. items' # <<>> /\ Last(items') = x
    BY <2>1 DEF Last
  <2> QED BY <2>2 DEF Failed, TakeError
<1>6. ASSUME NEW i \in Places(new), Cardinality(Upto(Places(new), i)) <= Len(a)
      PROVE  a[Cardinality(Upto(Places(new), i))] = new[i]
  <2>1. Cardinality(Upto(Places(new), i)) \in 1 .. Len(a)
    <3> DEFINE n == Cardinality(Upto(Places(new), i))
               m == Cardinality(Places(new))
    <3>1. m \in Nat /\ n \in 1 .. m
      <4> HIDE DEF new
      <4> QED BY <1>4, <1>6, PlacesFinite
    <3>2. Len(a) \in Nat
      BY <1>1, LenProperties
    <3> HIDE DEF m, n
    <3>3. n \in Nat \ {0}
      BY <3>1
    <3>4. n <= Len(a)
      BY <1>6 DEF n
    <3>5. n \in 1 .. Len(a)
      BY <3>2, <3>3, <3>4
    <3> QED BY <3>5 DEF n
  <2> QED BY <1>3, <1>4, <2>1 DEF Keeps
<1> HIDE DEF new
<1>7. CommentPlaces' = Places(new) /\ items' = new
  BY DEF CommentPlaces, Places, new
<1> QED BY <1>2, <1>5, <1>6, <1>7, Zenon DEF CommentsKept, Upto

\* The call of next is over: its comments are in groups.
LEMMA GroupedAll ==
  ASSUME NEW X, comments \in Seq(X), all_comments \in Seq(Seq(X)), NEW x,
         TakeToken(x)
  PROVE  /\ all_comments' \in Seq(Seq(X)) /\ comments' \in Seq(X)
         /\ Kept' = Kept
<1> DEFINE L == Len(comments)
           o == OnLine
           line == SubSeq(comments, 1, o)
           lines == IF line = <<>> THEN <<>> ELSE <<line>>
           groups == Groups(o + 1)
<1>1. L \in Nat /\ o \in 0 .. L
  <2>1. L \in Nat /\ (comments # <<>> => 1 \in 1 .. L)
    BY LenProperties, EmptySeq
  <2>2. comments # <<>> => GroupEnd(1, 0) \in 1 .. L
    BY <2>1, GroupEnds
  <2> QED BY <2>1, <2>2 DEF OnLine
<1>2. all_comments' = (all_comments \o lines) \o groups /\ comments' = <<>>
  BY DEF TakeToken
<1> HIDE DEF o
<1>3. line \in Seq(X)
  <2>1. \A i \in 1 .. o : comments[i] \in X
    BY <1>1, ElementOfSeq
  <2> QED BY <1>1, <2>1, SubSeqProperties
<1>4. groups \in Seq(Seq(X)) /\ FlattenSeq(groups) = SubSeq(comments, o + 1, L)
  <2>1. o + 1 \in 1 .. L + 1
    BY <1>1
  <2> QED BY <2>1, GroupsHoldAll DEF Grouped
<1> HIDE DEF line, groups
<1>5. lines \in Seq(Seq(X)) /\ FlattenSeq(lines) = line
  BY <1>3, FlattenOne
<1>6. line \o SubSeq(comments, o + 1, L) = comments
  <2>1. 1 \in 1 .. L + 1 /\ o \in 1 - 1 .. L /\ L \in o .. L
    BY <1>1
  <2>2. line \o SubSeq(comments, o + 1, L) = SubSeq(comments, 1, L)
    BY <2>1, ConcatAdjacentSubSeq DEF line
  <2> QED BY <2>2, SubSeqFull
<1> HIDE DEF lines, L
<1> DEFINE a == FlattenSeq(all_comments)
           b == FlattenSeq(groups)
<1>7. /\ all_comments \o lines \in Seq(Seq(X))
      /\ (all_comments \o lines) \o groups \in Seq(Seq(X))
  BY <1>4, <1>5, ConcatProperties
<1>8. /\ FlattenSeq(all_comments \o lines) = a \o line
      /\ FlattenSeq((all_comments \o lines) \o groups)
           = FlattenSeq(all_comments \o lines) \o b
  BY <1>4, <1>5, <1>7, FlattenConcat
<1>9. a \in Seq(X) /\ b \in Seq(X)
  BY <1>4, FlattenType
<1>10. FlattenSeq(all_comments') = a \o comments
  <2> HIDE DEF a
  <2>1. b = SubSeq(comments, o + 1, L)
    BY <1>4
  <2> HIDE DEF b
  <2>2. (a \o line) \o b = a \o (line \o b)
    BY <1>3, <1>9, Associative
  <2> QED BY <1>2, <1>6, <1>8, <2>1, <2>2 DEF b
<1>11. <<>> \in Seq(X) /\ (a \o comments) \o <<>> = a \o comments
  <2> HIDE DEF a
  <2>1. a \o comments \in Seq(X)
    BY <1>9, ConcatProperties
  <2> QED BY <2>1, ConcatEmptySeq, EmptySeq
<1> QED BY <1>2, <1>7, <1>10, <1>11 DEF Kept

KeptInv ==
  \/ done = TRUE /\ CommentsKept
  \/ \E X : /\ items \in Seq(X) /\ comments \in Seq(X) /\ all_comments \in Seq(Seq(X))
            /\ Keeps(items, Kept)

\* Whatever the text, and wherever comments stand in it: each is in one of the
\* groups, or is set aside for the next ones, in the order of the text.  Only
\* a call of next in which the scanner fails loses the comments it has read.
THEOREM CommentsKeptAlways == FeedSpec => []CommentsKept
<1>1. FeedInit => KeptInv
  <2> SUFFICES ASSUME FeedInit PROVE KeptInv
    OBVIOUS
  <2>1. items = <<>> /\ comments = <<>> /\ all_comments = <<>>
    BY DEF FeedInit, ScanInit
  <2>2. Places(<<>>) = {} /\ Cardinality({}) = 0
    BY FS_EmptySet DEF Places
  <2>3. Kept = <<>>
    <3>1. FlattenSeq(<<>>) = <<>>
      BY DEF FlattenSeq
    <3> QED BY <2>1, <3>1 DEF Kept
  <2>4. Keeps(items, Kept)
    BY <2>1, <2>2, <2>3 DEF Keeps
  <2>5. items \in Seq({}) /\ comments \in Seq({}) /\ all_comments \in Seq(Seq({}))
    BY <2>1
  <2> QED BY <2>4, <2>5 DEF KeptInv
<1>2. KeptInv /\ [FeedNext]_sourceVars => KeptInv'
  <2> SUFFICES ASSUME KeptInv, [FeedNext]_sourceVars PROVE KeptInv'
    OBVIOUS
  <2>0. CASE done = TRUE /\ CommentsKept
    <3>1. UNCHANGED sourceVars
      BY <2>0 DEF FeedNext, TakeStep, Scan, Finished
    <3>2. items' = items /\ comments' = comments /\ all_comments' = all_comments /\ done' = done
      BY <3>1 DEF sourceVars, scanVars, feedVars
    <3>3. Kept' = Kept /\ Failed' = Failed /\ CommentPlaces' = CommentPlaces
      BY <3>2 DEF Kept, Failed, CommentPlaces
    <3>4. CommentsKept'
      BY <2>0, <3>2, <3>3, Zenon DEF CommentsKept
    <3> QED BY <2>0, <3>2, <3>4 DEF KeptInv
  <2> SUFFICES ASSUME NEW Y, items \in Seq(Y), comments \in Seq(Y),
                      all_comments \in Seq(Seq(Y)), Keeps(items, Kept)
               PROVE  KeptInv'
    BY <2>0 DEF KeptInv
  <2>1. /\ items \in Seq(Y) /\ comments \in Seq(Y) /\ all_comments \in Seq(Seq(Y))
        /\ Keeps(items, Kept)
    OBVIOUS
  <2>2. CASE TakeStep
    <3>1. PICK x : items' = Append(items, x)
      BY <2>2, ScanReturns DEF TakeStep
    <3> DEFINE X == Y \cup {x}
    <3>2. items \in Seq(X) /\ comments \in Seq(X) /\ all_comments \in Seq(Seq(X)) /\ x \in X
      <4>1. Seq(Y) \subseteq Seq(X)
        BY SeqMonotonic
      <4>2. Seq(Seq(Y)) \subseteq Seq(Seq(X))
        BY <4>1, SeqMonotonic
      <4> QED BY <2>1, <4>1, <4>2
    <3> HIDE DEF X
    <3>3. items' \in Seq(X) /\ Last(items') = x
      BY <3>1, <3>2, AppendProperties DEF Last
    <3>4. Kept \in Seq(X)
      BY <3>2, FlattenType, ConcatProperties DEF Kept
    <3>5. CASE TakeComment(x)
      <4>1. /\ x.tok = "COMMENT" /\ comments' = Append(comments, x)
            /\ all_comments' = all_comments
        BY <3>5 DEF TakeComment
      <4>2. Kept' = Append(Kept, x)
        <5> DEFINE a == FlattenSeq(all_comments)
        <5>1. a \in Seq(X) /\ <<x>> \in Seq(X)
          BY <3>2, FlattenType
        <5>2. Kept' = a \o Append(comments, x) /\ Kept = a \o comments
          BY <4>1 DEF Kept
        <5> HIDE DEF a
        <5>3. /\ Append(comments, x) = comments \o <<x>>
              /\ Append(a \o comments, x) = (a \o comments) \o <<x>>
          BY <3>2, <5>1, ConcatProperties, AppendIsConcat
        <5>4. (a \o comments) \o <<x>> = a \o (comments \o <<x>>)
          BY <3>2, <5>1, Associative
        <5> QED BY <5>2, <5>3, <5>4
      <4>3. Keeps(items', Kept')
        BY <2>1, <3>1, <3>2, <3>4, <4>1, <4>2, KeepsTaken
      <4>4. comments' \in Seq(X)
        BY <3>2, <4>1, AppendProperties
      <4> QED BY <3>2, <3>3, <4>1, <4>3, <4>4 DEF KeptInv
    <3>6. CASE TakeToken(x)
      <4>1. x.tok # "COMMENT"
        BY <3>6 DEF TakeToken
      <4>2. /\ all_comments' \in Seq(Seq(X)) /\ comments' \in Seq(X)
            /\ Kept' = Kept
        BY <3>2, <3>6, GroupedAll
      <4>3. Keeps(items', Kept')
        BY <2>1, <3>1, <3>2, <4>1, <4>2, KeepsSkipped
      <4> QED BY <3>3, <4>2, <4>3 DEF KeptInv
    <3>7. CASE TakeError(x)
      <4>1. done' = TRUE
        BY <2>2, <3>1, <3>2, <3>7, ErrorEnds DEF TakeStep, TakeError
      <4>2. CommentsKept'
        BY <2>1, <3>1, <3>2, <3>7, ErrorKeeps
      <4> QED BY <4>1, <4>2 DEF KeptInv
    <3> QED BY <2>2, <3>3, <3>5, <3>6, <3>7 DEF TakeStep
  <2>3. CASE UNCHANGED sourceVars
    <3>1. items' = items /\ comments' = comments /\ all_comments' = all_comments
      BY <2>3 DEF sourceVars, scanVars, feedVars
    <3>2. Kept' = Kept
      BY <3>1 DEF Kept
    <3> QED BY <2>1, <3>1, <3>2 DEF KeptInv
  <2> QED BY <2>2, <2>3 DEF FeedNext, Finished
<1>3. KeptInv => CommentsKept
  BY CommentsKeptIs DEF KeptInv
<1> QED BY <1>1, <1>2, <1>3, PTL DEF FeedSpec

-----------------------------------------------------------------------------
(***************************************************************************)
(* The scanner's semicolons.  A text is given as t, so that what is said   *)
(* of it holds before and after a step.                                    *)
(***************************************************************************)
IsText(t) == t \in Seq(Range(t) \ {"end"})

Char(t, o) == IF o < Len(t) THEN t[o + 1] ELSE "end"

NewlineFrom(t, o) == Min({i \in o .. Len(t) : Char(t, i) \in {"nl", "end"}})

Unbroken(t, from, to) == \A o \in from .. to - 1 : Char(t, o) # "nl"

\* A character is "end" only after the text.
LEMMA TextIs ==
  ASSUME NEW t, IsText(t)
  PROVE  /\ Len(t) \in Nat
         /\ \A o \in Nat : o < Len(t) => Char(t, o) # "end"
         /\ \A o : ~(o < Len(t)) => Char(t, o) = "end"
<1>1. t \in Seq(Range(t) \ {"end"})
  BY DEF IsText
<1>2. Len(t) \in Nat /\ \A i \in 1 .. Len(t) : t[i] \in Range(t) \ {"end"}
  BY <1>1, LenProperties, ElementOfSeq
<1>3. ASSUME NEW o \in Nat, o < Len(t) PROVE Char(t, o) # "end"
  <2>1. o + 1 \in 1 .. Len(t)
    BY <1>2, <1>3
  <2> QED BY <1>2, <1>3, <2>1 DEF Char
<1> QED BY <1>2, <1>3 DEF Char

\* The least of a set of places.
LEMMA MinIs ==
  ASSUME NEW S \in SUBSET Nat, S # {}
  PROVE  Min(S) \in S /\ \A i \in S : Min(S) <= i
BY Least DEF Min

\* The first newline from o on, or the end of the text.
LEMMA NewlineIs ==
  ASSUME NEW t, IsText(t), NEW o \in 0 .. Len(t)
  PROVE  /\ NewlineFrom(t, o) \in o .. Len(t)
         /\ Char(t, NewlineFrom(t, o)) \in {"nl", "end"}
         /\ \A i \in o .. NewlineFrom(t, o) - 1 : Char(t, i) \notin {"nl", "end"}
<1> DEFINE S == {i \in o .. Len(t) : Char(t, i) \in {"nl", "end"}}
<1>1. Len(t) \in Nat /\ Char(t, Len(t)) = "end"
  BY TextIs
<1>2. Len(t) \in S /\ S \in SUBSET Nat
  BY <1>1
<1>3. Min(S) \in S /\ \A i \in S : Min(S) <= i
  <2> HIDE DEF S
  <2> QED BY <1>2, MinIs
<1> DEFINE n == NewlineFrom(t, o)
<1>4. n = Min(S)
  BY DEF NewlineFrom
<1> HIDE DEF n
<1>5. n \in o .. Len(t) /\ Char(t, n) \in {"nl", "end"}
  BY <1>3, <1>4
<1>6. ASSUME NEW i \in o .. n - 1 PROVE Char(t, i) \notin {"nl", "end"}
  <2>1. i \in o .. Len(t) /\ ~(n <= i)
    BY <1>1, <1>5
  <2> QED BY <1>3, <1>4, <2>1
<1> QED BY <1>5, <1>6 DEF n

\* The first newline is where it is found.
LEMMA NewlineAt ==
  ASSUME NEW t, IsText(t), NEW o \in 0 .. Len(t), NEW n \in o .. Len(t),
         Unbroken(t, o, n)
  PROVE  /\ NewlineFrom(t, o) >= n
         /\ Char(t, n) \in {"nl", "end"} => NewlineFrom(t, o) = n
         /\ Char(t, n) \notin {"nl", "end"} => NewlineFrom(t, o) > n
         /\ NewlineFrom(t, n) = NewlineFrom(t, o)
<1>1. Len(t) \in Nat
  BY TextIs
<1>2. \A i \in Nat : i < Len(t) => Char(t, i) # "end"
  BY TextIs
<1>3. \A i \in o .. n - 1 : Char(t, i) \notin {"nl", "end"}
  BY <1>1, <1>2 DEF Unbroken
<1>4. /\ NewlineFrom(t, o) \in o .. Len(t)
      /\ Char(t, NewlineFrom(t, o)) \in {"nl", "end"}
      /\ \A i \in o .. NewlineFrom(t, o) - 1 : Char(t, i) \notin {"nl", "end"}
  BY NewlineIs
<1>5. /\ NewlineFrom(t, n) \in n .. Len(t)
      /\ Char(t, NewlineFrom(t, n)) \in {"nl", "end"}
      /\ \A i \in n .. NewlineFrom(t, n) - 1 : Char(t, i) \notin {"nl", "end"}
  <2>1. n \in 0 .. Len(t)
    BY <1>1
  <2> QED BY <2>1, NewlineIs
<1>6. NewlineFrom(t, o) >= n
  BY <1>1, <1>3, <1>4
<1>7. ~(NewlineFrom(t, o) < NewlineFrom(t, n))
  <2>1. NewlineFrom(t, o) \in Nat /\ NewlineFrom(t, n) \in Nat
    BY <1>1, <1>4, <1>5
  <2>2. NewlineFrom(t, o) < NewlineFrom(t, n) => NewlineFrom(t, o) \in n .. NewlineFrom(t, n) - 1
    BY <1>1, <1>6, <2>1
  <2> QED BY <1>4, <1>5, <2>2
<1>8. ~(NewlineFrom(t, n) < NewlineFrom(t, o))
  <2>1. NewlineFrom(t, o) \in Nat /\ NewlineFrom(t, n) \in Nat
    BY <1>1, <1>4, <1>5
  <2>2. NewlineFrom(t, n) < NewlineFrom(t, o) => NewlineFrom(t, n) \in o .. NewlineFrom(t, o) - 1
    BY <1>1, <1>5, <2>1
  <2> QED BY <1>4, <1>5, <2>2
<1>9. NewlineFrom(t, o) \in Nat /\ NewlineFrom(t, n) \in Nat /\ n \in Nat
  BY <1>1, <1>4, <1>5
<1>10. NewlineFrom(t, n) = NewlineFrom(t, o)
  BY <1>7, <1>8, <1>9
<1>11. Char(t, n) \in {"nl", "end"} => NewlineFrom(t, o) = n
  <2>1. NewlineFrom(t, o) > n => n \in o .. NewlineFrom(t, o) - 1
    BY <1>1, <1>9
  <2> QED BY <1>4, <1>6, <1>9, <2>1
<1>12. Char(t, n) \notin {"nl", "end"} => NewlineFrom(t, o) > n
  BY <1>4, <1>6, <1>9
<1> QED BY <1>6, <1>10, <1>11, <1>12

-----------------------------------------------------------------------------
(* find_line_end.                                                          *)

LineEndClause(t, f, i, inComment) ==
  CASE Char(t, i) = "end" -> ~inComment
    [] ~inComment /\ Char(t, i) = "/" /\ Char(t, i + 1) = "/" -> TRUE
    [] Char(t, i) = "/" /\ Char(t, i + 1) = "*" -> f[i + 2][TRUE]
    [] Char(t, i) = "*" /\ Char(t, i + 1) = "/" -> f[i + 2][FALSE]
    [] Char(t, i) = "nl" -> TRUE
    [] OTHER -> (inComment \/ Char(t, i) = "sp") /\ f[i + 1][inComment]

\* The recursive function in FindLineEnd.
IsLineEnd(t, f, o) ==
  f = [i \in o .. Len(t) + 1 |-> [inComment \in BOOLEAN |-> LineEndClause(t, f, i, inComment)]]
HasLineEnd(t, o) == \E f : IsLineEnd(t, f, o)

\* What the recursive function says of each place.
LEMMA LineEndIs ==
  ASSUME NEW t, NEW f, NEW o, IsLineEnd(t, f, o)
  PROVE  \A i \in o .. Len(t) + 1 : \A c \in BOOLEAN : f[i][c] = LineEndClause(t, f, i, c)
<1>1. \A i \in o .. Len(t) + 1 : f[i] = [c \in BOOLEAN |-> LineEndClause(t, f, i, c)]
  BY Zenon DEF IsLineEnd
<1> QED BY <1>1

\* There is such a function: each place asks only later ones.
LEMMA LineEndExists ==
  ASSUME NEW t, IsText(t), NEW o \in 0 .. Len(t) + 1
  PROVE  HasLineEnd(t, o)
<1> DEFINE L == Len(t)
           T == {n \in 0 .. L + 1 : ~HasLineEnd(t, L + 1 - n)}
<1>1. L \in Nat /\ \A i : ~(i < L) => Char(t, i) = "end"
  BY TextIs
<1>2. T = {}
  <2> SUFFICES ASSUME T # {} PROVE FALSE
    OBVIOUS
  <2>1. PICK n \in T : \A j \in T : n <= j
    <3>1. T \in SUBSET Nat
      BY <1>1
    <3> HIDE DEF T
    <3> QED BY <3>1, Least
  <2>2. n \in 0 .. L + 1 /\ ~HasLineEnd(t, L + 1 - n)
    BY <2>1
  <2> DEFINE m == L + 1 - n
  <2>3. CASE n = 0
    <3> DEFINE f == [i \in m .. L + 1 |-> [c \in BOOLEAN |-> ~c]]
    <3>1. ASSUME NEW i \in m .. L + 1, NEW c \in BOOLEAN PROVE LineEndClause(t, f, i, c) = ~c
      <4>1. Char(t, i) = "end"
        BY <1>1, <2>3
      <4> QED BY <4>1 DEF LineEndClause
    <3>2. f = [i \in m .. L + 1 |-> [c \in BOOLEAN |-> LineEndClause(t, f, i, c)]]
      BY <3>1, Zenon
    <3> QED BY <2>2, <3>2 DEF HasLineEnd, IsLineEnd
  <2>4. CASE n # 0
    <3>1. n - 1 \in 0 .. L + 1 /\ ~(n <= n - 1) /\ m \in 0 .. L /\ L + 1 - (n - 1) = m + 1
      BY <1>1, <2>2, <2>4
    <3>2. HasLineEnd(t, m + 1)
      BY <2>1, <3>1
    <3>3. PICK g : g = [i \in m + 1 .. L + 1 |-> [c \in BOOLEAN |-> LineEndClause(t, g, i, c)]]
      BY <3>2 DEF HasLineEnd, IsLineEnd
    <3>4. \A i \in m + 1 .. L + 1 : g[i] = [c \in BOOLEAN |-> LineEndClause(t, g, i, c)]
      BY <3>3, Zenon
    <3> DEFINE first == [c \in BOOLEAN |-> LineEndClause(t, g, m, c)]
               f == [i \in m .. L + 1 |-> IF i = m THEN first ELSE g[i]]
    <3>5. \A i \in m .. L + 1 : f[i] = IF i = m THEN first ELSE g[i]
      OBVIOUS
    <3> HIDE DEF f, m
    <3>6. ASSUME NEW i \in m .. L + 1, NEW c \in BOOLEAN
          PROVE  LineEndClause(t, f, i, c) = LineEndClause(t, g, i, c)
      <4>1. CASE Char(t, i) = "end"
        BY <4>1 DEF LineEndClause
      <4>2. CASE Char(t, i) # "end"
        <5>1. i < L
          BY <1>1, <4>2
        <5>2. i + 1 \in m .. L + 1 /\ i + 1 # m
          BY <1>1, <3>1, <5>1
        <5>3. f[i + 1] = g[i + 1]
          BY <3>5, <5>2
        <5>4. Char(t, i + 1) # "end" => f[i + 2] = g[i + 2]
          <6>1. Char(t, i + 1) # "end" => i + 1 < L
            BY <1>1
          <6>2. i + 1 < L => i + 2 \in m .. L + 1 /\ i + 2 # m
            BY <1>1, <3>1
          <6> QED BY <3>5, <6>1, <6>2
        <5> QED BY <5>3, <5>4 DEF LineEndClause
      <4> QED BY <4>1, <4>2
    <3>7. ASSUME NEW i \in m .. L + 1
          PROVE  f[i] = [c \in BOOLEAN |-> LineEndClause(t, f, i, c)]
      <4>1. f[i] = [c \in BOOLEAN |-> LineEndClause(t, g, i, c)]
        <5>1. CASE i = m
          BY <3>5, <5>1
        <5>2. CASE i # m
          <6>1. i \in m + 1 .. L + 1
            BY <3>1, <5>2
          <6> QED BY <3>4, <3>5, <5>2, <6>1
        <5> QED BY <5>1, <5>2
      <4> QED BY <3>6, <4>1, Zenon
    <3>8. f = [i \in m .. L + 1 |-> [c \in BOOLEAN |-> LineEndClause(t, f, i, c)]]
      <4>1. f = [i \in m .. L + 1 |-> f[i]]
        BY DEF f
      <4> QED BY <3>7, <4>1, Zenon
    <3> QED BY <2>2, <3>8 DEF HasLineEnd, IsLineEnd, m
  <2> QED BY <2>3, <2>4
<1> DEFINE n == L + 1 - o
<1>3. n \in 0 .. L + 1 /\ L + 1 - n = o
  BY <1>1
<1> QED BY <1>2, <1>3

\* From here on there is more on the line than comments and blanks.
GoesOn(t, o) == \E f : \E from \in Nat : from <= o /\ IsLineEnd(t, f, from) /\ ~f[o][FALSE]

\* A general comment from s on, whose first end is at k.
CommentAt(t, s, k) ==
  /\ s \in Nat /\ k \in s + 2 .. Len(t) - 2
  /\ Char(t, s) = "/" /\ Char(t, s + 1) = "*"
  /\ Char(t, k) = "*" /\ Char(t, k + 1) = "/"
  /\ \A i \in s + 2 .. k - 1 : ~(Char(t, i) = "*" /\ Char(t, i + 1) = "/")

\* If find_line_end finds no newline from within a comment, there is none in it
\* and none on the way from its end; but for a comment that ends in "/*/".
LEMMA ThroughComment ==
  ASSUME NEW t, IsText(t), NEW s, NEW k, CommentAt(t, s, k),
         NEW f, NEW o \in 0 .. s, IsLineEnd(t, f, o), ~f[s + 2][TRUE]
  PROVE  \/ k > s + 2 /\ Char(t, k - 1) = "/"
         \/ Unbroken(t, s, k + 2) /\ ~f[k + 2][FALSE]
<1> DEFINE L == Len(t)
           T == {n \in 0 .. k - s - 2 : ~f[k - n][TRUE] /\ Unbroken(t, s + 2, k - n)}
<1>1. L \in Nat /\ s \in Nat /\ k \in Nat /\ s + 2 <= k /\ k + 2 <= L
  BY TextIs DEF CommentAt
<1>2. \A i \in Nat : i < L => Char(t, i) # "end"
  BY TextIs
<1>3. \A i \in s .. L + 1 : \A c \in BOOLEAN : f[i][c] = LineEndClause(t, f, i, c)
  <2>1. \A i \in s .. L + 1 : i \in o .. L + 1
    BY <1>1
  <2> QED BY <2>1, LineEndIs
<1> SUFFICES ASSUME ~(k > s + 2 /\ Char(t, k - 1) = "/")
             PROVE  Unbroken(t, s, k + 2) /\ ~f[k + 2][FALSE]
  OBVIOUS
<1>4. k - s - 2 \in T
  <2>1. k - (k - s - 2) = s + 2 /\ k - s - 2 \in 0 .. k - s - 2
    BY <1>1
  <2>2. Unbroken(t, s + 2, s + 2)
    BY <1>1 DEF Unbroken
  <2> QED BY <2>1, <2>2
<1>5. PICK n \in T : \A j \in T : n <= j
  <2>1. T \in SUBSET Nat
    <3>1. \A n \in T : n \in Nat
      OBVIOUS
    <3> HIDE DEF T
    <3> QED BY <3>1
  <2> HIDE DEF T
  <2>2. T # {}
    BY <1>4
  <2> QED BY <2>1, <2>2, Least
<1> DEFINE i == k - n
<1>6. n \in 0 .. k - s - 2 /\ ~f[i][TRUE] /\ Unbroken(t, s + 2, i)
  BY <1>5
<1>7. i \in s + 2 .. k /\ i \in s .. L + 1 /\ i + 1 \in Nat /\ i < L
  BY <1>1, <1>6
<1>8. f[i][TRUE] = LineEndClause(t, f, i, TRUE)
  BY <1>3, <1>7
<1>9. Char(t, i) # "end"
  BY <1>2, <1>7, <1>1
<1>10. n = 0
  <2> SUFFICES ASSUME n # 0 PROVE FALSE
    OBVIOUS
  <2>1. i \in s + 2 .. k - 1
    BY <1>1, <1>6
  <2>2. ~(Char(t, i) = "*" /\ Char(t, i + 1) = "/")
    BY <2>1 DEF CommentAt
  <2>3. CASE Char(t, i) = "/" /\ Char(t, i + 1) = "*"
    <3>1. i + 1 # k
      <4> SUFFICES ASSUME i = k - 1 PROVE FALSE
        BY <1>1, <1>7
      <4> HIDE DEF i
      <4>1. k > s + 2 /\ Char(t, k - 1) = "/"
        BY <1>1, <1>7, <2>1, <2>3
      <4> QED BY <4>1
    <3>2. ~f[i + 2][TRUE]
      BY <1>6, <1>8, <2>3 DEF LineEndClause
    <3>3. Unbroken(t, s + 2, i + 2)
      BY <1>1, <1>6, <1>7, <2>3 DEF Unbroken
    <3>4. n - 2 \in 0 .. k - s - 2 /\ k - (n - 2) = i + 2 /\ ~(n <= n - 2)
      BY <1>1, <1>6, <2>1, <3>1
    <3> HIDE DEF i
    <3>5. n - 2 \in T
      BY <3>2, <3>3, <3>4
    <3> QED BY <1>5, <3>4, <3>5
  <2>4. CASE ~(Char(t, i) = "/" /\ Char(t, i + 1) = "*")
    <3>1. Char(t, i) # "nl"
      BY <1>6, <1>8, <1>9, <2>2, <2>4 DEF LineEndClause
    <3>2. ~f[i + 1][TRUE]
      BY <1>6, <1>8, <1>9, <2>2, <2>4, <3>1 DEF LineEndClause
    <3>3. Unbroken(t, s + 2, i + 1)
      BY <1>1, <1>6, <1>7, <3>1 DEF Unbroken
    <3>4. n - 1 \in 0 .. k - s - 2 /\ k - (n - 1) = i + 1 /\ ~(n <= n - 1)
      BY <1>1, <1>6, <2>1
    <3> HIDE DEF i
    <3>5. n - 1 \in T
      BY <3>2, <3>3, <3>4
    <3> QED BY <1>5, <3>4, <3>5
  <2> QED BY <2>3, <2>4
<1>11. i = k
  BY <1>1, <1>10
<1>12. Char(t, k) = "*" /\ Char(t, k + 1) = "/" /\ Char(t, s) = "/" /\ Char(t, s + 1) = "*"
  BY DEF CommentAt
<1>13. ~f[k + 2][FALSE]
  <2>1. ~f[k][TRUE] /\ f[k][TRUE] = LineEndClause(t, f, k, TRUE)
    BY <1>6, <1>8, <1>11
  <2> HIDE DEF i
  <2> QED BY <2>1, <1>12 DEF LineEndClause
<1>14. Unbroken(t, s, k + 2)
  <2>1. Unbroken(t, s + 2, k)
    BY <1>6, <1>11
  <2>2. ASSUME NEW j \in s .. (k + 2) - 1 PROVE Char(t, j) # "nl"
    <3> HIDE DEF i, T
    <3>1. j = s \/ j = s + 1 \/ j \in s + 2 .. k - 1 \/ j = k \/ j = k + 1
      <4>1. j \in Int /\ s <= j /\ j <= k + 1
        BY <1>1
      <4> QED BY <1>1, <4>1
    <3> QED BY <1>12, <2>1, <3>1 DEF Unbroken
  <2> QED BY <2>2, Zenon DEF Unbroken
<1> QED BY <1>13, <1>14

\* Blanks do not change whether the line goes on.
LEMMA BlanksGoOn ==
  ASSUME NEW t, IsText(t), NEW o \in 0 .. Len(t), NEW s \in o .. Len(t),
         \A i \in o .. s - 1 : Char(t, i) \in {"sp", "nl"},
         GoesOn(t, o)
  PROVE  Unbroken(t, o, s) /\ GoesOn(t, s)
<1>1. Len(t) \in Nat
  BY TextIs
<1>2. PICK f : \E from \in Nat : from <= o /\ IsLineEnd(t, f, from) /\ ~f[o][FALSE]
  BY Zenon DEF GoesOn
<1>0. PICK from \in Nat : from <= o /\ IsLineEnd(t, f, from) /\ ~f[o][FALSE]
  BY <1>2
<1>3. \A i \in o .. s : f[i][FALSE] = LineEndClause(t, f, i, FALSE)
  <2>1. \A i \in o .. s : i \in from .. Len(t) + 1
    BY <1>1, <1>0
  <2> QED BY <1>0, <2>1, LineEndIs
<1> DEFINE T == {n \in 0 .. s - o : ~f[s - n][FALSE] /\ Unbroken(t, o, s - n)}
<1>4. s - o \in T
  <2>1. s - (s - o) = o /\ s - o \in 0 .. s - o
    BY <1>1
  <2>2. Unbroken(t, o, o)
    BY <1>1 DEF Unbroken
  <2> QED BY <1>0, <2>1, <2>2
<1>5. PICK n \in T : \A j \in T : n <= j
  <2>1. T \in SUBSET Nat
    <3>1. \A n \in T : n \in Nat
      OBVIOUS
    <3> HIDE DEF T
    <3> QED BY <3>1
  <2> HIDE DEF T
  <2>2. T # {}
    BY <1>4
  <2> QED BY <2>1, <2>2, Least
<1> DEFINE i == s - n
<1>6. n \in 0 .. s - o /\ ~f[i][FALSE] /\ Unbroken(t, o, i)
  BY <1>5
<1>7. CASE n = 0
  <2>1. i = s /\ from <= s
    BY <1>1, <1>0, <1>7
  <2> QED BY <1>0, <1>6, <2>1 DEF GoesOn
<1>8. CASE n # 0
  <2>1. i \in o .. s - 1 /\ i \in o .. s
    BY <1>1, <1>6, <1>8
  <2>2. Char(t, i) \in {"sp", "nl"} /\ f[i][FALSE] = LineEndClause(t, f, i, FALSE)
    BY <1>3, <2>1
  <2>3. Char(t, i) = "sp" /\ ~f[i + 1][FALSE]
    <3> HIDE DEF i
    <3> QED BY <1>6, <2>2 DEF LineEndClause
  <2>4. Unbroken(t, o, i + 1)
    <3>1. \A j \in o .. (i + 1) - 1 : j \in o .. i - 1 \/ j = i
      BY <1>1, <2>1
    <3> HIDE DEF i
    <3> QED BY <1>6, <2>3, <3>1 DEF Unbroken
  <2>5. n - 1 \in 0 .. s - o /\ s - (n - 1) = i + 1 /\ ~(n <= n - 1)
    <3>1. n \in 0 .. s - o
      BY <1>6
    <3> HIDE DEF T
    <3>2. n \in Nat /\ o \in Nat /\ s \in Nat /\ n <= s - o
      BY <1>1, <3>1
    <3> QED BY <1>8, <3>2
  <2> HIDE DEF i
  <2>6. n - 1 \in T
    BY <2>3, <2>4, <2>5
  <2> QED BY <1>5, <2>5, <2>6
<1> QED BY <1>7, <1>8

\* Where the line goes on there is neither its end nor a line comment, and what
\* goes on before a comment does so after it.
LEMMA GoingOn ==
  ASSUME NEW t, IsText(t), NEW s \in 0 .. Len(t), GoesOn(t, s)
  PROVE  /\ Char(t, s) \notin {"nl", "end"}
         /\ ~(Char(t, s) = "/" /\ Char(t, s + 1) = "/")
         /\ \A k : CommentAt(t, s, k) =>
              \/ k > s + 2 /\ Char(t, k - 1) = "/"
              \/ Unbroken(t, s, k + 2) /\ GoesOn(t, k + 2)
<1>1. Len(t) \in Nat
  BY TextIs
<1>2. PICK f : \E from \in Nat : from <= s /\ IsLineEnd(t, f, from) /\ ~f[s][FALSE]
  BY Zenon DEF GoesOn
<1>0. PICK from \in Nat : from <= s /\ IsLineEnd(t, f, from) /\ ~f[s][FALSE]
  BY <1>2
<1>3. f[s][FALSE] = LineEndClause(t, f, s, FALSE)
  <2>1. s \in from .. Len(t) + 1
    BY <1>1, <1>0
  <2> QED BY <1>0, <2>1, LineEndIs
<1>4. Char(t, s) \notin {"nl", "end"} /\ ~(Char(t, s) = "/" /\ Char(t, s + 1) = "/")
  BY <1>0, <1>3 DEF LineEndClause
<1>5. ASSUME NEW k, CommentAt(t, s, k)
      PROVE  \/ k > s + 2 /\ Char(t, k - 1) = "/"
             \/ Unbroken(t, s, k + 2) /\ GoesOn(t, k + 2)
  <2>1. Char(t, s) = "/" /\ Char(t, s + 1) = "*" /\ from \in 0 .. s
        /\ k \in Nat /\ from <= k + 2
    BY <1>1, <1>0, <1>5 DEF CommentAt
  <2>2. ~f[s + 2][TRUE]
    BY <1>0, <1>3, <2>1 DEF LineEndClause
  <2>3. \/ k > s + 2 /\ Char(t, k - 1) = "/"
        \/ Unbroken(t, s, k + 2) /\ ~f[k + 2][FALSE]
    BY <1>0, <1>5, <2>1, <2>2, ThroughComment
  <2> QED BY <1>0, <2>1, <2>3 DEF GoesOn
<1> QED BY <1>4, <1>5

-----------------------------------------------------------------------------
(* The semicolons among what the scanner has returned.                     *)

Ends(t, x) ==
  \/ x.tok \in {"IDENT", "STRING"}
  \/ SubSeq(t, x.from + 1, x.to) \in Ending

Overlapped(t, x) ==
  x.tok = "COMMENT" /\ x.to - x.from > 3 /\ SubSeq(t, x.to - 3 + 1, x.to) = <<"/", "*", "/">>

TokensIn(its) == {i \in 1 .. Len(its) - 1 : its[i].tok \notin {"COMMENT", "newline"}}

\* What SemicolonsAsInGo asks of the items between the one at b and the last.
SemisBetween(t, its, b) ==
  LET between == b + 1 .. Len(its) - 1
      semis   == {i \in between : its[i].tok = "newline"}
      newline == NewlineFrom(t, its[b].to)
  IN  IF Ends(t, its[b]) /\ newline <= Last(its).from
      THEN \/ \E i \in between : semis = {i} /\ its[i].pos.offset = newline
           \/ semis = {} /\ \E i \in between : Overlapped(t, its[i])
      ELSE semis = {}

GoSemis(t, its) ==
  \/ its = <<>>
  \/ Last(its).tok \in {"COMMENT", "newline", "error"}
  \/ TokensIn(its) = {} /\ \A i \in DOMAIN its : its[i].tok # "newline"
  \/ TokensIn(its) # {} /\ SemisBetween(t, its, Max(TokensIn(its)))

\* No newline has been returned since the token at b, or a single one, where it
\* belongs.
NoneSince(its, b) == \A i \in b + 1 .. Len(its) : its[i].tok # "newline"

OneSince(t, its, b) ==
  \E i \in b + 1 .. Len(its) :
    /\ its[i].tok = "newline"
    /\ its[i].pos.offset = NewlineFrom(t, its[b].to)
    /\ \A j \in b + 1 .. Len(its) : its[j].tok = "newline" => j = i

MissedSince(t, its, b) == \E i \in b + 1 .. Len(its) : Overlapped(t, its[i])

\* No semicolon is due after the token at b, ...
NotDue(t, its, b, off, ins, pend, at) ==
  /\ ~ins /\ ~pend
  /\ NoneSince(its, b)
  /\ b = 0 \/ ~Ends(t, its[b])

\* ... or it has been returned, ...
Returned(t, its, b, off, ins, pend, at) ==
  /\ ~ins /\ ~pend
  /\ b # 0 /\ Ends(t, its[b])
  /\ OneSince(t, its, b)
  /\ NewlineFrom(t, its[b].to) <= off

\* ... or the scanner looks out for the newline, ...
LookedFor(t, its, b, off, ins, pend, at) ==
  /\ ins /\ ~pend
  /\ b # 0 /\ Ends(t, its[b])
  /\ NoneSince(its, b)
  /\ Unbroken(t, its[b].to, off)

\* ... or it was in a comment, ...
DueInside(t, its, b, off, ins, pend, at) ==
  /\ ~ins /\ pend
  /\ b # 0 /\ Ends(t, its[b])
  /\ NoneSince(its, b)
  /\ NewlineFrom(t, its[b].to) <= off
  /\ at = NewlineFrom(t, its[b].to)

\* ... or there is another token on the line, unless it has been missed.
GivenUp(t, its, b, off, ins, pend, at) ==
  /\ ~ins /\ ~pend
  /\ b # 0 /\ Ends(t, its[b])
  /\ NoneSince(its, b)
  /\ \/ MissedSince(t, its, b)
     \/ Unbroken(t, its[b].to, off) /\ GoesOn(t, off)

\* The token at b is the last one.
LastToken(its, b, off) ==
  /\ b \in 0 .. Len(its)
  /\ \A i \in b + 1 .. Len(its) : its[i].tok \in {"COMMENT", "newline"}
  /\ b # 0 => its[b].tok \notin {"COMMENT", "newline"} /\ its[b].to \in 0 .. off

Cases(t, its, b, off, ins, pend, at) ==
  \/ NotDue(t, its, b, off, ins, pend, at)
  \/ Returned(t, its, b, off, ins, pend, at)
  \/ LookedFor(t, its, b, off, ins, pend, at)
  \/ DueInside(t, its, b, off, ins, pend, at)
  \/ GivenUp(t, its, b, off, ins, pend, at)

SemisRight(t, its, off, ins, pend, at) ==
  \E b : LastToken(its, b, off) /\ Cases(t, its, b, off, ins, pend, at)

\* What scan skips before the place s.
SkipsTo(t, off, ins, s) ==
  /\ s \in off .. Len(t)
  /\ \A o \in off .. s - 1 : Char(t, o) \in {"sp"} \cup (IF ins THEN {} ELSE {"nl"})
  /\ Char(t, s) \notin {"sp"} \cup (IF ins THEN {} ELSE {"nl"})

\* The items with one more.
LEMMA AppendIs ==
  ASSUME NEW X, NEW its \in Seq(X), NEW x
  PROVE  /\ Len(its) \in Nat /\ Len(Append(its, x)) = Len(its) + 1
         /\ \A i \in 1 .. Len(its) : Append(its, x)[i] = its[i]
         /\ Append(its, x)[Len(its) + 1] = x
         /\ Last(Append(its, x)) = x
         /\ Append(its, x) # <<>>
         /\ DOMAIN Append(its, x) = 1 .. Len(its) + 1
         /\ \E Y : Append(its, x) \in Seq(Y)
<1> DEFINE Y == X \cup {x}
<1>1. its \in Seq(Y) /\ x \in Y
  <2>1. Seq(X) \subseteq Seq(Y)
    BY SeqMonotonic
  <2> QED BY <2>1
<1> HIDE DEF Y
<1>2. /\ Len(Append(its, x)) = Len(its) + 1 /\ Append(its, x) \in Seq(Y)
      /\ \A i \in 1 .. Len(its) : Append(its, x)[i] = its[i]
      /\ Append(its, x)[Len(its) + 1] = x
  BY <1>1, AppendProperties
<1>3. Len(its) \in Nat
  BY <1>1, LenProperties
<1>4. Append(its, x) # <<>>
  BY <1>2, <1>3
<1>5. DOMAIN Append(its, x) = 1 .. Len(its) + 1
  BY <1>2, LenProperties
<1> QED BY <1>2, <1>3, <1>4, <1>5 DEF Last

\* Where the last token is when another one is returned.
LEMMA TokensBefore ==
  ASSUME NEW X, NEW its \in Seq(X), NEW x, NEW b, NEW off, LastToken(its, b, off)
  PROVE  /\ b = 0 => TokensIn(Append(its, x)) = {}
         /\ b # 0 => TokensIn(Append(its, x)) # {} /\ Max(TokensIn(Append(its, x))) = b
<1> DEFINE new == Append(its, x)
           S == TokensIn(new)
<1>1. /\ Len(its) \in Nat /\ Len(new) = Len(its) + 1
      /\ \A i \in 1 .. Len(its) : new[i] = its[i]
  BY AppendIs
<1> HIDE DEF new
<1>2. \A i : i \in S <=> i \in 1 .. Len(its) /\ its[i].tok \notin {"COMMENT", "newline"}
  BY <1>1 DEF TokensIn
<1>3. /\ b \in 0 .. Len(its)
      /\ \A i \in b + 1 .. Len(its) : its[i].tok \in {"COMMENT", "newline"}
      /\ b # 0 => its[b].tok \notin {"COMMENT", "newline"}
  BY DEF LastToken
<1> HIDE DEF S
<1>4. \A i \in S : i \in Nat /\ i <= b
  <2>1. \A i \in 1 .. Len(its) : ~(i <= b) => i \in b + 1 .. Len(its)
    BY <1>1, <1>3
  <2> QED BY <1>1, <1>2, <1>3, <2>1
<1>5. CASE b = 0
  <2>1. S = {}
    BY <1>2, <1>4, <1>5
  <2> QED BY <1>5, <2>1 DEF S, new
<1>6. CASE b # 0
  <2>1. b \in S
    BY <1>1, <1>2, <1>3, <1>6
  <2>2. Max(S) \in S /\ \A i \in S : Max(S) >= i
    <3>1. \A i \in S : b >= i
      BY <1>4, <2>1
    <3> QED BY <2>1, <3>1 DEF Max
  <2>3. Max(S) = b
    BY <1>4, <2>1, <2>2
  <2> QED BY <1>6, <2>1, <2>3 DEF S, new
<1> QED BY <1>5, <1>6

\* What is said of the items up to the last token, and since, when one more is
\* returned that is none.
LEMMA SinceAppend ==
  ASSUME NEW X, NEW its \in Seq(X), NEW x, NEW b \in 0 .. Len(its), NEW t
  PROVE  /\ b # 0 => Append(its, x)[b] = its[b]
         /\ x.tok # "newline" /\ NoneSince(its, b) => NoneSince(Append(its, x), b)
         /\ x.tok # "newline" /\ b # 0 /\ OneSince(t, its, b) => OneSince(t, Append(its, x), b)
         /\ MissedSince(t, its, b) => MissedSince(t, Append(its, x), b)
         /\ Overlapped(t, x) => MissedSince(t, Append(its, x), b)
         /\ b # 0 /\ x.tok = "newline" /\ NoneSince(its, b)
              /\ x.pos.offset = NewlineFrom(t, its[b].to) => OneSince(t, Append(its, x), b)
<1> DEFINE new == Append(its, x)
           L == Len(its)
<1>1. /\ L \in Nat /\ Len(new) = L + 1
      /\ \A i \in 1 .. L : new[i] = its[i]
      /\ new[L + 1] = x
  BY AppendIs
<1> HIDE DEF new
<1>2. /\ \A i \in b + 1 .. L : i \in 1 .. L /\ i \in b + 1 .. Len(new)
      /\ \A i \in b + 1 .. Len(new) : i \in b + 1 .. L \/ i = L + 1
      /\ L + 1 \in b + 1 .. Len(new)
      /\ b # 0 => b \in 1 .. L
      /\ L + 1 \notin b + 1 .. L
  BY <1>1
<1>3. b # 0 => new[b] = its[b]
  BY <1>1, <1>2
<1>4. x.tok # "newline" /\ NoneSince(its, b) => NoneSince(new, b)
  BY <1>1, <1>2 DEF NoneSince
<1>5. ASSUME x.tok # "newline", b # 0, OneSince(t, its, b) PROVE OneSince(t, new, b)
  <2>1. PICK i \in b + 1 .. L :
          /\ its[i].tok = "newline"
          /\ its[i].pos.offset = NewlineFrom(t, its[b].to)
          /\ \A j \in b + 1 .. L : its[j].tok = "newline" => j = i
    BY <1>5 DEF OneSince
  <2>2. /\ i \in b + 1 .. Len(new) /\ new[i].tok = "newline"
        /\ new[i].pos.offset = NewlineFrom(t, new[b].to)
    BY <1>1, <1>2, <1>3, <1>5, <2>1
  <2>3. ASSUME NEW j \in b + 1 .. Len(new), new[j].tok = "newline" PROVE j = i
    <3>1. j \in b + 1 .. L
      BY <1>1, <1>2, <1>5, <2>3
    <3> QED BY <1>1, <1>2, <2>1, <2>3, <3>1
  <2> QED BY <2>2, <2>3, Zenon DEF OneSince
<1>6. MissedSince(t, its, b) => MissedSince(t, new, b)
  BY <1>1, <1>2, Zenon DEF MissedSince
<1>7. Overlapped(t, x) => MissedSince(t, new, b)
  BY <1>1, <1>2, Zenon DEF MissedSince
<1>8. ASSUME b # 0, x.tok = "newline", NoneSince(its, b), x.pos.offset = NewlineFrom(t, its[b].to)
      PROVE  OneSince(t, new, b)
  <2>1. \A j \in b + 1 .. Len(new) : new[j].tok = "newline" => j = L + 1
    BY <1>1, <1>2, <1>8 DEF NoneSince
  <2>2. new[L + 1].tok = "newline" /\ new[L + 1].pos.offset = NewlineFrom(t, new[b].to)
    BY <1>1, <1>3, <1>8
  <2> QED BY <1>2, <2>1, <2>2, Zenon DEF OneSince
<1> QED BY <1>3, <1>4, <1>5, <1>6, <1>7, <1>8 DEF new

\* A token that is returned finds the semicolon before it, or none, as in Go.
LEMMA TokenAsInGo ==
  ASSUME NEW t, IsText(t), NEW X, NEW its \in Seq(X), NEW x, NEW off \in 0 .. Len(t),
         NEW ins \in BOOLEAN, NEW at, NEW s, SemisRight(t, its, off, ins, FALSE, at), SkipsTo(t, off, ins, s),
         x.tok \notin {"COMMENT", "newline", "error"}, x.from = s,
         Char(t, s) # "nl", IF x.tok = "EOF" THEN ~ins ELSE Char(t, s) # "end"
  PROVE  GoSemis(t, Append(its, x))
<1>1. PICK b : LastToken(its, b, off) /\ Cases(t, its, b, off, ins, FALSE, at)
  BY DEF SemisRight
<1> DEFINE new == Append(its, x)
           L == Len(its)
           between == b + 1 .. Len(new) - 1
           semis == {i \in between : new[i].tok = "newline"}
           newline == NewlineFrom(t, new[b].to)
<1>2. /\ L \in Nat /\ Len(new) = L + 1 /\ Last(new) = x /\ new # <<>>
      /\ \A i \in 1 .. L : new[i] = its[i]
      /\ new[L + 1] = x /\ DOMAIN new = 1 .. L + 1
  BY AppendIs
<1>3. /\ b = 0 => TokensIn(new) = {}
      /\ b # 0 => TokensIn(new) # {} /\ Max(TokensIn(new)) = b
  BY <1>1, TokensBefore
<1> SUFFICES GoSemis(t, new)
  OBVIOUS
<1> HIDE DEF new
<1>4. /\ b \in 0 .. L
      /\ \A i \in b + 1 .. L : i \in 1 .. L
      /\ b # 0 => b \in 1 .. L /\ new[b] = its[b] /\ its[b].to \in 0 .. off
  BY <1>1, <1>2 DEF LastToken
<1>5. Len(new) - 1 = L
  BY <1>2
<1>6. between = b + 1 .. L /\ \A i \in between : new[i] = its[i]
  BY <1>2, <1>4, <1>5
<1> HIDE DEF between
<1>7. Len(t) \in Nat
  BY TextIs
<1>8. s \in 0 .. Len(t)
  BY <1>7 DEF SkipsTo
<1>9. CASE b = 0
  <2>1. NoneSince(its, b)
    BY <1>1, <1>9 DEF Cases, NotDue, Returned, LookedFor, DueInside, GivenUp
  <2>2. \A i \in 1 .. L + 1 : new[i].tok # "newline"
    BY <1>2, <1>9, <2>1 DEF NoneSince
  <2> QED BY <1>2, <1>3, <1>9, <2>2 DEF GoSemis
<1>10. CASE b # 0
  <2> SUFFICES SemisBetween(t, new, b)
    BY <1>3, <1>10 DEF GoSemis
  <2>1. new[b] = its[b] /\ its[b].to \in 0 .. off /\ its[b].to \in 0 .. Len(t)
    BY <1>4, <1>7, <1>10
  <2>2. NoneSince(its, b) => semis = {}
    BY <1>6 DEF NoneSince
  <2>3. MissedSince(t, its, b) => \E i \in between : Overlapped(t, new[i])
    BY <1>6, Zenon DEF MissedSince
  <2>4. /\ newline \in its[b].to .. Len(t)
    BY <2>1, NewlineIs
  <2>5. CASE NotDue(t, its, b, off, ins, FALSE, at)
    <3>1. semis = {} /\ ~Ends(t, new[b])
      BY <1>10, <2>1, <2>2, <2>5 DEF NotDue
    <3> QED BY <1>2, <3>1 DEF SemisBetween, between
  <2>6. CASE Returned(t, its, b, off, ins, FALSE, at)
    <3>1. newline <= x.from /\ Ends(t, new[b])
      BY <1>7, <2>1, <2>4, <2>6 DEF Returned, SkipsTo
    <3>2. \E i \in between : semis = {i} /\ new[i].pos.offset = newline
      <4>1. PICK i \in b + 1 .. L :
              /\ its[i].tok = "newline"
              /\ its[i].pos.offset = NewlineFrom(t, its[b].to)
              /\ \A j \in b + 1 .. L : its[j].tok = "newline" => j = i
        BY <2>6 DEF Returned, OneSince
      <4>2. semis = {i} /\ new[i].pos.offset = newline
        BY <1>6, <2>1, <4>1
      <4> QED BY <1>6, <4>1, <4>2
    <3> QED BY <1>2, <3>1, <3>2 DEF SemisBetween, between
  <2>7. CASE LookedFor(t, its, b, off, ins, FALSE, at)
    <3>1. semis = {}
      BY <2>2, <2>7 DEF LookedFor
    <3>2. Unbroken(t, its[b].to, s)
      BY <1>7, <2>1, <2>7 DEF LookedFor, SkipsTo, Unbroken
    <3>3. Char(t, s) \notin {"nl", "end"} /\ s \in its[b].to .. Len(t)
      <4>1. ins /\ Char(t, s) # "end"
        BY <2>7 DEF LookedFor
      <4> QED BY <1>7, <2>1, <4>1 DEF SkipsTo
    <3>4. NewlineFrom(t, its[b].to) > s
      BY <2>1, <3>2, <3>3, NewlineAt
    <3>5. ~(newline <= x.from)
      BY <1>7, <1>8, <2>1, <2>4, <3>4
    <3> QED BY <1>2, <3>1, <3>5 DEF SemisBetween, between
  <2>8. CASE GivenUp(t, its, b, off, ins, FALSE, at)
    <3>1. semis = {}
      BY <2>2, <2>8 DEF GivenUp
    <3>2. CASE MissedSince(t, its, b)
      BY <1>2, <2>3, <3>1, <3>2 DEF SemisBetween, between
    <3>3. CASE Unbroken(t, its[b].to, off) /\ GoesOn(t, off)
      <4>1. Unbroken(t, off, s) /\ GoesOn(t, s)
        <5>1. s \in off .. Len(t) /\ \A i \in off .. s - 1 : Char(t, i) \in {"sp", "nl"}
          BY DEF SkipsTo
        <5> QED BY <3>3, <5>1, BlanksGoOn
      <4>2. Char(t, s) \notin {"nl", "end"}
        BY <1>8, <4>1, GoingOn
      <4>3. Unbroken(t, its[b].to, s) /\ s \in its[b].to .. Len(t)
        BY <1>7, <2>1, <3>3, <4>1 DEF Unbroken, SkipsTo
      <4>4. NewlineFrom(t, its[b].to) > s
        BY <2>1, <4>2, <4>3, NewlineAt
      <4>5. ~(newline <= x.from)
        BY <1>7, <1>8, <2>1, <2>4, <4>4
      <4> QED BY <1>2, <3>1, <4>5 DEF SemisBetween, between
    <3> QED BY <2>8, <3>2, <3>3 DEF GivenUp
  <2> QED BY <1>1, <2>5, <2>6, <2>7, <2>8 DEF Cases, DueInside
<1> QED BY <1>9, <1>10

\* After a token a semicolon is looked for if it can end a statement.
LEMMA TokenRight ==
  ASSUME NEW t, IsText(t), NEW X, NEW its \in Seq(X), NEW x, NEW ins \in BOOLEAN, NEW at,
         x.tok \notin {"COMMENT", "newline"}, x.to \in Nat, ins <=> Ends(t, x)
  PROVE  SemisRight(t, Append(its, x), x.to, ins, FALSE, at)
<1> DEFINE new == Append(its, x)
           b == Len(its) + 1
<1>1. Len(its) \in Nat /\ Len(new) = b /\ new[b] = x
  BY AppendIs
<1> HIDE DEF new
<1>2. LastToken(new, b, x.to)
  BY <1>1 DEF LastToken
<1>3. NoneSince(new, b) /\ b # 0
  BY <1>1 DEF NoneSince
<1>4. Unbroken(t, new[b].to, x.to)
  BY <1>1 DEF Unbroken
<1>5. Cases(t, new, b, x.to, ins, FALSE, at)
  BY <1>1, <1>3, <1>4 DEF Cases, NotDue, LookedFor
<1> QED BY <1>2, <1>5 DEF SemisRight, new

\* An item that is no token leaves the last one where it is.
LEMMA StillLast ==
  ASSUME NEW X, NEW its \in Seq(X), NEW x, NEW b, NEW off \in Nat, LastToken(its, b, off),
         x.tok \in {"COMMENT", "newline"}, NEW new \in Nat, off <= new
  PROVE  LastToken(Append(its, x), b, new)
<1> DEFINE L == Len(its)
<1>1. /\ L \in Nat /\ Len(Append(its, x)) = L + 1
      /\ \A i \in 1 .. L : Append(its, x)[i] = its[i]
      /\ Append(its, x)[L + 1] = x
  BY AppendIs
<1>2. /\ b \in 0 .. L
      /\ \A i \in b + 1 .. L : its[i].tok \in {"COMMENT", "newline"}
      /\ b # 0 => its[b].tok \notin {"COMMENT", "newline"} /\ its[b].to \in 0 .. off
  BY DEF LastToken
<1>3. \A i \in b + 1 .. L + 1 : (i \in b + 1 .. L /\ i \in 1 .. L) \/ i = L + 1
  BY <1>1, <1>2
<1>4. \A i \in b + 1 .. L + 1 : Append(its, x)[i].tok \in {"COMMENT", "newline"}
  BY <1>1, <1>2, <1>3
<1>5. b # 0 => b \in 1 .. L /\ its[b].to \in 0 .. new
  BY <1>1, <1>2
<1> QED BY <1>1, <1>2, <1>4, <1>5 DEF LastToken

\* A newline that ends a statement is returned at its place.
LEMMA InsertRight ==
  ASSUME NEW t, IsText(t), NEW X, NEW its \in Seq(X), NEW x, NEW off \in 0 .. Len(t),
         NEW at, NEW s, SemisRight(t, its, off, TRUE, FALSE, at), SkipsTo(t, off, TRUE, s),
         Char(t, s) \in {"nl", "end"}, x.tok = "newline", x.pos.offset = s,
         NEW new \in Nat, s <= new, NEW there
  PROVE  SemisRight(t, Append(its, x), new, FALSE, FALSE, there)
<1>1. PICK b : LastToken(its, b, off) /\ Cases(t, its, b, off, TRUE, FALSE, at)
  BY DEF SemisRight
<1>2. LookedFor(t, its, b, off, TRUE, FALSE, at)
  BY <1>1 DEF Cases, NotDue, Returned, DueInside, GivenUp
<1>3. /\ Len(t) \in Nat /\ s \in off .. Len(t) /\ off \in Nat /\ off <= new
      /\ \A o \in off .. s - 1 : Char(t, o) # "nl"
  BY TextIs DEF SkipsTo
<1>4. LastToken(Append(its, x), b, new)
  BY <1>1, <1>3, StillLast
<1>5. b \in 0 .. Len(its) /\ b # 0 /\ its[b].to \in 0 .. off
  BY <1>1, <1>2 DEF LastToken, LookedFor
<1>6. NewlineFrom(t, its[b].to) = s
  <2>1. Unbroken(t, its[b].to, s)
    BY <1>2, <1>3, <1>5 DEF LookedFor, Unbroken
  <2>2. its[b].to \in 0 .. Len(t) /\ s \in its[b].to .. Len(t)
    BY <1>3, <1>5
  <2> QED BY <2>1, <2>2, NewlineAt
<1>7. Append(its, x)[b] = its[b] /\ OneSince(t, Append(its, x), b)
  BY <1>2, <1>5, <1>6, SinceAppend DEF LookedFor
<1>8. Returned(t, Append(its, x), b, new, FALSE, FALSE, there)
  BY <1>2, <1>5, <1>6, <1>7 DEF Returned, LookedFor
<1> QED BY <1>4, <1>8 DEF SemisRight, Cases

\* So is one inside a comment.
LEMMA PendingRight ==
  ASSUME NEW t, IsText(t), NEW X, NEW its \in Seq(X), NEW x, NEW off \in 0 .. Len(t),
         NEW ins \in BOOLEAN, NEW at, SemisRight(t, its, off, ins, TRUE, at),
         x.tok = "newline", x.pos.offset = at, NEW there
  PROVE  SemisRight(t, Append(its, x), off, ins, FALSE, there)
<1>1. PICK b : LastToken(its, b, off) /\ Cases(t, its, b, off, ins, TRUE, at)
  BY DEF SemisRight
<1>2. DueInside(t, its, b, off, ins, TRUE, at)
  BY <1>1 DEF Cases, NotDue, Returned, LookedFor, GivenUp
<1>3. Len(t) \in Nat /\ off \in Nat /\ off <= off
  BY TextIs
<1>4. LastToken(Append(its, x), b, off)
  BY <1>1, <1>3, StillLast
<1>5. b \in 0 .. Len(its) /\ b # 0
  BY <1>1, <1>2 DEF LastToken, DueInside
<1>6. Append(its, x)[b] = its[b] /\ OneSince(t, Append(its, x), b)
  BY <1>2, <1>5, SinceAppend DEF DueInside
<1>7. Returned(t, Append(its, x), b, off, ins, FALSE, there)
  BY <1>2, <1>6 DEF Returned, DueInside
<1> QED BY <1>4, <1>7 DEF SemisRight, Cases

\* A comment leaves what is due and what has been returned as it is.
LEMMA CommentKeeps ==
  ASSUME NEW t, NEW X, NEW its \in Seq(X), NEW x, x.tok = "COMMENT", NEW b \in 0 .. Len(its),
         NEW off \in Nat, NEW new \in Nat, off <= new, NEW at, NEW there, NEW to \in 0 .. off,
         b # 0 => its[b].to = to,
         NEW n \in Nat, b # 0 => NewlineFrom(t, to) = n
  PROVE  /\ NotDue(t, its, b, off, FALSE, FALSE, at)
              => NotDue(t, Append(its, x), b, new, FALSE, FALSE, there)
         /\ Returned(t, its, b, off, FALSE, FALSE, at)
              => Returned(t, Append(its, x), b, new, FALSE, FALSE, there)
         /\ GivenUp(t, its, b, off, FALSE, FALSE, at) /\ MissedSince(t, its, b)
              => GivenUp(t, Append(its, x), b, new, FALSE, FALSE, there)
<1>1. b # 0 => Append(its, x)[b] = its[b]
  BY SinceAppend
<1>2. NoneSince(its, b) => NoneSince(Append(its, x), b)
  BY SinceAppend
<1>3. b # 0 /\ OneSince(t, its, b) => OneSince(t, Append(its, x), b)
  BY SinceAppend
<1>4. MissedSince(t, its, b) => MissedSince(t, Append(its, x), b)
  BY SinceAppend
<1> QED BY <1>1, <1>2, <1>3, <1>4 DEF NotDue, Returned, GivenUp

\* The last token ends at a place, with a newline after it.
LEMMA LastTokenAt ==
  ASSUME NEW t, IsText(t), NEW its, NEW b, NEW off \in 0 .. Len(t), LastToken(its, b, off)
  PROVE  \E to \in 0 .. off, n \in Nat : b # 0 => its[b].to = to /\ NewlineFrom(t, to) = n
<1>1. Len(t) \in Nat
  BY TextIs
<1>2. CASE b = 0
  BY <1>1, <1>2
<1>3. CASE b # 0
  <2>1. its[b].to \in 0 .. off /\ its[b].to \in 0 .. Len(t)
    BY <1>1, <1>3 DEF LastToken
  <2>2. NewlineFrom(t, its[b].to) \in Nat
    BY <1>1, <2>1, NewlineIs
  <2> QED BY <2>1, <2>2
<1> QED BY <1>2, <1>3

\* A comment to the end of the line leaves the newline where it is.
LEMMA LineCommentRight ==
  ASSUME NEW t, IsText(t), NEW X, NEW its \in Seq(X), NEW x, NEW off \in 0 .. Len(t),
         NEW ins \in BOOLEAN, NEW at, NEW s,
         SemisRight(t, its, off, ins, FALSE, at), SkipsTo(t, off, ins, s),
         Char(t, s) = "/", Char(t, s + 1) = "/", x.tok = "COMMENT", NEW there
  PROVE  SemisRight(t, Append(its, x), NewlineFrom(t, s), ins, FALSE, there)
<1> DEFINE e == NewlineFrom(t, s)
<1>1. PICK b : LastToken(its, b, off) /\ Cases(t, its, b, off, ins, FALSE, at)
  BY DEF SemisRight
<1>2. Len(t) \in Nat /\ s \in off .. Len(t) /\ off \in Nat /\ s \in 0 .. Len(t)
  BY TextIs DEF SkipsTo
<1>3. /\ e \in s .. Len(t) /\ e \in Nat /\ off <= e
      /\ \A i \in s .. e - 1 : Char(t, i) \notin {"nl", "end"}
  BY <1>2, NewlineIs
<1> HIDE DEF e
<1>4. LastToken(Append(its, x), b, e)
  BY <1>1, <1>2, <1>3, StillLast
<1>5. PICK to \in 0 .. off, n \in Nat : b # 0 => its[b].to = to /\ NewlineFrom(t, to) = n
  BY <1>1, LastTokenAt
<1>6. b \in 0 .. Len(its)
  BY <1>1 DEF LastToken
<1>7. CASE NotDue(t, its, b, off, ins, FALSE, at)
  <2>1. ins = FALSE
    BY <1>7 DEF NotDue
  <2> QED BY <1>2, <1>3, <1>4, <1>5, <1>6, <1>7, <2>1, CommentKeeps DEF SemisRight, Cases, e
<1>8. CASE Returned(t, its, b, off, ins, FALSE, at)
  <2>1. ins = FALSE
    BY <1>8 DEF Returned
  <2> QED BY <1>2, <1>3, <1>4, <1>5, <1>6, <1>8, <2>1, CommentKeeps DEF SemisRight, Cases, e
<1>9. CASE LookedFor(t, its, b, off, ins, FALSE, at)
  <2>1. Append(its, x)[b] = its[b] /\ NoneSince(Append(its, x), b)
    BY <1>6, <1>9, SinceAppend DEF LookedFor
  <2>2. its[b].to = to
    BY <1>5, <1>9 DEF LookedFor
  <2>3. Unbroken(t, to, e)
    BY <1>2, <1>3, <1>5, <1>9, <2>2 DEF LookedFor, Unbroken, SkipsTo
  <2>4. LookedFor(t, Append(its, x), b, e, ins, FALSE, there)
    BY <1>9, <2>1, <2>2, <2>3 DEF LookedFor
  <2> QED BY <1>4, <2>4 DEF SemisRight, Cases, e
<1>10. CASE GivenUp(t, its, b, off, ins, FALSE, at)
  <2>1. ins = FALSE
    BY <1>10 DEF GivenUp
  <2>2. CASE MissedSince(t, its, b)
    BY <1>2, <1>3, <1>4, <1>5, <1>6, <1>10, <2>1, <2>2, CommentKeeps DEF SemisRight, Cases, e
  <2>3. CASE GoesOn(t, off)
    <3>1. \A i \in off .. s - 1 : Char(t, i) \in {"sp", "nl"}
      BY DEF SkipsTo
    <3>2. GoesOn(t, s)
      BY <1>2, <2>3, <3>1, BlanksGoOn
    <3> QED BY <1>2, <3>2, GoingOn
  <2> QED BY <1>10, <2>2, <2>3 DEF GivenUp
<1> QED BY <1>1, <1>7, <1>8, <1>9, <1>10 DEF Cases, DueInside

\* The comment that ends in "/*/".
LEMMA OverlapsSo ==
  ASSUME NEW t, IsText(t), NEW s, NEW k, CommentAt(t, s, k), k > s + 2, Char(t, k - 1) = "/",
         NEW x, x.tok = "COMMENT", x.from = s, x.to = k + 2
  PROVE  Overlapped(t, x)
<1>1. Len(t) \in Nat /\ s \in Nat /\ k \in s + 2 .. Len(t) - 2
  BY TextIs DEF CommentAt
<1>2. t[k] = "/" /\ t[k + 1] = "*" /\ t[k + 2] = "/"
  <2>1. k - 1 < Len(t) /\ k < Len(t) /\ k + 1 < Len(t) /\ (k - 1) + 1 = k /\ (k + 1) + 1 = k + 2
    BY <1>1
  <2>2. Char(t, k) = "*" /\ Char(t, k + 1) = "/"
    BY DEF CommentAt
  <2>3. Char(t, k - 1) = t[(k - 1) + 1] /\ Char(t, k) = t[k + 1] /\ Char(t, k + 1) = t[(k + 1) + 1]
    BY <2>1 DEF Char
  <2> QED BY <2>1, <2>2, <2>3
<1>3. x.to - 3 + 1 = k /\ x.to - x.from > 3
  BY <1>1
<1>4. SubSeq(t, k, k + 2) = <<"/", "*", "/">>
  <2> DEFINE u == SubSeq(t, k, k + 2)
  <2>1. t \in Seq(Range(t) \ {"end"})
    BY DEF IsText
  <2>2. \A i \in k .. k + 2 : t[i] \in Range(t) \ {"end"}
    BY <1>1, <2>1, ElementOfSeq
  <2>3. /\ u \in Seq(Range(t) \ {"end"})
        /\ Len(u) = IF k <= k + 2 THEN (k + 2) - k + 1 ELSE 0
        /\ \A i \in 1 .. (k + 2) - k + 1 : u[i] = t[k + i - 1]
    BY <1>1, <2>1, <2>2, SubSeqProperties
  <2>4. Len(u) = 3 /\ u[1] = "/" /\ u[2] = "*" /\ u[3] = "/"
    <3>1. (k + 2) - k + 1 = 3 /\ k <= k + 2
      BY <1>1
    <3>2. u[1] = t[k + 1 - 1] /\ u[2] = t[k + 2 - 1] /\ u[3] = t[k + 3 - 1]
      BY <2>3, <3>1
    <3>3. k + 1 - 1 = k /\ k + 2 - 1 = k + 1 /\ k + 3 - 1 = k + 2
      BY <1>1
    <3> HIDE DEF u
    <3> QED BY <1>2, <2>3, <3>1, <3>2, <3>3
  <2> HIDE DEF u
  <2>5. u = <<"/", "*", "/">>
    BY <2>3, <2>4
  <2> QED BY <2>5 DEF u
<1> QED BY <1>3, <1>4 DEF Overlapped

\* A general comment leaves the newline after it to the calls that follow, and one
\* in it to the next call; if the line goes on after it, there is none.
LEMMA GeneralCommentRight ==
  ASSUME NEW t, IsText(t), NEW X, NEW its \in Seq(X), NEW x, NEW off \in 0 .. Len(t),
         NEW ins \in BOOLEAN, NEW at, NEW s, NEW k,
         SemisRight(t, its, off, ins, FALSE, at), SkipsTo(t, off, ins, s), CommentAt(t, s, k),
         x.tok = "COMMENT", x.from = s, x.to = k + 2,
         NEW track \in BOOLEAN, track => ins,
         ins /\ ~track => \E f : \E o \in 0 .. s : IsLineEnd(t, f, o) /\ ~f[s + 2][TRUE],
         NEW looks, looks = (track /\ NewlineFrom(t, s) >= k + 2),
         NEW pends, pends = (track /\ NewlineFrom(t, s) < k + 2),
         NEW there, pends => there = NewlineFrom(t, s)
  PROVE  SemisRight(t, Append(its, x), k + 2, looks, pends, there)
<1> DEFINE n == NewlineFrom(t, s)
           new == Append(its, x)
<1>1. PICK b : LastToken(its, b, off) /\ Cases(t, its, b, off, ins, FALSE, at)
  BY DEF SemisRight
<1>2. /\ Len(t) \in Nat /\ s \in off .. Len(t) /\ off \in Nat /\ s \in 0 .. Len(t)
      /\ k \in s + 2 .. Len(t) - 2 /\ k + 2 \in Nat /\ off <= k + 2
  BY TextIs DEF SkipsTo, CommentAt
<1>3. n \in s .. Len(t) /\ \A i \in s .. n - 1 : Char(t, i) \notin {"nl", "end"}
  BY <1>2, NewlineIs
<1>0. k > s + 2 /\ Char(t, k - 1) = "/" => Overlapped(t, x)
  BY OverlapsSo
<1> HIDE DEF n
<1>4. LastToken(new, b, k + 2)
  BY <1>1, <1>2, StillLast
<1>5. PICK to \in 0 .. off, m \in Nat : b # 0 => its[b].to = to /\ NewlineFrom(t, to) = m
  BY <1>1, LastTokenAt
<1>6. b \in 0 .. Len(its)
  BY <1>1 DEF LastToken
<1>7. /\ b # 0 => new[b] = its[b]
      /\ NoneSince(its, b) => NoneSince(new, b)
      /\ Overlapped(t, x) => MissedSince(t, new, b)
  BY <1>6, SinceAppend
<1>8. ASSUME NEW p \in BOOLEAN, NEW q \in BOOLEAN, Cases(t, new, b, k + 2, p, q, there),
             p = (track /\ n >= k + 2), q = (track /\ n < k + 2)
      PROVE  SemisRight(t, new, k + 2, looks, pends, there)
  BY <1>4, <1>8 DEF SemisRight, n
<1>9. ASSUME Cases(t, new, b, k + 2, FALSE, FALSE, there), ~track
      PROVE  SemisRight(t, new, k + 2, looks, pends, there)
  BY <1>8, <1>9
<1> HIDE DEF new
<1>10. CASE NotDue(t, its, b, off, ins, FALSE, at)
  <2>1. ins = FALSE
    BY <1>10 DEF NotDue
  <2>2. NotDue(t, new, b, k + 2, FALSE, FALSE, there)
    BY <1>2, <1>5, <1>6, <1>10, <2>1, CommentKeeps DEF new
  <2> QED BY <1>9, <2>1, <2>2 DEF Cases, new
<1>11. CASE Returned(t, its, b, off, ins, FALSE, at)
  <2>1. ins = FALSE
    BY <1>11 DEF Returned
  <2>2. Returned(t, new, b, k + 2, FALSE, FALSE, there)
    BY <1>2, <1>5, <1>6, <1>11, <2>1, CommentKeeps DEF new
  <2> QED BY <1>9, <2>1, <2>2 DEF Cases, new
<1>12. ASSUME b # 0, Ends(t, its[b]), NoneSince(its, b), Unbroken(t, to, s),
              Overlapped(t, x) \/ (Unbroken(t, s, k + 2) /\ GoesOn(t, k + 2))
       PROVE  GivenUp(t, new, b, k + 2, FALSE, FALSE, there)
  <2>1. CASE Overlapped(t, x)
    BY <1>7, <1>12, <2>1 DEF GivenUp
  <2>2. CASE Unbroken(t, s, k + 2) /\ GoesOn(t, k + 2)
    <3>1. Unbroken(t, to, k + 2)
      BY <1>2, <1>5, <1>12, <2>2 DEF Unbroken
    <3> QED BY <1>5, <1>7, <1>12, <2>2, <3>1 DEF GivenUp
  <2> QED BY <1>12, <2>1, <2>2
<1>13. CASE LookedFor(t, its, b, off, ins, FALSE, at)
  <2>1. b # 0 /\ Ends(t, its[b]) /\ NoneSince(its, b) /\ ins /\ its[b].to = to
    BY <1>5, <1>13 DEF LookedFor
  <2>2. Unbroken(t, to, s)
    BY <1>2, <1>5, <1>13, <2>1 DEF LookedFor, Unbroken, SkipsTo
  <2>3. CASE track /\ n < k + 2
    <3>1. NewlineFrom(t, to) = n
      <4>1. to \in 0 .. Len(t) /\ s \in to .. Len(t)
        BY <1>2, <1>5
      <4> QED BY <2>2, <4>1, NewlineAt DEF n
    <3>0. there = n
      BY <2>3 DEF n
    <3>2. DueInside(t, new, b, k + 2, FALSE, TRUE, there)
      <4>1. n <= k + 2
        BY <1>2, <1>3, <2>3
      <4> QED BY <1>7, <2>1, <3>0, <3>1, <4>1 DEF DueInside
    <3>3. FALSE = (track /\ n >= k + 2) /\ TRUE = (track /\ n < k + 2)
      BY <1>2, <1>3, <2>3
    <3>4. Cases(t, new, b, k + 2, FALSE, TRUE, there)
      BY <3>2 DEF Cases
    <3> QED BY <1>8, <3>3, <3>4, Zenon DEF new
  <2>4. CASE track /\ ~(n < k + 2)
    <3>1. Unbroken(t, to, k + 2)
      BY <1>2, <1>3, <1>5, <2>2, <2>4 DEF Unbroken
    <3>2. LookedFor(t, new, b, k + 2, TRUE, FALSE, there)
      BY <1>7, <2>1, <3>1 DEF LookedFor
    <3>3. TRUE = (track /\ n >= k + 2) /\ FALSE = (track /\ n < k + 2)
      BY <1>2, <1>3, <2>4
    <3>4. Cases(t, new, b, k + 2, TRUE, FALSE, there)
      BY <3>2 DEF Cases
    <3> QED BY <1>8, <3>3, <3>4, Zenon DEF new
  <2>5. CASE ~track
    <3>0. PICK f : \E o \in 0 .. s : IsLineEnd(t, f, o) /\ ~f[s + 2][TRUE]
      BY <2>1, <2>5
    <3>1. PICK o \in 0 .. s : IsLineEnd(t, f, o) /\ ~f[s + 2][TRUE]
      BY <3>0
    <3>2. \/ k > s + 2 /\ Char(t, k - 1) = "/"
          \/ Unbroken(t, s, k + 2) /\ ~f[k + 2][FALSE]
      BY <3>1, ThroughComment
    <3>3. o \in Nat /\ o <= k + 2
      BY <1>2, <3>1
    <3>4. Overlapped(t, x) \/ (Unbroken(t, s, k + 2) /\ GoesOn(t, k + 2))
      <4>1. ~f[k + 2][FALSE] => GoesOn(t, k + 2)
        BY <3>1, <3>3, Zenon DEF GoesOn
      <4> QED BY <1>0, <3>2, <4>1
    <3> QED BY <1>9, <1>12, <2>1, <2>2, <2>5, <3>4 DEF Cases, new
  <2> QED BY <2>3, <2>4, <2>5
<1>14. CASE GivenUp(t, its, b, off, ins, FALSE, at)
  <2>1. ~ins /\ b # 0 /\ Ends(t, its[b]) /\ NoneSince(its, b) /\ its[b].to = to /\ ~track
    BY <1>5, <1>14 DEF GivenUp
  <2>2. GivenUp(t, new, b, k + 2, FALSE, FALSE, there)
    <3>1. CASE MissedSince(t, its, b)
      BY <1>2, <1>5, <1>6, <1>14, <2>1, <3>1, CommentKeeps DEF new
    <3>2. CASE Unbroken(t, its[b].to, off) /\ GoesOn(t, off)
      <4>1. \A i \in off .. s - 1 : Char(t, i) \in {"sp", "nl"}
        BY DEF SkipsTo
      <4>2. Unbroken(t, off, s) /\ GoesOn(t, s)
        BY <1>2, <3>2, <4>1, BlanksGoOn
      <4>3. Unbroken(t, to, s)
        BY <1>2, <1>5, <2>1, <3>2, <4>2 DEF Unbroken
      <4>4. \/ k > s + 2 /\ Char(t, k - 1) = "/"
            \/ Unbroken(t, s, k + 2) /\ GoesOn(t, k + 2)
        BY <1>2, <4>2, GoingOn
      <4>5. Overlapped(t, x) \/ (Unbroken(t, s, k + 2) /\ GoesOn(t, k + 2))
        BY <1>0, <4>4
      <4> QED BY <1>12, <2>1, <4>3, <4>5
    <3> QED BY <1>14, <3>1, <3>2 DEF GivenUp
  <2> QED BY <1>9, <2>1, <2>2 DEF Cases, new
<1> QED BY <1>1, <1>10, <1>11, <1>13, <1>14 DEF Cases, DueInside, new

-----------------------------------------------------------------------------
(* The scanner's cursor.                                                   *)

IsCursor(c) == "offset" \in DOMAIN c

\* A line directive moves lines and columns, never the offset.
LEMMA InfoConsumed ==
  ASSUME NEW c, IsCursor(c)
  PROVE  IsCursor(ConsumeInfo(c)) /\ ConsumeInfo(c).offset = c.offset
BY DEF ConsumeInfo, IsCursor

\* The cursor moves by one character, ...
LEMMA NextCharMoves ==
  ASSUME NEW c, IsCursor(c)
  PROVE  IsCursor(NextChar(c)) /\ NextChar(c).offset = c.offset + 1
<1> DEFINE moved == [c EXCEPT !.offset = @ + 1, !.column = @ + 1]
           line == [moved EXCEPT !.line = @ + 1, !.column = 1]
<1>1. IsCursor(moved) /\ moved.offset = c.offset + 1
  BY DEF IsCursor
<1>2. NextChar(c) = IF At(c.offset) = "nl" /\ c.offset + 1 < Len(text) THEN ConsumeInfo(line) ELSE moved
  BY DEF NextChar
<1> HIDE DEF moved
<1>3. IsCursor(line) /\ line.offset = c.offset + 1
  BY <1>1 DEF IsCursor
<1> HIDE DEF line
<1>4. IsCursor(ConsumeInfo(line)) /\ ConsumeInfo(line).offset = c.offset + 1
  BY <1>3, InfoConsumed
<1> QED BY <1>1, <1>2, <1>4

\* The recursive function in ReadTo.
Read(c, f, k) == IF k = c.offset THEN c ELSE NextChar(f[k - 1])
IsReading(c, o, f) == f = [k \in c.offset .. o |-> Read(c, f, k)]

\* ... and, in a recursion whose value is shown to exist, to any place.
LEMMA ReadToMoves ==
  ASSUME NEW c, IsCursor(c), c.offset \in Nat, NEW o \in Nat, c.offset <= o
  PROVE  IsCursor(ReadTo(c, o)) /\ ReadTo(c, o).offset = o
<1> DEFINE b == c.offset
           Has(n) == \E f : IsReading(c, b + n, f) /\ IsCursor(f[b + n]) /\ f[b + n].offset = b + n
           T == {n \in Nat : ~Has(n)}
<1>1. T = {}
  <2> SUFFICES ASSUME T # {} PROVE FALSE
    OBVIOUS
  <2>1. PICK n \in T : \A j \in T : n <= j
    <3>1. T \in SUBSET Nat
      OBVIOUS
    <3> HIDE DEF T
    <3> QED BY <3>1, Least
  <2>2. n \in Nat /\ ~Has(n)
    BY <2>1
  <2>3. CASE n = 0
    <3> DEFINE f == [k \in b .. b + n |-> c]
    <3>1. \A k \in b .. b + n : k = b /\ f[k] = c
      BY <2>3
    <3>2. f = [k \in b .. b + n |-> Read(c, f, k)]
      BY <3>1 DEF Read
    <3>3. b + n \in b .. b + n /\ b + n = b
      BY <2>3
    <3>4. IsCursor(f[b + n]) /\ f[b + n].offset = b + n
      BY <3>1, <3>3
    <3> HIDE DEF f
    <3> QED BY <2>2, <3>2, <3>4 DEF IsReading
  <2>4. CASE n # 0
    <3> DEFINE m == b + n
    <3>1. n - 1 \in Nat /\ ~(n <= n - 1) /\ b + (n - 1) = m - 1 /\ m - 1 \in b .. m /\ m \in Nat /\ m # b
      BY <2>2, <2>4
    <3>2. Has(n - 1)
      BY <2>1, <3>1
    <3>3. PICK g : IsReading(c, m - 1, g) /\ IsCursor(g[m - 1]) /\ g[m - 1].offset = m - 1
      BY <3>1, <3>2
    <3>4. \A k \in b .. m - 1 : g[k] = Read(c, g, k)
      BY <3>3, Zenon DEF IsReading
    <3> DEFINE last == NextChar(g[m - 1])
               f == [k \in b .. m |-> IF k = m THEN last ELSE g[k]]
    <3>5. IsCursor(last) /\ last.offset = m
      <4>1. IsCursor(last) /\ last.offset = g[m - 1].offset + 1
        BY <3>3, NextCharMoves
      <4> QED BY <3>1, <3>3, <4>1
    <3>6. \A k \in b .. m : f[k] = IF k = m THEN last ELSE g[k]
      OBVIOUS
    <3> HIDE DEF f, last, m
    <3>7. ASSUME NEW k \in b .. m PROVE f[k] = Read(c, f, k)
      <4>1. CASE k = m
        <5>1. f[k] = last /\ f[k - 1] = g[m - 1]
          BY <3>1, <3>6, <4>1
        <5> QED BY <3>1, <4>1, <5>1 DEF Read, last
      <4>2. CASE k # m
        <5>1. k \in b .. m - 1 /\ f[k] = g[k]
          BY <3>1, <3>6, <4>2
        <5>2. k # b => k - 1 \in b .. m /\ k - 1 # m
          BY <3>1, <5>1
        <5>3. k # b => f[k - 1] = g[k - 1]
          BY <3>6, <5>2
        <5> QED BY <3>4, <5>1, <5>3 DEF Read
      <4> QED BY <4>1, <4>2
    <3>8. f = [k \in b .. m |-> Read(c, f, k)]
      <4>1. f = [k \in b .. m |-> f[k]]
        BY DEF f
      <4> QED BY <3>7, <4>1, Zenon
    <3>9. m \in b .. m /\ f[m] = last
      BY <3>1, <3>6
    <3> QED BY <2>2, <3>5, <3>8, <3>9 DEF IsReading, m
  <2> QED BY <2>3, <2>4
<1>2. o - b \in Nat /\ b + (o - b) = o
  OBVIOUS
<1>3. Has(o - b)
  BY <1>1, <1>2
<1>4. \E f : IsReading(c, o, f)
  BY <1>2, <1>3
<1> DEFINE r == CHOOSE f : IsReading(c, o, f)
<1>5. ReadTo(c, o) = r[o]
  BY Zenon DEF ReadTo, IsReading, Read
<1>6. IsReading(c, o, r)
  BY <1>4
<1>7. PICK g : IsReading(c, o, g) /\ IsCursor(g[o]) /\ g[o].offset = o
  BY <1>2, <1>3
<1> HIDE DEF r
<1>8. \A k \in b .. o : r[k] = Read(c, r, k) /\ g[k] = Read(c, g, k)
  <2>1. \A k \in b .. o : r[k] = Read(c, r, k)
    BY <1>6, Zenon DEF IsReading
  <2>2. \A k \in b .. o : g[k] = Read(c, g, k)
    BY <1>7, Zenon DEF IsReading
  <2> QED BY <2>1, <2>2
<1>9. r[o] = g[o]
  <2> DEFINE U == {k \in b .. o : r[k] # g[k]}
  <2> SUFFICES ASSUME U # {} PROVE FALSE
    <3>1. o \in b .. o
      OBVIOUS
    <3> QED BY <3>1
  <2>1. PICK k \in U : \A j \in U : k <= j
    <3>1. U \in SUBSET Nat
      OBVIOUS
    <3> HIDE DEF U
    <3> QED BY <3>1, Least
  <2>2. k \in b .. o /\ r[k] # g[k]
    BY <2>1
  <2>3. k # b
    BY <1>8, <2>2 DEF Read
  <2>4. k - 1 \in b .. o /\ ~(k <= k - 1)
    BY <2>2, <2>3
  <2>5. r[k - 1] = g[k - 1]
    BY <2>1, <2>4
  <2> QED BY <1>8, <2>2, <2>5 DEF Read
<1> QED BY <1>5, <1>7, <1>9

-----------------------------------------------------------------------------
(* What the parts of scan find in the text.                                *)

\* The text of the state is the text t of the lemmas above.
LEMMA AtIs == \A o : At(o) = Char(text, o)
BY DEF At, Char

\* FirstNotOf: the places before it are all of chars.
LEMMA FirstNotIs ==
  ASSUME IsText(text), NEW chars, "end" \notin chars, NEW o \in 0 .. Len(text)
  PROVE  /\ FirstNotOf(chars, o) \in o .. Len(text)
         /\ Char(text, FirstNotOf(chars, o)) \notin chars
         /\ \A i \in o .. FirstNotOf(chars, o) - 1 : Char(text, i) \in chars
<1> DEFINE S == {i \in o .. Len(text) : At(i) \notin chars}
           n == FirstNotOf(chars, o)
<1>1. Len(text) \in Nat /\ At(Len(text)) = "end"
  BY TextIs, AtIs
<1>2. Len(text) \in S /\ S \in SUBSET Nat
  BY <1>1
<1>3. Min(S) \in S /\ \A i \in S : Min(S) <= i
  <2> HIDE DEF S
  <2> QED BY <1>2, MinIs
<1>4. n = Min(S)
  BY DEF FirstNotOf
<1> HIDE DEF n
<1>5. n \in o .. Len(text) /\ At(n) \notin chars
  BY <1>3, <1>4
<1>6. ASSUME NEW i \in o .. n - 1 PROVE At(i) \in chars
  <2>1. i \in o .. Len(text) /\ ~(n <= i)
    BY <1>1, <1>5
  <2> QED BY <1>3, <1>4, <2>1
<1> QED BY <1>5, <1>6, AtIs DEF n

\* FirstOf finds a place in the text or its end.
LEMMA FirstIs ==
  ASSUME IsText(text), NEW chars, NEW o \in 0 .. Len(text)
  PROVE  FirstOf(chars, o) \in o .. Len(text)
<1> DEFINE S == {i \in o .. Len(text) : At(i) \in chars \cup {"end"}}
<1>1. Len(text) \in Nat /\ At(Len(text)) = "end"
  BY TextIs, AtIs
<1>2. Len(text) \in S /\ S \in SUBSET Nat
  BY <1>1
<1>3. Min(S) \in S
  <2> HIDE DEF S
  <2> QED BY <1>2, MinIs
<1> QED BY <1>3 DEF FirstOf

\* The newline that the scanner and SemicolonsAsInGo look for.
LEMMA FirstNewline == \A o : FirstOf({"nl"}, o) = NewlineFrom(text, o)
<1> SUFFICES ASSUME NEW o PROVE FirstOf({"nl"}, o) = NewlineFrom(text, o)
  OBVIOUS
<1>1. {i \in o .. Len(text) : At(i) \in {"nl"} \cup {"end"}}
        = {i \in o .. Len(text) : Char(text, i) \in {"nl", "end"}}
  BY AtIs
<1> QED BY <1>1 DEF FirstOf, NewlineFrom

\* A call starts after the blanks, and the newlines that end no statement.
LEMMA StartSkips ==
  ASSUME IsText(text), IsCursor(cursor), cursor.offset \in 0 .. Len(text), insert_semi \in BOOLEAN
  PROVE  /\ IsCursor(Start)
         /\ Start.offset \in 0 .. Len(text)
         /\ SkipsTo(text, cursor.offset, insert_semi, Start.offset)
<1> DEFINE chars == {"sp"} \cup (IF insert_semi THEN {} ELSE {"nl"})
           s == FirstNotOf(chars, cursor.offset)
<1>1. /\ s \in cursor.offset .. Len(text)
      /\ Char(text, s) \notin chars
      /\ \A i \in cursor.offset .. s - 1 : Char(text, i) \in chars
  <2>1. "end" \notin chars
    OBVIOUS
  <2> HIDE DEF chars
  <2> QED BY <2>1, FirstNotIs
<1>2. Start = ReadTo(cursor, s)
  BY DEF Start
<1> HIDE DEF s
<1>3. Len(text) \in Nat
  BY TextIs
<1>4. s \in Nat /\ cursor.offset \in Nat /\ cursor.offset <= s /\ s \in 0 .. Len(text)
  BY <1>1, <1>3
<1>5. IsCursor(Start) /\ Start.offset = s
  BY <1>2, <1>4, ReadToMoves
<1> QED BY <1>1, <1>4, <1>5 DEF SkipsTo

\* The item that a call returns.
IsItemOf(x, tok, from, to, at) == x.tok = tok /\ x.from = from /\ x.to = to /\ x.pos.offset = at

\* Item reports the place it is given, but perhaps for the column.
LEMMA ItemIs ==
  ASSUME NEW tok, NEW from, NEW to, NEW c, NEW hide
  PROVE  IsItemOf(Item(tok, from, to, Place(c), hide), tok, from, to, c.offset)
BY DEF IsItemOf, Item, Place

\* Return: one more item, and the cursor at its end.
LEMMA ReturnIs ==
  ASSUME NEW tok, NEW start, IsCursor(start), start.offset \in Nat, NEW end \in Nat,
         start.offset <= end, Return(tok, start, end)
  PROVE  \E x : /\ IsItemOf(x, tok, start.offset, end, start.offset)
                /\ items' = Append(items, x)
                /\ IsCursor(cursor') /\ cursor'.offset = end
BY ItemIs, ReadToMoves DEF Return

\* Error: one more item, and nothing after it.
LEMMA ErrorIs ==
  ASSUME NEW start, Error(start)
  PROVE  done' = TRUE /\ \E x : x.tok = "error" /\ items' = Append(items, x)
<1> DEFINE x == Item("error", start.offset, start.offset, Place(start), FALSE)
<1>1. x.tok = "error"
  BY DEF Item
<1>2. items' = Append(items, x) /\ done' = TRUE
  BY DEF Error
<1> QED BY <1>1, <1>2

\* CommentEnd finds the first end of the comment.
LEMMA CommentEndIs ==
  ASSUME IsText(text), NEW s \in Nat, At(s) = "/", At(s + 1) = "*", CommentEnd(s) # 0
  PROVE  CommentAt(text, s, CommentEnd(s) - 2) /\ CommentEnd(s) \in Nat
<1> DEFINE S == {i \in s + 2 .. Len(text) - 2 : At(i) = "*" /\ At(i + 1) = "/"}
           k == CommentEnd(s) - 2
<1>1. Len(text) \in Nat
  BY TextIs
<1>2. S # {} /\ CommentEnd(s) = Min(S) + 2
  BY DEF CommentEnd
<1>3. S \in SUBSET Nat
  BY <1>1
<1>4. Min(S) \in S /\ \A i \in S : Min(S) <= i
  <2> HIDE DEF S
  <2> QED BY <1>2, <1>3, MinIs
<1>5. k = Min(S) /\ CommentEnd(s) \in Nat
  <2>1. Min(S) \in Nat
    BY <1>3, <1>4
  <2> HIDE DEF S
  <2> QED BY <1>2, <2>1
<1> HIDE DEF k
<1>6. k \in s + 2 .. Len(text) - 2 /\ At(k) = "*" /\ At(k + 1) = "/"
  BY <1>4, <1>5
<1>7. ASSUME NEW i \in s + 2 .. k - 1 PROVE ~(At(i) = "*" /\ At(i + 1) = "/")
  <2>1. i \in s + 2 .. Len(text) - 2 /\ ~(k <= i)
    BY <1>1, <1>6
  <2> QED BY <1>4, <1>5, <2>1
<1>8. CommentAt(text, s, k)
  BY <1>6, <1>7, AtIs DEF CommentAt
<1> QED BY <1>5, <1>8 DEF k

\* find_line_end looks through the comment it starts at.
LEMMA FindsLineEnd ==
  ASSUME IsText(text), NEW s \in 0 .. Len(text), At(s) = "/", At(s + 1) = "*", ~FindLineEnd(s)
  PROVE  \E f : \E o \in 0 .. s : IsLineEnd(text, f, o) /\ ~f[s + 2][TRUE]
<1> DEFINE f == CHOOSE f : IsLineEnd(text, f, s)
<1>1. Len(text) \in Nat
  BY TextIs
<1>2. FindLineEnd(s) = f[s][TRUE]
  BY Zenon DEF FindLineEnd, IsLineEnd, LineEndClause, At, Char
<1>3. IsLineEnd(text, f, s)
  <2>1. s \in 0 .. Len(text) + 1
    BY <1>1
  <2> QED BY <2>1, LineEndExists DEF HasLineEnd
<1> HIDE DEF f
<1>4. f[s][TRUE] = LineEndClause(text, f, s, TRUE)
  <2>1. s \in s .. Len(text) + 1
    BY <1>1
  <2> QED BY <1>3, <2>1, LineEndIs
<1>5. Char(text, s) = "/" /\ Char(text, s + 1) = "*"
  BY AtIs
<1>6. ~f[s + 2][TRUE]
  BY <1>2, <1>4, <1>5 DEF LineEndClause
<1>7. s \in 0 .. s
  BY <1>1
<1> QED BY <1>3, <1>6, <1>7

-----------------------------------------------------------------------------
(* The steps of the scanner.                                               *)

\* Between two calls of scan, unless the iterator has returned EOF or an error.
AtWork ==
  /\ IsCursor(cursor) /\ cursor.offset \in 0 .. Len(text)
  /\ insert_semi \in BOOLEAN /\ pending_semi \in BOOLEAN
  /\ pending_semi => "offset" \in DOMAIN pending_semi_pos
  /\ SemisRight(text, items, cursor.offset, insert_semi, pending_semi, pending_semi_pos.offset)

SemiInv ==
  /\ IsText(text)
  /\ \E X : items \in Seq(X)
  /\ GoSemis(text, items)
  /\ ~done => AtWork

\* A call that returns no token, or ends the iteration.
LEMMA OtherStep ==
  ASSUME SemiInv, text' = text, NEW x, items' = Append(items, x),
         x.tok \in {"COMMENT", "newline", "error"}, done' = TRUE \/ AtWork'
  PROVE  SemiInv'
<1>1. PICK X : items \in Seq(X)
  BY DEF SemiInv
<1>2. Last(items') = x /\ \E Y : items' \in Seq(Y)
  BY <1>1, AppendIs
<1>3. GoSemis(text', items')
  BY <1>2 DEF GoSemis
<1> QED BY <1>2, <1>3 DEF SemiInv

\* A call that returns a token.
LEMMA TokenStep ==
  ASSUME SemiInv, ~done, ~pending_semi, text' = text,
         NEW x, items' = Append(items, x), x.tok \notin {"COMMENT", "newline", "error"},
         x.from = Start.offset, x.to \in Start.offset .. Len(text),
         At(Start.offset) # "nl",
         IF x.tok = "EOF" THEN ~insert_semi /\ done' = TRUE
         ELSE /\ At(Start.offset) # "end"
              /\ IsCursor(cursor') /\ cursor'.offset = x.to
              /\ insert_semi' \in BOOLEAN /\ (insert_semi' <=> Ends(text, x))
              /\ pending_semi' = pending_semi
  PROVE  SemiInv'
<1> DEFINE s == Start.offset
           at == pending_semi_pos.offset
<1>1. PICK X : items \in Seq(X)
  BY DEF SemiInv
<1>2. /\ IsText(text) /\ IsCursor(cursor) /\ cursor.offset \in 0 .. Len(text)
      /\ insert_semi \in BOOLEAN /\ pending_semi = FALSE
      /\ SemisRight(text, items, cursor.offset, insert_semi, FALSE, at)
  BY DEF SemiInv, AtWork
<1>3. s \in 0 .. Len(text) /\ SkipsTo(text, cursor.offset, insert_semi, s)
  BY <1>2, StartSkips
<1>4. Char(text, s) # "nl" /\ (IF x.tok = "EOF" THEN ~insert_semi ELSE Char(text, s) # "end")
  BY AtIs
<1>5. x.from = s
  OBVIOUS
<1> HIDE DEF s, at
<1>6. GoSemis(text, Append(items, x))
  BY <1>1, <1>2, <1>3, <1>4, <1>5, TokenAsInGo
<1>7. \E Y : items' \in Seq(Y)
  BY <1>1, AppendIs
<1>8. CASE x.tok = "EOF"
  BY <1>2, <1>6, <1>7, <1>8 DEF SemiInv
<1>9. CASE x.tok # "EOF"
  <2>1. Len(text) \in Nat
    BY <1>2, TextIs
  <2>2. x.to \in Nat /\ x.to \in 0 .. Len(text)
    BY <1>3, <2>1 DEF s
  <2>3. SemisRight(text, Append(items, x), x.to, insert_semi', FALSE, pending_semi_pos'.offset)
    BY <1>1, <1>2, <1>9, <2>2, TokenRight
  <2>4. AtWork'
    BY <1>2, <1>9, <2>2, <2>3 DEF AtWork, IsCursor
  <2> QED BY <1>2, <1>6, <1>7, <2>4 DEF SemiInv
<1> QED BY <1>8, <1>9

\* What the steps below start from.
LEMMA AtStart ==
  ASSUME SemiInv, ~done, ~pending_semi
  PROVE  /\ IsText(text) /\ Len(text) \in Nat
         /\ IsCursor(Start) /\ Start.offset \in 0 .. Len(text) /\ Start.offset \in Nat
         /\ SkipsTo(text, cursor.offset, insert_semi, Start.offset)
         /\ cursor.offset \in 0 .. Len(text) /\ insert_semi \in BOOLEAN
         /\ SemisRight(text, items, cursor.offset, insert_semi, FALSE, pending_semi_pos.offset)
         /\ At(Start.offset) # "end" => Start.offset + 1 \in 0 .. Len(text)
         /\ At(Start.offset) # "end" /\ At(Start.offset + 1) # "end" => Start.offset + 2 \in 0 .. Len(text)
<1>1. /\ IsText(text) /\ IsCursor(cursor) /\ cursor.offset \in 0 .. Len(text)
      /\ insert_semi \in BOOLEAN /\ pending_semi = FALSE
      /\ SemisRight(text, items, cursor.offset, insert_semi, FALSE, pending_semi_pos.offset)
  BY DEF SemiInv, AtWork
<1>2. /\ IsCursor(Start) /\ Start.offset \in 0 .. Len(text)
      /\ SkipsTo(text, cursor.offset, insert_semi, Start.offset)
  BY <1>1, StartSkips
<1>3. Len(text) \in Nat
  BY <1>1, TextIs
<1>4. \A o : At(o) # "end" => o < Len(text)
  BY <1>1, TextIs, AtIs
<1>5. Start.offset \in Nat
  BY <1>2, <1>3
<1>6. At(Start.offset) # "end" => Start.offset + 1 \in 0 .. Len(text)
  BY <1>3, <1>4, <1>5
<1>7. At(Start.offset) # "end" /\ At(Start.offset + 1) # "end" => Start.offset + 2 \in 0 .. Len(text)
  <2>1. At(Start.offset + 1) # "end" => Start.offset + 1 < Len(text)
    BY <1>4
  <2> QED BY <1>3, <1>5, <2>1
<1> QED BY <1>1, <1>2, <1>3, <1>5, <1>6, <1>7

\* The steps, one by one.
LEMMA PendingStep == SemiInv /\ ~done /\ PendingSemicolon => SemiInv'
<1> SUFFICES ASSUME SemiInv, ~done, PendingSemicolon PROVE SemiInv'
  OBVIOUS
<1>1. PICK X : items \in Seq(X)
  BY DEF SemiInv
<1> DEFINE x == Item("newline", pending_semi_pos.offset, pending_semi_pos.offset,
                     pending_semi_pos, cursor.hide)
           at == pending_semi_pos.offset
<1>2. /\ pending_semi = TRUE /\ pending_semi' = FALSE
      /\ items' = Append(items, x) /\ text' = text /\ cursor' = cursor
      /\ insert_semi' = insert_semi /\ done' = done
  BY DEF PendingSemicolon, SemiInv, AtWork
<1>3. /\ IsText(text) /\ IsCursor(cursor) /\ cursor.offset \in 0 .. Len(text)
      /\ insert_semi \in BOOLEAN /\ "offset" \in DOMAIN pending_semi_pos
      /\ SemisRight(text, items, cursor.offset, insert_semi, TRUE, at)
  BY <1>2 DEF SemiInv, AtWork
<1>4. x.tok = "newline" /\ x.pos.offset = at
  BY <1>3 DEF Item
<1> HIDE DEF x, at
<1>5. SemisRight(text, Append(items, x), cursor.offset, insert_semi, FALSE, pending_semi_pos'.offset)
  BY <1>1, <1>3, <1>4, PendingRight
<1>6. AtWork'
  BY <1>2, <1>3, <1>5 DEF AtWork, IsCursor
<1> QED BY <1>2, <1>4, <1>6, OtherStep

\* The newline that was looked for.
LEMMA InsertStep ==
  SemiInv /\ ~done /\ ~pending_semi /\ text' = text /\ InsertSemicolon => SemiInv'
<1> SUFFICES ASSUME SemiInv, ~done, ~pending_semi, text' = text, InsertSemicolon PROVE SemiInv'
  OBVIOUS
<1>1. PICK X : items \in Seq(X)
  BY DEF SemiInv
<1> DEFINE start == Start
           s == start.offset
           end == s + (IF At(s) = "nl" THEN 1 ELSE 0)
<1>2. /\ IsText(text) /\ Len(text) \in Nat
      /\ IsCursor(start) /\ s \in 0 .. Len(text) /\ s \in Nat
      /\ SkipsTo(text, cursor.offset, insert_semi, s)
      /\ cursor.offset \in 0 .. Len(text) /\ insert_semi \in BOOLEAN
      /\ SemisRight(text, items, cursor.offset, insert_semi, FALSE, pending_semi_pos.offset)
      /\ At(s) # "end" => s + 1 \in 0 .. Len(text)
  BY AtStart
<1>3. /\ insert_semi = TRUE /\ At(s) \in {"nl", "end"} /\ Return("newline", start, end)
      /\ insert_semi' = FALSE /\ pending_semi' = pending_semi /\ done' = done
      /\ pending_semi = FALSE
  BY <1>2 DEF InsertSemicolon, SemiInv, AtWork
<1> HIDE DEF start
<1>4. end \in Nat /\ s <= end /\ end \in 0 .. Len(text)
  BY <1>2, <1>3
<1>5. PICK x : /\ IsItemOf(x, "newline", s, end, s)
               /\ items' = Append(items, x)
               /\ IsCursor(cursor') /\ cursor'.offset = end
  BY <1>2, <1>3, <1>4, ReturnIs
<1>6. x.tok = "newline" /\ x.pos.offset = s
  BY <1>5 DEF IsItemOf
<1> HIDE DEF end
<1>7. SemisRight(text, Append(items, x), end, FALSE, FALSE, pending_semi_pos'.offset)
  <2>1. Char(text, s) \in {"nl", "end"}
    BY <1>3, AtIs
  <2>2. /\ SemisRight(text, items, cursor.offset, TRUE, FALSE, pending_semi_pos.offset)
        /\ SkipsTo(text, cursor.offset, TRUE, s)
    BY <1>2, <1>3
  <2> QED BY <1>1, <1>2, <1>4, <1>6, <2>1, <2>2, InsertRight
<1>8. AtWork'
  BY <1>3, <1>4, <1>5, <1>7 DEF AtWork, IsCursor
<1> QED BY <1>5, <1>6, <1>8, OtherStep

\* A piece of the text that is not empty begins with its first character.
LEMMA SliceIs ==
  ASSUME IsText(text), NEW from \in Nat, NEW to \in Nat, from < to, to <= Len(text)
  PROVE  /\ Slice(from, to) \in Seq(Range(text) \ {"end"})
         /\ Len(Slice(from, to)) = to - from
         /\ Slice(from, to)[1] = At(from)
<1>1. text \in Seq(Range(text) \ {"end"}) /\ Len(text) \in Nat
  BY TextIs DEF IsText
<1>2. \A i \in from + 1 .. to : text[i] \in Range(text) \ {"end"}
  <2>1. \A i \in from + 1 .. to : i \in 1 .. Len(text)
    BY <1>1
  <2> QED BY <1>1, <2>1, ElementOfSeq
<1>3. /\ Slice(from, to) \in Seq(Range(text) \ {"end"})
      /\ Len(Slice(from, to)) = IF from + 1 <= to THEN to - (from + 1) + 1 ELSE 0
      /\ \A i \in 1 .. to - (from + 1) + 1 : Slice(from, to)[i] = text[(from + 1) + i - 1]
  BY <1>1, <1>2, SubSeqProperties DEF Slice
<1>4. /\ from + 1 <= to /\ to - (from + 1) + 1 = to - from
      /\ 1 \in 1 .. to - (from + 1) + 1 /\ (from + 1) + 1 - 1 = from + 1 /\ from < Len(text)
  BY <1>1
<1>5. Slice(from, to)[1] = text[from + 1]
  BY <1>3, <1>4
<1> QED BY <1>3, <1>4, <1>5 DEF At

\* A call that ends with an error.
LEMMA ErrorStep ==
  ASSUME SemiInv, text' = text, NEW start, Error(start)
  PROVE  SemiInv'
BY ErrorIs, OtherStep

\* A call that returns a token, with what it says of the newline after it.
LEMMA ReturnStep ==
  ASSUME SemiInv, ~done, ~pending_semi, text' = text,
         NEW tok, tok \notin {"COMMENT", "newline", "error", "EOF"},
         NEW end \in Start.offset .. Len(text), Return(tok, Start, end),
         At(Start.offset) \notin {"nl", "end"},
         insert_semi' \in BOOLEAN, pending_semi' = pending_semi,
         insert_semi' <=> (tok \in {"IDENT", "STRING"} \/ Slice(Start.offset, end) \in Ending)
  PROVE  SemiInv'
<1> DEFINE start == Start
           s == start.offset
<1>1. IsCursor(start) /\ s \in Nat /\ Len(text) \in Nat
  BY AtStart
<1>2. end \in Nat /\ s <= end
  BY <1>1
<1>3. PICK x : /\ IsItemOf(x, tok, s, end, s)
               /\ items' = Append(items, x)
               /\ IsCursor(cursor') /\ cursor'.offset = end
  <2> HIDE DEF start
  <2>1. Return(tok, start, end)
    BY DEF start
  <2> QED BY <1>1, <1>2, <2>1, ReturnIs
<1>4. x.tok = tok /\ x.from = Start.offset /\ x.to = end
  BY <1>3 DEF IsItemOf
<1>5. insert_semi' <=> Ends(text, x)
  BY <1>4 DEF Ends, Slice
<1>6. /\ x.tok \notin {"COMMENT", "newline", "error"} /\ x.tok # "EOF"
      /\ x.to \in Start.offset .. Len(text) /\ cursor'.offset = x.to
  BY <1>3, <1>4
<1> HIDE DEF start
<1> QED BY <1>3, <1>4, <1>5, <1>6, TokenStep

\* The end of the text is a token: all semicolons before it are returned.
LEMMA EndOfFileStep ==
  SemiInv /\ ~done /\ ~pending_semi /\ text' = text /\ EndOfFile => SemiInv'
<1> SUFFICES ASSUME SemiInv, ~done, ~pending_semi, text' = text, EndOfFile PROVE SemiInv'
  OBVIOUS
<1> DEFINE start == Start
           s == start.offset
<1>1. IsCursor(start) /\ s \in Nat /\ s \in 0 .. Len(text) /\ Len(text) \in Nat
  BY AtStart
<1>2. ~insert_semi /\ At(s) = "end" /\ Return("EOF", start, s) /\ done' = TRUE
  BY DEF EndOfFile
<1>3. s \in s .. Len(text) /\ s <= s
  BY <1>1
<1>4. PICK x : IsItemOf(x, "EOF", s, s, s) /\ items' = Append(items, x)
  <2> HIDE DEF start
  <2> QED BY <1>1, <1>2, <1>3, ReturnIs
<1>5. /\ x.tok = "EOF" /\ x.from = Start.offset /\ x.to \in Start.offset .. Len(text)
      /\ At(Start.offset) # "nl"
  BY <1>2, <1>3, <1>4 DEF IsItemOf
<1> HIDE DEF start
<1> QED BY <1>2, <1>4, <1>5, TokenStep

\* Identifiers, and the keywords of Ending, end statements.
LEMMA WordStep ==
  SemiInv /\ ~done /\ ~pending_semi /\ text' = text /\ Word => SemiInv'
<1> SUFFICES ASSUME SemiInv, ~done, ~pending_semi, text' = text, Word PROVE SemiInv'
  OBVIOUS
<1> DEFINE s == Start.offset
           end == FirstNotOf(Letters, s)
           word == Slice(s, end)
           tok == IF word \in Keywords THEN "keyword" ELSE "IDENT"
<1>1. IsText(text) /\ s \in 0 .. Len(text)
  BY AtStart
<1>2. end \in s .. Len(text)
  <2>1. "end" \notin Letters
    BY OperatorsAssumption
  <2> HIDE DEF s
  <2> QED BY <1>1, <2>1, FirstNotIs
<1>3. /\ At(s) \in Letters /\ Return(tok, Start, end)
      /\ insert_semi' = (word \notin Keywords \/ word \in Ending)
      /\ pending_semi' = pending_semi
  BY DEF Word
<1>4. At(s) \notin {"nl", "end"}
  BY <1>3, OperatorsAssumption
<1>5. insert_semi' \in BOOLEAN /\ (insert_semi' <=> (tok \in {"IDENT", "STRING"} \/ word \in Ending))
  BY <1>3
<1>6. tok \notin {"COMMENT", "newline", "error", "EOF"}
  OBVIOUS
<1> HIDE DEF tok, end
<1> QED BY <1>2, <1>3, <1>4, <1>5, <1>6, ReturnStep

\* So do the operators of Ending, ...
LEMMA OperatorStep ==
  SemiInv /\ ~done /\ ~pending_semi /\ text' = text /\ Operator => SemiInv'
<1> SUFFICES ASSUME SemiInv, ~done, ~pending_semi, text' = text, Operator PROVE SemiInv'
  OBVIOUS
<1> DEFINE s == Start.offset
<1>1. IsText(text) /\ s \in Nat /\ Len(text) \in Nat
  BY AtStart
<1>2. PICK op \in Operators :
        /\ s + Len(op) <= Len(text) /\ op = Slice(s, s + Len(op))
        /\ Return("operator", Start, s + Len(op))
        /\ insert_semi' = (op \in Ending)
        /\ pending_semi' = pending_semi
  BY DEF Operator
<1>3. /\ op \in Seq(Range(op)) /\ op # <<>> /\ Len(op) \in Nat /\ Len(op) > 0
      /\ Head(op) = op[1] /\ Head(op) # "nl"
  <2>1. op \in Seq(Range(op)) /\ op # <<>> /\ Head(op) # "nl"
    BY OperatorsAssumption
  <2>2. Len(op) \in Nat /\ Head(op) = op[1]
    BY <2>1
  <2>3. Len(op) # 0
    BY <2>1, EmptySeq
  <2> QED BY <2>1, <2>2, <2>3
<1> DEFINE end == s + Len(op)
<1> HIDE DEF s
<1>4. end \in Nat /\ s < end /\ end \in s .. Len(text) /\ s < Len(text)
  BY <1>1, <1>2, <1>3
<1>5. op[1] = At(s)
  BY <1>1, <1>2, <1>4, SliceIs
<1>6. At(s) \notin {"nl", "end"}
  <2>1. At(s) # "end"
    BY <1>1, <1>4, TextIs, AtIs
  <2> QED BY <1>3, <1>5, <2>1
<1>7. insert_semi' \in BOOLEAN
      /\ (insert_semi' <=> ("operator" \in {"IDENT", "STRING"} \/ Slice(s, end) \in Ending))
  <2>1. insert_semi' = (op \in Ending) /\ op = Slice(s, end)
    BY <1>2
  <2> HIDE DEF end
  <2>2. insert_semi' = (Slice(s, end) \in Ending) /\ "operator" \notin {"IDENT", "STRING"}
    BY <2>1
  <2>3. insert_semi' \in BOOLEAN
    BY <2>1
  <2>4. insert_semi' <=> Slice(s, end) \in Ending
    BY <2>1
  <2> QED BY <2>2, <2>3, <2>4
<1>8. Return("operator", Start, end) /\ pending_semi' = pending_semi
  BY <1>2
<1> HIDE DEF end
<1> QED BY <1>4, <1>6, <1>7, <1>8, ReturnStep DEF s

\* ... strings, ...
LEMMA StringStep ==
  SemiInv /\ ~done /\ ~pending_semi /\ text' = text /\ QuotedString => SemiInv'
<1> SUFFICES ASSUME SemiInv, ~done, ~pending_semi, text' = text, QuotedString PROVE SemiInv'
  OBVIOUS
<1> DEFINE s == Start.offset
           close == FirstOf({At(s)}, s + 1)
<1>1. /\ IsText(text) /\ s \in Nat /\ Len(text) \in Nat
      /\ At(s) # "end" => s + 1 \in 0 .. Len(text)
  BY AtStart
<1>2. /\ At(s) \in Quotes /\ insert_semi' = TRUE /\ pending_semi' = pending_semi
      /\ IF close < Len(text) THEN Return("STRING", Start, close + 1) ELSE Error(ReadTo(Start, close))
  BY DEF QuotedString
<1>3. At(s) \notin {"nl", "end"}
  BY <1>2 DEF Quotes
<1>4. close \in s + 1 .. Len(text)
  <2> HIDE DEF s
  <2> QED BY <1>1, <1>3, FirstIs
<1>5. CASE close < Len(text)
  <2>1. close + 1 \in s .. Len(text)
    <3> HIDE DEF close, s
    <3> QED BY <1>1, <1>4, <1>5
  <2>2. insert_semi' \in BOOLEAN
        /\ (insert_semi' <=> ("STRING" \in {"IDENT", "STRING"} \/ Slice(s, close + 1) \in Ending))
    BY <1>2
  <2> HIDE DEF close
  <2> QED BY <1>2, <1>3, <1>5, <2>1, <2>2, ReturnStep
<1>6. CASE ~(close < Len(text))
  BY <1>2, <1>6, ErrorStep
<1> QED BY <1>5, <1>6

\* ... but nothing that begins with "/".
LEMMA SlashStep ==
  SemiInv /\ ~done /\ ~pending_semi /\ text' = text /\ Slash => SemiInv'
<1> SUFFICES ASSUME SemiInv, ~done, ~pending_semi, text' = text, Slash PROVE SemiInv'
  OBVIOUS
<1> DEFINE s == Start.offset
           end == s + (IF At(s + 1) = "=" THEN 2 ELSE 1)
<1>1. /\ IsText(text) /\ s \in Nat /\ Len(text) \in Nat
      /\ At(s) # "end" => s + 1 \in 0 .. Len(text)
      /\ At(s) # "end" /\ At(s + 1) # "end" => s + 2 \in 0 .. Len(text)
  BY AtStart
<1>2. /\ At(s) = "/" /\ Return("operator", Start, end) /\ insert_semi' = FALSE
      /\ pending_semi' = pending_semi
  BY DEF Slash
<1>3. end \in Nat /\ s < end /\ end <= Len(text) /\ end \in s .. Len(text)
  <2> HIDE DEF s
  <2> QED BY <1>1, <1>2
<1> HIDE DEF end
<1>4. Slice(s, end) \notin Ending
  <2> DEFINE word == Slice(s, end)
  <2>1. /\ word \in Seq(Range(text) \ {"end"}) /\ Len(word) = end - s /\ word[1] = "/"
    BY <1>1, <1>2, <1>3, SliceIs
  <2> HIDE DEF word, s
  <2>2. Len(word) > 0 /\ word # <<>> /\ 1 \in DOMAIN word /\ Head(word) = word[1]
    BY <1>1, <1>3, <2>1
  <2>3. word \notin Operators
    BY <2>1, <2>2, OperatorsAssumption
  <2>4. word \notin Keywords
    BY <2>1, <2>2, OperatorsAssumption
  <2> QED BY <2>3, <2>4, OperatorsAssumption DEF word
<1>5. insert_semi' \in BOOLEAN
      /\ (insert_semi' <=> ("operator" \in {"IDENT", "STRING"} \/ Slice(s, end) \in Ending))
  BY <1>2, <1>4
<1> QED BY <1>2, <1>3, <1>5, ReturnStep

\* Comments are no tokens.
LEMMA LineCommentStep ==
  SemiInv /\ ~done /\ ~pending_semi /\ text' = text /\ LineComment => SemiInv'
<1> SUFFICES ASSUME SemiInv, ~done, ~pending_semi, text' = text, LineComment PROVE SemiInv'
  OBVIOUS
<1>1. PICK X : items \in Seq(X)
  BY DEF SemiInv
<1> DEFINE start == Start
           s == start.offset
           end == FirstOf({"nl"}, s)
           body == Slice(s + 2, end)
           directive == start.column = 1 /\ IsDirective(body)
           read == ReadTo(start, end)
           x == Item("COMMENT", s, end, Place(start), read.hide)
<1>2. /\ IsText(text) /\ Len(text) \in Nat
      /\ IsCursor(start) /\ s \in 0 .. Len(text) /\ s \in Nat
      /\ SkipsTo(text, cursor.offset, insert_semi, s)
      /\ cursor.offset \in 0 .. Len(text) /\ insert_semi \in BOOLEAN
      /\ SemisRight(text, items, cursor.offset, insert_semi, FALSE, pending_semi_pos.offset)
  BY AtStart
<1>3. pending_semi = FALSE
  BY DEF SemiInv, AtWork
<1>4. /\ At(s) = "/" /\ At(s + 1) = "/"
      /\ insert_semi' = insert_semi /\ pending_semi' = pending_semi
      /\ pending_semi_pos' = pending_semi_pos
      /\ \/ Error(read)
         \/ /\ items' = Append(items, x)
            /\ cursor' = IF directive THEN [read EXCEPT !.info = Directives[Head(body)]] ELSE read
  BY DEF LineComment
<1> HIDE DEF start, directive, body
<1>5. end = NewlineFrom(text, s) /\ end \in s .. Len(text) /\ end \in Nat /\ s <= end
  BY <1>2, FirstNewline, NewlineIs
<1> HIDE DEF end
<1>6. IsCursor(read) /\ read.offset = end
  BY <1>2, <1>5, ReadToMoves
<1> HIDE DEF read
<1>7. CASE Error(read)
  BY <1>7, ErrorStep
<1>8. CASE /\ items' = Append(items, x)
           /\ cursor' = IF directive THEN [read EXCEPT !.info = Directives[Head(body)]] ELSE read
  <2>1. x.tok = "COMMENT"
    BY ItemIs DEF IsItemOf
  <2> HIDE DEF x
  <2>2. IsCursor(cursor') /\ cursor'.offset = end
    BY <1>6, <1>8 DEF IsCursor
  <2>3. SemisRight(text, Append(items, x), end, insert_semi, FALSE, pending_semi_pos'.offset)
    <3>1. Char(text, s) = "/" /\ Char(text, s + 1) = "/"
      BY <1>4, AtIs
    <3> HIDE DEF s
    <3> QED BY <1>1, <1>2, <1>5, <2>1, <3>1, LineCommentRight
  <2>4. end \in 0 .. Len(text)
    BY <1>2, <1>5
  <2>5. AtWork'
    BY <1>2, <1>3, <1>4, <1>8, <2>2, <2>3, <2>4 DEF AtWork, IsCursor
  <2> QED BY <1>8, <2>1, <2>5, OtherStep
<1> QED BY <1>4, <1>7, <1>8

\* A call that finds the end of the comment and looks behind it for a newline.
LEMMA GeneralCommentStep ==
  SemiInv /\ ~done /\ ~pending_semi /\ text' = text /\ GeneralComment => SemiInv'
<1> SUFFICES ASSUME SemiInv, ~done, ~pending_semi, text' = text, GeneralComment PROVE SemiInv'
  OBVIOUS
<1>1. PICK X : items \in Seq(X)
  BY DEF SemiInv
<1> DEFINE start == Start
           s == start.offset
           end == CommentEnd(s)
           newline == FirstOf({"nl"}, s)
           track == insert_semi /\ FindLineEnd(s)
           body == Slice(s + 2, end - 2)
           read == ReadTo(start, end)
           x == Item("COMMENT", s, end, Place(start), read.hide)
<1>2. /\ IsText(text) /\ Len(text) \in Nat
      /\ IsCursor(start) /\ s \in 0 .. Len(text) /\ s \in Nat
      /\ SkipsTo(text, cursor.offset, insert_semi, s)
      /\ cursor.offset \in 0 .. Len(text) /\ insert_semi \in BOOLEAN
      /\ SemisRight(text, items, cursor.offset, insert_semi, FALSE, pending_semi_pos.offset)
  BY AtStart
<1>3. /\ At(s) = "/" /\ At(s + 1) = "*"
      /\ IF end = 0 THEN Error(ReadTo(start, Len(text)))
         ELSE /\ pending_semi' = (track /\ newline < end)
              /\ pending_semi_pos' = IF pending_semi' THEN Place(ReadTo(start, newline)) ELSE None
              /\ insert_semi' = (track /\ newline >= end)
              /\ \/ Error(read)
                 \/ Return("COMMENT", start, end)
                 \/ /\ items' = Append(items, x)
                    /\ cursor' = ConsumeInfo([read EXCEPT !.info = Directives[Head(body)]])
  BY DEF GeneralComment
<1>4. CASE end = 0
  BY <1>3, <1>4, ErrorStep
<1>5. CASE end # 0
  <2>1. CommentAt(text, s, end - 2) /\ end \in Nat
    <3> HIDE DEF s
    <3> QED BY <1>2, <1>3, <1>5, CommentEndIs
  <2>2. newline = NewlineFrom(text, s) /\ newline \in s .. Len(text) /\ newline \in Nat
    <3>1. NewlineFrom(text, s) \in s .. Len(text)
      BY <1>2, NewlineIs
    <3> QED BY <1>2, <3>1, FirstNewline
  <2>3. insert_semi /\ ~track => \E f : \E o \in 0 .. s : IsLineEnd(text, f, o) /\ ~f[s + 2][TRUE]
    BY <1>2, <1>3, FindsLineEnd
  <2>4. track \in BOOLEAN /\ (track => insert_semi)
    BY <1>2
  <2> HIDE DEF track, newline, body
  <2>5. CASE Error(read)
    BY <2>5, ErrorStep
  <2>6. end - 2 \in s + 2 .. Len(text) - 2 /\ end \in 0 .. Len(text) /\ s <= end /\ (end - 2) + 2 = end
    <3>1. end - 2 \in s + 2 .. Len(text) - 2
      BY <2>1 DEF CommentAt
    <3> HIDE DEF end, s
    <3> QED BY <1>2, <2>1, <3>1
  <2> HIDE DEF end
  <2>7. IsCursor(read) /\ read.offset = end
    <3> HIDE DEF start
    <3> QED BY <1>2, <2>1, <2>6, ReadToMoves
  <2>8. CASE \/ Return("COMMENT", start, end)
             \/ /\ items' = Append(items, x)
                /\ cursor' = ConsumeInfo([read EXCEPT !.info = Directives[Head(body)]])
    <3>1. /\ items' = Append(items, x) /\ IsCursor(cursor') /\ cursor'.offset = end
      <4>1. CASE Return("COMMENT", start, end)
        BY <2>7, <4>1 DEF Return
      <4>2. CASE /\ items' = Append(items, x)
                 /\ cursor' = ConsumeInfo([read EXCEPT !.info = Directives[Head(body)]])
        <5> DEFINE c == [read EXCEPT !.info = Directives[Head(body)]]
        <5>1. IsCursor(c) /\ c.offset = end
          <6> HIDE DEF read
          <6> QED BY <2>7 DEF IsCursor
        <5> HIDE DEF c
        <5>2. IsCursor(ConsumeInfo(c)) /\ ConsumeInfo(c).offset = end
          BY <5>1, InfoConsumed
        <5> QED BY <4>2, <5>2 DEF c
      <4> QED BY <2>8, <4>1, <4>2
    <3>2. x.tok = "COMMENT" /\ x.from = s /\ x.to = end
      BY ItemIs DEF IsItemOf
    <3> HIDE DEF read, x
    <3>3. track /\ newline < end =>
            pending_semi_pos'.offset = newline /\ "offset" \in DOMAIN pending_semi_pos'
      <4> SUFFICES ASSUME track, newline < end
                   PROVE  pending_semi_pos'.offset = newline /\ "offset" \in DOMAIN pending_semi_pos'
        OBVIOUS
      <4>1. pending_semi_pos' = Place(ReadTo(start, newline))
        BY <1>3, <1>5
      <4>2. ReadTo(start, newline).offset = newline
        <5> HIDE DEF start
        <5>1. s <= newline
          BY <1>2, <2>2
        <5> QED BY <1>2, <2>2, <5>1, ReadToMoves
      <4> QED BY <4>1, <4>2 DEF Place
    <3> DEFINE k == end - 2
               there == pending_semi_pos'.offset
    <3>4. CommentAt(text, s, k) /\ k + 2 = end
      BY <2>1, <2>6
    <3> HIDE DEF k, there
    <3>5. insert_semi' = (track /\ newline >= end) /\ pending_semi' = (track /\ newline < end)
      BY <1>3, <1>5
    <3>6. /\ insert_semi' = (track /\ NewlineFrom(text, s) >= k + 2)
          /\ pending_semi' = (track /\ NewlineFrom(text, s) < k + 2)
          /\ pending_semi' => there = NewlineFrom(text, s)
      BY <2>2, <3>3, <3>4, <3>5 DEF there
    <3>7. SemisRight(text, Append(items, x), k + 2, insert_semi', pending_semi', there)
      <4>1. x.to = k + 2
        BY <3>2, <3>4
      <4> HIDE DEF s
      <4>2. \A tr \in BOOLEAN :
              /\ tr => insert_semi
              /\ insert_semi /\ ~tr => \E f : \E o \in 0 .. s : IsLineEnd(text, f, o) /\ ~f[s + 2][TRUE]
              /\ insert_semi' = (tr /\ NewlineFrom(text, s) >= k + 2)
              /\ pending_semi' = (tr /\ NewlineFrom(text, s) < k + 2)
              /\ pending_semi' => there = NewlineFrom(text, s)
              => SemisRight(text, Append(items, x), k + 2, insert_semi', pending_semi', there)
        <5>1. /\ IsText(text) /\ items \in Seq(X) /\ cursor.offset \in 0 .. Len(text)
              /\ insert_semi \in BOOLEAN
              /\ SemisRight(text, items, cursor.offset, insert_semi, FALSE, pending_semi_pos.offset)
              /\ SkipsTo(text, cursor.offset, insert_semi, s) /\ CommentAt(text, s, k)
              /\ x.tok = "COMMENT" /\ x.from = s /\ x.to = k + 2
          BY <1>1, <1>2, <3>2, <3>4, <4>1
        <5> HIDE DEF there
        <5> DEFINE off == cursor.offset
                   at == pending_semi_pos.offset
        <5> HIDE DEF off, at
        <5>2. /\ IsText(text) /\ items \in Seq(X) /\ off \in 0 .. Len(text)
              /\ insert_semi \in BOOLEAN
              /\ SemisRight(text, items, off, insert_semi, FALSE, at)
              /\ SkipsTo(text, off, insert_semi, s) /\ CommentAt(text, s, k)
              /\ x.tok = "COMMENT" /\ x.from = s /\ x.to = k + 2
          BY <5>1 DEF off, at
        <5> QED BY <5>2, GeneralCommentRight, Zenon
      <4> QED BY <2>3, <2>4, <3>6, <4>2
    <3>8. SemisRight(text, Append(items, x), end, insert_semi', pending_semi', there)
      BY <3>4, <3>7
    <3>9. AtWork'
      <4>1. insert_semi' \in BOOLEAN /\ pending_semi' \in BOOLEAN
            /\ (pending_semi' => "offset" \in DOMAIN pending_semi_pos')
        BY <2>4, <3>3, <3>5
      <4>2. SemisRight(text', items', cursor'.offset, insert_semi', pending_semi', pending_semi_pos'.offset)
        BY <3>1, <3>8 DEF there
      <4> QED BY <2>6, <3>1, <4>1, <4>2 DEF AtWork, IsCursor
    <3> QED BY <3>1, <3>2, <3>9, OtherStep
  <2> QED BY <1>3, <1>5, <2>5, <2>8
<1> QED BY <1>4, <1>5

\* One call of scan.
LEMMA ScanKeepsSemicolons == SemiInv /\ Scan => SemiInv'
<1> SUFFICES ASSUME SemiInv, Scan PROVE SemiInv'
  OBVIOUS
<1>1. ~done
  BY DEF Scan
<1>2. CASE PendingSemicolon
  BY <1>1, <1>2, PendingStep
<1>3. CASE ~pending_semi /\ text' = text /\ InsertSemicolon
  BY <1>1, <1>3, InsertStep
<1>4. CASE ~pending_semi /\ text' = text /\ EndOfFile
  BY <1>1, <1>4, EndOfFileStep
<1>5. CASE ~pending_semi /\ text' = text /\ Word
  BY <1>1, <1>5, WordStep
<1>6. CASE ~pending_semi /\ text' = text /\ Operator
  BY <1>1, <1>6, OperatorStep
<1>7. CASE ~pending_semi /\ text' = text /\ QuotedString
  BY <1>1, <1>7, StringStep
<1>8. CASE ~pending_semi /\ text' = text /\ LineComment
  BY <1>1, <1>8, LineCommentStep
<1>9. CASE ~pending_semi /\ text' = text /\ GeneralComment
  BY <1>1, <1>9, GeneralCommentStep
<1>10. CASE ~pending_semi /\ text' = text /\ Slash
  BY <1>1, <1>10, SlashStep
<1>11. CASE text' = text /\ IllegalCharacter
  <2>1. Error(Start)
    BY <1>11 DEF IllegalCharacter
  <2> QED BY <1>11, <2>1, ErrorStep
<1> QED BY <1>2, <1>3, <1>4, <1>5, <1>6, <1>7, <1>8, <1>9, <1>10, <1>11 DEF Scan

\* What the invariant says of the items is the promise.
LEMMA SemisAreGos == SemiInv => SemicolonsAsInGo
<1> SUFFICES ASSUME SemiInv PROVE SemicolonsAsInGo
  OBVIOUS
<1>1. PICK X : items \in Seq(X)
  BY DEF SemiInv
<1>2. Len(items) \in Nat
  BY <1>1
<1> DEFINE T == TokensIn(items)
           b == Max(T)
<1>3. TokenBefore = IF T = {} THEN 0 ELSE b
  BY DEF TokenBefore, TokensIn
<1>4. T # {} => b # 0
  <2> SUFFICES ASSUME T # {} PROVE b # 0
    OBVIOUS
  <2> DEFINE L == Len(items)
             S == {L - i : i \in T}
  <2>1. \A i \in T : i \in 1 .. L
    BY <1>2 DEF TokensIn
  <2> HIDE DEF T
  <2>2. S \in SUBSET Nat /\ S # {}
    BY <1>2, <2>1
  <2>3. PICK m \in S : \A k \in S : m <= k
    <3> HIDE DEF S
    <3> QED BY <2>2, Least
  <2>4. PICK i \in T : m = L - i
    BY <2>3
  <2>5. \A j \in T : i >= j
    <3>1. \A j \in T : L - i <= L - j
      BY <2>3, <2>4
    <3> QED BY <1>2, <2>1, <2>4, <3>1
  <2>6. b \in T
    BY <2>4, <2>5 DEF Max
  <2> QED BY <2>1, <2>6
<1>5. \A x : Ends(text, x) <=> EndsStatement(x)
  BY DEF Ends, EndsStatement, Slice
<1>6. \A x : Overlapped(text, x) <=> EndsOverlapped(x)
  BY DEF Overlapped, EndsOverlapped, Slice
<1>7. \A o : FirstOf({"nl"}, o) = NewlineFrom(text, o)
  BY FirstNewline
<1>8. GoSemis(text, items)
  BY DEF SemiInv
<1>9. CASE T = {} /\ \A i \in DOMAIN items : items[i].tok # "newline"
  BY <1>3, <1>9 DEF SemicolonsAsInGo
<1>10. CASE T # {} /\ SemisBetween(text, items, b)
  <2>1. TokenBefore = b /\ b # 0
    BY <1>3, <1>4, <1>10
  <2> HIDE DEF b, T
  <2> DEFINE between == b + 1 .. Len(items) - 1
             semis == {i \in between : items[i].tok = "newline"}
             newline == NewlineFrom(text, items[b].to)
  <2>2. IF Ends(text, items[b]) /\ newline <= Last(items).from
        THEN \/ \E i \in between : semis = {i} /\ items[i].pos.offset = newline
             \/ semis = {} /\ \E i \in between : Overlapped(text, items[i])
        ELSE semis = {}
    BY <1>10, Zenon DEF SemisBetween
  <2>3. newline = FirstOf({"nl"}, items[b].to)
    BY <1>7
  <2> HIDE DEF newline
  <2>4. IF EndsStatement(items[b]) /\ newline <= Last(items).from
        THEN \/ \E i \in between : semis = {i} /\ items[i].pos.offset = newline
             \/ semis = {} /\ \E i \in between : EndsOverlapped(items[i])
        ELSE semis = {}
    BY <1>5, <1>6, <2>2, Zenon
  <2> QED BY <2>1, <2>3, <2>4, Zenon DEF SemicolonsAsInGo
<1> QED BY <1>8, <1>9, <1>10 DEF GoSemis, SemicolonsAsInGo

\* Nothing has been returned yet.
LEMMA SemiInit == FeedInit => SemiInv
<1> SUFFICES ASSUME FeedInit PROVE SemiInv
  OBVIOUS
<1>1. /\ text \in Texts /\ cursor.offset = 0 /\ "offset" \in DOMAIN cursor
      /\ insert_semi = FALSE /\ pending_semi = FALSE /\ items = <<>>
  BY DEF FeedInit, ScanInit
<1>2. IsText(text)
  BY <1>1, TextsAssumption DEF IsText
<1>3. Len(text) \in Nat /\ Len(items) = 0
  BY <1>1, <1>2, TextIs
<1>4. LastToken(items, 0, 0)
  BY <1>3 DEF LastToken
<1>5. NotDue(text, items, 0, 0, FALSE, FALSE, pending_semi_pos.offset)
  BY <1>3 DEF NotDue, NoneSince
<1>6. SemisRight(text, items, 0, FALSE, FALSE, pending_semi_pos.offset)
  BY <1>4, <1>5 DEF SemisRight, Cases
<1>7. AtWork
  <2>1. SemisRight(text, items, cursor.offset, insert_semi, pending_semi, pending_semi_pos.offset)
    BY <1>1, <1>6, Zenon
  <2>2. cursor.offset \in 0 .. Len(text)
    BY <1>1, <1>3
  <2>3. insert_semi \in BOOLEAN /\ pending_semi \in BOOLEAN
    BY <1>1
  <2>4. IsCursor(cursor) /\ (pending_semi => "offset" \in DOMAIN pending_semi_pos)
    BY <1>1 DEF IsCursor
  <2> HIDE DEF FeedInit
  <2> QED BY <2>1, <2>2, <2>3, <2>4 DEF AtWork
<1>8. items \in Seq({})
  BY <1>1
<1> QED BY <1>1, <1>2, <1>7, <1>8 DEF SemiInv, GoSemis

\* Whatever the text, the semicolon after a token that can end a statement is
\* returned once, at the first newline after it, and before the next token, and
\* none is returned elsewhere: at newlines between tokens, in and after comments
\* of any number.  Only a comment that ends in "/*/" can lose one.
THEOREM SemicolonsAlwaysAsInGo == FeedSpec => []SemicolonsAsInGo
<1>1. FeedInit => SemiInv
  BY SemiInit
<1>2. SemiInv /\ [FeedNext]_sourceVars => SemiInv'
  <2> SUFFICES ASSUME SemiInv, [FeedNext]_sourceVars PROVE SemiInv'
    OBVIOUS
  <2>1. CASE TakeStep
    BY <2>1, ScanKeepsSemicolons DEF TakeStep
  <2>2. CASE UNCHANGED sourceVars
    <3>1. UNCHANGED <<text, cursor, insert_semi, pending_semi, pending_semi_pos, items, done>>
      BY <2>2 DEF sourceVars, scanVars
    <3> QED BY <3>1 DEF SemiInv, AtWork, IsCursor
  <2> QED BY <2>1, <2>2 DEF FeedNext, Finished
<1>3. SemiInv => SemicolonsAsInGo
  BY SemisAreGos
<1> QED BY <1>1, <1>2, <1>3, PTL DEF FeedSpec
=============================================================================
