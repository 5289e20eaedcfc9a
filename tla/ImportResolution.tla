-------------------------- MODULE ImportResolution --------------------------
(***************************************************************************)
(* The parser's import resolution: resolve_imports_recursive walks the     *)
(* packages of the module depth first from the main package.  The order in *)
(* which it completes them is the order in which the generated program     *)
(* initializes them.                                                       *)
(***************************************************************************)
EXTENDS Naturals, Sequences, FiniteSets

CONSTANTS
  Locals,  \* packages below the go.mod directory
  Stdlib,  \* the standard library packages that resolve::is_known knows
  Main,    \* the main package
  Graphs   \* import graphs: every package's imports, in source order

Packages == Locals \cup Stdlib \cup {Main}

ASSUME GraphAssumption ==
  /\ Main \notin Locals \cup Stdlib
  /\ Locals \cap Stdlib = {}
  /\ \A g \in Graphs : g \in [Locals \cup {Main} -> Seq(Locals \cup Stdlib)]

VARIABLES
  graph,    \* the program's imports
  stack,    \* the recursion: the package of each call and its next import
  visited,  \* the local packages met so far
  imports,  \* the packages whose call has returned, in order
  stdlib,   \* stdlib_imports
  failed    \* a package is not there or does not parse

vars == <<graph, stack, visited, imports, stdlib, failed>>

Frames == [pkg : Locals \cup {Main}, next : Nat \ {0}]

TypeOK ==
  /\ graph \in Graphs
  /\ stack \in Seq(Frames)
  /\ visited \subseteq Locals
  /\ imports \in Seq(Locals)
  /\ stdlib \subseteq Stdlib
  /\ failed \in BOOLEAN

Frame(p) == [pkg |-> p, next |-> 1]

\* parse_program: the first call is for the main package.
Init ==
  /\ graph \in Graphs
  /\ stack = <<Frame(Main)>>
  /\ visited = {}
  /\ imports = <<>>
  /\ stdlib = {}
  /\ failed = FALSE

Recorded(n) == {imports[m] : m \in 1 .. n}

Top == stack[Len(stack)]
Here == graph[Top.pkg][Top.next]
HasNext == stack # <<>> /\ ~failed /\ Top.next <= Len(graph[Top.pkg])
Advanced == [stack EXCEPT ![Len(stack)] = [pkg |-> Top.pkg, next |-> Top.next + 1]]

\* Mutant: a package met again is waited for.
AwaitVisited ==
  /\ HasNext
  /\ Here \in visited \cap Recorded(Len(imports))
  /\ stack' = Advanced
  /\ UNCHANGED <<graph, visited, imports, stdlib, failed>>

\* The loop goes on at the next import.
SkipVisited ==
  /\ HasNext
  /\ Here \in visited
  /\ stack' = Advanced
  /\ UNCHANGED <<graph, visited, imports, stdlib, failed>>

\* Mutant: a standard library import ends the loop.
AddStdlibAndLeave ==
  /\ HasNext
  /\ Here \in Stdlib
  /\ stdlib' = stdlib \cup {Here}
  /\ stack' = [stack EXCEPT ![Len(stack)].next = Len(graph[Top.pkg]) + 1]
  /\ UNCHANGED <<graph, visited, imports, failed>>

AddStdlib ==
  /\ HasNext
  /\ Here \in Stdlib
  /\ stdlib' = stdlib \cup {Here}
  /\ stack' = Advanced
  /\ UNCHANGED <<graph, visited, imports, failed>>

\* A local package is marked, parsed and resolved by a call of its own.
Enter ==
  /\ HasNext
  /\ Here \in Locals \ visited
  /\ visited' = visited \cup {Here}
  /\ stack' = Append(Advanced, Frame(Here))
  /\ UNCHANGED <<graph, imports, stdlib, failed>>

\* The directory is missing or a file does not parse: every call returns.
Fail ==
  /\ HasNext
  /\ Here \in Locals \ visited
  /\ failed' = TRUE
  /\ stack' = <<>>
  /\ UNCHANGED <<graph, visited, imports, stdlib>>

\* The call returns and its caller pushes the package; the main package is
\* not pushed.
Leave ==
  /\ stack # <<>> /\ ~failed
  /\ Top.next > Len(graph[Top.pkg])
  /\ imports' = IF Len(stack) > 1 THEN Append(imports, Top.pkg) ELSE imports
  /\ stack' = SubSeq(stack, 1, Len(stack) - 1)
  /\ UNCHANGED <<graph, visited, stdlib, failed>>

Next == SkipVisited \/ AddStdlib \/ Enter \/ Fail \/ Leave

Spec == Init /\ [][Next]_vars

-----------------------------------------------------------------------------
ImportsOf(p) == {graph[p][i] : i \in DOMAIN graph[p]}
Resolved == stack = <<>> /\ ~failed

\* Go accepts a program only if no package imports itself, however indirectly:
\* some numbering falls along every import.
Falls(rank) == \A p \in Locals \cup {Main} : \A q \in ImportsOf(p) \cap Locals : rank[q] < rank[p]
Acyclic == \E rank \in [Locals \cup {Main} -> 0 .. Cardinality(Locals)] : Falls(rank)

\* Every package comes after the packages it imports.
DependenciesFirst ==
  Acyclic => \A n \in DOMAIN imports : ImportsOf(imports[n]) \cap Locals \subseteq Recorded(n - 1)

\* No package is recorded, and so initialized, twice.
RecordedOnce == \A m, n \in DOMAIN imports : imports[m] = imports[n] => m = n

\* At the end the record is closed: it has every import of the main package
\* and of its members, and every standard library package they import.
Closed == Resolved =>
  LET all == Recorded(Len(imports))
  IN  \A p \in all \cup {Main} :
        ImportsOf(p) \cap Locals \subseteq all /\ ImportsOf(p) \cap Stdlib \subseteq stdlib
=============================================================================
