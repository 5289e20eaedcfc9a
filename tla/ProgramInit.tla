----------------------------- MODULE ProgramInit -----------------------------
(***************************************************************************)
(* The initialization of a generated program.  main calls the init         *)
(* functions of the standard library packages that are imported and that   *)
(* the program refers to, then of the local packages, and then runs the    *)
(* main package's own: its variables are locals of main and its init       *)
(* functions are copied into main.  A variable of any other package is a   *)
(* LazyLock, initialized when it is first used.                            *)
(***************************************************************************)
EXTENDS ImportResolution

CONSTANTS
  Key,      \* the place of each standard library package in the module map
  Programs  \* inits, uses and referred of each program

VARIABLES
  inits,    \* inits[p]: how each of p's init functions ends, in source order
  uses,     \* uses[p]: the packages whose variable p's init functions read
  referred, \* the standard library packages with a module: those referred to
  calls,    \* the packages whose init functions main has yet to run, in order
  next,     \* the init function that runs next, of the first of calls
  forced,   \* the packages whose variable is initialized
  log       \* history: variables initialized, init functions and main begun

program == <<inits, uses, referred>>
initVars == <<program, calls, next, forced, log>>

\* main's own statements, after every init function.
Body == <<"body">>

ASSUME ProgramAssumption ==
  /\ Body \notin Packages
  /\ IsFiniteSet(Stdlib)
  /\ Key \in [Stdlib -> Nat] /\ \A p, q \in Stdlib : Key[p] = Key[q] => p = q
  /\ \A r \in Programs : /\ r.inits \in [Packages -> Seq({"end", "return"})]
                         /\ r.referred \subseteq Stdlib

PInit ==
  /\ Init
  /\ \E r \in Programs : inits = r.inits /\ uses = r.uses /\ referred = r.referred
  /\ calls = <<>>
  /\ next = 0
  /\ forced = {}
  /\ log = <<>>

Resolve == calls = <<>> /\ next = 0 /\ Next /\ UNCHANGED initVars

\* prepend_stdlib_package_init_calls walks the map of the modules, whose order
\* is that of their names.  A package that is imported and that nothing refers
\* to, as with a blank import, has none: resolve_required_stdlib_modules adds
\* the modules that are referred to.
StdlibCalls ==
  LET roots == {p \in stdlib \cap referred : inits[p] # <<>>}
  IN  CHOOSE s \in [1 .. Cardinality(roots) -> roots] :
        \A i, j \in DOMAIN s : i < j => Key[s[i]] < Key[s[j]]

\* Mutant: main is prepended first.
CompileMainFirst ==
  /\ Resolved /\ next = 0
  /\ calls' = StdlibCalls \o <<Main>> \o imports \o <<Body>>
  /\ next' = 1
  /\ UNCHANGED <<vars, program, forced, log>>

\* The local calls are put before main's statements, the standard library's
\* before them.
Compile ==
  /\ Resolved /\ next = 0
  /\ calls' = StdlibCalls \o imports \o <<Main, Body>>
  /\ next' = 1
  /\ UNCHANGED <<vars, program, forced, log>>

Current == Head(calls)
Runs(p) == next > 0 /\ calls # <<>> /\ Current = p
\* The variables that have to be initialized before p's next statement.
Pending(p) == (uses[p] \cup ({p} \cap {Main})) \ forced

\* A variable of the main package at the top of main, another one by the first
\* use of its LazyLock.
InitVar(p, q) ==
  /\ Runs(p)
  /\ next <= Len(inits[p]) \/ p = Main
  /\ q \in Pending(p)
  /\ forced' = forced \cup {q}
  /\ log' = Append(log, <<"var", q, 0>>)
  /\ UNCHANGED <<vars, program, calls, next>>

\* Mutant: a return in any init function leaves main.
RunInitReturnsFromMain(p) ==
  /\ Runs(p)
  /\ next <= Len(inits[p])
  /\ Pending(p) = {}
  /\ log' = Append(log, <<"init", p, next>>)
  /\ IF inits[p][next] = "end" THEN next' = next + 1 /\ UNCHANGED calls
     ELSE next' = 1 /\ calls' = <<>>
  /\ UNCHANGED <<vars, program, forced>>

\* The bodies of a package's init functions stand in one Rust function, main's
\* among main's own statements: a return leaves that function.
RunInit(p) ==
  /\ Runs(p)
  /\ next <= Len(inits[p])
  /\ Pending(p) = {}
  /\ log' = Append(log, <<"init", p, next>>)
  /\ IF inits[p][next] = "end" THEN next' = next + 1 /\ UNCHANGED calls
     ELSE /\ next' = 1
          /\ calls' = IF p = Main THEN <<>> ELSE Tail(calls)
  /\ UNCHANGED <<vars, program, forced>>

EndCall(p) ==
  /\ Runs(p)
  /\ next > Len(inits[p]) /\ (p = Main => Pending(p) = {})
  /\ calls' = Tail(calls)
  /\ next' = 1
  /\ UNCHANGED <<vars, program, forced, log>>

RunBody ==
  /\ Runs(Body)
  /\ calls' = <<>>
  /\ log' = Append(log, <<"main", Main, 0>>)
  /\ UNCHANGED <<vars, program, next, forced>>

PNext ==
  \/ Resolve \/ Compile \/ RunBody
  \/ \E p \in Packages : RunInit(p) \/ EndCall(p) \/ \E q \in Packages : InitVar(p, q)

allVars == <<vars, initVars>>
PSpec == PInit /\ [][PNext]_allVars

\* The parser and the generated main are single threads that nothing blocks.
FairPSpec == PSpec /\ WF_allVars(PNext)

-----------------------------------------------------------------------------
Ended == next > 0 /\ calls = <<>>
Logged == {log[i] : i \in DOMAIN log}
Before(e, f) == \E i, j \in DOMAIN log : i < j /\ log[i] = e /\ log[j] = f

\* The packages whose init functions are called.
Reached == visited \cup (stdlib \cap referred) \cup {Main}

\* An init function of p before the n-th returns.
Cut(p, n) == \E m \in DOMAIN inits[p] : m < n /\ inits[p][m] = "return"

\* Exactly these init functions run: of every local package that is imported,
\* however indirectly, of every standard library package that is imported and
\* referred to, and of the main package, those that no earlier one of the same
\* package cuts off by a return.  main's statements run unless one of the main
\* package's own init functions returns.
AllInitsRun == Ended =>
  /\ \A p \in Packages : \A n \in DOMAIN inits[p] :
       <<"init", p, n>> \in Logged <=> p \in Reached /\ ~Cut(p, n)
  /\ <<"main", Main, 0>> \in Logged <=> ~Cut(Main, Len(inits[Main]) + 1)

\* The init functions of a package run after those of the packages it imports
\* and main's body after all of them, each of them once.
InitOrder ==
  /\ \A i, j \in DOMAIN log : log[i] = log[j] => i = j
  /\ Acyclic => \A i, j \in DOMAIN log :
       /\ log[i][1] = "init" /\ log[j][1] = "init"
       /\ log[j][2] \in Locals \cup {Main} /\ log[i][2] \in ImportsOf(log[j][2])
       => i < j
  /\ \A i, j \in DOMAIN log : log[i][1] = "init" /\ log[j][1] = "main" => i < j

\* Every program is resolved, cyclic imports included, and run to its end,
\* unless a package is missing.
Completes == <>(failed \/ Ended)
=============================================================================
