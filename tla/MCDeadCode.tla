---------------------------- MODULE MCDeadCode ----------------------------
(***************************************************************************)
(* Small programs for the dead code pass: a main package with a type, an   *)
(* interface and impls, and two packages that may need each other.  The    *)
(* bodies that matter use any of a few things each.                        *)
(***************************************************************************)
EXTENDS DeadCode, FiniteSets

CONSTANT Steps   \* at least the longest path between two definitions

within(f, m, what) == [mod |-> m, what |-> what, init |-> f, bare |-> FALSE]
use(m, what)       == within(Nowhere, m, what)
\* A call of a function of the module by its bare name.
call(f, m, name)   == [within(f, m, <<name>>) EXCEPT !.bare = TRUE]

item == [kind |-> "fn", name |-> "", trait |-> "", home |-> "", keep |-> "pair",
         of |-> "", supers |-> {}, open |-> {}, members |-> {}, uses |-> <<>>,
         binds |-> [f \in {Rest} |-> {}]]

\* The members with what each uses; what the rest uses.
Text(members, rest) ==
  [f \in DOMAIN members \cup {Rest} |-> IF f = Rest THEN rest ELSE members[f]]

\* No text has local variables, the texts fs that bind one name apart.
Binds(members, fs, name) == Text([f \in members |-> IF f \in fs THEN {name} ELSE {}], {})

Fn(n, us)       == [item EXCEPT !.name = n, !.uses = Text(<<>>, us)]
Var(n, m, t)    == [item EXCEPT !.kind = "var", !.name = n, !.of = t,
                                !.uses = Text(<<>>, {use(m, <<t>>)})]
Struct(n, fs, open) ==
  [item EXCEPT !.kind = "struct", !.name = n, !.members = DOMAIN fs,
               !.open = open, !.uses = Text(fs, {}), !.binds = Binds(DOMAIN fs, {}, "")]
Trait(n, supers, fs) ==
  [item EXCEPT !.kind = "trait", !.name = n, !.members = DOMAIN fs,
               !.supers = supers, !.uses = Text(fs, {}), !.binds = Binds(DOMAIN fs, {}, "")]
\* The method by has a local variable called local.
Impl(t, fs, by, local) ==
  [item EXCEPT !.kind = "impl", !.name = t, !.members = DOMAIN fs, !.uses = Text(fs, {}),
               !.binds = Binds(DOMAIN fs, {by}, local)]
ImplOf(home, tr, t, keep, fs) ==
  [item EXCEPT !.kind = "traitimpl", !.name = t, !.trait = tr, !.home = home,
               !.keep = keep, !.members = DOMAIN fs, !.uses = Text(fs, {}),
               !.binds = Binds(DOMAIN fs, {}, "")]

-----------------------------------------------------------------------------
(***************************************************************************)
(* The programs: what main uses, and what four other bodies use.           *)
(***************************************************************************)

\* A literal T{x: help(), y: ...}.
LiteralT ==
  {use("main", <<"T">>), use("main", <<"literal", "T", "*">>),
   within("x", "main", <<"set", "T", "x">>), call("x", "main", "help"),
   within("y", "main", <<"set", "T", "y">>), within("y", "a", <<"F">>)}

\* Groups of uses that come together in the text.
MainUses ==
  { LiteralT,
    LiteralT \cup {use("main", <<"field", "T", "x">>)},
    {use("main", <<"T">>), use("main", <<"T", "m">>)},
    {use("main", <<"T">>), use("main", <<"T", "n">>)},
    {use("main", <<"impl", "Tr", "T">>), use("main", <<"Tr", "k">>)},
    {use("main", <<"Sub", "s">>), use("main", <<"k">>)},
    {use("a", <<"F">>)},
    {use("a", <<"G", "g">>)},
    {use("a", <<"A">>), use("a", <<"A", "h">>)},
    {use("b", <<"box", "R", "B">>), use("b", <<"B">>), use("a", <<"R">>)},
    {use("b", <<"H">>)} }

\* T's method n has a local variable called aid, and T's method m may call the
\* function aid: while both are left the call is taken for the variable.
Program(inMain, inM, inF, inG, inH) ==
  [m \in Module |->
     CASE m = "main" ->
            { Fn("main", inMain), Fn("help", {use("b", <<"H">>)}), Fn("aid", {}),
              Struct("T", [x |-> {}, y |-> {use("a", <<"A">>)}], {}),
              Impl("T", [m |-> inM, n |-> {use("main", <<"field", "T", "y">>)}], "n", "aid"),
              Trait("Tr", {}, [m |-> {}, k |-> {}]),
              Trait("Sub", {"Tr"}, [s |-> {use("a", <<"R">>)}]),
              ImplOf("main", "Tr", "T", "pair",
                     [m |-> {use("main", <<"T", "m">>)}, k |-> {call(Nowhere, "main", "help")}]),
              ImplOf("a", "R", "T", "always", [r |-> {}]) }
       [] m = "a" ->
            { Fn("F", inF), Var("G", "a", "A"), Struct("A", [z |-> {}], {"z"}),
              Impl("A", [g |-> inG, h |-> {use("a", <<"field", "A", "z">>)}], "g", "A"),
              Trait("R", {}, [r |-> {}]) }
       [] m = "b" ->
            { Fn("H", inH), Struct("B", [w |-> {use("a", <<"A">>)}], {}),
              ImplOf("a", "R", "B", "self", [r |-> {use("b", <<"field", "B", "w">>)}]) }]

MCPrograms ==
  { Program(g1 \cup g2, inM, inF, inG, inH) :
      g1 \in MainUses, g2 \in MainUses,
      inM \in {{}, {use("main", <<"T", "n">>), call(Nowhere, "main", "aid")}},
      inF \in {{}, {use("b", <<"H">>)}},
      inG \in {{}, {use("a", <<"A", "h">>)}},
      inH \in {{}, {use("a", <<"F">>)}, {use("b", <<"B">>)}} }

\* They are programs of the kind the proofs are about.
ASSUME MCProgramsCompile == \A p \in MCPrograms : Compiles(p, Module)

-----------------------------------------------------------------------------
(***************************************************************************)
(* Reachability over definitions, with no names: a node stands for a       *)
(* member of an item, and an edge leads from it to what it needs.          *)
(***************************************************************************)

Node(m, i, f) == <<m, i.kind, i.name, i.trait, f>>
Whole(m, i)   == {Node(m, i, f) : f \in i.members \cup {Rest}}
Nodes(its)    == UNION {UNION {Whole(m, i) : i \in its[m]} : m \in Module}

\* The nodes a use denotes; a trait used from another module counts as whole.
Denoted(its, m, u) ==
  LET w == u.what
      there == its[u.mod]
      Receivers == {w[1]} \cup {v.of : v \in Named(there, {"var"}, w[1])}
                     \cup UNION {t.supers : t \in Named(there, {"trait"}, w[1])}
  IN  CASE Len(w) < 3 ->
             UNION {IF i.kind = "trait" /\ m # u.mod THEN Whole(u.mod, i)
                    ELSE {Node(u.mod, i, Rest)} :
                      i \in {j \in there : j.name = w[1] /\ ~IsImpl(j)}}
             \cup {Node(u.mod, i, w[Len(w)]) :
                     i \in {j \in there : /\ w[Len(w)] \in j.members
                                          /\ \/ Len(w) = 2 /\ j.name \in Receivers
                                             \/ Len(w) = 1 /\ j.kind = "trait"}}
        [] w[1] \in {"impl", "box"} ->
             {Node(u.mod, i, Rest) :
                i \in {j \in there : j.kind = "traitimpl" /\ j.trait = w[2] /\ j.name = w[3]}}
        [] OTHER -> {}

\* Apart from what its text uses, a member needs its item; a struct and an
\* impl of a trait are whole; an impl needs its type and its trait; a trait
\* needs its supertraits, and a type the impls that follow it.
Needs(its, m, i, f) ==
  UNION {Denoted(its, m, u) : u \in i.uses[f]}
  \cup (IF i.kind \in {"struct", "traitimpl"} THEN Whole(m, i) ELSE {Node(m, i, Rest)})
  \cup (IF IsImpl(i) THEN {Node(m, t, Rest) : t \in Named(its[m], Types, i.name)} ELSE {})
  \cup (IF i.kind = "traitimpl"
        THEN UNION {Whole(i.home, t) : t \in Named(its[i.home], {"trait"}, i.trait)} ELSE {})
  \cup UNION {Whole(m, t) : t \in {j \in its[m] : i.kind = "trait" /\ j.kind = "trait"
                                                  /\ j.name \in i.supers}}
  \cup {Node(m, j, Rest) : j \in {k \in its[m] : k.keep = "self" /\ k.name = i.name}}

Edges(its) ==
  UNION {UNION {UNION {{Node(m, i, f)} \X Needs(its, m, i, f) : f \in i.members \cup {Rest}}
                  : i \in its[m]} : m \in Module}

\* What is needed after n steps from main and from the impls that always stay.
Live(its, edges) ==
  LET needed[n \in Nat] ==
        IF n = 0 THEN {x \in Nodes(its) : x[1] = Main /\ x[3] = "main"}
                      \cup UNION {{Node(m, i, Rest) : i \in {j \in its[m] : j.keep = "always"}}
                                    : m \in Module}
        ELSE LET last == needed[n - 1] IN last \cup {e[2] : e \in {d \in edges : d[1] \in last}}
  IN  needed[Steps]

\* Every definition that is kept is one the program that is left still needs.
NothingDead == pc = "done" => Nodes(items) \subseteq Live(items, Edges(items))

-----------------------------------------------------------------------------
\* The rounds come to an end.
Terminates == <>(pc = "done")
=============================================================================
