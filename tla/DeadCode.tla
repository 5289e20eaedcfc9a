------------------------------ MODULE DeadCode ------------------------------
(***************************************************************************)
(* Dead code elimination of a compiled program, as prune_generated_dead_   *)
(* code runs it: a fixpoint over modules, around a fixpoint over the items *)
(* of one module, around a filter on one item.                             *)
(*                                                                         *)
(* The compiler sees names, not definitions: a module keeps a set of the   *)
(* names known to be needed ("T", "T::m", "impl Tr for T") and an item is  *)
(* kept, whole or in part, when the names say so.  Names are tuples here:  *)
(* <<"T">>, <<"T", "m">> and <<"impl", "Tr", "T">>.                        *)
(*                                                                         *)
(* An item is a record; `members' are a struct's fields, the methods of a  *)
(* trait or of an impl, and uses[m] is what the text of member m uses;     *)
(* uses[Rest] is the rest of the item (a function's body, a signature).    *)
(* A use names what it denotes, the module it is in and, when it stands in *)
(* the initializer of a field of a struct literal, that field.  It is bare *)
(* when the name stands alone as an expression, outside the initializer of *)
(* a local variable of that name; binds[m] are the names of the parameters *)
(* and local variables of member m's text.                                 *)
(***************************************************************************)
EXTENDS Naturals, Sequences

CONSTANTS Module,     \* the names of the program's modules
          Main,       \* the module of the program's main package
          Programs    \* the programs to prune: [Module -> sets of items]

ASSUME ProgramsAssumption ==
  /\ Main \in Module
  /\ \A p \in Programs : p = [m \in Module |-> p[m]]

Rest    == "rest"     \* the part of an item that is no member
Nowhere == "nowhere"  \* the initializer of a use that stands in none

VARIABLES
  items,      \* [Module -> set of items], what is left of the program
  modules,    \* the modules that are left
  required,   \* [Module -> set of names], what other modules need of each
  pc,         \* what the pass does next
  cur,        \* the module being scanned or pruned
  roots,      \* the names the scan started from
  names,      \* the names the scan has found to be needed
  far,        \* pairs <<module, name>> that the scan needs of other modules
  cache,      \* [Module -> set of finished scans of its present items]
  todo,       \* the modules that are still to be pruned in this round
  before      \* the program when this round began

vars == <<items, modules, required, pc, cur, roots, names, far, cache, todo,
          before>>

-----------------------------------------------------------------------------
(***************************************************************************)
(* What a module's text mentions (ref_collection.rs).                      *)
(***************************************************************************)

\* The names inserted for one use: the path of an item, a method with its
\* receiver, "impl" for a value boxed as a trait object.  Reading a field
\* names nothing, nor does "box", a value boxed whose type or whose trait is
\* another module's: insert_trait_impl_ref is for the module's own.  A method
\* called by its bare name is not a name of the module's items.
Names(what) ==
  CASE Len(what) = 1        -> {what}
    [] Len(what) = 2        -> {<<what[1]>>, what}
    [] what[1] = "impl"     -> {<<what[2]>>, <<what[3]>>, what}
    [] OTHER                -> {}

Uses(i) == UNION {i.uses[f] : f \in i.members \cup {Rest}}

\* A bare name is taken for a local variable when any part of the item that
\* is left binds it, another method of the same impl for one.
Shadowed(i, u) == u.bare /\ \E f \in i.members \cup {Rest} : u.what[1] \in i.binds[f]

IsImpl(i) == i.kind \in {"impl", "traitimpl"}

\* Mutant: an impl of a trait does not ask for the members it gives.
ImplNamesWithoutMembers(m, i) ==
  (IF IsImpl(i) THEN {<<i.name>>} ELSE {})
    \cup (IF i.kind = "traitimpl" /\ i.home = m THEN {<<i.trait>>} ELSE {})

\* An impl mentions its self type; an impl of a trait also the trait, and all
\* the members it gives, as members of the trait.
ImplNames(m, i) ==
  (IF IsImpl(i) THEN {<<i.name>>} ELSE {})
    \cup (IF i.kind # "traitimpl" THEN {}
          ELSE {<<i.trait, f>> : f \in i.members}
                 \cup (IF i.home = m THEN {<<i.trait>>} ELSE {}))

LocalNames(m, i) ==
  ImplNames(m, i)
    \cup UNION {Names(u.what) : u \in {v \in Uses(i) : v.mod = m /\ ~Shadowed(i, v)}}

FarNames(m, i) ==
  (UNION {{u.mod} \X Names(u.what) :
            u \in {v \in Uses(i) : v.mod # m /\ v.what[1] # "impl"}})
    \cup (IF i.kind = "traitimpl" /\ i.home # m
          THEN {<<i.home, <<i.trait>>>>} ELSE {})

-----------------------------------------------------------------------------
(***************************************************************************)
(* What the names say of an item (reachable_item_for_names).               *)
(***************************************************************************)

SelfReachable(i, ns) ==
  \/ <<i.name>> \in ns
  \/ \E n \in ns : Len(n) = 2 /\ n[1] = i.name

\* i.keep is "always" for an impl marked to be preserved, "self" for one that
\* follows its type (operators, runtime support, pointer cells), "both" for
\* one that is kept when its trait and its type are (local traits implemented
\* for imported types, impls of nothing but hooks), and else "pair".
TraitImplKept(i, ns) ==
  \/ i.keep = "always"
  \/ <<"impl", i.trait, i.name>> \in ns
  \/ \E f \in i.members : <<i.name, f>> \in ns
  \/ i.keep = "self" /\ SelfReachable(i, ns)
  \/ i.keep = "both" /\ SelfReachable(i, ns) /\ <<i.trait>> \in ns
  \/ i.members = {} /\ <<i.trait>> \in ns

\* The members that stay when the item stays: a trait that is a root and an
\* impl of a trait are kept whole.
Members(i, ns, rs) ==
  {f \in i.members :
     CASE i.kind = "trait" -> \/ <<i.name>> \in rs
                              \/ <<f>> \in ns
                              \/ <<i.name, f>> \in ns
       [] i.kind = "impl"  -> <<i.name, f>> \in ns
       [] OTHER            -> TRUE}

Kept(i, ns, rs) ==
  CASE i.kind = "impl"      -> Members(i, ns, rs) # {}
    [] i.kind = "traitimpl" -> TraitImplKept(i, ns)
    [] OTHER                -> <<i.name>> \in ns

Part(i, ns, rs) == [i EXCEPT !.members = Members(i, ns, rs)]

Retained(its, ns, rs) == {Part(i, ns, rs) : i \in {j \in its : Kept(j, ns, rs)}}

Traits(its) == {i \in its : i.kind = "trait"}

\* The supertraits of the traits that are needed.
Supers(its, ns) == UNION {t.supers : t \in {x \in Traits(its) : <<x.name>> \in ns}}

\* The methods that are needed of item i by its name.
CalledOn(i, ns) == {n[2] : n \in {x \in ns : Len(x) = 2 /\ x[1] = i.name}}

\* A trait's method is one of its supertraits, too.
SuperCalls(its, ns) == UNION {t.supers \X CalledOn(t, ns) : t \in Traits(its)}

SuperMembers(its, ns) ==
  UNION {{t.name} \X t.members : t \in {x \in Traits(its) : x.name \in Supers(its, ns)}}

MethodsOf(its, type) ==
  UNION {i.members : i \in {x \in its : /\ x.name = type
                                        /\ x.kind \in {"impl", "traitimpl", "trait"}}}

\* A method called on a package variable is one of the variable's type.
VarCalls(its, ns) ==
  UNION {{v.of} \X (CalledOn(v, ns) \cap MethodsOf(its, v.of)) :
           v \in {x \in its : x.kind = "var" /\ <<x.name>> \in ns}}

\* Mutant: a method called on a package variable is not looked for.
ExpandedSupersOnly(its, ns) ==
  ns \cup {<<s>> : s \in Supers(its, ns)} \cup SuperCalls(its, ns)

\* Names that follow from names.
Expanded(its, ns) ==
  ns \cup {<<s>> : s \in Supers(its, ns)} \cup SuperMembers(its, ns)
     \cup SuperCalls(its, ns) \cup VarCalls(its, ns)

-----------------------------------------------------------------------------
(***************************************************************************)
(* Struct fields (dce_pruning.rs): fields are known by name alone.         *)
(***************************************************************************)

ReadFields(its) ==
  {u.what[3] : u \in {v \in UNION {Uses(i) : i \in its} : v.what[1] = "field"}}

\* i.open are the public fields of a public struct.
UnusedFields(i, its, preserved) ==
  IF i.kind # "struct" \/ <<i.name>> \in preserved THEN {}
  ELSE {f \in i.members : f \notin ReadFields(its) /\ f \notin i.open}

FieldsPruned(its, preserved) ==
  LET removed == UNION {UnusedFields(i, its, preserved) : i \in its}
      Without(i) == [f \in DOMAIN i.uses |-> {u \in i.uses[f] : u.init \notin removed}]
  IN  {[i EXCEPT !.members = @ \ UnusedFields(i, its, preserved),
                 !.uses = Without(i)] : i \in its}

-----------------------------------------------------------------------------
Init ==
  /\ items \in Programs
  /\ modules = Module
  /\ required = [m \in Module |-> {}]
  /\ pc = "round"
  /\ cur = Main /\ roots = {} /\ names = {} /\ far = {} /\ todo = {}
  /\ cache = [m \in Module |-> {}]
  /\ before = <<items, modules>>

\* Scanning a module from a set of names (reachable_stdlib_items); a scan of
\* the same items from the same names is not repeated but looked up.
Scan(m, rs, next) ==
  LET hits == {e \in cache[m] : e.roots = rs}
  IN  /\ cur' = m /\ roots' = rs
      /\ names' = rs \cup UNION {e.names : e \in hits}
      /\ far' = UNION {e.far : e \in hits}
      /\ pc' = next

\* A round begins with the main module, whose only root is main.
Round ==
  /\ pc = "round"
  /\ before' = <<items, modules>>
  /\ required' = [m \in Module |-> {}]
  /\ Scan(Main, {<<"main">>}, "main")
  /\ UNCHANGED <<items, modules, cache, todo>>

Scanning == pc \in {"main", "follow", "prune"}

\* One item's turn: if the names keep it, what it mentions is needed too.
Visit(i) ==
  /\ Scanning
  /\ Kept(i, names, roots)
  /\ names' = names \cup LocalNames(cur, Part(i, names, roots))
  /\ far'   = far \cup FarNames(cur, Part(i, names, roots))
  /\ <<names', far'>> # <<names, far>>
  /\ UNCHANGED <<items, modules, required, pc, cur, roots, cache, todo, before>>

Expand ==
  /\ Scanning
  /\ Expanded(items[cur], names) # names
  /\ names' = Expanded(items[cur], names)
  /\ UNCHANGED <<items, modules, required, pc, cur, roots, far, cache, todo, before>>

\* Names that no item of module m adds to, with the far names they lead to.
Closed(m, ns, rs, pairs) ==
  /\ Expanded(items[m], ns) = ns
  /\ \A i \in Retained(items[m], ns, rs) :
       LocalNames(m, i) \subseteq ns /\ FarNames(m, i) \subseteq pairs

\* Mutant: the loop ends although the expansions still add names.
ScannedItemsOnly ==
  \A i \in Retained(items[cur], names, roots) :
    LocalNames(cur, i) \subseteq names /\ FarNames(cur, i) \subseteq far

\* Nothing changes any more.
Scanned == Closed(cur, names, roots, far)

\* A finished scan is stored under the items and the names it started from;
\* its own variables go.
EndScan ==
  LET scan == [roots |-> roots, names |-> names, far |-> far]
  IN  /\ cache' = [cache EXCEPT ![cur] = IF items'[cur] = items[cur] THEN @ \cup {scan} ELSE {}]
      /\ roots' = {} /\ names' = {} /\ far' = {} /\ cur' = Main

Merge(pairs) ==
  required' = [m \in Module |->
                 IF m \in modules
                 THEN required[m] \cup {p[2] : p \in {q \in pairs : q[1] = m}}
                 ELSE required[m]]

\* The main module is cut to what main needs, and everything that is left in
\* it says what it needs of the others.
PruneMain ==
  /\ pc = "main" /\ Scanned
  /\ items' = [items EXCEPT ![Main] = Retained(@, names, roots)]
  /\ Merge(UNION {FarNames(Main, i) : i \in items'[Main]})
  /\ pc' = "follow?" /\ EndScan
  /\ UNCHANGED <<modules, todo, before>>

\* A module that others need is scanned for what it needs in turn, ...
Follow(m) ==
  /\ pc = "follow?"
  /\ m \in modules \ (todo \cup {Main}) /\ required[m] # {}
  /\ Scan(m, required[m], "follow")
  /\ todo' = todo \cup {m}
  /\ UNCHANGED <<items, modules, required, cache, before>>

\* Mutant: one pass over the modules that others need.
FollowedOnce ==
  /\ pc = "follow" /\ Scanned
  /\ Merge(far)
  /\ pc' = "follow?"
  /\ UNCHANGED <<items, modules, todo, before>> /\ EndScan

\* Mutant: modules are followed again for as long as any is needed.
FollowedForever ==
  /\ pc = "follow" /\ Scanned
  /\ Merge(far)
  /\ todo' = {}
  /\ pc' = "follow?"
  /\ UNCHANGED <<items, modules, before>> /\ EndScan

\* ... until no module needs more: todo has the modules scanned since then.
Followed ==
  /\ pc = "follow" /\ Scanned
  /\ Merge(far)
  /\ todo' = IF required' = required THEN todo ELSE {}
  /\ pc' = "follow?"
  /\ UNCHANGED <<items, modules, before>> /\ EndScan

\* Modules of which nothing is needed go; the others are cut in turn.
Drop ==
  /\ pc = "follow?"
  /\ {m \in modules \ {Main} : required[m] # {}} \subseteq todo
  /\ modules' = {m \in modules : m = Main \/ required[m] # {}}
  /\ items' = [m \in Module |-> IF m \in modules' THEN items[m] ELSE {}]
  /\ todo' = modules' \ {Main}
  /\ pc' = "prune?"
  /\ cache' = [m \in Module |-> IF m \in modules' THEN cache[m] ELSE {}]
  /\ UNCHANGED <<required, cur, roots, names, far, before>>

Prune(m) ==
  /\ pc = "prune?" /\ m \in todo
  /\ Scan(m, required[m], "prune")
  /\ todo' = todo \ {m}
  /\ UNCHANGED <<items, modules, required, cache, before>>

Pruned ==
  /\ pc = "prune" /\ Scanned
  /\ items' = [items EXCEPT ![cur] =
                 FieldsPruned(Retained(@, names, roots), required[cur])]
  /\ pc' = "prune?" /\ EndScan
  /\ UNCHANGED <<modules, required, todo, before>>

\* Mutant: there is one round.
OneRound ==
  /\ pc = "prune?" /\ todo = {}
  /\ items' = [m \in Module |-> FieldsPruned(items[m], required[m])]
  /\ modules' = {m \in modules : m = Main \/ items'[m] # {}}
  /\ pc' = "done"
  /\ UNCHANGED <<required, cur, roots, names, far, cache, todo, before>>

\* The round ends: unused fields go from every module once more, and modules
\* that are now empty; a round that changed nothing is the last.
EndRound ==
  /\ pc = "prune?" /\ todo = {}
  /\ items' = [m \in Module |-> FieldsPruned(items[m], required[m])]
  /\ modules' = {m \in modules : m = Main \/ items'[m] # {}}
  /\ pc' = IF <<items', modules'>> = before THEN "done" ELSE "round"
  /\ cache' = [m \in Module |-> IF items'[m] = items[m] /\ modules' = before[2]
                                THEN cache[m] ELSE {}]
  /\ UNCHANGED <<required, cur, roots, names, far, todo, before>>

Done == pc = "done" /\ UNCHANGED vars

Next ==
  \/ Round \/ Expand \/ PruneMain \/ Followed \/ Drop \/ Pruned \/ EndRound \/ Done
  \/ \E i \in items[cur] : Visit(i)
  \/ \E m \in Module : Follow(m) \/ Prune(m)

Spec == Init /\ [][Next]_vars /\ WF_vars(Next)

-----------------------------------------------------------------------------
(***************************************************************************)
(* What the Rust compiler will ask of the program that is left.            *)
(***************************************************************************)

Named(its, kinds, n) == {i \in its : i.kind \in kinds /\ i.name = n}

Types == {"struct", "trait"}

\* The definitions of method f of T, which may be a type, a trait or a
\* package variable.
Gives(its, t, f) ==
  \/ \E i \in its : i.name = t /\ IsImpl(i) /\ f \in i.members
  \/ \E i \in Named(its, {"trait"}, t) :
       \/ f \in i.members
       \/ \E s \in i.supers : \E j \in Named(its, {"trait"}, s) : f \in j.members
  \/ \E v \in Named(its, {"var"}, t) :
       \E i \in its : i.name = v.of /\ IsImpl(i) /\ f \in i.members

\* A use is good in a program that has what it denotes.  A literal is good
\* when it sets the fields its struct has: a use <<"set", S, f>> in the same
\* item for each, and a field that is set or read exists.
Resolves(its, i, u) ==
  LET w == u.what IN
  CASE Len(w) = 1       -> \/ Named(its, {"fn", "var", "struct", "trait"}, w[1]) # {}
                           \/ \E t \in its : t.kind = "trait" /\ w[1] \in t.members
    [] Len(w) = 2       -> /\ Named(its, Types \cup {"var"}, w[1]) # {}
                           /\ Gives(its, w[1], w[2])
    [] w[1] \in {"impl", "box"} ->
                           \E j \in its : j.kind = "traitimpl" /\ j.trait = w[2] /\ j.name = w[3]
    [] w[1] = "literal" -> \A s \in Named(its, {"struct"}, w[2]) : \A f \in s.members :
                             \E v \in Uses(i) : v.what = <<"set", w[2], f>>
    [] OTHER            -> \E s \in Named(its, {"struct"}, w[2]) : w[3] \in s.members

\* A scan that is looked up is closed over the module as it is now: neither
\* an end of the scanning loop that comes too early nor a cut made since it
\* was stored leaves it with a name whose needs it lacks.
CacheSound ==
  \A m \in Module : \A e \in cache[m] :
    e.roots \subseteq e.names /\ Closed(m, e.names, e.roots, e.far)

\* A module is only cut once every module that stays has been followed from
\* all that is needed of it, and what it needs in turn has been asked for.
Answered(m) ==
  \E e \in cache[m] :
    /\ e.roots = required[m]
    /\ \A p \in e.far : p[1] \in modules => p[2] \in required[p[1]]

NeedsFollowed ==
  \A m \in todo : (pc = "follow" => m # cur) => Answered(m)

\* The item, as it was written, also binds the name.
Hidden(i, u) == u.bare /\ \E f \in DOMAIN i.binds : u.what[1] \in i.binds[f]

\* Nothing that is kept refers to what was cut away, in any module, except by
\* a name that the same item also gives to a local variable: the definition
\* of such a name is cut when nothing else needs it.
NothingDangles ==
  pc = "done" =>
    \A m \in modules : \A i \in items[m] : \A u \in Uses(i) :
      Hidden(i, u) \/ (u.mod \in modules /\ Resolves(items[u.mod], i, u))

\* An impl that is kept still has its type and its trait, gives every member
\* the trait still declares and none that it no longer does; and a trait
\* still has its supertraits.
ImplsFitTraits ==
  pc = "done" =>
    \A m \in modules : \A i \in items[m] :
      /\ IsImpl(i) => Named(items[m], Types, i.name) # {}
      /\ i.kind = "traitimpl" =>
           \E t \in Named(items[i.home], {"trait"}, i.trait) : t.members = i.members
      /\ i.kind = "trait" => \A s \in i.supers : Named(items[m], {"trait"}, s) # {}
-----------------------------------------------------------------------------
(***************************************************************************)
(* The programs the compiler produces: they compile before the pass.       *)
(***************************************************************************)

Tags == {"impl", "box", "literal", "set", "field"}

IsUse(w) ==
  \/ w = <<w[1]>> /\ w[1] \notin Tags
  \/ w = <<w[1], w[2]>> /\ w[1] \notin Tags
  \/ w = <<w[1], w[2], w[3]>> /\ w[1] \in Tags

IsItem(i) ==
  /\ i = [kind |-> i.kind, name |-> i.name, trait |-> i.trait, home |-> i.home,
          keep |-> i.keep, of |-> i.of, supers |-> i.supers, open |-> i.open,
          members |-> i.members, uses |-> i.uses, binds |-> i.binds]
  /\ i.members \cup {Rest} \subseteq DOMAIN i.uses \cap DOMAIN i.binds
  /\ \A f \in DOMAIN i.uses : \A u \in i.uses[f] : u.bare => u.what = <<u.what[1]>>
  /\ Nowhere \notin i.members

\* The names of u's module that a text says wherever it says u.
SaidWith(text, u) ==
  UNION {Names(v.what) :
           v \in {x \in text : /\ x.mod = u.mod /\ x.init \in {Nowhere, u.init}
                              /\ x.what[1] # "impl" /\ ~x.bare}}

\* A method called by its bare name: its trait, or one below, is said too.
MethodSaid(its, f, said) ==
  \E t \in its :
    /\ t.kind = "trait" /\ f \in t.members
    /\ \/ <<t.name>> \in said
       \/ \E b \in its : b.kind = "trait" /\ t.name \in b.supers /\ <<b.name>> \in said

\* What the modules of a program name of each other.
AbroadNames(p, mods) == UNION {UNION {FarNames(m, i) : i \in p[m]} : m \in mods}

\* Fields are pruned from literals by their bare name: no struct of module m,
\* where the literal stands, loses a field f while struct s of module k keeps
\* its own field f.
FieldApart(p, abroad, m, k, s, f) ==
  \A t \in p[m] : t.kind = "struct" /\ f \in t.members =>
    \/ f \in t.open
    \/ k = m /\ t = s
    \/ k = m /\ f \notin s.open /\ <<m, <<s.name>>>> \notin abroad

\* A literal sets each field of its struct, in the same text.
LiteralFits(p, abroad, m, text, u) ==
  \A s \in Named(p[u.mod], {"struct"}, u.what[2]) : \A f \in s.members :
    /\ \E v \in text : v.mod = u.mod /\ v.what = <<"set", s.name, f>>
    /\ FieldApart(p, abroad, m, u.mod, s, f)

\* A struct whose fields are used is said in the same text, unless the text
\* is that of an impl of the struct.
StructSaid(m, i, text, u) ==
  \/ <<u.what[2]>> \in SaidWith(text, u)
  \/ IsImpl(i) /\ u.mod = m /\ u.what[2] = i.name

\* The impl of a boxed value that the text does not name stays by itself, with
\* its module, or with its type, which the text says.
BoxFits(m, its, text, u) ==
  /\ u.mod = m \/ SaidWith(text, u) # {}
  /\ \E j \in its : /\ j.kind = "traitimpl" /\ j.trait = u.what[2] /\ j.name = u.what[3]
                    /\ \/ j.keep = "always"
                       \/ j.keep = "self" /\ <<j.name>> \in SaidWith(text, u)

\* Nobody imports main.
UseFits(p, mods, abroad, m, i, text, u) ==
  /\ IsUse(u.what)
  /\ u.mod \in mods
  /\ u.mod = Main => m = Main
  /\ u.bare \/ u.what[1] = "impl" => u.mod = m
  /\ Resolves(p[u.mod], i, u)
  /\ Len(u.what) = 1 =>
       \/ Named(p[u.mod], {"fn", "var", "struct", "trait"}, u.what[1]) # {}
       \/ MethodSaid(p[u.mod], u.what[1], SaidWith(text, u))
  /\ u.what[1] \in {"literal", "set", "field"} => StructSaid(m, i, text, u)
  /\ u.what[1] = "box" => BoxFits(m, p[u.mod], text, u)
  /\ u.what[1] = "set" => u.init = u.what[3]
  /\ u.what[1] = "literal" => LiteralFits(p, abroad, m, text, u)

ImplFits(p, mods, m, i) ==
  /\ IsImpl(i) => Named(p[m], Types, i.name) # {}
  /\ i.kind = "traitimpl" =>
       /\ i.home \in mods
       /\ i.home = Main => m = Main
       /\ \E t \in Named(p[i.home], {"trait"}, i.trait) : t.members = i.members
  /\ i.kind = "trait" => \A s \in i.supers : Named(p[m], {"trait"}, s) # {}

\* The items of the modules mods of program p fit together, if abroad are the
\* names that modules may ask of each other.
Fits(p, mods, abroad) ==
  \A m \in mods : \A i \in p[m] :
    /\ IsItem(i)
    /\ \A f \in i.members \cup {Rest} : \A u \in i.uses[f] :
         Hidden(i, u) \/ UseFits(p, mods, abroad, m, i, i.uses[f], u)
    /\ ImplFits(p, mods, m, i)

Compiles(p, mods) == Fits(p, mods, AbroadNames(p, mods))
=============================================================================
