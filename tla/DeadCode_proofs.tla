--------------------------- MODULE DeadCode_proofs ---------------------------
(***************************************************************************)
(* Proofs about the dead code pass, for programs of any size.  That scans  *)
(* are sound and complete assumes nothing of the program; that what is     *)
(* left fits together assumes that the program compiles before the pass    *)
(* (Compiles): each round then takes a program that compiles to one that   *)
(* does.                                                                   *)
(***************************************************************************)
EXTENDS DeadCode, TLAPS

Shape ==
  /\ items = [m \in Module |-> items[m]]
  /\ cache = [m \in Module |-> cache[m]]
  /\ required = [m \in Module |-> required[m]]
  /\ cur \in Module /\ modules \subseteq Module
  /\ todo \subseteq modules \ {Main}

\* What each phase of the pass can count on.
Phase ==
  /\ pc \in {"round", "main"} => todo = {}
  /\ pc = "main" => cur = Main
  /\ pc = "follow" => roots = required[cur]
  /\ pc = "prune" => cur \notin todo
  /\ Scanning => roots \subseteq names

ScanInv == Shape /\ Phase /\ CacheSound

\* Being closed only depends on the module's items.
LEMMA ClosedSame ==
  ASSUME NEW m \in Module, NEW e \in cache[m], items'[m] = items[m],
         Closed(m, e.names, e.roots, e.far)
  PROVE  Closed(m, e.names, e.roots, e.far)'
  BY DEF Closed

LEMMA ScanInvInit == Init => ScanInv
  BY ProgramsAssumption DEF Init, ScanInv, Shape, Phase, CacheSound, Scanning

\* Storing a finished scan keeps the cache sound, whether or not the module
\* is cut in the same step.
LEMMA EndScanSound ==
  ASSUME ScanInv, Scanning, Scanned, EndScan,
         \A m \in Module : m # cur => items'[m] = items[m]
  PROVE  CacheSound'
<1> SUFFICES ASSUME NEW m \in Module, NEW e \in cache'[m]
             PROVE  /\ e.roots \subseteq e.names
                    /\ Closed(m, e.names, e.roots, e.far)'
  BY DEF CacheSound
<1>1. CASE e \in cache[m] /\ items'[m] = items[m]
  BY <1>1, ClosedSame DEF ScanInv, CacheSound
<1>2. CASE ~(e \in cache[m] /\ items'[m] = items[m])
  <2>1. /\ m = cur /\ items'[cur] = items[cur]
        /\ e = [roots |-> roots, names |-> names, far |-> far]
    BY <1>2 DEF EndScan, ScanInv, Shape
  <2>2. e.roots \subseteq e.names
    BY <2>1 DEF ScanInv, Phase
  <2>3. Closed(m, e.names, e.roots, e.far)
    BY <2>1 DEF Scanned
  <2> QED
    BY <2>1, <2>2, <2>3 DEF Closed
<1> QED
  BY <1>1, <1>2

\* A step that cuts nothing and forgets or keeps what is cached.
LEMMA KeptCacheSound ==
  ASSUME ScanInv,
         \A m \in Module : \A e \in cache'[m] : e \in cache[m] /\ items'[m] = items[m]
  PROVE  CacheSound'
  BY ClosedSame DEF ScanInv, CacheSound

-----------------------------------------------------------------------------
LEMMA ScanInvStep == ScanInv /\ [Next]_vars => ScanInv'
<1> SUFFICES ASSUME ScanInv, [Next]_vars PROVE ScanInv'
  OBVIOUS
<1> USE ProgramsAssumption
<1>1. CASE Round
  <2>1. Shape' BY <1>1 DEF Round, Scan, ScanInv, Shape
  <2>2. Phase' BY <1>1 DEF Round, Scan, ScanInv, Phase, Scanning
  <2>3. CacheSound' BY <1>1, KeptCacheSound DEF Round
  <2> QED BY <2>1, <2>2, <2>3 DEF ScanInv
<1>2. CASE Expand
  <2>1. names \subseteq Expanded(items[cur], names)
    BY DEF Expanded
  <2>2. Shape' BY <1>2 DEF Expand, ScanInv, Shape
  <2>3. Phase' BY <1>2, <2>1 DEF Expand, ScanInv, Phase, Scanning
  <2>4. CacheSound' BY <1>2, KeptCacheSound DEF Expand
  <2> QED BY <2>2, <2>3, <2>4 DEF ScanInv
<1>3. CASE \E i \in items[cur] : Visit(i)
  <2>1. Shape' BY <1>3 DEF Visit, ScanInv, Shape
  <2>2. Phase' BY <1>3 DEF Visit, ScanInv, Phase, Scanning
  <2>3. CacheSound' BY <1>3, KeptCacheSound DEF Visit
  <2> QED BY <2>1, <2>2, <2>3 DEF ScanInv
<1>4. CASE PruneMain
  <2>1. cur = Main /\ Scanning BY <1>4 DEF PruneMain, ScanInv, Phase, Scanning
  <2>2. Shape' BY <1>4, <2>1 DEF PruneMain, EndScan, Merge, ScanInv, Shape
  <2>3. Phase' BY <1>4 DEF PruneMain, EndScan, Phase, Scanning
  <2>4. \A m \in Module : m # cur => items'[m] = items[m]
    BY <1>4, <2>1 DEF PruneMain, ScanInv, Shape
  <2>5. CacheSound' BY <1>4, <2>1, <2>4, EndScanSound DEF PruneMain
  <2> QED BY <2>2, <2>3, <2>5 DEF ScanInv
<1>5. ASSUME NEW m \in Module, Follow(m) PROVE ScanInv'
  <2>1. Shape' BY <1>5 DEF Follow, Scan, ScanInv, Shape
  <2>2. Phase' BY <1>5 DEF Follow, Scan, Phase, Scanning
  <2>3. CacheSound' BY <1>5, KeptCacheSound DEF Follow
  <2> QED BY <2>1, <2>2, <2>3 DEF ScanInv
<1>6. CASE Followed
  <2>1. Shape' BY <1>6 DEF Followed, EndScan, Merge, ScanInv, Shape
  <2>2. Phase' BY <1>6 DEF Followed, EndScan, Phase, Scanning
  <2>3. CacheSound' BY <1>6, EndScanSound DEF Followed, Scanning
  <2> QED BY <2>1, <2>2, <2>3 DEF ScanInv
<1>7. CASE Drop
  <2>1. Shape' BY <1>7 DEF Drop, ScanInv, Shape
  <2>2. Phase' BY <1>7 DEF Drop, Phase, Scanning
  <2>3. CacheSound' BY <1>7, KeptCacheSound DEF Drop
  <2> QED BY <2>1, <2>2, <2>3 DEF ScanInv
<1>8. ASSUME NEW m \in Module, Prune(m) PROVE ScanInv'
  <2>1. Shape' BY <1>8 DEF Prune, Scan, ScanInv, Shape
  <2>2. Phase' BY <1>8 DEF Prune, Scan, Phase, Scanning
  <2>3. CacheSound' BY <1>8, KeptCacheSound DEF Prune
  <2> QED BY <2>1, <2>2, <2>3 DEF ScanInv
<1>9. CASE Pruned
  <2>1. Shape' BY <1>9 DEF Pruned, EndScan, ScanInv, Shape
  <2>2. Phase' BY <1>9 DEF Pruned, EndScan, Phase, Scanning
  <2>3. \A m \in Module : m # cur => items'[m] = items[m]
    BY <1>9 DEF Pruned, ScanInv, Shape
  <2>4. CacheSound' BY <1>9, <2>3, EndScanSound DEF Pruned, Scanning
  <2> QED BY <2>1, <2>2, <2>4 DEF ScanInv
<1>10. CASE EndRound
  <2>1. Shape' BY <1>10 DEF EndRound, ScanInv, Shape
  <2>2. Phase' BY <1>10 DEF EndRound, Phase, Scanning
  <2>3. CacheSound' BY <1>10, KeptCacheSound DEF EndRound
  <2> QED BY <2>1, <2>2, <2>3 DEF ScanInv
<1>11. CASE Done \/ UNCHANGED vars
  <2>1. UNCHANGED vars BY <1>11 DEF Done
  <2>2. Shape' /\ Phase' BY <2>1 DEF vars, ScanInv, Shape, Phase, Scanning
  <2>3. CacheSound' BY <2>1, KeptCacheSound DEF vars
  <2> QED BY <2>2, <2>3 DEF ScanInv
<1> QED
  BY <1>1, <1>2, <1>3, <1>4, <1>5, <1>6, <1>7, <1>8, <1>9, <1>10, <1>11 DEF Next

\* What is looked up of an earlier scan is what scanning the module as it is
\* now would find, whatever was cut in between.
THEOREM CachedScansSound == Spec => []CacheSound
<1>1. ScanInv => CacheSound BY DEF ScanInv
<1> QED BY <1>1, ScanInvInit, ScanInvStep, PTL DEF Spec

-----------------------------------------------------------------------------
FollowInv == ScanInv /\ NeedsFollowed

\* A step that leaves the cache, the needs and the modules alone leaves every
\* answer standing.
LEMMA StillAnswered ==
  ASSUME NEW m \in Module, Answered(m), cache'[m] = cache[m], required' = required,
         modules' \subseteq modules
  PROVE  Answered(m)'
  BY DEF Answered

LEMMA FollowInvStep == FollowInv /\ [Next]_vars => NeedsFollowed'
<1> SUFFICES ASSUME FollowInv, [Next]_vars PROVE NeedsFollowed'
  OBVIOUS
<1> USE ProgramsAssumption
<1> DEFINE Waiting == {m \in todo : pc = "follow" => m # cur}
<1>1. \A m \in Waiting : m \in Module /\ Answered(m)
  BY DEF FollowInv, ScanInv, Shape, NeedsFollowed
<1>2. CASE todo' = {}
  BY <1>2 DEF NeedsFollowed
<1>3. ASSUME cache' = cache, required' = required, modules' = modules,
             \A m \in todo' : (pc' = "follow" => m # cur') => m \in Waiting
      PROVE  NeedsFollowed'
  BY <1>1, <1>3, StillAnswered DEF NeedsFollowed
<1>4. CASE Round
  BY <1>2, <1>4 DEF Round, FollowInv, ScanInv, Phase
<1>5. CASE Expand
  BY <1>3, <1>5 DEF Expand
<1>6. CASE \E i \in items[cur] : Visit(i)
  BY <1>3, <1>6 DEF Visit
<1>7. CASE PruneMain
  BY <1>2, <1>7 DEF PruneMain, FollowInv, ScanInv, Phase
<1>8. ASSUME NEW m \in Module, Follow(m) PROVE NeedsFollowed'
  BY <1>3, <1>8 DEF Follow, Scan
<1>9. CASE Followed
  <2>1. CASE required' # required
    BY <1>2, <1>9, <2>1 DEF Followed
  <2>2. CASE required' = required
    <3>1. todo' = todo /\ modules' = modules /\ pc = "follow"
      BY <1>9, <2>2 DEF Followed
    <3>2. ASSUME NEW m \in todo, m # cur PROVE Answered(m)'
      <4>1. m \in Module /\ cache'[m] = cache[m]
        BY <1>9, <3>2 DEF Followed, EndScan, FollowInv, ScanInv, Shape
      <4> QED
        BY <1>1, <2>2, <3>1, <3>2, <4>1, StillAnswered
    <3>3. ASSUME NEW m \in todo, m = cur PROVE Answered(m)'
      <4> DEFINE scan == [roots |-> roots, names |-> names, far |-> far]
      <4>1. scan \in cache'[m] /\ scan.roots = roots /\ scan.far = far
        BY <1>9, <3>3 DEF Followed, EndScan, FollowInv, ScanInv, Shape
      <4>2. roots = required'[m]
        BY <1>9, <2>2, <3>3 DEF Followed, FollowInv, ScanInv, Phase
      <4>3. \A p \in far : p[1] \in modules' => p[2] \in required'[p[1]]
        BY <1>9, <3>1 DEF Followed, Merge, FollowInv, ScanInv, Shape
      <4> HIDE DEF scan
      <4> QED
        BY <4>1, <4>2, <4>3 DEF Answered
    <3> QED
      BY <3>1, <3>2, <3>3 DEF NeedsFollowed
  <2> QED
    BY <2>1, <2>2
<1>10. CASE Drop
  <2>1. /\ pc = "follow?" /\ required' = required /\ modules' \subseteq modules
        /\ todo' = modules' \ {Main}
    BY <1>10 DEF Drop
  <2>2. ASSUME NEW m \in todo' PROVE Answered(m)'
    <3>1. m \in todo /\ m \in Module /\ cache'[m] = cache[m]
      BY <1>10, <2>1, <2>2 DEF Drop, FollowInv, ScanInv, Shape
    <3> QED
      BY <1>1, <2>1, <3>1, StillAnswered
  <2> QED
    BY <2>2 DEF NeedsFollowed
<1>11. ASSUME NEW m \in Module, Prune(m) PROVE NeedsFollowed'
  BY <1>3, <1>11 DEF Prune, Scan
<1>12. CASE Pruned
  <2>1. /\ pc = "prune" /\ required' = required /\ modules' = modules /\ todo' = todo
    BY <1>12 DEF Pruned
  <2>2. ASSUME NEW m \in todo PROVE Answered(m)'
    <3>1. m \in Module /\ m # cur
      BY <2>1, <2>2 DEF FollowInv, ScanInv, Shape, Phase
    <3>2. cache'[m] = cache[m]
      BY <1>12, <3>1 DEF Pruned, EndScan, FollowInv, ScanInv, Shape
    <3> QED
      BY <1>1, <2>1, <2>2, <3>1, <3>2, StillAnswered
  <2> QED
    BY <2>1, <2>2 DEF NeedsFollowed
<1>13. CASE EndRound
  BY <1>2, <1>13 DEF EndRound
<1>14. CASE Done \/ UNCHANGED vars
  BY <1>3, <1>14 DEF Done, vars
<1> QED
  BY <1>4, <1>5, <1>6, <1>7, <1>8, <1>9, <1>10, <1>11, <1>12, <1>13, <1>14 DEF Next

\* A module is cut only from names that hold everything the modules that stay
\* need of it.
THEOREM NeedsFollowedHolds == Spec => []NeedsFollowed
<1>1. Init => FollowInv
  BY ScanInvInit DEF Init, FollowInv, NeedsFollowed
<1>2. FollowInv /\ [Next]_vars => FollowInv'
  BY ScanInvStep, FollowInvStep DEF FollowInv
<1>3. FollowInv => NeedsFollowed BY DEF FollowInv
<1> QED BY <1>1, <1>2, <1>3, PTL DEF Spec

-----------------------------------------------------------------------------
(***************************************************************************)
(* What a cut leaves of one module.                                        *)
(***************************************************************************)

Items(its) == \A i \in its : IsItem(i)

\* The names ns, which the scan of m's items its from rs arrived at.
Keeps(its, m, ns, rs) ==
  /\ rs \subseteq ns
  /\ Expanded(its, ns) = ns
  /\ \A i \in Retained(its, ns, rs) : LocalNames(m, i) \subseteq ns

LEMMA PartIs ==
  ASSUME NEW i, IsItem(i), NEW ns, NEW rs
  PROVE  /\ IsItem(Part(i, ns, rs))
         /\ Part(i, ns, rs).kind = i.kind
         /\ Part(i, ns, rs).name = i.name
         /\ Part(i, ns, rs).trait = i.trait
         /\ Part(i, ns, rs).home = i.home
         /\ Part(i, ns, rs).keep = i.keep
         /\ Part(i, ns, rs).of = i.of
         /\ Part(i, ns, rs).supers = i.supers
         /\ Part(i, ns, rs).open = i.open
         /\ Part(i, ns, rs).uses = i.uses
         /\ Part(i, ns, rs).binds = i.binds
         /\ Part(i, ns, rs).members = Members(i, ns, rs)
         /\ Members(i, ns, rs) \subseteq i.members
<1>1. Members(i, ns, rs) \subseteq i.members
  BY DEF Members
<1> DEFINE ms == Members(i, ns, rs)
<1>2. Part(i, ns, rs) =
        [kind |-> i.kind, name |-> i.name, trait |-> i.trait, home |-> i.home,
         keep |-> i.keep, of |-> i.of, supers |-> i.supers, open |-> i.open,
         members |-> ms, uses |-> i.uses, binds |-> i.binds]
  BY DEF Part, IsItem
<1> HIDE DEF ms
<1>3. QED
  BY <1>1, <1>2 DEF IsItem, ms

\* Only traits and impls of types lose members.
LEMMA PartWhole ==
  ASSUME NEW i, IsItem(i), NEW ns, NEW rs, i.kind \notin {"trait", "impl"}
  PROVE  Part(i, ns, rs) = i
<1>1. Members(i, ns, rs) = i.members
  BY DEF Members
<1>2. QED
  BY <1>1 DEF Part, IsItem

\* What the names of a kept item's part say.
LEMMA RetainedPart ==
  ASSUME NEW its, NEW ns, NEW rs, NEW i \in its, Kept(i, ns, rs)
  PROVE  Part(i, ns, rs) \in Retained(its, ns, rs)
BY DEF Retained

LEMMA RetainedFrom ==
  ASSUME NEW its, NEW ns, NEW rs, NEW j \in Retained(its, ns, rs)
  PROVE  \E i \in its : Kept(i, ns, rs) /\ j = Part(i, ns, rs)
BY DEF Retained

\* A definition whose name is needed stays.
LEMMA NamedStays ==
  ASSUME NEW its, Items(its), NEW ns, NEW rs, NEW kinds, NEW a, <<a>> \in ns,
         kinds \cap {"impl", "traitimpl"} = {},
         Named(its, kinds, a) # {}
  PROVE  Named(Retained(its, ns, rs), kinds, a) # {}
<1>1. PICK i \in its : i.kind \in kinds /\ i.name = a
  BY DEF Named
<1>2. Kept(i, ns, rs)
  BY <1>1 DEF Kept
<1>3. /\ Part(i, ns, rs) \in Retained(its, ns, rs)
      /\ Part(i, ns, rs).kind \in kinds
      /\ Part(i, ns, rs).name = a
  BY <1>1, <1>2, RetainedPart, PartIs DEF Items
<1>4. QED
  BY <1>3 DEF Named

\* A trait that is needed stays, with the members that are.
LEMMA TraitStays ==
  ASSUME NEW its, Items(its), NEW ns, NEW rs, NEW t \in its,
         t.kind = "trait", <<t.name>> \in ns
  PROVE  /\ Part(t, ns, rs) \in Named(Retained(its, ns, rs), {"trait"}, t.name)
         /\ Part(t, ns, rs).supers = t.supers
<1>1. IsItem(t) /\ Kept(t, ns, rs)
  BY DEF Kept, Items
<1>2. QED
  BY <1>1, RetainedPart, PartIs DEF Named

LEMMA TraitMemberStays ==
  ASSUME NEW t, IsItem(t), t.kind = "trait", NEW ns, NEW rs, NEW f \in t.members,
         <<t.name>> \in rs \/ <<f>> \in ns \/ <<t.name, f>> \in ns
  PROVE  f \in Part(t, ns, rs).members
BY PartIs DEF Members

\* An impl that gives a needed member stays and still gives it.
LEMMA ImplStays ==
  ASSUME NEW its, Items(its), NEW ns, NEW rs, NEW i \in its, NEW f \in i.members,
         IsImpl(i), <<i.name, f>> \in ns
  PROVE  \E j \in Retained(its, ns, rs) :
           j.name = i.name /\ IsImpl(j) /\ f \in j.members
<1>1. IsItem(i)
  BY DEF Items
<1>2. f \in Members(i, ns, rs)
  BY DEF Members, IsImpl
<1>3. Kept(i, ns, rs)
  BY <1>2 DEF Kept, IsImpl, TraitImplKept
<1>4. /\ Part(i, ns, rs) \in Retained(its, ns, rs)
      /\ Part(i, ns, rs).name = i.name
      /\ Part(i, ns, rs).kind = i.kind
      /\ f \in Part(i, ns, rs).members
  BY <1>1, <1>2, <1>3, RetainedPart, PartIs
<1>5. QED
  BY <1>4 DEF IsImpl

\* The names that follow from the names of ns are in it.
LEMMA ExpandedSays ==
  ASSUME NEW its, NEW ns, Expanded(its, ns) = ns
  PROVE  /\ \A t \in its : t.kind = "trait" /\ <<t.name>> \in ns =>
              \A s \in t.supers : <<s>> \in ns
         /\ \A t \in its : t.kind = "trait" =>
              \A s \in t.supers : \A f : <<t.name, f>> \in ns => <<s, f>> \in ns
         /\ \A v, i \in its : v.kind = "var" /\ <<v.name>> \in ns /\ IsImpl(i) /\ i.name = v.of =>
              \A f \in i.members : <<v.name, f>> \in ns => <<v.of, f>> \in ns
<1>1. /\ {<<s>> : s \in Supers(its, ns)} \subseteq ns
      /\ SuperCalls(its, ns) \subseteq ns /\ VarCalls(its, ns) \subseteq ns
  <2> DEFINE supers == {<<s>> : s \in Supers(its, ns)}
  <2>1. ns \cup supers \cup SuperMembers(its, ns) \cup SuperCalls(its, ns)
           \cup VarCalls(its, ns) = ns
    BY DEF Expanded
  <2> HIDE DEF supers
  <2>2. QED
    BY <2>1 DEF supers
<1>2. ASSUME NEW t \in its, t.kind = "trait", <<t.name>> \in ns, NEW s \in t.supers
      PROVE  <<s>> \in ns
  BY <1>1, <1>2 DEF Supers, Traits
<1>3. ASSUME NEW i, NEW f, <<i.name, f>> \in ns
      PROVE  f \in CalledOn(i, ns)
  <2>1. <<i.name, f>> \in {x \in ns : Len(x) = 2 /\ x[1] = i.name} /\ <<i.name, f>>[2] = f
    BY <1>3
  <2>2. QED
    BY <2>1 DEF CalledOn
<1>4. ASSUME NEW t \in its, t.kind = "trait", NEW s \in t.supers, NEW f, <<t.name, f>> \in ns
      PROVE  <<s, f>> \in ns
  <2>1. <<s, f>> \in t.supers \X CalledOn(t, ns)
    BY <1>3, <1>4
  <2>2. QED
    BY <1>1, <1>4, <2>1 DEF SuperCalls, Traits
<1>5. ASSUME NEW v \in its, NEW i \in its, v.kind = "var", <<v.name>> \in ns, IsImpl(i),
             i.name = v.of, NEW f \in i.members, <<v.name, f>> \in ns
      PROVE  <<v.of, f>> \in ns
  <2>1. f \in CalledOn(v, ns) /\ f \in MethodsOf(its, v.of)
    BY <1>3, <1>5 DEF MethodsOf, IsImpl
  <2>2. <<v.of, f>> \in {v.of} \X (CalledOn(v, ns) \cap MethodsOf(its, v.of))
    BY <2>1
  <2>3. QED
    BY <1>1, <1>5, <2>2 DEF VarCalls
<1>6. QED
  BY <1>2, <1>4, <1>5

\* A method that is needed of a type, a trait or a variable is still given.
LEMMA GivesStays ==
  ASSUME NEW its, Items(its), NEW ns, NEW rs, Expanded(its, ns) = ns,
         NEW a, NEW b, <<a>> \in ns, <<a, b>> \in ns, Gives(its, a, b)
  PROVE  Gives(Retained(its, ns, rs), a, b)
<1> DEFINE cut == Retained(its, ns, rs)
<1>1. CASE \E i \in its : i.name = a /\ IsImpl(i) /\ b \in i.members
  BY <1>1, ImplStays DEF Gives
<1>2. ASSUME NEW t \in its, t.kind = "trait", t.name = a, b \in t.members
      PROVE  Gives(cut, a, b)
  <2>1. <<t.name>> \in ns /\ <<t.name, b>> \in ns
    BY <1>2
  <2>2. Part(t, ns, rs) \in Named(cut, {"trait"}, a) /\ b \in Part(t, ns, rs).members
    BY <1>2, <2>1, TraitStays, TraitMemberStays DEF Items
  <2>3. QED
    BY <2>2 DEF Gives
<1>3. ASSUME NEW t \in its, t.kind = "trait", t.name = a, NEW s \in t.supers,
             NEW j \in its, j.kind = "trait", j.name = s, b \in j.members
      PROVE  Gives(cut, a, b)
  <2>0. <<t.name>> \in ns /\ <<t.name, b>> \in ns
    BY <1>3
  <2>1. <<j.name>> \in ns /\ <<j.name, b>> \in ns
    <3>1. <<s>> \in ns /\ <<s, b>> \in ns
      BY <1>3, <2>0, ExpandedSays
    <3>2. QED
      BY <1>3, <3>1
  <2>2. /\ Part(t, ns, rs) \in Named(cut, {"trait"}, a)
        /\ s \in Part(t, ns, rs).supers
    <3>1. /\ Part(t, ns, rs) \in Named(cut, {"trait"}, t.name)
          /\ Part(t, ns, rs).supers = t.supers
      BY <1>3, <2>0, TraitStays
    <3>2. QED
      BY <1>3, <3>1
  <2>3. /\ Part(j, ns, rs) \in Named(cut, {"trait"}, s)
        /\ b \in Part(j, ns, rs).members
    BY <1>3, <2>1, TraitStays, TraitMemberStays DEF Items
  <2>4. QED
    BY <2>2, <2>3 DEF Gives
<1>4. ASSUME NEW v \in its, v.kind = "var", v.name = a,
             NEW i \in its, i.name = v.of, IsImpl(i), b \in i.members
      PROVE  Gives(cut, a, b)
  <2>1. <<i.name, b>> \in ns
    BY <1>4, ExpandedSays
  <2>2. PICK j \in cut : j.name = i.name /\ IsImpl(j) /\ b \in j.members
    BY <1>4, <2>1, ImplStays
  <2>3. Kept(v, ns, rs) /\ IsItem(v)
    BY <1>4 DEF Kept, Items
  <2>4. Part(v, ns, rs) \in Named(cut, {"var"}, a) /\ Part(v, ns, rs).of = v.of
    BY <1>4, <2>3, RetainedPart, PartIs DEF Named
  <2>5. QED
    BY <1>4, <2>2, <2>4 DEF Gives
<1>5. QED
  BY <1>1, <1>2, <1>3, <1>4 DEF Gives, Named

-----------------------------------------------------------------------------
(***************************************************************************)
(* What a use says, and what it takes to resolve.                          *)
(***************************************************************************)

LEMMA UseShapes ==
  ASSUME NEW w, IsUse(w)
  PROVE  /\ Len(w) \in {1, 2, 3}
         /\ Len(w) = 3 <=> w[1] \in Tags
         /\ Len(w) = 1 => w = <<w[1]>> /\ Names(w) = {w}
         /\ Len(w) = 2 => w = <<w[1], w[2]>> /\ Names(w) = {<<w[1]>>, w}
         /\ w[1] = "impl" => Names(w) = {<<w[2]>>, <<w[3]>>, <<"impl", w[2], w[3]>>}
         /\ w[1] \in {"box", "literal", "set", "field"} => Names(w) = {}
<1>1. CASE w = <<w[1]>> /\ w[1] \notin Tags
  <2>1. Len(w) = 1
    BY <1>1
  <2>2. Names(w) = {w}
    BY <1>1, <2>1 DEF Names, Tags
  <2>3. QED
    BY <1>1, <2>1, <2>2 DEF Tags
<1>2. CASE w = <<w[1], w[2]>> /\ w[1] \notin Tags
  <2>1. Len(w) = 2
    BY <1>2
  <2>2. Names(w) = {<<w[1]>>, w}
    BY <1>2, <2>1 DEF Names, Tags
  <2>3. QED
    BY <1>2, <2>1, <2>2 DEF Tags
<1>3. CASE w = <<w[1], w[2], w[3]>> /\ w[1] \in Tags
  <2>1. Len(w) = 3
    BY <1>3
  <2>2. w[1] = "impl" => Names(w) = {<<w[2]>>, <<w[3]>>, w}
    BY <1>3, <2>1 DEF Names
  <2>3. w[1] # "impl" => Names(w) = {}
    BY <1>3, <2>1 DEF Names
  <2>4. QED
    BY <1>3, <2>1, <2>2, <2>3 DEF Tags
<1>4. QED
  BY <1>1, <1>2, <1>3 DEF IsUse

\* The cases of Resolves, one after the other.
ResolvesParts(its, i, u) ==
  /\ Len(u.what) = 1 =>
       \/ Named(its, {"fn", "var", "struct", "trait"}, u.what[1]) # {}
       \/ \E t \in its : t.kind = "trait" /\ u.what[1] \in t.members
  /\ Len(u.what) = 2 =>
       /\ Named(its, Types \cup {"var"}, u.what[1]) # {}
       /\ Gives(its, u.what[1], u.what[2])
  /\ u.what[1] \in {"impl", "box"} =>
       \E j \in its : j.kind = "traitimpl" /\ j.trait = u.what[2] /\ j.name = u.what[3]
  /\ u.what[1] = "literal" =>
       \A s \in Named(its, {"struct"}, u.what[2]) : \A f \in s.members :
         \E v \in Uses(i) : v.what = <<"set", u.what[2], f>>
  /\ u.what[1] \in {"set", "field"} =>
       \E s \in Named(its, {"struct"}, u.what[2]) : u.what[3] \in s.members

LEMMA ResolvesWhen ==
  ASSUME NEW its, NEW i, NEW u, IsUse(u.what)
  PROVE  Resolves(its, i, u) <=> ResolvesParts(its, i, u)
<1>1. /\ Len(u.what) \in {1, 2, 3}
      /\ Len(u.what) = 3 <=> u.what[1] \in {"impl", "box", "literal", "set", "field"}
  BY UseShapes DEF Tags
<1>2. CASE Len(u.what) = 1
  BY <1>1, <1>2 DEF Resolves, ResolvesParts
<1>3. CASE Len(u.what) = 2
  BY <1>1, <1>3 DEF Resolves, ResolvesParts
<1>4. CASE u.what[1] \in {"impl", "box"}
  BY <1>1, <1>4 DEF Resolves, ResolvesParts
<1>5. CASE u.what[1] = "literal"
  <2>1. Len(u.what) # 1 /\ Len(u.what) # 2 /\ u.what[1] \notin {"impl", "box"}
    BY <1>1, <1>5
  <2>2. Resolves(its, i, u) =
          (\A s \in Named(its, {"struct"}, u.what[2]) : \A f \in s.members :
             \E v \in Uses(i) : v.what = <<"set", u.what[2], f>>)
    BY <1>5, <2>1, Zenon DEF Resolves
  <2>3. QED
    BY <1>5, <2>1, <2>2 DEF ResolvesParts
<1>6. CASE u.what[1] \in {"set", "field"}
  BY <1>1, <1>6 DEF Resolves, ResolvesParts
<1>7. \/ Len(u.what) = 1 \/ Len(u.what) = 2 \/ u.what[1] \in {"impl", "box"}
      \/ u.what[1] = "literal" \/ u.what[1] \in {"set", "field"}
  BY <1>1
<1>8. QED
  BY <1>2, <1>3, <1>4, <1>5, <1>6, <1>7, Zenon

\* A text says what its uses say, and each use is said with itself, but for
\* those that the scan may not collect.
LEMMA SaysItself ==
  ASSUME NEW text, NEW u \in text, ~u.bare, u.what[1] # "impl"
  PROVE  Names(u.what) \subseteq SaidWith(text, u)
BY DEF SaidWith

\* A use of something of another module says a name of that module.
LEMMA SaysSomething ==
  ASSUME NEW p, NEW mods, NEW abroad, NEW m, NEW i, NEW text, NEW u \in text,
         UseFits(p, mods, abroad, m, i, text, u), u.mod # m
  PROVE  SaidWith(text, u) # {}
<1>1. IsUse(u.what)
  BY DEF UseFits
<1>2. CASE u.what[1] \in {"box", "literal", "set", "field"}
  BY <1>2 DEF UseFits, StructSaid, BoxFits
<1>3. CASE u.what[1] \notin {"box", "literal", "set", "field"}
  <2>1. Names(u.what) # {}
    BY <1>1, <1>3, UseShapes DEF Tags
  <2>2. ~u.bare /\ u.what[1] # "impl"
    BY DEF UseFits
  <2>3. QED
    BY <2>1, <2>2, SaysItself
<1>4. QED
  BY <1>2, <1>3

-----------------------------------------------------------------------------
(***************************************************************************)
(* A program whose modules are all cut to what is needed of them.          *)
(***************************************************************************)

\* The modules L of M are left, as P; N are the names found needed in each,
\* R those that the scans started from.
CutProgram(O, M, P, L, N, R) ==
  /\ L \subseteq M
  /\ \A m \in L : Keeps(O[m], m, N[m], R[m]) /\ P[m] = Retained(O[m], N[m], R[m])
  /\ \A m \in L : \A i \in P[m] : \A q \in FarNames(m, i) :
       q[1] \in M \ {Main} => q[1] \in L /\ q[2] \in R[q[1]]

LEMMA CompilesItems ==
  ASSUME NEW p, NEW mods, NEW abroad, Fits(p, mods, abroad), NEW m \in mods
  PROVE  Items(p[m])
BY DEF Fits, Items

\* What is said along with a use that stays has been found needed.
LEMMA SaidIsNeeded ==
  ASSUME NEW O, NEW M, NEW P, NEW L, NEW N, NEW R, CutProgram(O, M, P, L, N, R),
         NEW m \in L, NEW i \in P[m], NEW f \in i.members \cup {Rest}, NEW u \in i.uses[f],
         u.mod \in M, u.mod = Main => m = Main, NEW n \in SaidWith(i.uses[f], u)
  PROVE  u.mod \in L /\ n \in N[u.mod]
<1>1. PICK v \in i.uses[f] :
        v.mod = u.mod /\ n \in Names(v.what) /\ ~v.bare /\ v.what[1] # "impl"
  BY DEF SaidWith
<1>2. v \in Uses(i)
  BY DEF Uses
<1>3. CASE v.mod = m
  <2>1. n \in LocalNames(m, i)
    BY <1>1, <1>2, <1>3 DEF LocalNames, Shadowed
  <2>2. QED
    BY <1>1, <1>3, <2>1 DEF CutProgram, Keeps
<1>4. CASE v.mod # m
  <2>1. <<u.mod, n>> \in {v.mod} \X Names(v.what)
    BY <1>1
  <2>2. <<u.mod, n>> \in FarNames(m, i)
    <3>1. v.mod # m /\ v.what[1] # "impl"
      BY <1>1, <1>4
    <3>2. QED
      BY <1>2, <2>1, <3>1 DEF FarNames
  <2>3. u.mod \in L /\ n \in R[u.mod]
    BY <1>1, <1>4, <2>2 DEF CutProgram
  <2>4. QED
    BY <2>3 DEF CutProgram, Keeps
<1>5. QED
  BY <1>3, <1>4

LEMMA MethodSaidStays ==
  ASSUME NEW its, Items(its), NEW ns, NEW rs, Expanded(its, ns) = ns,
         NEW f, <<f>> \in ns, NEW said \in SUBSET ns, MethodSaid(its, f, said)
  PROVE  MethodSaid(Retained(its, ns, rs), f, said)
<1> DEFINE cut == Retained(its, ns, rs)
<1>1. PICK t \in its :
        /\ t.kind = "trait" /\ f \in t.members
        /\ \/ <<t.name>> \in said
           \/ \E b \in its : b.kind = "trait" /\ t.name \in b.supers /\ <<b.name>> \in said
  BY DEF MethodSaid
<1>2. <<t.name>> \in ns
  BY <1>1, ExpandedSays
<1>3. /\ Part(t, ns, rs) \in Named(cut, {"trait"}, t.name)
      /\ f \in Part(t, ns, rs).members
  BY <1>1, <1>2, TraitStays, TraitMemberStays DEF Items
<1>4. CASE <<t.name>> \in said
  BY <1>3, <1>4 DEF MethodSaid, Named
<1>5. ASSUME NEW b \in its, b.kind = "trait", t.name \in b.supers, <<b.name>> \in said
      PROVE  MethodSaid(cut, f, said)
  <2>1. /\ Part(b, ns, rs) \in Named(cut, {"trait"}, b.name)
        /\ Part(b, ns, rs).supers = b.supers
    <3>1. <<b.name>> \in ns
      BY <1>5
    <3>2. QED
      BY <1>5, <3>1, TraitStays
  <2> DEFINE pb == Part(b, ns, rs)
             pt == Part(t, ns, rs)
  <2>2. /\ pt \in cut /\ pt.kind = "trait" /\ f \in pt.members /\ pt.name = t.name
        /\ pb \in cut /\ pb.kind = "trait" /\ t.name \in pb.supers /\ pb.name = b.name
    BY <1>3, <1>5, <2>1 DEF Named
  <2> HIDE DEF pb, pt, cut
  <2>3. QED
    BY <1>5, <2>2 DEF MethodSaid
<1>6. QED
  BY <1>1, <1>4, <1>5

\* Structs stay as they are or go.
LEMMA StructStays ==
  ASSUME NEW its, Items(its), NEW ns, NEW rs, NEW s \in its, s.kind = "struct",
         <<s.name>> \in ns
  PROVE  s \in Retained(its, ns, rs)
<1>1. Kept(s, ns, rs) /\ Part(s, ns, rs) = s
  BY PartWhole DEF Kept, Items
<1>2. QED
  BY <1>1, RetainedPart

LEMMA StructFrom ==
  ASSUME NEW its, Items(its), NEW ns, NEW rs, NEW s \in Retained(its, ns, rs),
         s.kind = "struct"
  PROVE  s \in its
<1>1. PICK i \in its : s = Part(i, ns, rs)
  BY RetainedFrom
<1>2. IsItem(i) /\ i.kind = "struct"
  BY <1>1, PartIs DEF Items
<1>3. QED
  BY <1>1, <1>2, PartWhole

\* A part mentions no more than its item.
LEMMA PartSaysLess ==
  ASSUME NEW i, IsItem(i), NEW ns, NEW rs, NEW m
  PROVE  FarNames(m, Part(i, ns, rs)) \subseteq FarNames(m, i)
<1>1. Uses(Part(i, ns, rs)) \subseteq Uses(i)
  <2>1. /\ Part(i, ns, rs).uses = i.uses
        /\ Part(i, ns, rs).members \subseteq i.members
    BY PartIs
  <2>2. QED
    BY <2>1 DEF Uses
<1>2. /\ Part(i, ns, rs).kind = i.kind
      /\ Part(i, ns, rs).home = i.home
      /\ Part(i, ns, rs).trait = i.trait
  BY PartIs
<1>3. QED
  BY <1>1, <1>2 DEF FarNames

LEMMA LiteralStays ==
  ASSUME NEW O, NEW M, NEW P, NEW L, NEW N, NEW R, CutProgram(O, M, P, L, N, R),
         NEW A, Fits(O, M, A), NEW m \in L, NEW text, NEW u, u.mod \in L,
         LiteralFits(O, A, m, text, u)
  PROVE  LiteralFits(P, A, m, text, u)
<1> SUFFICES ASSUME NEW s \in Named(P[u.mod], {"struct"}, u.what[2]), NEW f \in s.members
             PROVE  /\ \E v \in text : v.mod = u.mod /\ v.what = <<"set", s.name, f>>
                    /\ FieldApart(P, A, m, u.mod, s, f)
  BY DEF LiteralFits
<1>1. \A k \in L : P[k] = Retained(O[k], N[k], R[k]) /\ Items(O[k])
  BY CompilesItems DEF CutProgram
<1>2. s \in Named(O[u.mod], {"struct"}, u.what[2])
  BY <1>1, StructFrom DEF Named
<1>3. /\ \E v \in text : v.mod = u.mod /\ v.what = <<"set", s.name, f>>
      /\ FieldApart(O, A, m, u.mod, s, f)
  BY <1>2 DEF LiteralFits
<1>4. ASSUME NEW t \in P[m], t.kind = "struct", f \in t.members
      PROVE  \/ f \in t.open
             \/ u.mod = m /\ t = s
             \/ u.mod = m /\ f \notin s.open /\ <<m, <<s.name>>>> \notin A
  <2>1. t \in O[m]
    BY <1>1, <1>4, StructFrom
  <2>2. QED
    BY <1>3, <1>4, <2>1 DEF FieldApart
<1>5. QED
  BY <1>3, <1>4 DEF FieldApart

\* What the item binds anywhere, any part of it may bind.
LEMMA ShadowedIsHidden ==
  ASSUME NEW i, IsItem(i), NEW u, Shadowed(i, u)
  PROVE  Hidden(i, u)
BY DEF IsItem, Shadowed, Hidden

\* A use that resolves, in a text that stays, resolves in what is left.
LEMMA UseStays ==
  ASSUME NEW O, NEW M, NEW P, NEW L, NEW N, NEW R, CutProgram(O, M, P, L, N, R),
         NEW A, Fits(O, M, A), NEW m \in L, NEW i \in O[m], NEW j \in P[m],
         j = Part(i, N[m], R[m]),
         NEW f \in j.members \cup {Rest}, NEW u \in j.uses[f], ~Hidden(j, u)
  PROVE  UseFits(P, L, A, m, j, j.uses[f], u)
<1> DEFINE text == j.uses[f]
           k == u.mod
           w == u.what
           ns == N[k]
           its == O[k]
           cut == P[k]
<1>1. /\ IsItem(i) /\ m \in M /\ IsItem(j)
      /\ j.uses = i.uses /\ j.members \subseteq i.members /\ j.binds = i.binds
      /\ j.kind = i.kind /\ j.name = i.name
  BY PartIs DEF Fits, CutProgram
<1>2. f \in i.members \cup {Rest} /\ UseFits(O, M, A, m, i, text, u)
  BY <1>1 DEF Fits, Hidden
<1>3. /\ k \in M /\ (k = Main => m = Main) /\ IsUse(w)
      /\ u.bare \/ w[1] = "impl" => k = m
  BY <1>2 DEF UseFits
<1>4. \A n \in SaidWith(text, u) : k \in L /\ n \in ns
  BY <1>3, SaidIsNeeded
<1>5. k \in L
  <2>1. CASE k = m
    BY <2>1
  <2>2. CASE k # m
    <3>1. SaidWith(text, u) # {}
      BY <1>2, <2>2, SaysSomething
    <3>2. QED
      BY <1>4, <3>1
  <2>3. QED
    BY <2>1, <2>2
<1>6. /\ Items(its) /\ Expanded(its, ns) = ns /\ cut = Retained(its, ns, R[k])
      /\ Names(w) \subseteq ns /\ SaidWith(text, u) \subseteq ns
  <2>1. CASE ~u.bare /\ w[1] # "impl"
    BY <1>3, <1>4, <1>5, <2>1, CompilesItems, SaysItself DEF CutProgram, Keeps
  <2>2. CASE u.bare \/ w[1] = "impl"
    <3>1. k = m /\ u \in Uses(j) /\ ~Shadowed(j, u)
      BY <1>1, <1>3, <2>2, ShadowedIsHidden DEF Uses
    <3>2. Names(w) \subseteq LocalNames(m, j)
      BY <3>1 DEF LocalNames
    <3>3. QED
      BY <1>3, <1>4, <1>5, <3>1, <3>2, CompilesItems DEF CutProgram, Keeps
  <2>3. QED
    BY <2>1, <2>2
<1>7. StructSaid(m, i, text, u) => <<w[2]>> \in ns /\ StructSaid(m, j, text, u)
  <2>1. ASSUME IsImpl(i), k = m, w[2] = i.name  PROVE <<w[2]>> \in ns
    <3>1. <<j.name>> \in LocalNames(m, j)
      BY <1>1, <2>1 DEF LocalNames, ImplNames, IsImpl
    <3>2. LocalNames(m, j) \subseteq ns
      BY <1>6, <2>1 DEF CutProgram, Keeps
    <3>3. QED
      BY <1>1, <2>1, <3>1, <3>2
  <2>2. QED
    BY <1>1, <1>6, <2>1 DEF StructSaid, IsImpl
<1>8. ASSUME w[1] \in {"literal", "set", "field"}, NEW s \in its, s.kind = "struct", s.name = w[2]
      PROVE  s \in Named(cut, {"struct"}, w[2])
  <2>1. <<s.name>> \in ns
    BY <1>2, <1>7, <1>8 DEF UseFits
  <2>2. QED
    BY <1>6, <1>8, <2>1, StructStays DEF Named
<1>9. Len(w) = 1 =>
        \/ Named(cut, {"fn", "var", "struct", "trait"}, w[1]) # {}
        \/ MethodSaid(cut, w[1], SaidWith(text, u))
  <2> SUFFICES ASSUME Len(w) = 1 
               PROVE  \/ Named(cut, {"fn", "var", "struct", "trait"}, w[1]) # {}
                      \/ MethodSaid(cut, w[1], SaidWith(text, u))
    OBVIOUS
  <2>1. <<w[1]>> \in ns
    BY <1>3, <1>6, UseShapes
  <2>2. \/ Named(its, {"fn", "var", "struct", "trait"}, w[1]) # {}
        \/ MethodSaid(its, w[1], SaidWith(text, u))
    BY <1>2 DEF UseFits
  <2>3. CASE Named(its, {"fn", "var", "struct", "trait"}, w[1]) # {}
    <3> DEFINE kinds == {"fn", "var", "struct", "trait"}
    <3>1. kinds \cap {"impl", "traitimpl"} = {}
      OBVIOUS
    <3> HIDE DEF kinds
    <3>2. Named(its, kinds, w[1]) # {}
      BY <2>3 DEF kinds
    <3>3. Named(cut, kinds, w[1]) # {}
      BY <1>6, <2>1, <3>1, <3>2, NamedStays
    <3>4. QED
      BY <3>3 DEF kinds
  <2>4. CASE MethodSaid(its, w[1], SaidWith(text, u))
    BY <1>6, <2>1, <2>4, MethodSaidStays
  <2>5. QED
    BY <2>2, <2>3, <2>4
<1>10. w[1] = "literal" => LiteralFits(P, A, m, text, u)
  BY <1>2, <1>5, LiteralStays DEF UseFits
<1>11. w[1] = "box" => BoxFits(m, cut, text, u)
  <2> SUFFICES ASSUME w[1] = "box" PROVE BoxFits(m, cut, text, u)
    OBVIOUS
  <2>1. /\ k = m \/ SaidWith(text, u) # {}
        /\ \E x \in its : /\ x.kind = "traitimpl" /\ x.trait = w[2] /\ x.name = w[3]
                          /\ \/ x.keep = "always"
                             \/ x.keep = "self" /\ <<x.name>> \in SaidWith(text, u)
    BY <1>2 DEF UseFits, BoxFits
  <2>2. PICK h \in its : /\ h.kind = "traitimpl" /\ h.trait = w[2] /\ h.name = w[3]
                         /\ \/ h.keep = "always"
                            \/ h.keep = "self" /\ <<h.name>> \in SaidWith(text, u)
    BY <2>1
  <2>3. Kept(h, ns, R[k]) /\ Part(h, ns, R[k]) = h
    BY <1>6, <2>2, PartWhole DEF Kept, TraitImplKept, SelfReachable, Items
  <2>4. h \in cut
    BY <1>6, <2>3, RetainedPart
  <2>5. QED
    BY <2>1, <2>2, <2>4 DEF BoxFits
<1>12. Resolves(cut, j, u)
  <2>1. Len(w) = 1 =>
          \/ Named(cut, {"fn", "var", "struct", "trait"}, w[1]) # {}
          \/ \E t \in cut : t.kind = "trait" /\ w[1] \in t.members
    BY <1>9 DEF MethodSaid
  <2>2. Len(w) = 2 => Named(cut, Types \cup {"var"}, w[1]) # {} /\ Gives(cut, w[1], w[2])
    <3> SUFFICES ASSUME Len(w) = 2
                 PROVE  Named(cut, Types \cup {"var"}, w[1]) # {} /\ Gives(cut, w[1], w[2])
      OBVIOUS
    <3>1. <<w[1]>> \in ns /\ <<w[1], w[2]>> \in ns
      BY <1>3, <1>6, UseShapes
    <3>2. Named(its, Types \cup {"var"}, w[1]) # {} /\ Gives(its, w[1], w[2])
      BY <1>2, <1>3, ResolvesWhen DEF UseFits, ResolvesParts
    <3> DEFINE kinds == Types \cup {"var"}
    <3>3. kinds \cap {"impl", "traitimpl"} = {}
      BY DEF Types
    <3> HIDE DEF kinds
    <3>4. Named(its, kinds, w[1]) # {}
      BY <3>2 DEF kinds
    <3>5. Named(cut, kinds, w[1]) # {} /\ Gives(cut, w[1], w[2])
      BY <1>6, <3>1, <3>2, <3>3, <3>4, NamedStays, GivesStays
    <3>6. QED
      BY <3>5 DEF kinds
  <2>3. w[1] \in {"impl", "box"} =>
          \E h \in cut : h.kind = "traitimpl" /\ h.trait = w[2] /\ h.name = w[3]
    <3>0. w[1] = "box" =>
            \E h \in cut : h.kind = "traitimpl" /\ h.trait = w[2] /\ h.name = w[3]
      BY <1>11 DEF BoxFits
    <3> SUFFICES ASSUME w[1] = "impl"
                 PROVE  \E h \in cut : h.kind = "traitimpl" /\ h.trait = w[2] /\ h.name = w[3]
      BY <3>0
    <3>1. PICK h \in its : h.kind = "traitimpl" /\ h.trait = w[2] /\ h.name = w[3]
      BY <1>2, <1>3, ResolvesWhen DEF UseFits, ResolvesParts
    <3>2. <<"impl", h.trait, h.name>> \in ns
      BY <1>3, <1>6, <3>1, UseShapes
    <3>3. Kept(h, ns, R[k]) /\ Part(h, ns, R[k]) = h
      BY <1>6, <3>1, <3>2, PartWhole DEF Kept, TraitImplKept, Items
    <3>4. h \in cut
      BY <1>6, <3>3, RetainedPart
    <3>5. QED
      BY <3>1, <3>4
  <2>4. w[1] = "literal" =>
          \A s \in Named(cut, {"struct"}, w[2]) : \A x \in s.members :
            \E v \in Uses(j) : v.what = <<"set", w[2], x>>
    BY <1>10 DEF LiteralFits, Uses, Named
  <2>5. w[1] \in {"set", "field"} => \E s \in Named(cut, {"struct"}, w[2]) : w[3] \in s.members
    <3> SUFFICES ASSUME w[1] \in {"set", "field"}
                 PROVE  \E s \in Named(cut, {"struct"}, w[2]) : w[3] \in s.members
      OBVIOUS
    <3>1. PICK s \in Named(its, {"struct"}, w[2]) : w[3] \in s.members
      BY <1>2, <1>3, ResolvesWhen DEF UseFits, ResolvesParts
    <3>2. QED
      BY <1>8, <3>1 DEF Named
  <2> HIDE DEF its, cut, ns
  <2>6. QED
    <3>1. ResolvesParts(cut, j, u)
      BY <2>1, <2>2, <2>3, <2>4, <2>5 DEF ResolvesParts
    <3>2. QED
      BY <1>3, <3>1, ResolvesWhen
<1>13. QED
  BY <1>2, <1>3, <1>5, <1>7, <1>9, <1>10, <1>12, <1>11 DEF UseFits

\* An impl that stays still has its type and its trait, with the same members.
LEMMA ImplStaysFit ==
  ASSUME NEW O, NEW M, NEW P, NEW L, NEW N, NEW R, CutProgram(O, M, P, L, N, R),
         NEW A, Fits(O, M, A), NEW m \in L, NEW i \in O[m], NEW j \in P[m],
         j = Part(i, N[m], R[m]), Kept(i, N[m], R[m])
  PROVE  ImplFits(P, L, m, j)
<1>1. /\ IsItem(i) /\ ImplFits(O, M, m, i) /\ m \in M
      /\ j.kind = i.kind /\ j.name = i.name /\ j.trait = i.trait
      /\ j.home = i.home /\ j.supers = i.supers
  BY PartIs DEF Fits, CutProgram
<1>2. \A k \in L : /\ Items(O[k]) /\ Expanded(O[k], N[k]) = N[k]
                   /\ P[k] = Retained(O[k], N[k], R[k]) /\ R[k] \subseteq N[k]
  BY CompilesItems DEF CutProgram, Keeps
<1>3. IsImpl(j) => Named(P[m], Types, j.name) # {}
  <2> SUFFICES ASSUME IsImpl(j) PROVE Named(P[m], Types, j.name) # {}
    OBVIOUS
  <2>1. <<j.name>> \in N[m]
    BY DEF CutProgram, Keeps, LocalNames, ImplNames
  <2>2. Named(O[m], Types, j.name) # {}
    BY <1>1 DEF ImplFits, IsImpl
  <2>3. Types \cap {"impl", "traitimpl"} = {}
    BY DEF Types
  <2>4. QED
    BY <1>2, <2>1, <2>2, <2>3, NamedStays
<1>4. j.kind = "traitimpl" =>
        /\ j.home \in L
        /\ j.home = Main => m = Main
        /\ \E t \in Named(P[j.home], {"trait"}, j.trait) : t.members = j.members
  <2> SUFFICES ASSUME j.kind = "traitimpl"
               PROVE  /\ j.home \in L
                      /\ j.home = Main => m = Main
                      /\ \E t \in Named(P[j.home], {"trait"}, j.trait) : t.members = j.members
    OBVIOUS
  <2> DEFINE h == j.home
  <2>1. h \in M /\ (h = Main => m = Main) /\ j = i
    BY <1>1, PartWhole DEF ImplFits
  <2>2. PICK t \in O[h] : t.kind = "trait" /\ t.name = j.trait /\ t.members = j.members
    BY <1>1, <2>1 DEF ImplFits, Named
  <2>3. /\ h \in L /\ <<t.name>> \in N[h]
        /\ \A f \in t.members : <<t.name>> \in R[h] \/ <<t.name, f>> \in N[h]
    <3>1. CASE h = m
      <4>1. ImplNames(m, j) \subseteq N[m]
        BY DEF CutProgram, Keeps, LocalNames
      <4>2. QED
        BY <2>2, <3>1, <4>1 DEF ImplNames
    <3>2. CASE h # m
      <4>1. <<h, <<t.name>>>> \in FarNames(m, j)
        BY <2>2, <3>2 DEF FarNames
      <4>2. h \in L /\ <<t.name>> \in R[h]
        BY <2>1, <3>2, <4>1 DEF CutProgram
      <4>3. QED
        BY <1>2, <4>2
    <3>3. QED
      BY <3>1, <3>2
  <2> DEFINE pt == Part(t, N[h], R[h])
  <2>4. pt \in Named(P[h], {"trait"}, t.name)
    BY <1>2, <2>2, <2>3, TraitStays
  <2>5. pt.members = t.members
    <3>1. IsItem(t)
      BY <1>2, <2>3 DEF Items
    <3>2. pt.members \subseteq t.members
      BY <3>1, PartIs
    <3>3. \A f \in t.members : f \in pt.members
      BY <2>2, <2>3, <3>1, TraitMemberStays
    <3>4. QED
      BY <3>2, <3>3
  <2> HIDE DEF pt
  <2>6. QED
    BY <2>1, <2>2, <2>3, <2>4, <2>5
<1>5. j.kind = "trait" => \A s \in j.supers : Named(P[m], {"trait"}, s) # {}
  <2> SUFFICES ASSUME j.kind = "trait", NEW s \in j.supers
               PROVE  Named(P[m], {"trait"}, s) # {}
    OBVIOUS
  <2>1. <<i.name>> \in N[m]
    BY <1>1 DEF Kept
  <2>2. <<s>> \in N[m]
    BY <1>1, <1>2, <2>1, ExpandedSays
  <2>3. Named(O[m], {"trait"}, s) # {}
    BY <1>1 DEF ImplFits
  <2>4. {"trait"} \cap {"impl", "traitimpl"} = {}
    OBVIOUS
  <2>5. QED
    BY <1>2, <2>2, <2>3, <2>4, NamedStays
<1>6. QED
  BY <1>3, <1>4, <1>5 DEF ImplFits

\* What is left of a program that compiles, when each module is cut to what
\* it and the others need of it, compiles.
LEMMA CutCompiles ==
  ASSUME NEW O, NEW M, NEW P, NEW L, NEW N, NEW R, CutProgram(O, M, P, L, N, R),
         NEW A, Fits(O, M, A)
  PROVE  Fits(P, L, A)
<1> SUFFICES ASSUME NEW m \in L, NEW j \in P[m]
             PROVE  /\ IsItem(j)
                    /\ \A f \in j.members \cup {Rest} : \A u \in j.uses[f] :
                         Hidden(j, u) \/ UseFits(P, L, A, m, j, j.uses[f], u)
                    /\ ImplFits(P, L, m, j)
  BY DEF Fits
<1>1. P[m] = Retained(O[m], N[m], R[m]) /\ Items(O[m])
  BY CompilesItems DEF CutProgram
<1>2. PICK i \in O[m] : Kept(i, N[m], R[m]) /\ j = Part(i, N[m], R[m])
  BY <1>1, RetainedFrom
<1>3. IsItem(j)
  BY <1>1, <1>2, PartIs DEF Items
<1>4. QED
  BY <1>2, <1>3, UseStays, ImplStaysFit

-----------------------------------------------------------------------------
(***************************************************************************)
(* A program some of whose modules lose their unused fields.               *)
(***************************************************************************)

Removed(its, preserved) == UNION {UnusedFields(i, its, preserved) : i \in its}

Trimmed(i, its, preserved) ==
  [i EXCEPT !.members = @ \ UnusedFields(i, its, preserved),
            !.uses = [f \in DOMAIN i.uses |->
                        {u \in i.uses[f] : u.init \notin Removed(its, preserved)}]]

LEMMA TrimmedAll ==
  ASSUME NEW its, NEW preserved
  PROVE  FieldsPruned(its, preserved) = {Trimmed(i, its, preserved) : i \in its}
BY DEF FieldsPruned, Trimmed, Removed

LEMMA TrimmedIs ==
  ASSUME NEW its, NEW preserved, NEW i, IsItem(i)
  PROVE  /\ IsItem(Trimmed(i, its, preserved))
         /\ Trimmed(i, its, preserved).kind = i.kind
         /\ Trimmed(i, its, preserved).name = i.name
         /\ Trimmed(i, its, preserved).trait = i.trait
         /\ Trimmed(i, its, preserved).home = i.home
         /\ Trimmed(i, its, preserved).keep = i.keep
         /\ Trimmed(i, its, preserved).binds = i.binds
         /\ Trimmed(i, its, preserved).of = i.of
         /\ Trimmed(i, its, preserved).supers = i.supers
         /\ Trimmed(i, its, preserved).open = i.open
         /\ Trimmed(i, its, preserved).members = i.members \ UnusedFields(i, its, preserved)
         /\ \A f \in i.members \cup {Rest} :
              Trimmed(i, its, preserved).uses[f] =
                {u \in i.uses[f] : u.init \notin Removed(its, preserved)}
<1> DEFINE ms == i.members \ UnusedFields(i, its, preserved)
           us == [f \in DOMAIN i.uses |->
                    {u \in i.uses[f] : u.init \notin Removed(its, preserved)}]
<1>1. i = [kind |-> i.kind, name |-> i.name, trait |-> i.trait, home |-> i.home,
           keep |-> i.keep, of |-> i.of, supers |-> i.supers, open |-> i.open,
           members |-> i.members, uses |-> i.uses, binds |-> i.binds]
  BY DEF IsItem
<1>2. Trimmed(i, its, preserved) = [i EXCEPT !.members = ms, !.uses = us]
  BY DEF Trimmed
<1>3. /\ i.members \cup {Rest} \subseteq DOMAIN i.uses \cap DOMAIN i.binds
      /\ Nowhere \notin i.members
      /\ DOMAIN us = DOMAIN i.uses
      /\ \A f \in DOMAIN us : us[f] \subseteq i.uses[f]
      /\ \A f \in DOMAIN i.uses : \A u \in i.uses[f] : u.bare => u.what = <<u.what[1]>>
      /\ ms \subseteq i.members
  BY DEF IsItem
<1>4. \A f \in i.members \cup {Rest} :
        us[f] = {u \in i.uses[f] : u.init \notin Removed(its, preserved)}
  BY <1>3
<1> HIDE DEF ms, us
<1>5. Trimmed(i, its, preserved) =
        [kind |-> i.kind, name |-> i.name, trait |-> i.trait, home |-> i.home,
         keep |-> i.keep, of |-> i.of, supers |-> i.supers, open |-> i.open,
         members |-> ms, uses |-> us, binds |-> i.binds]
  BY <1>1, <1>2
<1>6. IsItem(Trimmed(i, its, preserved))
  BY <1>3, <1>5 DEF IsItem
<1>7. QED
  BY <1>4, <1>5, <1>6 DEF ms

\* Every definition of its is still one of new, with its members unless it is
\* a struct.
Alike(its, new) ==
  \A i \in its : \E j \in new :
    /\ j.kind = i.kind /\ j.name = i.name /\ j.trait = i.trait /\ j.keep = i.keep
    /\ j.of = i.of /\ j.supers = i.supers
    /\ i.kind # "struct" => j.members = i.members

LEMMA NamedAlike ==
  ASSUME NEW its, NEW new, Alike(its, new), NEW kinds, NEW n, Named(its, kinds, n) # {}
  PROVE  Named(new, kinds, n) # {}
BY DEF Alike, Named

LEMMA GivesAlike ==
  ASSUME NEW its, NEW new, Alike(its, new), NEW t, NEW f, Gives(its, t, f)
  PROVE  Gives(new, t, f)
<1>1. ASSUME NEW i \in its, i.name = t, IsImpl(i), f \in i.members
      PROVE  Gives(new, t, f)
  BY <1>1 DEF Alike, Gives, IsImpl
<1>2. ASSUME NEW i \in its, i.kind = "trait", i.name = t, f \in i.members
      PROVE  Gives(new, t, f)
  BY <1>2 DEF Alike, Gives, Named
<1>3. ASSUME NEW i \in its, i.kind = "trait", i.name = t, NEW s \in i.supers,
             NEW j \in its, j.kind = "trait", j.name = s, f \in j.members
      PROVE  Gives(new, t, f)
  <2>1. PICK i2 \in new : i2.kind = "trait" /\ i2.name = t /\ s \in i2.supers
    BY <1>3 DEF Alike
  <2>2. PICK j2 \in new : j2.kind = "trait" /\ j2.name = s /\ f \in j2.members
    BY <1>3 DEF Alike
  <2>3. QED
    BY <2>1, <2>2 DEF Gives, Named
<1>4. ASSUME NEW v \in its, v.kind = "var", v.name = t,
             NEW i \in its, i.name = v.of, IsImpl(i), f \in i.members
      PROVE  Gives(new, t, f)
  <2>1. PICK v2 \in new : v2.kind = "var" /\ v2.name = t /\ v2.of = v.of
    BY <1>4 DEF Alike
  <2>2. PICK i2 \in new : i2.name = v.of /\ IsImpl(i2) /\ f \in i2.members
    BY <1>4 DEF Alike, IsImpl
  <2>3. QED
    BY <2>1, <2>2 DEF Gives, Named
<1>5. QED
  BY <1>1, <1>2, <1>3, <1>4 DEF Gives, Named

LEMMA MethodSaidAlike ==
  ASSUME NEW its, NEW new, Alike(its, new), NEW f, NEW said, NEW more, said \subseteq more,
         MethodSaid(its, f, said)
  PROVE  MethodSaid(new, f, more)
<1>1. PICK t \in its :
        /\ t.kind = "trait" /\ f \in t.members
        /\ \/ <<t.name>> \in said
           \/ \E b \in its : b.kind = "trait" /\ t.name \in b.supers /\ <<b.name>> \in said
  BY DEF MethodSaid
<1>2. PICK t2 \in new : t2.kind = "trait" /\ f \in t2.members /\ t2.name = t.name
  BY <1>1 DEF Alike
<1>3. CASE <<t.name>> \in said
  BY <1>2, <1>3 DEF MethodSaid
<1>4. ASSUME NEW b \in its, b.kind = "trait", t.name \in b.supers, <<b.name>> \in said
      PROVE  MethodSaid(new, f, more)
  <2>1. PICK b2 \in new : b2.kind = "trait" /\ t.name \in b2.supers /\ b2.name = b.name
    BY <1>4 DEF Alike
  <2>2. QED
    BY <1>2, <1>4, <2>1 DEF MethodSaid
<1>5. QED
  BY <1>1, <1>3, <1>4

\* Q is program P, with modules L, after those of D have lost the fields that
\* none of their text reads.  R has the names asked of each module.
TrimProgram(P, Q, L, D, R, A) ==
  /\ \A m \in L : Q[m] = IF m \in D THEN FieldsPruned(P[m], R[m]) ELSE P[m]
  /\ \A m \in L : \A i \in P[m] : \A q \in FarNames(m, i) :
       q[1] \in L \ {Main} => q[2] \in R[q[1]]
  /\ \A m \in L : \A n \in R[m] : <<m, n>> \in A

Lost(its, m, D, preserved, i) == IF m \in D THEN UnusedFields(i, its, preserved) ELSE {}

Gone(its, m, D, preserved) == UNION {Lost(its, m, D, preserved, i) : i \in its}

LEMMA LostIs ==
  ASSUME NEW its, NEW m, NEW D, NEW preserved, NEW i, NEW f \in Lost(its, m, D, preserved, i)
  PROVE  /\ i.kind = "struct" /\ <<i.name>> \notin preserved
         /\ f \in i.members /\ f \notin ReadFields(its) /\ f \notin i.open
BY DEF Lost, UnusedFields

\* Item j of a module is what the trim leaves of item i.
After(its, m, D, preserved, i, j) ==
  /\ j = (IF m \in D THEN Trimmed(i, its, preserved) ELSE i) /\ IsItem(j)
  /\ j.kind = i.kind /\ j.name = i.name /\ j.trait = i.trait /\ j.home = i.home
  /\ j.of = i.of /\ j.supers = i.supers /\ j.open = i.open
  /\ j.keep = i.keep /\ j.binds = i.binds
  /\ j.members = i.members \ Lost(its, m, D, preserved, i)
  /\ \A f \in i.members \cup {Rest} :
       j.uses[f] = {u \in i.uses[f] : u.init \notin Gone(its, m, D, preserved)}

LEMMA AfterIs ==
  ASSUME NEW P, NEW Q, NEW L, NEW D, NEW R, NEW A, TrimProgram(P, Q, L, D, R, A),
         NEW m \in L, Items(P[m])
  PROVE  /\ \A i \in P[m] : \E j \in Q[m] : After(P[m], m, D, R[m], i, j)
         /\ \A j \in Q[m] : \E i \in P[m] : After(P[m], m, D, R[m], i, j)
<1>1. CASE m \in D
  <2>1. Gone(P[m], m, D, R[m]) = Removed(P[m], R[m])
    BY <1>1 DEF Gone, Removed, Lost
  <2>2. ASSUME NEW i \in P[m]
        PROVE  After(P[m], m, D, R[m], i, Trimmed(i, P[m], R[m]))
    <3>1. IsItem(i)
      BY DEF Items
    <3>2. QED
      BY <1>1, <2>1, <3>1, TrimmedIs DEF After, Lost
  <2>3. Q[m] = {Trimmed(i, P[m], R[m]) : i \in P[m]}
    BY <1>1, TrimmedAll DEF TrimProgram
  <2>4. QED
    BY <2>2, <2>3
<1>2. CASE m \notin D
  <2>1. Gone(P[m], m, D, R[m]) = {} /\ Q[m] = P[m]
    BY <1>2 DEF Gone, Lost, TrimProgram
  <2>2. \A i \in P[m] : After(P[m], m, D, R[m], i, i)
    BY <1>2, <2>1 DEF After, Lost, Items
  <2>3. QED
    BY <2>1, <2>2
<1>3. QED
  BY <1>1, <1>2

LEMMA AlikeAfter ==
  ASSUME NEW P, NEW Q, NEW L, NEW D, NEW R, NEW A, TrimProgram(P, Q, L, D, R, A),
         NEW m \in L, Items(P[m])
  PROVE  Alike(P[m], Q[m])
<1> SUFFICES ASSUME NEW i \in P[m]
             PROVE  \E j \in Q[m] :
                      /\ j.kind = i.kind /\ j.name = i.name /\ j.trait = i.trait
                      /\ j.keep = i.keep
                      /\ j.of = i.of /\ j.supers = i.supers
                      /\ i.kind # "struct" => j.members = i.members
  BY DEF Alike
<1>1. PICK j \in Q[m] : After(P[m], m, D, R[m], i, j)
  BY AfterIs
<1>2. i.kind # "struct" => Lost(P[m], m, D, R[m], i) = {}
  BY DEF Lost, UnusedFields
<1>3. i.kind # "struct" => j.members = i.members
  BY <1>1, <1>2 DEF After
<1>4. QED
  BY <1>1, <1>3 DEF After

\* No item loses a member called Nowhere.
LEMMA NowhereStays ==
  ASSUME NEW its, Items(its), NEW m, NEW D, NEW preserved
  PROVE  Nowhere \notin Gone(its, m, D, preserved)
<1> SUFFICES ASSUME NEW i \in its, Nowhere \in Lost(its, m, D, preserved, i)
             PROVE  FALSE
  BY DEF Gone
<1>1. Nowhere \in i.members
  BY LostIs
<1>2. QED
  BY <1>1 DEF Items, IsItem

\* The trim leaves everything that is said with a use that it leaves.
LEMMA SaidAfter ==
  ASSUME NEW its, Items(its), NEW m, NEW D, NEW preserved, NEW text, NEW left,
         left = {v \in text : v.init \notin Gone(its, m, D, preserved)},
         NEW u \in left
  PROVE  SaidWith(text, u) \subseteq SaidWith(left, u)
<1>1. \A v \in text : v.init \in {Nowhere, u.init} => v \in left
  BY NowhereStays
<1>2. QED
  BY <1>1 DEF SaidWith

\* A field that is set in a literal that stays is not lost by a struct of the
\* literal's module, unless the literal's own struct loses it.
LEMMA SetStays ==
  ASSUME NEW P, NEW Q, NEW L, NEW D, NEW R, NEW A, TrimProgram(P, Q, L, D, R, A),
         NEW m \in L, NEW k \in L, NEW s \in P[k], s.kind = "struct",
         NEW f \in s.members, f \notin Lost(P[k], k, D, R[k], s),
         FieldApart(P, A, m, k, s, f)
  PROVE  f \notin Gone(P[m], m, D, R[m])
<1> SUFFICES ASSUME NEW t \in P[m], f \in Lost(P[m], m, D, R[m], t)
             PROVE  FALSE
  BY DEF Gone
<1>1. /\ t.kind = "struct" /\ f \in t.members
      /\ f \notin ReadFields(P[m]) /\ f \notin t.open /\ m \in D
  BY DEF Lost, UnusedFields
<1>2. CASE k = m /\ t = s
  BY <1>2
<1>3. CASE k = m /\ f \notin s.open /\ <<m, <<s.name>>>> \notin A
  <2>1. <<s.name>> \notin R[m]
    BY <1>3 DEF TrimProgram
  <2>2. f \in UnusedFields(s, P[m], R[m])
    BY <1>1, <1>3, <2>1 DEF UnusedFields
  <2>3. QED
    BY <1>1, <1>3, <2>2 DEF Lost
<1>4. QED
  BY <1>1, <1>2, <1>3 DEF FieldApart

\* A struct that another module says loses nothing.
LEMMA SaidAbroad ==
  ASSUME NEW P, NEW Q, NEW L, NEW D, NEW R, NEW A, TrimProgram(P, Q, L, D, R, A),
         NEW m \in L, NEW i \in P[m], NEW f \in i.members \cup {Rest},
         NEW u \in i.uses[f], u.mod \in L \ {Main}, u.mod # m,
         NEW s, <<s.name>> \in SaidWith(i.uses[f], u)
  PROVE  Lost(P[u.mod], u.mod, D, R[u.mod], s) = {}
<1>1. PICK v \in i.uses[f] :
        v.mod = u.mod /\ <<s.name>> \in Names(v.what) /\ v.what[1] # "impl"
  BY DEF SaidWith
<1>2. v \in Uses(i)
  BY DEF Uses
<1>3. <<u.mod, <<s.name>>>> \in {v.mod} \X Names(v.what)
  BY <1>1
<1>4. <<u.mod, <<s.name>>>> \in FarNames(m, i)
  BY <1>1, <1>2, <1>3 DEF FarNames
<1>5. <<s.name>> \in R[u.mod]
  BY <1>4 DEF TrimProgram
<1>6. QED
  BY <1>5 DEF Lost, UnusedFields

\* A use that is tagged is no name that a local variable could have.
LEMMA TaggedFits ==
  ASSUME NEW P, NEW L, NEW A, Fits(P, L, A), NEW m \in L, NEW i \in P[m],
         NEW f \in i.members \cup {Rest}, NEW u \in i.uses[f],
         NEW a, NEW b, NEW c, u.what = <<a, b, c>>
  PROVE  UseFits(P, L, A, m, i, i.uses[f], u)
<1>1. IsItem(i) /\ (Hidden(i, u) \/ UseFits(P, L, A, m, i, i.uses[f], u))
  BY DEF Fits
<1>2. u.bare => u.what = <<u.what[1]>>
  BY <1>1 DEF IsItem
<1>3. ~u.bare
  BY <1>2
<1>4. QED
  BY <1>1, <1>3 DEF Hidden

LEMMA LiteralAfter ==
  ASSUME NEW P, NEW Q, NEW L, NEW D, NEW R, NEW A, TrimProgram(P, Q, L, D, R, A),
         Fits(P, L, A), NEW m \in L, NEW i \in P[m], NEW f \in i.members \cup {Rest},
         NEW left, left = {v \in i.uses[f] : v.init \notin Gone(P[m], m, D, R[m])},
         NEW u, u.mod \in L, LiteralFits(P, A, m, i.uses[f], u)
  PROVE  LiteralFits(Q, A, m, left, u)
<1> DEFINE k == u.mod
<1> SUFFICES ASSUME NEW s2 \in Named(Q[k], {"struct"}, u.what[2]), NEW x \in s2.members
             PROVE  /\ \E v \in left : v.mod = k /\ v.what = <<"set", s2.name, x>>
                    /\ FieldApart(Q, A, m, k, s2, x)
  BY DEF LiteralFits
<1>1. Items(P[m]) /\ Items(P[k])
  BY CompilesItems
<1>2. PICK s \in P[k] : After(P[k], k, D, R[k], s, s2)
  BY <1>1, AfterIs DEF Named
<1>3. /\ s.kind = "struct" /\ s.name = s2.name /\ s.name = u.what[2] /\ s.open = s2.open
      /\ x \in s.members /\ x \notin Lost(P[k], k, D, R[k], s)
  BY <1>2 DEF After, Named
<1>4. /\ \E v \in i.uses[f] : v.mod = k /\ v.what = <<"set", s.name, x>>
      /\ FieldApart(P, A, m, k, s, x)
  BY <1>3 DEF LiteralFits, Named
<1>5. PICK v \in i.uses[f] : v.mod = k /\ v.what = <<"set", s2.name, x>>
  BY <1>3, <1>4
<1>6. v.init = x
  <2>1. UseFits(P, L, A, m, i, i.uses[f], v)
    BY <1>5, TaggedFits
  <2>2. v.what[1] = "set" /\ v.what[3] = x
    BY <1>5
  <2>3. QED
    BY <2>1, <2>2 DEF UseFits
<1>7. x \notin Gone(P[m], m, D, R[m])
  BY <1>3, <1>4, SetStays
<1>8. ASSUME NEW t2 \in Q[m], t2.kind = "struct", x \in t2.members
      PROVE  \/ x \in t2.open
             \/ k = m /\ t2 = s2
             \/ k = m /\ x \notin s2.open /\ <<m, <<s2.name>>>> \notin A
  <2>1. PICK t \in P[m] : After(P[m], m, D, R[m], t, t2)
    BY <1>1, AfterIs
  <2>2. t.kind = "struct" /\ t.open = t2.open /\ x \in t.members
    BY <1>8, <2>1 DEF After
  <2>3. k = m /\ t = s => t2 = s2
    BY <1>2, <2>1 DEF After
  <2>4. QED
    BY <1>3, <1>4, <2>2, <2>3 DEF FieldApart
<1>9. FieldApart(Q, A, m, k, s2, x)
  BY <1>8 DEF FieldApart
<1>10. QED
  BY <1>5, <1>6, <1>7, <1>9

\* A field that is set or read in a text that stays stays in its struct.
LEMMA FieldStays ==
  ASSUME NEW P, NEW Q, NEW L, NEW D, NEW R, NEW A, TrimProgram(P, Q, L, D, R, A),
         Fits(P, L, A), NEW m \in L, NEW i \in P[m], NEW f \in i.members \cup {Rest},
         NEW u \in i.uses[f], u.init \notin Gone(P[m], m, D, R[m]),
         UseFits(P, L, A, m, i, i.uses[f], u),
         u.what[1] \in {"set", "field"},
         NEW s \in P[u.mod], s.name = u.what[2]
  PROVE  u.what[3] \notin Lost(P[u.mod], u.mod, D, R[u.mod], s)
<1>1. UseFits(P, L, A, m, i, i.uses[f], u)
  OBVIOUS
<1>2. CASE u.mod = m
  <2>1. CASE u.what[1] = "set"
    BY <1>1, <1>2, <2>1 DEF UseFits, Gone
  <2>2. CASE u.what[1] = "field"
    <3>1. u \in UNION {Uses(y) : y \in P[m]}
      BY DEF Uses
    <3>2. u.what[3] \in ReadFields(P[m])
      BY <2>2, <3>1 DEF ReadFields
    <3>3. QED
      BY <1>2, <3>2 DEF Lost, UnusedFields
  <2>3. QED
    BY <2>1, <2>2
<1>3. CASE u.mod # m
  <2>1. u.mod \in L \ {Main}
    BY <1>1, <1>3 DEF UseFits
  <2>2. <<s.name>> \in SaidWith(i.uses[f], u)
    BY <1>1, <1>3 DEF UseFits, StructSaid
  <2>3. Lost(P[u.mod], u.mod, D, R[u.mod], s) = {}
    BY <1>3, <2>1, <2>2, SaidAbroad
  <2>4. QED
    BY <2>3
<1>4. QED
  BY <1>2, <1>3

\* A use that resolves, in a text that the trim leaves, still resolves.
LEMMA UseAfter ==
  ASSUME NEW P, NEW Q, NEW L, NEW D, NEW R, NEW A, TrimProgram(P, Q, L, D, R, A),
         Fits(P, L, A), NEW m \in L, NEW i \in P[m], NEW j \in Q[m],
         After(P[m], m, D, R[m], i, j),
         NEW f \in j.members \cup {Rest}, NEW u \in j.uses[f], ~Hidden(j, u)
  PROVE  UseFits(Q, L, A, m, j, j.uses[f], u)
<1> DEFINE text == i.uses[f]
           left == j.uses[f]
           k == u.mod
           w == u.what
           its == P[k]
           new == Q[k]
<1>1. /\ f \in i.members \cup {Rest} /\ u \in text
      /\ left = {v \in text : v.init \notin Gone(P[m], m, D, R[m])}
      /\ u.init \notin Gone(P[m], m, D, R[m])
      /\ j.kind = i.kind /\ j.name = i.name /\ j.binds = i.binds
  BY DEF After
<1>2. UseFits(P, L, A, m, i, text, u)
  BY <1>1 DEF Fits, Hidden
<1>3. k \in L /\ (k = Main => m = Main) /\ IsUse(w)
  BY <1>2 DEF UseFits
<1>4. Items(P[m]) /\ Items(its) /\ Alike(its, new)
  BY <1>3, CompilesItems, AlikeAfter
<1>5. SaidWith(text, u) \subseteq SaidWith(left, u)
  BY <1>1, <1>4, SaidAfter
<1>6. StructSaid(m, i, text, u) => StructSaid(m, j, left, u)
  BY <1>1, <1>5 DEF StructSaid, IsImpl
<1>7. Len(w) = 1 =>
        \/ Named(new, {"fn", "var", "struct", "trait"}, w[1]) # {}
        \/ MethodSaid(new, w[1], SaidWith(left, u))
  <2> DEFINE kinds == {"fn", "var", "struct", "trait"}
  <2> HIDE DEF kinds
  <2>1. Len(w) = 1 => Named(its, kinds, w[1]) # {} \/ MethodSaid(its, w[1], SaidWith(text, u))
    BY <1>2 DEF UseFits, kinds
  <2>2. Named(its, kinds, w[1]) # {} => Named(new, kinds, w[1]) # {}
    BY <1>4, NamedAlike
  <2>3. MethodSaid(its, w[1], SaidWith(text, u)) => MethodSaid(new, w[1], SaidWith(left, u))
    BY <1>4, <1>5, MethodSaidAlike
  <2>4. QED
    BY <2>1, <2>2, <2>3 DEF kinds
<1>8. w[1] = "literal" => LiteralFits(Q, A, m, left, u)
  BY <1>1, <1>2, <1>3, LiteralAfter DEF UseFits
<1>9. w[1] = "box" => BoxFits(m, new, left, u)
  <2> SUFFICES ASSUME w[1] = "box" PROVE BoxFits(m, new, left, u)
    OBVIOUS
  <2> DEFINE Stays(x, said) == /\ x.kind = "traitimpl" /\ x.trait = w[2] /\ x.name = w[3]
                               /\ \/ x.keep = "always"
                                  \/ x.keep = "self" /\ <<x.name>> \in said
  <2>1. /\ k = m \/ SaidWith(text, u) # {}
        /\ \E x \in its : Stays(x, SaidWith(text, u))
    BY <1>2 DEF UseFits, BoxFits
  <2>2. PICK x \in its : Stays(x, SaidWith(text, u))
    BY <2>1
  <2>3. PICK y \in new : y.kind = x.kind /\ y.name = x.name /\ y.trait = x.trait /\ y.keep = x.keep
    BY <1>4 DEF Alike
  <2>4. Stays(y, SaidWith(left, u))
    BY <1>5, <2>2, <2>3
  <2>5. QED
    BY <1>5, <2>1, <2>4 DEF BoxFits
<1>10. Resolves(new, j, u)
  <2>0. ResolvesParts(its, i, u)
    BY <1>2, <1>3, ResolvesWhen DEF UseFits
  <2>1. Len(w) = 1 =>
          \/ Named(new, {"fn", "var", "struct", "trait"}, w[1]) # {}
          \/ \E t \in new : t.kind = "trait" /\ w[1] \in t.members
    BY <1>7 DEF MethodSaid
  <2>2. Len(w) = 2 => Named(new, Types \cup {"var"}, w[1]) # {} /\ Gives(new, w[1], w[2])
    <3> DEFINE kinds == Types \cup {"var"}
    <3> HIDE DEF kinds
    <3>1. Len(w) = 2 => Named(its, kinds, w[1]) # {} /\ Gives(its, w[1], w[2])
      BY <2>0 DEF ResolvesParts, kinds
    <3>2. Named(its, kinds, w[1]) # {} => Named(new, kinds, w[1]) # {}
      BY <1>4, NamedAlike
    <3>3. Gives(its, w[1], w[2]) => Gives(new, w[1], w[2])
      BY <1>4, GivesAlike
    <3>4. QED
      BY <3>1, <3>2, <3>3 DEF kinds
  <2>3. w[1] \in {"impl", "box"} =>
          \E h \in new : h.kind = "traitimpl" /\ h.trait = w[2] /\ h.name = w[3]
    BY <1>4, <2>0 DEF ResolvesParts, Alike
  <2>4. w[1] = "literal" =>
          \A s \in Named(new, {"struct"}, w[2]) : \A x \in s.members :
            \E v \in Uses(j) : v.what = <<"set", w[2], x>>
    BY <1>8 DEF LiteralFits, Uses, Named
  <2>5. w[1] \in {"set", "field"} => \E s \in Named(new, {"struct"}, w[2]) : w[3] \in s.members
    <3> SUFFICES ASSUME w[1] \in {"set", "field"}
                 PROVE  \E s \in Named(new, {"struct"}, w[2]) : w[3] \in s.members
      OBVIOUS
    <3>1. PICK s \in its : s.kind = "struct" /\ s.name = w[2] /\ w[3] \in s.members
      BY <2>0 DEF ResolvesParts, Named
    <3>2. w[3] \notin Lost(its, k, D, R[k], s)
      BY <1>1, <1>2, <3>1, FieldStays
    <3>3. PICK s2 \in new : After(its, k, D, R[k], s, s2)
      BY <1>3, <1>4, AfterIs
    <3>4. s2.kind = "struct" /\ s2.name = w[2] /\ w[3] \in s2.members
      BY <3>1, <3>2, <3>3 DEF After
    <3>5. QED
      BY <3>4 DEF Named
  <2> HIDE DEF its, new
  <2>6. ResolvesParts(new, j, u)
    BY <2>1, <2>2, <2>3, <2>4, <2>5 DEF ResolvesParts
  <2>7. QED
    BY <1>3, <2>6, ResolvesWhen
<1>11. QED
  BY <1>2, <1>3, <1>6, <1>7, <1>8, <1>9, <1>10 DEF UseFits

LEMMA ImplAfter ==
  ASSUME NEW P, NEW Q, NEW L, NEW D, NEW R, NEW A, TrimProgram(P, Q, L, D, R, A),
         Fits(P, L, A), NEW m \in L, NEW i \in P[m], NEW j \in Q[m],
         After(P[m], m, D, R[m], i, j)
  PROVE  ImplFits(Q, L, m, j)
<1>1. /\ j.kind = i.kind /\ j.name = i.name /\ j.trait = i.trait
      /\ j.home = i.home /\ j.supers = i.supers
      /\ j.kind = "traitimpl" => j.members = i.members
  <2>1. i.kind # "struct" => Lost(P[m], m, D, R[m], i) = {}
    BY DEF Lost, UnusedFields
  <2>2. /\ j.kind = i.kind /\ j.name = i.name /\ j.trait = i.trait
        /\ j.home = i.home /\ j.supers = i.supers
        /\ j.members = i.members \ Lost(P[m], m, D, R[m], i)
    BY DEF After
  <2>3. QED
    BY <2>1, <2>2
<1>2. ImplFits(P, L, m, i)
  BY DEF Fits
<1>3. \A k \in L : Alike(P[k], Q[k])
  BY CompilesItems, AlikeAfter
<1>4. IsImpl(j) => Named(Q[m], Types, j.name) # {}
  BY <1>1, <1>2, <1>3, NamedAlike DEF ImplFits, IsImpl
<1>5. j.kind = "traitimpl" =>
        /\ j.home \in L
        /\ j.home = Main => m = Main
        /\ \E t \in Named(Q[j.home], {"trait"}, j.trait) : t.members = j.members
  <2> SUFFICES ASSUME j.kind = "traitimpl"
               PROVE  /\ j.home \in L
                      /\ j.home = Main => m = Main
                      /\ \E t \in Named(Q[j.home], {"trait"}, j.trait) : t.members = j.members
    OBVIOUS
  <2>1. /\ j.home \in L /\ (j.home = Main => m = Main)
        /\ \E t \in P[j.home] : t.kind = "trait" /\ t.name = j.trait /\ t.members = j.members
    BY <1>1, <1>2 DEF ImplFits, Named
  <2>2. \E t \in Q[j.home] : t.kind = "trait" /\ t.name = j.trait /\ t.members = j.members
    BY <1>3, <2>1 DEF Alike
  <2>3. QED
    BY <2>1, <2>2 DEF Named
<1>6. j.kind = "trait" => \A s \in j.supers : Named(Q[m], {"trait"}, s) # {}
  BY <1>1, <1>2, <1>3, NamedAlike DEF ImplFits
<1>7. QED
  BY <1>4, <1>5, <1>6 DEF ImplFits

\* What the removal of unused fields leaves of a program that compiles compiles.
LEMMA TrimCompiles ==
  ASSUME NEW P, NEW Q, NEW L, NEW D, NEW R, NEW A, TrimProgram(P, Q, L, D, R, A),
         Fits(P, L, A)
  PROVE  Fits(Q, L, A)
<1> SUFFICES ASSUME NEW m \in L, NEW j \in Q[m]
             PROVE  /\ IsItem(j)
                    /\ \A f \in j.members \cup {Rest} : \A u \in j.uses[f] :
                         Hidden(j, u) \/ UseFits(Q, L, A, m, j, j.uses[f], u)
                    /\ ImplFits(Q, L, m, j)
  BY DEF Fits
<1>1. Items(P[m])
  BY CompilesItems
<1>2. PICK i \in P[m] : After(P[m], m, D, R[m], i, j)
  BY <1>1, AfterIs
<1>3. IsItem(j)
  BY <1>2 DEF After
<1>4. QED
  BY <1>2, <1>3, UseAfter, ImplAfter

\* An item that lost fields mentions no more than it did.
LEMMA TrimSaysLess ==
  ASSUME NEW i, IsItem(i), NEW its, NEW preserved, NEW m
  PROVE  FarNames(m, Trimmed(i, its, preserved)) \subseteq FarNames(m, i)
<1> DEFINE j == Trimmed(i, its, preserved)
<1>1. /\ j.kind = i.kind /\ j.home = i.home /\ j.trait = i.trait
      /\ j.members \subseteq i.members
      /\ \A f \in i.members \cup {Rest} : j.uses[f] \subseteq i.uses[f]
  BY TrimmedIs
<1> HIDE DEF j
<1>2. Uses(j) \subseteq Uses(i)
  BY <1>1 DEF Uses
<1>3. FarNames(m, j) \subseteq FarNames(m, i)
  BY <1>1, <1>2 DEF FarNames
<1>4. QED
  BY <1>3 DEF j

LEMMA TrimmedFrom ==
  ASSUME NEW its, Items(its), NEW preserved, NEW m, NEW j \in FieldsPruned(its, preserved)
  PROVE  \E i \in its : FarNames(m, j) \subseteq FarNames(m, i)
<1>1. PICK i \in its : j = Trimmed(i, its, preserved)
  BY TrimmedAll
<1>2. QED
  BY <1>1, TrimSaysLess DEF Items

LEMMA TrimmedItems ==
  ASSUME NEW its, Items(its), NEW preserved
  PROVE  Items(FieldsPruned(its, preserved))
BY TrimmedAll, TrimmedIs DEF Items

LEMMA RetainedItems ==
  ASSUME NEW its, Items(its), NEW ns, NEW rs
  PROVE  Items(Retained(its, ns, rs))
BY RetainedFrom, PartIs DEF Items

LEMMA RetainedSaysLess ==
  ASSUME NEW its, Items(its), NEW ns, NEW rs, NEW m, NEW j \in Retained(its, ns, rs)
  PROVE  \E i \in its : FarNames(m, j) \subseteq FarNames(m, i)
<1>1. PICK i \in its : j = Part(i, ns, rs)
  BY RetainedFrom
<1>2. QED
  BY <1>1, PartSaysLess DEF Items

-----------------------------------------------------------------------------
(***************************************************************************)
(* Modules that are empty go, and less is asked of those that stay.        *)
(***************************************************************************)

LEMMA UsedNotEmpty ==
  ASSUME NEW p, NEW mods, NEW A, NEW m, NEW i, NEW text, NEW u,
         UseFits(p, mods, A, m, i, text, u), u.what[1] # "literal"
  PROVE  p[u.mod] # {}
<1>1. IsUse(u.what) /\ ResolvesParts(p[u.mod], i, u)
  BY ResolvesWhen DEF UseFits
<1>2. \/ Len(u.what) \in {1, 2}
      \/ u.what[1] \in {"impl", "box", "set", "field"}
  BY <1>1, UseShapes DEF Tags
<1>3. QED
  BY <1>1, <1>2 DEF ResolvesParts, Named

LEMMA EmptyGo ==
  ASSUME NEW p, NEW mods, NEW A, Fits(p, mods, A),
         NEW L, L = {m \in mods : m = Main \/ p[m] # {}}
  PROVE  Fits(p, L, A)
<1> SUFFICES ASSUME NEW m \in L, NEW i \in p[m]
             PROVE  /\ IsItem(i)
                    /\ \A f \in i.members \cup {Rest} : \A u \in i.uses[f] :
                         Hidden(i, u) \/ UseFits(p, L, A, m, i, i.uses[f], u)
                    /\ ImplFits(p, L, m, i)
  BY DEF Fits
<1>1. ASSUME NEW f \in i.members \cup {Rest}, NEW u \in i.uses[f], ~Hidden(i, u)
      PROVE  UseFits(p, L, A, m, i, i.uses[f], u)
  <2>1. \A v \in i.uses[f] : ~Hidden(i, v) => UseFits(p, mods, A, m, i, i.uses[f], v)
    BY DEF Fits
  <2>2. p[u.mod] # {}
    <3>1. CASE u.what[1] # "literal"
      BY <1>1, <2>1, <3>1, UsedNotEmpty
    <3>2. CASE u.what[1] = "literal"
      <4>1. CASE u.mod = m
        BY <4>1
      <4>2. CASE u.mod # m
        <5>1. <<u.what[2]>> \in SaidWith(i.uses[f], u)
          BY <1>1, <2>1, <3>2, <4>2 DEF UseFits, StructSaid
        <5>2. PICK v \in i.uses[f] : v.mod = u.mod /\ Names(v.what) # {} /\ ~Hidden(i, v)
          BY <5>1 DEF SaidWith, Hidden
        <5>3. v.what[1] # "literal"
          BY <2>1, <5>2, UseShapes DEF UseFits
        <5>4. QED
          BY <2>1, <5>2, <5>3, UsedNotEmpty
      <4>3. QED
        BY <4>1, <4>2
    <3>3. QED
      BY <3>1, <3>2
  <2>3. u.mod \in L
    BY <1>1, <2>1, <2>2 DEF UseFits
  <2>4. QED
    BY <1>1, <2>1, <2>3 DEF UseFits
<1>2. IsItem(i) /\ ImplFits(p, mods, m, i)
  BY DEF Fits
<1>3. ImplFits(p, L, m, i)
  BY <1>2 DEF ImplFits, Named
<1>4. QED
  BY <1>1, <1>2, <1>3

LEMMA LessAsked ==
  ASSUME NEW p, NEW mods, NEW A, Fits(p, mods, A), NEW B \in SUBSET A
  PROVE  Fits(p, mods, B)
<1> SUFFICES ASSUME NEW m \in mods, NEW i \in p[m],
                    NEW f \in i.members \cup {Rest}, NEW u \in i.uses[f], ~Hidden(i, u)
             PROVE  UseFits(p, mods, B, m, i, i.uses[f], u)
  BY DEF Fits
<1>1. UseFits(p, mods, A, m, i, i.uses[f], u)
  BY DEF Fits
<1>2. \A k, s, x : FieldApart(p, A, m, k, s, x) => FieldApart(p, B, m, k, s, x)
  BY DEF FieldApart
<1>3. LiteralFits(p, A, m, i.uses[f], u) => LiteralFits(p, B, m, i.uses[f], u)
  BY <1>2 DEF LiteralFits
<1>4. QED
  BY <1>1, <1>3 DEF UseFits

LEMMA AbroadLess ==
  ASSUME NEW p, NEW mods, NEW q, NEW left \in SUBSET mods,
         \A m \in left : \A j \in q[m] : \E i \in p[m] : FarNames(m, j) \subseteq FarNames(m, i)
  PROVE  AbroadNames(q, left) \subseteq AbroadNames(p, mods)
BY DEF AbroadNames

-----------------------------------------------------------------------------
(***************************************************************************)
(* A whole round, on program O with modules M: R has the names that were   *)
(* asked of each module.                                                   *)
(***************************************************************************)

\* The names from which module m is scanned for good.
Start(m, R) == IF m = Main THEN {<<"main">>} ELSE R[m]

\* What the items its of module m need of others has been asked for.
Heard(m, its, M, R) ==
  \A i \in its : \A q \in FarNames(m, i) : q[1] \in M => q[2] \in R[q[1]]

CutTo(its, m, M, R, ns) ==
  /\ Keeps(its, m, ns, Start(m, R))
  /\ Heard(m, Retained(its, ns, Start(m, R)), M, R)

\* The items its of module m have been cut to left; main keeps its fields till
\* the round ends.
Cut(its, m, M, R, left) ==
  \E ns : /\ CutTo(its, m, M, R, ns)
          /\ left = IF m = Main THEN Retained(its, ns, Start(m, R))
                    ELSE FieldsPruned(Retained(its, ns, Start(m, R)), R[m])

\* The modules L of which anything is needed have been cut, to C; a last look
\* for unused fields leaves E, and K are the modules that are not empty then.
RoundEnds(O, M, R, L, C, E, K) ==
  /\ L = {m \in M : m = Main \/ R[m] # {}}
  /\ \A m \in L : \A n \in R[m] : <<m, n>> \in AbroadNames(O, M)
  /\ \A m \in L : Cut(O[m], m, M, R, C[m])
  /\ \A m \in L : E[m] = FieldsPruned(C[m], R[m])
  /\ K = {m \in L : m = Main \/ E[m] # {}}

LEMMA RoundCompiles ==
  ASSUME NEW O, NEW M, NEW R, NEW L, NEW C, NEW E, NEW K,
         Compiles(O, M), RoundEnds(O, M, R, L, C, E, K)
  PROVE  Compiles(E, K)
<1>0. /\ L = {m \in M : m = Main \/ R[m] # {}}
      /\ \A m \in L : \A n \in R[m] : <<m, n>> \in AbroadNames(O, M)
      /\ \A m \in L : Cut(O[m], m, M, R, C[m])
      /\ \A m \in L : E[m] = FieldsPruned(C[m], R[m])
      /\ K = {m \in L : m = Main \/ E[m] # {}}
  BY DEF RoundEnds
<1> USE <1>0
<1> DEFINE A == AbroadNames(O, M)
           Good(m, ns) ==
             /\ CutTo(O[m], m, M, R, ns)
             /\ C[m] = IF m = Main THEN Retained(O[m], ns, Start(m, R))
                       ELSE FieldsPruned(Retained(O[m], ns, Start(m, R)), R[m])
           N == [m \in L |-> CHOOSE ns : Good(m, ns)]
           S == [m \in L |-> Start(m, R)]
           P == [m \in L |-> Retained(O[m], N[m], S[m])]
<1>1. \A m \in L : Good(m, N[m])
  BY DEF Cut
<1>2. \A m \in L : S[m] = Start(m, R) /\ P[m] = Retained(O[m], N[m], S[m])
  OBVIOUS
<1> HIDE DEF N, S, P
<1>3. \A m \in L : /\ Keeps(O[m], m, N[m], S[m])
                   /\ Heard(m, P[m], M, R)
                   /\ C[m] = IF m = Main THEN P[m] ELSE FieldsPruned(P[m], R[m])
  BY <1>1, <1>2 DEF CutTo
<1> HIDE DEF Good
<1>4. \A m \in L : \A i \in P[m] : \A q \in FarNames(m, i) :
        q[1] \in M \ {Main} => q[1] \in L /\ q[2] \in R[q[1]] /\ q[2] \in S[q[1]]
  BY <1>2, <1>3 DEF Heard, Start
<1>5. Fits(P, L, A)
  <2>1. CutProgram(O, M, P, L, N, S)
    BY <1>2, <1>3, <1>4 DEF CutProgram
  <2>2. QED
    BY <2>1, CutCompiles DEF Compiles
<1>6. \A m \in L : Items(O[m]) /\ Items(P[m])
  BY <1>5, CompilesItems DEF Compiles
<1>7. Fits(C, L, A)
  <2>1. TrimProgram(P, C, L, L \ {Main}, R, A)
    BY <1>3, <1>4 DEF TrimProgram
  <2>2. QED
    BY <1>5, <2>1, TrimCompiles
<1>8. \A m \in L : \A j \in C[m] : \E i \in P[m] : FarNames(m, j) \subseteq FarNames(m, i)
  <2> SUFFICES ASSUME NEW m \in L, NEW j \in C[m]
               PROVE  \E i \in P[m] : FarNames(m, j) \subseteq FarNames(m, i)
    OBVIOUS
  <2>1. CASE m = Main
    BY <1>3, <2>1
  <2>2. CASE m # Main
    <3>1. j \in FieldsPruned(P[m], R[m])
      BY <1>3, <2>2
    <3>2. Items(P[m])
      BY <1>6
    <3>3. QED
      BY <3>1, <3>2, TrimmedFrom
  <2>3. QED
    BY <2>1, <2>2
<1>9. Fits(E, L, A)
  <2>1. TrimProgram(C, E, L, L, R, A)
    BY <1>4, <1>8 DEF TrimProgram
  <2>2. QED
    BY <1>7, <2>1, TrimCompiles
<1>10. Fits(E, K, A)
  BY <1>9, EmptyGo
<1>11. \A m \in L : \A j \in E[m] : \E i \in O[m] : FarNames(m, j) \subseteq FarNames(m, i)
  <2> SUFFICES ASSUME NEW m \in L, NEW j \in E[m]
               PROVE  \E i \in O[m] : FarNames(m, j) \subseteq FarNames(m, i)
    OBVIOUS
  <2>1. Items(C[m])
    BY <1>7, CompilesItems
  <2>2. PICK c \in C[m] : FarNames(m, j) \subseteq FarNames(m, c)
    BY <2>1, TrimmedFrom
  <2>3. PICK p \in P[m] : FarNames(m, c) \subseteq FarNames(m, p)
    BY <1>8
  <2>4. PICK i \in O[m] : FarNames(m, p) \subseteq FarNames(m, i)
    BY <1>2, <1>6, RetainedSaysLess
  <2>5. QED
    BY <2>2, <2>3, <2>4
<1>12. AbroadNames(E, K) \subseteq A
  BY <1>11, AbroadLess
<1>13. QED
  BY <1>10, <1>12, LessAsked DEF Compiles

-----------------------------------------------------------------------------
(***************************************************************************)
(* Finished scans.                                                         *)
(***************************************************************************)

\* From one set of names a module is scanned once: what is stored is found
\* again and adds nothing.
OneScan ==
  /\ \A m \in Module : \A e1, e2 \in cache[m] :
       e1.roots = e2.roots => e1.names = e2.names /\ e1.far = e2.far
  /\ Scanning => \A e \in cache[cur] : e.roots = roots => names = e.names /\ far = e.far

LEMMA ScanFound ==
  ASSUME ScanInv, OneScan, NEW m \in Module, NEW rs, NEW next, Scan(m, rs, next),
         cache' = cache
  PROVE  OneScan'
<1> SUFFICES ASSUME NEW e \in cache[m], e.roots = rs
             PROVE  names' = e.names /\ far' = e.far
  BY DEF OneScan, Scan
<1> DEFINE hits == {x \in cache[m] : x.roots = rs}
<1>1. e \in hits /\ \A x \in hits : x.names = e.names /\ x.far = e.far
  BY DEF OneScan
<1>2. rs \subseteq e.names
  BY DEF ScanInv, CacheSound
<1>3. names' = rs \cup UNION {x.names : x \in hits} /\ far' = UNION {x.far : x \in hits}
  BY DEF Scan
<1> HIDE DEF hits
<1>4. UNION {x.names : x \in hits} = e.names /\ UNION {x.far : x \in hits} = e.far
  BY <1>1
<1>5. QED
  BY <1>2, <1>3, <1>4

LEMMA FewerScans ==
  ASSUME OneScan, \A m \in Module : cache'[m] \subseteq cache[m], ~Scanning'
  PROVE  OneScan'
BY DEF OneScan

LEMMA ScanStored ==
  ASSUME ScanInv, OneScan, Scanning, EndScan, ~Scanning'
  PROVE  OneScan'
<1> DEFINE scan == [roots |-> roots, names |-> names, far |-> far]
<1> SUFFICES ASSUME NEW m \in Module, NEW e1 \in cache'[m], NEW e2 \in cache'[m],
                    e1.roots = e2.roots
             PROVE  e1.names = e2.names /\ e1.far = e2.far
  BY DEF OneScan
<1>1. CASE m # cur
  BY <1>1 DEF EndScan, ScanInv, Shape, OneScan
<1>2. CASE m = cur
  <2>1. e1 \in cache[cur] \cup {scan} /\ e2 \in cache[cur] \cup {scan}
    BY <1>2 DEF EndScan, ScanInv, Shape
  <2>2. \A e \in cache[cur] : e.roots = scan.roots => scan.names = e.names /\ scan.far = e.far
    BY DEF OneScan
  <2>3. \A a, b \in cache[cur] : a.roots = b.roots => a.names = b.names /\ a.far = b.far
    BY <1>2 DEF OneScan
  <2> HIDE DEF scan
  <2>4. QED
    BY <2>1, <2>2, <2>3
<1>3. QED
  BY <1>1, <1>2

\* A scan that was looked up takes no step.
LEMMA FoundIsScanned ==
  ASSUME ScanInv, OneScan, Scanning, NEW e \in cache[cur], e.roots = roots
  PROVE  Scanned
<1>1. names = e.names /\ far = e.far /\ cur \in Module
  BY DEF OneScan, ScanInv, Shape
<1>2. Closed(cur, e.names, e.roots, e.far)
  BY <1>1 DEF ScanInv, CacheSound
<1>3. QED
  BY <1>1, <1>2 DEF Scanned

LEMMA OneScanStep ==
  ASSUME ScanInv, OneScan, [Next]_vars
  PROVE  OneScan'
<1> USE ProgramsAssumption
<1>1. CASE Round
  BY <1>1, ScanFound DEF Round
<1>2. CASE Expand
  <2>1. \A e \in cache[cur] : e.roots # roots
    BY <1>2, FoundIsScanned DEF Expand, Scanned, Closed
  <2>2. QED
    BY <1>2, <2>1 DEF Expand, OneScan, Scanning
<1>3. ASSUME NEW i \in items[cur], Visit(i) PROVE OneScan'
  <2>1. Part(i, names, roots) \in Retained(items[cur], names, roots)
    BY <1>3, RetainedPart DEF Visit
  <2>2. ~Scanned
    BY <1>3, <2>1 DEF Visit, Scanned, Closed
  <2>3. \A e \in cache[cur] : e.roots # roots
    BY <1>3, <2>2, FoundIsScanned DEF Visit
  <2>4. QED
    BY <1>3, <2>3 DEF Visit, OneScan, Scanning
<1>4. CASE PruneMain
  BY <1>4, ScanStored DEF PruneMain, Scanning
<1>5. ASSUME NEW m \in Module, Follow(m) PROVE OneScan'
  BY <1>5, ScanFound DEF Follow
<1>6. CASE Followed
  BY <1>6, ScanStored DEF Followed, Scanning
<1>7. CASE Drop
  BY <1>7, FewerScans DEF Drop, Scanning
<1>8. ASSUME NEW m \in Module, Prune(m) PROVE OneScan'
  BY <1>8, ScanFound DEF Prune
<1>9. CASE Pruned
  BY <1>9, ScanStored DEF Pruned, Scanning
<1>10. CASE EndRound
  BY <1>10, FewerScans DEF EndRound, Scanning
<1>11. CASE Done \/ UNCHANGED vars
  BY <1>11 DEF Done, vars, OneScan, Scanning
<1>12. QED
  BY <1>1, <1>2, <1>3, <1>4, <1>5, <1>6, <1>7, <1>8, <1>9, <1>10, <1>11 DEF Next

-----------------------------------------------------------------------------
(***************************************************************************)
(* What a round has done so far, compared to the program it began with.    *)
(***************************************************************************)

\* What has been asked, and what scans ask for, some text says.
Sourced ==
  /\ \A m \in Module : \A n \in required[m] : <<m, n>> \in AbroadNames(before[1], before[2])
  /\ \A m \in Module : \A e \in cache[m] : \A q \in e.far : \E i \in items[m] : q \in FarNames(m, i)
  /\ \A q \in far : Scanning /\ \E i \in items[cur] : q \in FarNames(cur, i)

\* Module m was scanned for all that is needed of it, and what it needs of
\* the modules the round began with has been asked.
Answering(m) ==
  \E e \in cache[m] :
    /\ e.roots = required[m]
    /\ \A q \in e.far : q[1] \in before[2] => q[2] \in required[q[1]]

Uncut == todo \cup (IF pc = "prune" THEN {cur} ELSE {})

CutSoFar ==
  CASE pc \in {"follow?", "follow"} -> {Main}
    [] pc \in {"prune?", "prune"}   -> modules \ Uncut
    [] OTHER                        -> {}

Progress ==
  /\ Main \in modules /\ Main \in before[2] /\ before[2] \subseteq Module
  /\ pc = "main" => items = before[1] /\ modules = before[2] /\ roots = {<<"main">>}
  /\ pc \in {"follow?", "follow"} =>
       /\ modules = before[2]
       /\ \A m \in modules \ {Main} : items[m] = before[1][m]
  /\ pc = "follow" => cur \in todo
  /\ pc \in {"prune?", "prune"} =>
       /\ modules = {m \in before[2] : m = Main \/ required[m] # {}}
       /\ \A m \in Uncut : items[m] = before[1][m] /\ Answering(m)
  /\ pc = "prune" => cur \in modules \ {Main} /\ roots = required[cur]
  /\ \A m \in CutSoFar : Cut(before[1][m], m, before[2], required, items[m])

Compiled ==
  /\ Compiles(before[1], before[2])
  /\ pc \in {"round", "done"} => Compiles(items, modules)

RoundInv == FollowInv /\ OneScan /\ Sourced /\ Progress /\ Compiled

\* Only modules that are still whole are scanned.
LEMMA ScansWhole ==
  ASSUME RoundInv, Scanning
  PROVE  /\ cur \in before[2] /\ cur \in Module
         /\ items[cur] = before[1][cur]
         /\ Items(items[cur])
<1>1. cur \in before[2] /\ cur \in Module /\ items[cur] = before[1][cur]
  <2>1. \/ pc = "main" \/ pc = "follow" \/ pc = "prune"
    BY DEF Scanning
  <2>2. CASE pc = "main"
    BY <2>2 DEF RoundInv, FollowInv, ScanInv, Phase, Shape, Progress
  <2>3. CASE pc = "follow"
    BY <2>3 DEF RoundInv, FollowInv, ScanInv, Shape, Progress
  <2>4. CASE pc = "prune"
    BY <2>4 DEF RoundInv, FollowInv, ScanInv, Shape, Progress, Uncut
  <2>5. QED
    BY <2>1, <2>2, <2>3, <2>4
<1>2. Items(before[1][cur])
  BY <1>1, CompilesItems DEF RoundInv, Compiled, Compiles
<1>3. QED
  BY <1>1, <1>2

LEMMA FarPair ==
  ASSUME NEW m, NEW i, NEW q \in FarNames(m, i)
  PROVE  q = <<q[1], q[2]>>
BY DEF FarNames

\* What is asked while a module is scanned, some text of that module says.
LEMMA MergeSourced ==
  ASSUME RoundInv, Scanning, before' = before, NEW pairs, Merge(pairs),
         \A q \in pairs : \E i \in items[cur] : q \in FarNames(cur, i)
  PROVE  \A m \in Module : \A n \in required'[m] :
           <<m, n>> \in AbroadNames(before'[1], before'[2])
<1> SUFFICES ASSUME NEW m \in Module, NEW n \in required'[m]
             PROVE  <<m, n>> \in AbroadNames(before[1], before[2])
  OBVIOUS
<1>1. CASE n \in required[m]
  BY <1>1 DEF RoundInv, Sourced
<1>2. CASE n \notin required[m]
  <2>1. PICK q \in pairs : q[1] = m /\ q[2] = n
    BY <1>2 DEF Merge
  <2>2. PICK i \in items[cur] : q \in FarNames(cur, i)
    OBVIOUS
  <2>3. <<m, n>> \in FarNames(cur, i)
    BY <2>1, <2>2, FarPair
  <2>4. cur \in before[2] /\ i \in before[1][cur]
    BY <2>2, ScansWhole
  <2>5. QED
    BY <2>3, <2>4 DEF AbroadNames
<1>3. QED
  BY <1>1, <1>2

LEMMA ScanSourced ==
  ASSUME Sourced, items' = items, cache' = cache, NEW m \in Module, NEW rs,
         NEW next \in {"main", "follow", "prune"}, Scan(m, rs, next),
         \A k \in Module : \A n \in required'[k] :
           <<k, n>> \in AbroadNames(before'[1], before'[2])
  PROVE  Sourced'
<1>1. \A q \in far' : Scanning' /\ \E i \in items'[cur'] : q \in FarNames(cur', i)
  BY DEF Scan, Sourced, Scanning
<1>2. QED
  BY <1>1 DEF Sourced

LEMMA EndScanSourced ==
  ASSUME RoundInv, Scanning, EndScan,
         \A k \in Module : k # cur => items'[k] = items[k],
         \A m \in Module : \A n \in required'[m] :
           <<m, n>> \in AbroadNames(before'[1], before'[2])
  PROVE  Sourced'
<1> DEFINE scan == [roots |-> roots, names |-> names, far |-> far]
<1> SUFFICES ASSUME NEW m \in Module, NEW e \in cache'[m], NEW q \in e.far
             PROVE  \E i \in items'[m] : q \in FarNames(m, i)
  BY DEF Sourced, EndScan
<1>1. CASE m # cur
  BY <1>1 DEF EndScan, RoundInv, Sourced, FollowInv, ScanInv, Shape
<1>2. CASE m = cur
  <2>1. items'[cur] = items[cur] /\ (e \in cache[cur] \/ e = scan)
    BY <1>2 DEF EndScan, RoundInv, FollowInv, ScanInv, Shape
  <2>2. e = scan => e.far = far
    OBVIOUS
  <2> HIDE DEF scan
  <2>3. QED
    BY <1>2, <2>1, <2>2 DEF RoundInv, Sourced
<1>3. QED
  BY <1>1, <1>2

LEMMA SourcedStep ==
  ASSUME RoundInv, [Next]_vars
  PROVE  Sourced'
<1> USE ProgramsAssumption
<1> USE DEF RoundInv
<1>0. ASSUME required' = required, before' = before
      PROVE  \A k \in Module : \A n \in required'[k] :
               <<k, n>> \in AbroadNames(before'[1], before'[2])
  BY <1>0 DEF Sourced
<1>1. CASE Round
  <2>1. \A m \in Module : required'[m] = {}
    BY <1>1 DEF Round
  <2>2. QED
    BY <1>1, <2>1, ScanSourced DEF Round
<1>2. CASE Expand
  BY <1>2 DEF Expand, Sourced, Scanning
<1>3. ASSUME NEW i \in items[cur], Visit(i) PROVE Sourced'
  <2>1. FarNames(cur, Part(i, names, roots)) \subseteq FarNames(cur, i)
    BY <1>3, ScansWhole, PartSaysLess DEF Visit, Items
  <2>2. \A q \in far' : \E j \in items[cur] : q \in FarNames(cur, j)
    BY <1>3, <2>1 DEF Visit, Sourced
  <2>3. QED
    BY <1>3, <2>2 DEF Visit, Sourced, Scanning
<1>4. CASE PruneMain
  <2>1. cur = Main /\ Scanning
    BY <1>4 DEF PruneMain, Scanning, FollowInv, ScanInv, Phase
  <2>2. items'[Main] = Retained(items[Main], names, roots)
    BY <1>4 DEF PruneMain, FollowInv, ScanInv, Shape
  <2> DEFINE pairs == UNION {FarNames(Main, i) : i \in items'[Main]}
  <2>3. \A q \in pairs : \E i \in items[cur] : q \in FarNames(cur, i)
    <3> SUFFICES ASSUME NEW j \in items'[Main], NEW q \in FarNames(Main, j)
                 PROVE  \E i \in items[Main] : q \in FarNames(Main, i)
      BY <2>1
    <3>1. Items(items[Main])
      BY <2>1, ScansWhole
    <3>2. PICK i \in items[Main] : FarNames(Main, j) \subseteq FarNames(Main, i)
      BY <2>2, <3>1, RetainedSaysLess
    <3>3. QED
      BY <3>2
  <2>4. Merge(pairs) /\ before' = before /\ EndScan
    BY <1>4 DEF PruneMain
  <2> HIDE DEF pairs
  <2>5. \A m \in Module : \A n \in required'[m] :
          <<m, n>> \in AbroadNames(before'[1], before'[2])
    BY <2>1, <2>3, <2>4, MergeSourced
  <2>6. \A k \in Module : k # cur => items'[k] = items[k]
    BY <1>4, <2>1 DEF PruneMain, FollowInv, ScanInv, Shape
  <2>7. QED
    BY <2>1, <2>4, <2>5, <2>6, EndScanSourced
<1>5. ASSUME NEW m \in Module, Follow(m) PROVE Sourced'
  BY <1>0, <1>5, ScanSourced DEF Follow
<1>6. CASE Followed
  <2>1. /\ Scanning /\ Merge(far) /\ EndScan /\ before' = before /\ items' = items
        /\ \A q \in far : \E i \in items[cur] : q \in FarNames(cur, i)
    BY <1>6 DEF Followed, Scanning, Sourced
  <2>2. \A m \in Module : \A n \in required'[m] :
          <<m, n>> \in AbroadNames(before'[1], before'[2])
    BY <2>1, MergeSourced
  <2>3. QED
    BY <2>1, <2>2, EndScanSourced
<1>7. CASE Drop
  <2>1. \A m \in Module : \A e \in cache'[m] : e \in cache[m] /\ items'[m] = items[m]
    BY <1>7 DEF Drop
  <2>2. far' = far /\ required' = required /\ before' = before /\ far = {}
    BY <1>7 DEF Drop, Sourced, Scanning
  <2>3. QED
    BY <2>1, <2>2 DEF Sourced
<1>8. ASSUME NEW m \in Module, Prune(m) PROVE Sourced'
  BY <1>0, <1>8, ScanSourced DEF Prune
<1>9. CASE Pruned
  <2>1. /\ Scanning /\ EndScan /\ before' = before /\ required' = required
        /\ \A m \in Module : m # cur => items'[m] = items[m]
    BY <1>9 DEF Pruned, Scanning, FollowInv, ScanInv, Shape
  <2>2. QED
    BY <1>0, <2>1, EndScanSourced
<1>10. CASE EndRound
  <2>1. \A m \in Module : \A e \in cache'[m] : e \in cache[m] /\ items'[m] = items[m]
    BY <1>10 DEF EndRound
  <2>2. far' = far /\ required' = required /\ before' = before /\ far = {}
    BY <1>10 DEF EndRound, Sourced, Scanning
  <2>3. QED
    BY <2>1, <2>2 DEF Sourced
<1>11. CASE Done \/ UNCHANGED vars
  BY <1>11 DEF Done, vars, Sourced, Scanning
<1>12. QED
  BY <1>1, <1>2, <1>3, <1>4, <1>5, <1>6, <1>7, <1>8, <1>9, <1>10, <1>11 DEF Next

LEMMA SameProgress ==
  ASSUME RoundInv,
         UNCHANGED <<items, modules, required, pc, cur, roots, cache, todo, before>>
  PROVE  Progress'
<1>1. Uncut' = Uncut /\ CutSoFar' = CutSoFar /\ \A m : Answering(m)' <=> Answering(m)
  BY DEF Uncut, CutSoFar, Answering
<1>2. QED
  BY <1>1 DEF RoundInv, Progress

\* More that is asked leaves a cut of main what it was.
LEMMA MainStaysCut ==
  ASSUME NEW its, NEW M, NEW R, NEW S, NEW left, Cut(its, Main, M, R, left),
         \A m \in M : R[m] \subseteq S[m]
  PROVE  Cut(its, Main, M, S, left)
BY DEF Cut, CutTo, Heard, Start

\* A finished scan of a whole module is what a cut needs.
LEMMA ScannedKeeps ==
  ASSUME RoundInv, Scanning, Scanned
  PROVE  /\ Keeps(before[1][cur], cur, names, roots)
         /\ \A i \in Retained(before[1][cur], names, roots) : FarNames(cur, i) \subseteq far
BY ScansWhole DEF Keeps, Scanned, Closed, RoundInv, FollowInv, ScanInv, Phase

LEMMA PruneMainProgress ==
  ASSUME RoundInv, PruneMain
  PROVE  Progress'
<1>1. /\ cur = Main /\ Scanning /\ modules = before[2] /\ roots = {<<"main">>}
      /\ items = before[1] /\ todo = {}
  BY DEF PruneMain, Scanning, RoundInv, FollowInv, ScanInv, Phase, Progress
<1>2. items'[Main] = Retained(before[1][Main], names, roots)
  BY <1>1 DEF PruneMain, RoundInv, FollowInv, ScanInv, Shape, Progress
<1> DEFINE left == items'[Main]
           pairs == UNION {FarNames(Main, i) : i \in left}
<1>3. Heard(Main, left, before[2], required')
  <2> SUFFICES ASSUME NEW i \in left, NEW q \in FarNames(Main, i), q[1] \in before[2]
               PROVE  q[2] \in required'[q[1]]
    BY DEF Heard
  <2>1. q \in pairs
    OBVIOUS
  <2>2. q[1] \in Module /\ q[1] \in modules
    BY <1>1 DEF RoundInv, FollowInv, ScanInv, Shape
  <2>3. required'[q[1]] = required[q[1]] \cup {p[2] : p \in {x \in pairs : x[1] = q[1]}}
    BY <2>2 DEF PruneMain, Merge
  <2> HIDE DEF pairs
  <2>4. QED
    BY <2>1, <2>3
<1>4. Cut(before[1][Main], Main, before[2], required', items'[Main])
  <2>1. Start(Main, required') = roots
    BY <1>1 DEF Start
  <2>2. Keeps(before[1][Main], Main, names, roots)
    BY <1>1, ScannedKeeps DEF PruneMain
  <2>3. CutTo(before[1][Main], Main, before[2], required', names)
    BY <1>2, <1>3, <2>1, <2>2 DEF CutTo
  <2>4. QED
    BY <1>2, <2>1, <2>3 DEF Cut
<1>5. /\ pc' = "follow?" /\ modules' = modules /\ before' = before
      /\ \A m \in modules \ {Main} : items'[m] = before[1][m]
  BY <1>1 DEF PruneMain, RoundInv, FollowInv, ScanInv, Shape
<1>6. CutSoFar' = {Main}
  BY <1>5 DEF CutSoFar
<1>7. QED
  BY <1>1, <1>4, <1>5, <1>6 DEF RoundInv, Progress

LEMMA FollowedProgress ==
  ASSUME RoundInv, Followed
  PROVE  Progress'
<1>1. /\ pc = "follow" /\ pc' = "follow?" /\ modules' = modules /\ before' = before
      /\ items' = items /\ modules = before[2]
  BY DEF Followed, RoundInv, Progress
<1>2. \A m \in before[2] : required[m] \subseteq required'[m]
  BY DEF Followed, Merge, RoundInv, Progress
<1>3. CutSoFar = {Main} /\ CutSoFar' = {Main}
  BY <1>1 DEF CutSoFar
<1>4. Cut(before[1][Main], Main, before[2], required', items[Main])
  BY <1>2, <1>3, MainStaysCut DEF RoundInv, Progress
<1>5. QED
  BY <1>1, <1>3, <1>4 DEF RoundInv, Progress

LEMMA FollowProgress ==
  ASSUME RoundInv, NEW m \in Module, Follow(m)
  PROVE  Progress'
<1>1. /\ pc = "follow?" /\ pc' = "follow" /\ modules' = modules /\ before' = before
      /\ items' = items /\ required' = required /\ cur' = m /\ m \in todo'
  BY DEF Follow, Scan
<1>2. CutSoFar = {Main} /\ CutSoFar' = {Main}
  BY <1>1 DEF CutSoFar
<1>3. QED
  BY <1>1, <1>2 DEF RoundInv, Progress

LEMMA DropProgress ==
  ASSUME RoundInv, Drop
  PROVE  Progress'
<1>1. /\ pc = "follow?" /\ pc' = "prune?" /\ before' = before /\ required' = required
      /\ modules' = {m \in modules : m = Main \/ required[m] # {}}
      /\ todo' = modules' \ {Main} /\ modules = before[2]
      /\ modules' \ {Main} \subseteq todo
      /\ modules' \subseteq Module
      /\ \A m \in modules' : items'[m] = items[m] /\ cache'[m] = cache[m]
  BY DEF Drop, RoundInv, Progress, FollowInv, ScanInv, Shape
<1>2. /\ Uncut' = modules' \ {Main} /\ CutSoFar = {Main} /\ CutSoFar' = {Main}
      /\ Main \in modules'
  BY <1>1 DEF Uncut, CutSoFar, RoundInv, Progress
<1>3. ASSUME NEW m \in Uncut'
      PROVE  items'[m] = before[1][m] /\ Answering(m)'
  <2>1. m \in todo /\ cache'[m] = cache[m]
    BY <1>1, <1>2
  <2>2. Answered(m)
    BY <1>1, <2>1 DEF RoundInv, FollowInv, NeedsFollowed
  <2>3. Answering(m)'
    BY <1>1, <2>1, <2>2 DEF Answered, Answering
  <2>4. QED
    BY <1>1, <1>2, <2>3 DEF RoundInv, Progress
<1>4. Cut(before[1][Main], Main, before[2], required', items'[Main])
  BY <1>1, <1>2 DEF RoundInv, Progress
<1>5. QED
  BY <1>1, <1>2, <1>3, <1>4 DEF RoundInv, Progress

LEMMA PruneProgress ==
  ASSUME RoundInv, NEW m \in Module, Prune(m)
  PROVE  Progress'
<1>1. /\ pc = "prune?" /\ pc' = "prune" /\ modules' = modules /\ before' = before
      /\ items' = items /\ required' = required /\ cache' = cache
      /\ cur' = m /\ roots' = required[m] /\ m \in todo /\ todo' = todo \ {m}
      /\ m \in modules \ {Main}
  BY DEF Prune, Scan, RoundInv, FollowInv, ScanInv, Shape
<1>2. Uncut' = todo /\ Uncut = todo
  BY <1>1 DEF Uncut
<1>3. CutSoFar' = CutSoFar
  BY <1>1, <1>2 DEF CutSoFar
<1>4. \A k : Answering(k)' <=> Answering(k)
  BY <1>1 DEF Answering
<1>5. QED
  BY <1>1, <1>2, <1>3, <1>4 DEF RoundInv, Progress

LEMMA PrunedProgress ==
  ASSUME RoundInv, Pruned
  PROVE  Progress'
<1>1. /\ pc = "prune" /\ pc' = "prune?" /\ modules' = modules /\ before' = before
      /\ required' = required /\ todo' = todo /\ Scanning
      /\ cur \in Module /\ cur \in modules /\ cur # Main /\ cur \notin todo
      /\ roots = required[cur]
      /\ \A m \in Module : m # cur => items'[m] = items[m] /\ cache'[m] = cache[m]
  BY DEF Pruned, EndScan, Scanning, RoundInv, Progress, FollowInv, ScanInv, Shape, Phase
<1>2. Uncut = todo \cup {cur} /\ Uncut' = todo
  BY <1>1 DEF Uncut
<1>3. CutSoFar = modules \ Uncut /\ CutSoFar' = CutSoFar \cup {cur}
  BY <1>1, <1>2 DEF CutSoFar
<1>4. \A q \in far : q[1] \in before[2] => q[2] \in required[q[1]]
  <2>1. PICK e \in cache[cur] :
          /\ e.roots = required[cur]
          /\ \A q \in e.far : q[1] \in before[2] => q[2] \in required[q[1]]
    BY <1>1, <1>2 DEF RoundInv, Progress, Answering
  <2>2. far = e.far
    BY <1>1, <2>1 DEF RoundInv, OneScan
  <2>3. QED
    BY <2>1, <2>2
<1>5. Cut(before[1][cur], cur, before[2], required', items'[cur])
  <2> DEFINE left == Retained(before[1][cur], names, roots)
  <2>1. Start(cur, required') = roots
    BY <1>1 DEF Start
  <2>2. /\ Keeps(before[1][cur], cur, names, roots)
        /\ \A i \in left : FarNames(cur, i) \subseteq far
    BY <1>1, ScannedKeeps DEF Pruned
  <2>3. Heard(cur, left, before[2], required')
    BY <1>1, <1>4, <2>2 DEF Heard
  <2>4. items'[cur] = FieldsPruned(left, required'[cur])
    BY <1>1, ScansWhole DEF Pruned, RoundInv, FollowInv, ScanInv, Shape
  <2>5. CutTo(before[1][cur], cur, before[2], required', names)
    BY <2>1, <2>2, <2>3 DEF CutTo
  <2>6. QED
    BY <1>1, <2>1, <2>4, <2>5 DEF Cut
<1>6. \A m \in CutSoFar : m \in Module /\ m # cur /\ items'[m] = items[m]
  BY <1>1, <1>2, <1>3 DEF RoundInv, FollowInv, ScanInv, Shape
<1>7. \A m \in todo : /\ items'[m] = before[1][m]
                      /\ Answering(m)'
  <2> SUFFICES ASSUME NEW m \in todo PROVE items'[m] = before[1][m] /\ Answering(m)'
    OBVIOUS
  <2>1. m \in Module /\ m # cur /\ items'[m] = items[m] /\ cache'[m] = cache[m]
    BY <1>1 DEF RoundInv, FollowInv, ScanInv, Shape
  <2>2. items[m] = before[1][m] /\ Answering(m)
    BY <1>1, <1>2 DEF RoundInv, Progress
  <2>3. QED
    BY <1>1, <2>1, <2>2 DEF Answering
<1>8. \A m \in CutSoFar' : Cut(before[1][m], m, before[2], required', items'[m])
  BY <1>1, <1>3, <1>5, <1>6 DEF RoundInv, Progress
<1>9. QED
  BY <1>1, <1>2, <1>7, <1>8 DEF RoundInv, Progress

LEMMA ProgressStep ==
  ASSUME RoundInv, [Next]_vars
  PROVE  Progress'
<1> USE ProgramsAssumption
<1>1. CASE Round
  <2>1. /\ pc' = "main" /\ before' = <<items, modules>> /\ items' = items
        /\ modules' = modules /\ roots' = {<<"main">>}
    BY <1>1 DEF Round, Scan
  <2>2. CutSoFar' = {}
    BY <2>1 DEF CutSoFar
  <2>3. QED
    BY <2>1, <2>2 DEF RoundInv, Progress, FollowInv, ScanInv, Shape
<1>2. CASE EndRound
  <2>1. /\ pc' \in {"round", "done"} /\ before' = before
        /\ modules' = {m \in modules : m = Main \/ items'[m] # {}}
    BY <1>2 DEF EndRound
  <2>2. CutSoFar' = {}
    BY <2>1 DEF CutSoFar
  <2>3. QED
    BY <2>1, <2>2 DEF RoundInv, Progress
<1>3. CASE Expand \/ (\E i \in items[cur] : Visit(i)) \/ Done \/ UNCHANGED vars
  BY <1>3, SameProgress DEF Expand, Visit, Done, vars
<1>4. CASE PruneMain \/ Followed \/ Drop \/ Pruned
  BY <1>4, PruneMainProgress, FollowedProgress, DropProgress, PrunedProgress
<1>5. CASE \E m \in Module : Follow(m) \/ Prune(m)
  BY <1>5, FollowProgress, PruneProgress
<1>6. QED
  BY <1>1, <1>2, <1>3, <1>4, <1>5 DEF Next

LEMMA CompiledStep ==
  ASSUME RoundInv, [Next]_vars
  PROVE  Compiled'
<1>1. CASE Round
  BY <1>1 DEF Round, Scan, RoundInv, Compiled
<1>2. CASE EndRound
  <2>1. /\ pc = "prune?" /\ todo = {} /\ before' = before
        /\ items' = [m \in Module |-> FieldsPruned(items[m], required[m])]
        /\ modules' = {m \in modules : m = Main \/ items'[m] # {}}
    BY <1>2 DEF EndRound
  <2>2. CutSoFar = modules
    BY <2>1 DEF CutSoFar, Uncut
  <2>3. modules = {m \in before[2] : m = Main \/ required[m] # {}} /\ modules \subseteq Module
    BY <2>1 DEF RoundInv, Progress, FollowInv, ScanInv, Shape
  <2>4. \A m \in modules : Cut(before[1][m], m, before[2], required, items[m])
    BY <2>2 DEF RoundInv, Progress
  <2>5. \A m \in modules : items'[m] = FieldsPruned(items[m], required[m])
    BY <2>1, <2>3
  <2>6. \A m \in modules : \A n \in required[m] : <<m, n>> \in AbroadNames(before[1], before[2])
    BY <2>3 DEF RoundInv, Sourced
  <2>7. Compiles(before[1], before[2])
    BY DEF RoundInv, Compiled
  <2>8. RoundEnds(before[1], before[2], required, modules, items, items', modules')
    BY <2>1, <2>3, <2>4, <2>5, <2>6 DEF RoundEnds
  <2>9. Compiles(items', modules')
    BY <2>7, <2>8, RoundCompiles
  <2>10. QED
    BY <2>1, <2>7, <2>9 DEF Compiled
<1>3. CASE /\ UNCHANGED before
           /\ pc' \in {"round", "done"} => UNCHANGED <<items, modules, pc>>
  BY <1>3 DEF RoundInv, Compiled
<1>4. CASE Expand \/ (\E i \in items[cur] : Visit(i)) \/ Done \/ UNCHANGED vars
  BY <1>3, <1>4 DEF Expand, Visit, Done, vars, Scanning
<1>5. CASE PruneMain \/ Followed \/ Drop \/ Pruned
  BY <1>3, <1>5 DEF PruneMain, Followed, Drop, Pruned
<1>6. CASE \E m \in Module : Follow(m) \/ Prune(m)
  BY <1>3, <1>6 DEF Follow, Prune, Scan
<1>7. QED
  BY <1>1, <1>2, <1>4, <1>5, <1>6 DEF Next

\* A program that compiles compiles again after every round of the pass.
LEMMA RoundInvariant ==
  ASSUME \A p \in Programs : Compiles(p, Module)
  PROVE  Spec => []RoundInv
<1>1. Init => RoundInv
  <2> SUFFICES ASSUME Init PROVE RoundInv
    OBVIOUS
  <2>1. FollowInv
    BY ScanInvInit DEF Init, FollowInv, NeedsFollowed
  <2>2. OneScan /\ Sourced
    BY ProgramsAssumption DEF Init, OneScan, Sourced, Scanning
  <2>3. CutSoFar = {}
    BY DEF Init, CutSoFar
  <2>4. Progress
    BY <2>3, ProgramsAssumption DEF Init, Progress
  <2>5. Compiled
    BY DEF Init, Compiled
  <2>6. QED
    BY <2>1, <2>2, <2>4, <2>5 DEF RoundInv
<1>2. RoundInv /\ [Next]_vars => RoundInv'
  <2> SUFFICES ASSUME RoundInv, [Next]_vars PROVE RoundInv'
    OBVIOUS
  <2>1. FollowInv'
    BY ScanInvStep, FollowInvStep DEF RoundInv, FollowInv
  <2>2. OneScan'
    BY OneScanStep DEF RoundInv, FollowInv
  <2>3. QED
    BY <2>1, <2>2, SourcedStep, ProgressStep, CompiledStep DEF RoundInv
<1>3. QED
  BY <1>1, <1>2, PTL DEF Spec

\* If the program compiles before the pass, nothing that the pass keeps refers
\* to what it cut away, but by names that the same item binds, whatever the
\* program and however its modules need each other.
THEOREM NothingDanglesAlways ==
  ASSUME \A p \in Programs : Compiles(p, Module)
  PROVE  Spec => []NothingDangles
<1>1. RoundInv => NothingDangles
  BY DEF RoundInv, Compiled, Compiles, Fits, UseFits, NothingDangles, Uses
<1>2. QED
  BY <1>1, RoundInvariant, PTL

\* If the program compiles before the pass, every impl it keeps still has its
\* type and its trait with the members the trait still declares, and every
\* trait its supertraits.
THEOREM ImplsFitTraitsAlways ==
  ASSUME \A p \in Programs : Compiles(p, Module)
  PROVE  Spec => []ImplsFitTraits
<1>1. RoundInv => ImplsFitTraits
  BY DEF RoundInv, Compiled, Compiles, Fits, ImplFits, ImplsFitTraits
<1>2. QED
  BY <1>1, RoundInvariant, PTL
=============================================================================
