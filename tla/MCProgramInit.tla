---------------------------- MODULE MCProgramInit ----------------------------
(* Programs for ProgramInit: import graphs over three local packages and   *)
(* two packages of the standard library.                                   *)
EXTENDS ProgramInit, TLC

CONSTANTS main, p1, p2, p3, s1, s2

ThreeLocals == {p1, p2, p3}
TwoStdlib == {s1, s2}
KeyOrder == (s1 :> 1) @@ (s2 :> 2)

\* Import lists without repetition, of any order.
Lists(S, n) == UNION {{l \in [1..k -> S] : \A i, j \in 1..k : l[i] = l[j] => i = j} : k \in 0..n}
GraphsOver(locals, others) == {g \in [Locals \cup {main} -> Lists(locals \cup others, 2)] :
  /\ \A p \in Locals \ locals : g[p] = <<>>
  /\ \A p \in locals : \A i \in DOMAIN g[p] : g[p][i] # p}

\* Every graph over three local packages, longer cycles included, and over two
\* local packages and the standard library; up to two imports each.
TwoOrThree == GraphsOver({p1, p2, p3}, {}) \cup GraphsOver({p1, p2}, {s1, s2})
\* Init functions that run to their end, and in package q one that returns
\* while another is still to run; s2 has none.
InitsOf(q) ==
  [p \in Packages |-> IF p = s2 THEN <<>>
                      ELSE IF p = q THEN <<"end", "return", "end">> ELSE <<"end", "end">>]

NoUses == [p \in Packages |-> {}]
ImportedUses == [p \in Packages |-> IF p = p1 THEN {p1, p2} ELSE {}]

\* A return in each kind of package, a package that uses another's variable,
\* and s1 either used or imported only.
MCPrograms ==
  {[inits |-> InitsOf(s2), uses |-> NoUses, referred |-> TwoStdlib],
   [inits |-> InitsOf(p1), uses |-> ImportedUses, referred |-> TwoStdlib],
   [inits |-> InitsOf(s1), uses |-> NoUses, referred |-> {s1}],
   [inits |-> InitsOf(main), uses |-> ImportedUses, referred |-> {s2}]}
=============================================================================
