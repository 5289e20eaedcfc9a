---------------------------- MODULE MCOutputCache ----------------------------
(* Instances of OutputCache for TLC: main.rs and one module beside it.     *)
EXTENDS OutputCache, TLC

CONSTANTS r1, r2, r3, a, b

TwoRuns == {r1, r2}
ThreeRuns == {r1, r2, r3}
MainAndModule == {1, 2}
TwoContents == {a, b}

\* main.rs alone, or with a module.
AllOutputs == [{1} -> TwoContents] \cup [{1, 2} -> TwoContents]
OneOutput == {[f \in {1, 2} |-> a]}

TwoReleases == {"1.0", "1.1"}
OneRelease == {"1.0"}

Symmetry == Permutations(Runs) \cup Permutations(TwoContents)
=============================================================================
