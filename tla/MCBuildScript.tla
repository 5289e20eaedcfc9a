--------------------------- MODULE MCBuildScript ---------------------------
(***************************************************************************)
(* Two checkouts, two versions, an SDK of two files.                       *)
(***************************************************************************)
EXTENDS BuildScript

MCFiles == <<"VERSION", "src">>

CONSTANTS b1, b2

\* A kill comes with a failure of the network, with one edit, or with two by
\* one build (there and back).
MCBudgets ==
  { [kills |-> 1, network |-> 1, edits |-> [b \in Build |-> 0]],
    [kills |-> 1, network |-> 0, edits |-> [b \in Build |-> IF b = b1 THEN 2 ELSE 0]] }

\* Whoever runs the script again after a failure gets it to succeed, unless
\* the archive of the wanted version was cut short by a kill: that is never
\* downloaded again.
RetriesSucceed ==
  \A b \in Build :
    \/ <>[](~stale[b])
    \/ <>[](tarball[wanted[b]] # Absent /\ ~Whole(tarball[wanted[b]]))
=============================================================================
