------------------------- MODULE OutputCache_proofs -------------------------
(***************************************************************************)
(* What the output directory keeps to while the runs on one path come one  *)
(* after the other: for any number of runs, files, contents and releases,  *)
(* and any number of kills.                                                *)
(***************************************************************************)
EXTENDS OutputCache, WellFoundedInduction, FiniteSetTheorems, TLAPS

Places == {"idle", "load", "write", "writing", "clean", "remove", "save", "saving",
           "rustc", "exec"} \cup Ends

\* What a run may save; what may be found where the manifest is.
Saved == [version : Versions, modules : Outputs]
Manifests == Saved \cup {NoManifest}

Shapes ==
  /\ files \in [Files -> {"absent", "empty", "garbled"} \cup Contents]
  /\ manifest \in Manifests
  /\ pc \in [Runs -> Places]
  /\ out \in [Runs -> Outputs \cup {NoProgram}]
  /\ version \in [Runs -> Versions \cup {"none"}]
  /\ prev \in [Runs -> Manifests]
  /\ todo \in [Runs -> SUBSET Files]
  /\ DOMAIN ran = Runs
  /\ \A r \in Running : Manifest(r) \in Saved

\* One run is at work at a time.
Alone == Running = {} \/ \E r \in Runs : Running = {r}

\* Where a run stands in its loops, and what it knows of the disk.
Progress == \A r \in Runs :
  /\ pc[r] \in {"write", "writing"} => prev[r] = manifest /\ todo[r] \subseteq DOMAIN out[r]
  /\ pc[r] = "writing" => todo[r] # {} /\ files[First(r)] = "empty"
  /\ pc[r] = "remove" => todo[r] # {} /\ files[First(r)] # "absent"
  /\ pc[r] = "save" => todo[r] = {}
  /\ pc[r] \in {"clean", "remove"} => todo[r] \cap DOMAIN out[r] = {}
  /\ pc[r] = "saving" => manifest = NoManifest
  /\ pc[r] \in {"rustc", "exec"} => manifest = Manifest(r)

\* The files that a run has brought to its own contents, and those of which
\* it still has what it found.
Settled(r) ==
  {f \in DOMAIN out[r] : pc[r] # "load" /\ (pc[r] \in {"write", "writing"} => f \notin todo[r])}

Untouched(r) ==
  {f \in Files : /\ pc[r] \in {"load", "write", "writing"}
                 /\ pc[r] # "load" /\ f \in DOMAIN out[r] => f \in todo[r]
                 /\ pc[r] = "writing" => f # First(r)}

\* Of the files in F, a run that would save m skips only those that are right.
SkipsRight(m, F) ==
  \A f \in F \cap DOMAIN m.modules :
    ~NeedsRecompile(manifest, m.version, f, m.modules[f]) => files[f] = m.modules[f]

\* The disk is as the one interrupted run, if any, and every run after it
\* have left it: the interrupted run, repeated, would skip right files only.
Repairable ==
  \A m \in Saved : unfinished \subseteq {m} =>
    /\ Running = {} => SkipsRight(m, Files)
    /\ \A r \in Running :
         /\ SkipsRight(m, Untouched(r))
         /\ \A f \in Settled(r) \cap DOMAIN m.modules :
              m.version = version[r] /\ m.modules[f] = out[r][f] => files[f] = out[r][f]
         /\ pc[r] = "writing" /\ m = Manifest(r) =>
              NeedsRecompile(manifest, version[r], First(r), out[r][First(r)])

Present == {f \in Files : files[f] # "absent"}

\* The files that may be there while r is where it is.
Allowed(r) ==
  {f \in Files :
     \/ pc[r] = "load" /\ f \in DOMAIN manifest.modules
     \/ pc[r] # "load" /\ f \in DOMAIN out[r]
     \/ pc[r] \in {"write", "writing"} /\ f \in DOMAIN prev[r].modules
     \/ pc[r] \in {"clean", "remove"} /\ f \in todo[r]}

\* Without interruptions nothing is unfinished, and nothing else is there.
Tidy ==
  Uninterrupted =>
    /\ unfinished = {}
    /\ Running = {} => Present \subseteq DOMAIN manifest.modules
    /\ \A r \in Running : Present \subseteq Allowed(r)
    /\ \A r \in Runs : pc[r] = "exec" => bin = out[r]
    /\ \A r \in Runs : ran[r] # NoProgram => pc[r] = "done" /\ ran[r] = out[r]

IInv == Shapes /\ Alone /\ Progress /\ Repairable /\ Tidy

-----------------------------------------------------------------------------
LEMMA LeastOfNat ==
  ASSUME NEW S, S \subseteq Nat, S # {}
  PROVE  \E f \in S : \A g \in S : f <= g
<1>1. PICK f \in S : \A g \in S : ~(<<g, f>> \in OpToRel(<, Nat))
  BY NatLessThanWellFounded, WFMin
<1>2. \A g \in S : ~(g < f)
  BY <1>1 DEF OpToRel
<1> QED
  BY <1>2

LEMMA FirstIsThere ==
  ASSUME Shapes, NEW r \in Runs, todo[r] # {}
  PROVE  First(r) \in todo[r] /\ First(r) \in Files
<1>1. todo[r] \subseteq Files /\ todo[r] \subseteq Nat
  BY CacheAssumption DEF Shapes
<1> QED
  BY <1>1, LeastOfNat DEF First

\* What a run of Saved manifests is made of.
LEMMA SavedFacts ==
  /\ NoProgram = <<>> /\ DOMAIN NoProgram = {} /\ DOMAIN NoManifest.modules = {}
  /\ \A m \in Saved : /\ m.modules \in Outputs /\ m.version \in Versions
                      /\ DOMAIN m.modules \subseteq Files
                      /\ \A f \in DOMAIN m.modules : m.modules[f] \in Contents
                      /\ m = [version |-> m.version, modules |-> m.modules]
  /\ \A o \in Outputs : DOMAIN o \subseteq Files /\ o = [f \in DOMAIN o |-> o[f]]
                        /\ \A f \in DOMAIN o : o[f] \in Contents
  BY CacheAssumption DEF Saved, NoProgram, NoManifest

LEMMA InitIInv == Init => IInv
<1> SUFFICES ASSUME Init PROVE IInv
  OBVIOUS
<1> USE SavedFacts DEF Init
<1>1. Running = {}
  BY DEF Running
<1>2. Shapes
  BY <1>1 DEF Shapes, Manifests, Places
<1>3. Alone
  BY <1>1 DEF Alone
<1>4. Progress
  BY DEF Progress
<1>5. Repairable
  BY <1>1 DEF Repairable, SkipsRight, NeedsRecompile
<1>6. Tidy
  BY <1>1 DEF Tidy, Present
<1> QED
  BY <1>2, <1>3, <1>4, <1>5, <1>6 DEF IInv

\* A run that is at work is the only one, and stays so until it ends.
LEMMA TheRun ==
  ASSUME Shapes, Alone, NEW r \in Running, NEW p \in Places \ {"idle"},
         pc' = [pc EXCEPT ![r] = p]
  PROVE  /\ r \in Runs /\ Running = {r}
         /\ Running' = IF p \in Ends THEN {} ELSE {r}
         /\ pc'[r] = p /\ pc' \in [Runs -> Places]
         /\ \A s \in Runs \ {r} : pc'[s] = pc[s] /\ pc[s] \in {"idle"} \cup Ends
         /\ Uninterrupted' <=> Uninterrupted /\ p # "stopped"
<1>1. r \in Runs /\ Running = {r}
  BY DEF Alone, Running
<1>2. pc'[r] = p /\ pc' \in [Runs -> Places] /\ \A s \in Runs \ {r} : pc'[s] = pc[s]
  BY <1>1 DEF Shapes
<1>3. \A s \in Runs \ {r} : pc[s] \in {"idle"} \cup Ends
  BY <1>1 DEF Running
<1>4. Running' = IF p \in Ends THEN {} ELSE {r}
  BY <1>1, <1>2, <1>3 DEF Running
<1>5. pc[r] # "stopped"
  BY DEF Running, Ends
<1> QED
  BY <1>1, <1>2, <1>3, <1>4, <1>5 DEF Uninterrupted

LEMMA LoadStep == ASSUME IInv, NEW r \in Runs, Load(r) PROVE IInv'
<1> USE SavedFacts
<1>1. Shapes /\ Alone /\ Progress /\ Repairable /\ Tidy
  BY DEF IInv
<1>2. r \in Running /\ "write" \in Places \ ({"idle"} \cup Ends) /\ pc' = [pc EXCEPT ![r] = "write"]
  BY DEF Load, Goto, Running, Ends, Places
<1>3. /\ Running = {r} /\ Running' = {r} /\ pc'[r] = "write" /\ pc[r] = "load"
      /\ pc' \in [Runs -> Places]
      /\ \A s \in Runs \ {r} : pc'[s] = pc[s] /\ pc[s] \in {"idle"} \cup Ends
      /\ Uninterrupted' <=> Uninterrupted
  BY <1>1, <1>2, TheRun DEF Load, Ends
<1>4. /\ UNCHANGED <<files, manifest, bin, out, version, ran, unfinished>>
      /\ prev' = [prev EXCEPT ![r] = manifest] /\ todo' = [todo EXCEPT ![r] = DOMAIN out[r]]
      /\ prev' \in [Runs -> Manifests] /\ todo' \in [Runs -> SUBSET Files]
      /\ prev'[r] = manifest /\ todo'[r] = DOMAIN out[r]
  BY <1>1 DEF Load, disk, Shapes
<1>5. Shapes'
  BY <1>1, <1>3, <1>4 DEF Shapes, Manifest
<1>6. Alone'
  BY <1>3 DEF Alone
<1>7. Progress'
  BY <1>1, <1>3, <1>4 DEF Progress, Ends
<1>8. Repairable'
  <2>1. Untouched(r) = Files /\ Untouched(r)' \subseteq Files /\ Settled(r)' = {}
    BY <1>3, <1>4 DEF Untouched, Settled
  <2> QED
    BY <1>1, <1>3, <1>4, <2>1 DEF Repairable, SkipsRight, NeedsRecompile
<1>9. Tidy'
  BY <1>1, <1>3, <1>4 DEF Tidy, Present, Allowed, Ends
<1> QED
  BY <1>5, <1>6, <1>7, <1>8, <1>9 DEF IInv

LEMMA SkipStep == ASSUME IInv, NEW r \in Runs, SkipUnchanged(r) PROVE IInv'
<1> USE SavedFacts
<1>1. Shapes /\ Alone /\ Progress /\ Repairable /\ Tidy
  BY DEF IInv
<1>2. /\ r \in Running /\ Running = {r} /\ Running' = {r} /\ pc' = pc /\ pc[r] = "write"
      /\ \A s \in Runs \ {r} : pc[s] \in {"idle"} \cup Ends
      /\ Uninterrupted' <=> Uninterrupted
  BY <1>1 DEF SkipUnchanged, Running, Ends, Uninterrupted, Alone
<1> DEFINE f == First(r)
<1>3. f \in todo[r] /\ f \in Files /\ todo[r] \in SUBSET Files /\ f \in DOMAIN out[r]
      /\ Manifest(r) \in Saved
  BY <1>1, <1>2, FirstIsThere DEF SkipUnchanged, Progress, Shapes
<1>4. /\ UNCHANGED <<files, manifest, bin, pc, out, version, prev, ran, unfinished>>
      /\ todo' = [todo EXCEPT ![r] = todo[r] \ {f}]
      /\ todo' \in [Runs -> SUBSET Files]
      /\ todo'[r] = todo[r] \ {f}
      /\ ~NeedsRecompile(prev[r], version[r], f, out[r][f]) /\ files[f] # "absent"
  BY <1>1, <1>3 DEF SkipUnchanged, disk, Shapes, Looked
<1> HIDE DEF f
<1>5. Shapes'
  BY <1>1, <1>2, <1>4 DEF Shapes, Manifest
<1>6. Alone'
  BY <1>2 DEF Alone
<1>7. Progress'
  BY <1>1, <1>2, <1>4 DEF Progress, Ends
<1>8. Repairable'
  <2> SUFFICES ASSUME NEW m \in Saved, unfinished \subseteq {m}
               PROVE  /\ SkipsRight(m, Untouched(r))'
                      /\ \A g \in Settled(r)' \cap DOMAIN m.modules :
                           m.version = version[r] /\ m.modules[g] = out[r][g] => files[g] = out[r][g]
    BY <1>2, <1>4 DEF Repairable
  <2>1. Untouched(r)' = Untouched(r) \ {f} /\ Settled(r)' = Settled(r) \cup {f} /\ f \in Untouched(r)
    BY <1>2, <1>3, <1>4 DEF Untouched, Settled
  <2>2. prev[r] = manifest
    BY <1>1, <1>2 DEF Progress
  <2>3. SkipsRight(m, Untouched(r))
    BY <1>1, <1>2 DEF Repairable
  <2>4. SkipsRight(m, Untouched(r))'
    BY <1>4, <2>1, <2>3 DEF SkipsRight, NeedsRecompile
  <2>5. f \in DOMAIN m.modules /\ m.version = version[r] /\ m.modules[f] = out[r][f] => files[f] = out[r][f]
    BY <1>4, <2>1, <2>2, <2>3 DEF SkipsRight, NeedsRecompile
  <2> QED
    BY <1>1, <1>2, <2>1, <2>4, <2>5 DEF Repairable
<1>9. Tidy'
  BY <1>1, <1>2, <1>4 DEF Tidy, Present, Allowed, Ends
<1> QED
  BY <1>5, <1>6, <1>7, <1>8, <1>9 DEF IInv

LEMMA TruncateStep == ASSUME IInv, NEW r \in Runs, Truncate(r) PROVE IInv'
<1> USE SavedFacts
<1>1. Shapes /\ Alone /\ Progress /\ Repairable /\ Tidy
  BY DEF IInv
<1>2. r \in Running /\ "writing" \in Places \ ({"idle"} \cup Ends) /\ pc' = [pc EXCEPT ![r] = "writing"]
  BY DEF Truncate, Goto, Running, Ends, Places
<1>3. /\ Running = {r} /\ Running' = {r} /\ pc'[r] = "writing" /\ pc[r] = "write"
      /\ pc' \in [Runs -> Places]
      /\ \A s \in Runs \ {r} : pc'[s] = pc[s] /\ pc[s] \in {"idle"} \cup Ends
      /\ Uninterrupted' <=> Uninterrupted
  BY <1>1, <1>2, TheRun DEF Truncate, Ends
<1> DEFINE f == First(r)
<1>4. f \in todo[r] /\ f \in Files /\ f \in DOMAIN out[r] /\ Manifest(r) \in Saved /\ prev[r] = manifest
      /\ todo[r] # {}
  BY <1>1, <1>3, FirstIsThere DEF Truncate, Progress, Shapes
<1>5. /\ UNCHANGED <<manifest, bin, out, version, prev, todo, ran, unfinished>>
      /\ files' = [files EXCEPT ![f] = "empty"]
      /\ files' \in [Files -> {"absent", "empty", "garbled"} \cup Contents]
      /\ files'[f] = "empty" /\ \A g \in Files \ {f} : files'[g] = files[g]
      /\ NeedsRecompile(prev[r], version[r], f, out[r][f]) \/ files[f] = "absent"
      /\ First(r)' = f
  BY <1>1, <1>4 DEF Truncate, Shapes, First
<1> HIDE DEF f
<1>6. Shapes'
  BY <1>1, <1>3, <1>5 DEF Shapes, Manifest
<1>7. Alone'
  BY <1>3 DEF Alone
<1>8. Progress'
  BY <1>1, <1>3, <1>4, <1>5 DEF Progress, Ends
<1>9. Repairable'
  <2> SUFFICES ASSUME NEW m \in Saved, unfinished \subseteq {m}
               PROVE  /\ SkipsRight(m, Untouched(r))'
                      /\ \A g \in Settled(r)' \cap DOMAIN m.modules :
                           m.version = version[r] /\ m.modules[g] = out[r][g] => files'[g] = out[r][g]
                      /\ m = Manifest(r) => NeedsRecompile(manifest, version[r], f, out[r][f])
    BY <1>3, <1>5 DEF Repairable, Manifest
  <2>1. Untouched(r)' = Untouched(r) \ {f} /\ Settled(r)' = Settled(r) /\ f \in Untouched(r)
        /\ f \notin Settled(r) /\ Settled(r) \subseteq Files /\ Untouched(r) \subseteq Files
    BY <1>1, <1>3, <1>4, <1>5 DEF Untouched, Settled, Shapes
  <2>2. SkipsRight(m, Untouched(r))
    BY <1>1, <1>3 DEF Repairable
  <2>3. SkipsRight(m, Untouched(r))'
    BY <1>5, <2>1, <2>2 DEF SkipsRight, NeedsRecompile
  <2>4. ASSUME m = Manifest(r) PROVE NeedsRecompile(manifest, version[r], f, out[r][f])
    <3>1. m.version = version[r] /\ m.modules = out[r] /\ out[r][f] \in Contents /\ "absent" \notin Contents
      BY <1>4, <2>4, CacheAssumption DEF Manifest
    <3> QED
      BY <1>4, <1>5, <2>1, <2>2, <3>1 DEF SkipsRight
  <2> QED
    BY <1>1, <1>3, <1>5, <2>1, <2>3, <2>4 DEF Repairable
<1>10. Tidy'
  BY <1>1, <1>3, <1>4, <1>5 DEF Tidy, Present, Allowed, Ends
<1> QED
  BY <1>6, <1>7, <1>8, <1>9, <1>10 DEF IInv

LEMMA WriteStep == ASSUME IInv, NEW r \in Runs, Write(r) PROVE IInv'
<1> USE SavedFacts
<1>1. Shapes /\ Alone /\ Progress /\ Repairable /\ Tidy
  BY DEF IInv
<1>2. r \in Running /\ "write" \in Places \ {"idle"} /\ pc' = [pc EXCEPT ![r] = "write"]
  BY DEF Write, Goto, Running, Ends, Places
<1>3. /\ Running = {r} /\ Running' = {r} /\ pc'[r] = "write" /\ pc[r] = "writing"
      /\ pc' \in [Runs -> Places]
      /\ \A s \in Runs \ {r} : pc'[s] = pc[s] /\ pc[s] \in {"idle"} \cup Ends
      /\ Uninterrupted' <=> Uninterrupted
  BY <1>1, <1>2, TheRun DEF Write, Ends
<1> DEFINE f == First(r)
<1>4. /\ f \in todo[r] /\ f \in Files /\ f \in DOMAIN out[r] /\ out[r][f] \in Contents
      /\ Manifest(r) \in Saved /\ prev[r] = manifest /\ files[f] = "empty"
      /\ todo[r] \subseteq DOMAIN out[r] /\ DOMAIN out[r] \subseteq Files
  BY <1>1, <1>3, FirstIsThere DEF Progress, Shapes, Manifest
<1>10. /\ UNCHANGED <<manifest, bin, out, version, prev, ran, unfinished>>
      /\ files' = [files EXCEPT ![f] = out[r][f]]
      /\ todo' = [todo EXCEPT ![r] = todo[r] \ {f}]
      /\ files' \in [Files -> {"absent", "empty", "garbled"} \cup Contents]
      /\ todo' \in [Runs -> SUBSET Files]
      /\ files'[f] = out[r][f] /\ \A g \in Files \ {f} : files'[g] = files[g]
      /\ todo'[r] = todo[r] \ {f}
  BY <1>1, <1>4 DEF Write, Written, Shapes, Looked
<1>11. Untouched(r)' = Untouched(r) /\ Settled(r)' = Settled(r) \cup {f}
       /\ f \notin Untouched(r) /\ f \notin Settled(r)
  BY <1>3, <1>4, <1>10 DEF Untouched, Settled
<1> HIDE DEF f
<1>5. Shapes'
  BY <1>1, <1>3, <1>10 DEF Shapes, Manifest
<1>6. Alone'
  BY <1>3 DEF Alone
<1>7. Progress'
  BY <1>1, <1>3, <1>4, <1>10 DEF Progress, Ends
<1>8. Repairable'
  <2> SUFFICES ASSUME NEW m \in Saved, unfinished \subseteq {m}
               PROVE  /\ SkipsRight(m, Untouched(r))'
                      /\ \A g \in Settled(r)' \cap DOMAIN m.modules :
                           m.version = version[r] /\ m.modules[g] = out[r][g] => files'[g] = out[r][g]
    BY <1>3, <1>10 DEF Repairable
  <2>1. /\ SkipsRight(m, Untouched(r))
        /\ \A g \in Settled(r) \cap DOMAIN m.modules :
              m.version = version[r] /\ m.modules[g] = out[r][g] => files[g] = out[r][g]
    BY <1>1, <1>3 DEF Repairable
  <2>2. SkipsRight(m, Untouched(r))'
    BY <1>10, <1>11, <2>1 DEF SkipsRight, NeedsRecompile, Untouched
  <2> QED
    BY <1>4, <1>10, <1>11, <2>1, <2>2 DEF Settled
<1>9. Tidy'
  BY <1>1, <1>3, <1>4, <1>10 DEF Tidy, Present, Allowed, Ends
<1> QED
  BY <1>5, <1>6, <1>7, <1>8, <1>9 DEF IInv

LEMMA EndWritingStep == ASSUME IInv, NEW r \in Runs, EndWriting(r) PROVE IInv'
<1> USE SavedFacts
<1>1. Shapes /\ Alone /\ Progress /\ Repairable /\ Tidy
  BY DEF IInv
<1>2. r \in Running /\ "clean" \in Places \ {"idle"} /\ pc' = [pc EXCEPT ![r] = "clean"]
  BY DEF EndWriting, Goto, Running, Ends, Places
<1>3. /\ Running = {r} /\ Running' = {r} /\ pc'[r] = "clean" /\ pc[r] = "write"
      /\ pc' \in [Runs -> Places]
      /\ \A s \in Runs \ {r} : pc'[s] = pc[s] /\ pc[s] \in {"idle"} \cup Ends
      /\ Uninterrupted' <=> Uninterrupted
  BY <1>1, <1>2, TheRun DEF EndWriting, Ends
<1>4. /\ UNCHANGED <<files, manifest, bin, out, version, prev, ran, unfinished>>
      /\ todo' = [todo EXCEPT ![r] = DOMAIN prev[r].modules \ DOMAIN out[r]]
      /\ todo[r] = {} /\ todo'[r] = DOMAIN prev[r].modules \ DOMAIN out[r]
      /\ todo' \in [Runs -> SUBSET Files]
  BY <1>1 DEF EndWriting, disk, Shapes, Missing, Manifests
<1>5. Shapes'
  BY <1>1, <1>3, <1>4 DEF Shapes, Manifest
<1>6. Alone'
  BY <1>3 DEF Alone
<1>7. Progress'
  BY <1>1, <1>3, <1>4 DEF Progress, Ends
<1>8. Repairable'
  <2>1. Untouched(r)' = {} /\ Settled(r)' = Settled(r)
    BY <1>3, <1>4 DEF Untouched, Settled
  <2> QED
    BY <1>1, <1>3, <1>4, <2>1 DEF Repairable, SkipsRight
<1>9. Tidy'
  BY <1>1, <1>3, <1>4 DEF Tidy, Present, Allowed, Ends
<1> QED
  BY <1>5, <1>6, <1>7, <1>8, <1>9 DEF IInv

LEMMA LookStep == ASSUME IInv, NEW r \in Runs, Look(r) PROVE IInv'
<1> USE SavedFacts
<1>1. Shapes /\ Alone /\ Progress /\ Repairable /\ Tidy
  BY DEF IInv
<1>2. r \in Running /\ Running = {r} /\ pc[r] = "clean"
      /\ \A s \in Runs \ {r} : pc[s] \in {"idle"} \cup Ends
  BY <1>1 DEF Look, Running, Ends, Alone
<1> DEFINE f == First(r)
<1>3. f \in todo[r] /\ f \in Files /\ todo[r] \subseteq Files
  BY <1>1, FirstIsThere DEF Look, Shapes
<1>4. /\ UNCHANGED <<files, manifest, bin, out, version, prev, ran, unfinished>>
      /\ \/ pc' = [pc EXCEPT ![r] = "remove"] /\ files[f] # "absent" /\ todo' = todo
         \/ pc' = pc /\ files[f] = "absent" /\ todo' = [todo EXCEPT ![r] = todo[r] \ {f}]
  BY DEF Look, disk, Goto, Looked
<1>10. /\ Running' = {r} /\ pc' \in [Runs -> Places] /\ pc'[r] \in {"clean", "remove"}
       /\ \A s \in Runs \ {r} : pc'[s] = pc[s]
       /\ Uninterrupted' <=> Uninterrupted
  BY <1>1, <1>2, <1>4 DEF Shapes, Running, Ends, Places, Uninterrupted
<1>11. todo' \in [Runs -> SUBSET Files] /\ todo[r] \ {f} \subseteq todo'[r] /\ todo'[r] \subseteq todo[r]
       /\ (f \in todo'[r] \/ files[f] = "absent")
  BY <1>1, <1>2, <1>3, <1>4 DEF Shapes
<1>12. ASSUME pc'[r] = "remove" PROVE todo'[r] # {} /\ First(r)' = f /\ files'[f] # "absent"
  <2>1. todo' = todo /\ files[f] # "absent"
    BY <1>1, <1>2, <1>4, <1>12 DEF Shapes
  <2> QED
    BY <1>3, <1>4, <2>1 DEF First
<1> HIDE DEF f
<1>5. Shapes'
  BY <1>1, <1>2, <1>4, <1>10, <1>11 DEF Shapes, Manifest
<1>6. Alone'
  BY <1>10 DEF Alone
<1>7. Progress'
  BY <1>1, <1>2, <1>4, <1>10, <1>11, <1>12 DEF Progress, Ends
<1>8. Repairable'
  <2>1. Untouched(r)' = {} /\ Settled(r)' = Settled(r)
    BY <1>2, <1>4, <1>10 DEF Untouched, Settled
  <2> QED
    BY <1>1, <1>2, <1>4, <1>10, <2>1 DEF Repairable, SkipsRight
<1>9. Tidy'
  BY <1>1, <1>2, <1>4, <1>10, <1>11 DEF Tidy, Present, Allowed, Ends
<1> QED
  BY <1>5, <1>6, <1>7, <1>8, <1>9 DEF IInv

LEMMA RemoveStep == ASSUME IInv, NEW r \in Runs, Remove(r) PROVE IInv'
<1> USE SavedFacts
<1>1. Shapes /\ Alone /\ Progress /\ Repairable /\ Tidy
  BY DEF IInv
<1>2. /\ files[First(r)] # "absent" /\ todo[r] # {}
      /\ r \in Running /\ "clean" \in Places \ {"idle"} /\ pc' = [pc EXCEPT ![r] = "clean"]
  BY <1>1 DEF Remove, Goto, Running, Ends, Places, Progress
<1>3. /\ Running = {r} /\ Running' = {r} /\ pc'[r] = "clean" /\ pc[r] = "remove"
      /\ pc' \in [Runs -> Places]
      /\ \A s \in Runs \ {r} : pc'[s] = pc[s] /\ pc[s] \in {"idle"} \cup Ends
      /\ Uninterrupted' <=> Uninterrupted
  BY <1>1, <1>2, TheRun DEF Remove, Ends
<1> DEFINE f == First(r)
<1>4. f \in todo[r] /\ f \in Files /\ todo[r] \subseteq Files /\ f \notin DOMAIN out[r]
  BY <1>1, <1>2, <1>3, FirstIsThere DEF Shapes, Progress
<1>10. /\ UNCHANGED <<manifest, bin, out, version, prev, ran, unfinished>>
       /\ files' = [files EXCEPT ![f] = "absent"] /\ todo' = [todo EXCEPT ![r] = todo[r] \ {f}]
       /\ files' \in [Files -> {"absent", "empty", "garbled"} \cup Contents]
       /\ todo' \in [Runs -> SUBSET Files] /\ todo'[r] = todo[r] \ {f}
       /\ files'[f] = "absent" /\ \A g \in Files \ {f} : files'[g] = files[g]
  BY <1>1, <1>2, <1>4 DEF Remove, Looked, Shapes
<1> HIDE DEF f
<1>5. Shapes'
  BY <1>1, <1>3, <1>10 DEF Shapes, Manifest
<1>6. Alone'
  BY <1>3 DEF Alone
<1>7. Progress'
  BY <1>1, <1>3, <1>10 DEF Progress, Ends
<1>8. Repairable'
  <2>1. Untouched(r)' = {} /\ Settled(r)' = DOMAIN out[r] /\ Settled(r) = DOMAIN out[r]
        /\ f \notin Settled(r) /\ DOMAIN out[r] \subseteq Files
    BY <1>1, <1>3, <1>4, <1>10 DEF Untouched, Settled, Shapes
  <2> QED
    BY <1>1, <1>3, <1>10, <2>1 DEF Repairable, SkipsRight
<1>9. Tidy'
  BY <1>1, <1>3, <1>4, <1>10 DEF Tidy, Present, Allowed, Ends
<1> QED
  BY <1>5, <1>6, <1>7, <1>8, <1>9 DEF IInv

LEMMA EndCleaningStep == ASSUME IInv, NEW r \in Runs, EndCleaning(r) PROVE IInv'
<1> USE SavedFacts
<1>1. Shapes /\ Alone /\ Progress /\ Repairable /\ Tidy
  BY DEF IInv
<1>2. r \in Running /\ "save" \in Places \ {"idle"} /\ pc' = [pc EXCEPT ![r] = "save"]
  BY DEF EndCleaning, Goto, Running, Ends, Places
<1>3. /\ Running = {r} /\ Running' = {r} /\ pc'[r] = "save" /\ pc[r] = "clean"
      /\ pc' \in [Runs -> Places]
      /\ \A s \in Runs \ {r} : pc'[s] = pc[s] /\ pc[s] \in {"idle"} \cup Ends
      /\ Uninterrupted' <=> Uninterrupted
  BY <1>1, <1>2, TheRun DEF EndCleaning, Ends
<1>4. /\ UNCHANGED <<files, manifest, bin, out, version, prev, todo, ran, unfinished>>
      /\ todo[r] = {}
  BY <1>1, <1>3 DEF EndCleaning, disk, Shapes, Progress
<1>5. Shapes'
  BY <1>1, <1>3, <1>4 DEF Shapes, Manifest, Manifests
<1>6. Alone'
  BY <1>3 DEF Alone
<1>7. Progress'
  BY <1>1, <1>3, <1>4 DEF Progress, Ends
<1>8. Repairable'
  <2>1. Untouched(r)' = {} /\ Settled(r)' = DOMAIN out[r] /\ Settled(r) = DOMAIN out[r]
    BY <1>3, <1>4 DEF Untouched, Settled
  <2> QED
    BY <1>1, <1>3, <1>4, <2>1 DEF Repairable, SkipsRight
<1>9. Tidy'
  BY <1>1, <1>3, <1>4 DEF Tidy, Present, Allowed, Ends
<1> QED
  BY <1>5, <1>6, <1>7, <1>8, <1>9 DEF IInv

LEMMA TruncateManifestStep == ASSUME IInv, NEW r \in Runs, TruncateManifest(r) PROVE IInv'
<1> USE SavedFacts
<1>1. Shapes /\ Alone /\ Progress /\ Repairable /\ Tidy
  BY DEF IInv
<1>2. r \in Running /\ "saving" \in Places \ {"idle"} /\ pc' = [pc EXCEPT ![r] = "saving"]
  BY DEF TruncateManifest, Goto, Running, Ends, Places
<1>3. /\ Running = {r} /\ Running' = {r} /\ pc'[r] = "saving" /\ pc[r] = "save"
      /\ pc' \in [Runs -> Places]
      /\ \A s \in Runs \ {r} : pc'[s] = pc[s] /\ pc[s] \in {"idle"} \cup Ends
      /\ Uninterrupted' <=> Uninterrupted
  BY <1>1, <1>2, TheRun DEF TruncateManifest, Ends
<1>4. /\ UNCHANGED <<files, bin, out, version, prev, todo, ran, unfinished>>
      /\ manifest' = NoManifest
  BY <1>1, <1>3 DEF TruncateManifest, disk, Shapes, Progress
<1>5. Shapes'
  BY <1>1, <1>3, <1>4 DEF Shapes, Manifest, Manifests
<1>6. Alone'
  BY <1>3 DEF Alone
<1>7. Progress'
  BY <1>1, <1>3, <1>4 DEF Progress, Ends
<1>8. Repairable'
  <2>1. Untouched(r)' = {} /\ Settled(r)' = DOMAIN out[r] /\ Settled(r) = DOMAIN out[r]
    BY <1>3, <1>4 DEF Untouched, Settled
  <2> QED
    BY <1>1, <1>3, <1>4, <2>1 DEF Repairable, SkipsRight
<1>9. Tidy'
  BY <1>1, <1>3, <1>4 DEF Tidy, Present, Allowed, Ends
<1> QED
  BY <1>5, <1>6, <1>7, <1>8, <1>9 DEF IInv

LEMMA WriteManifestStep == ASSUME IInv, NEW r \in Runs, WriteManifest(r) PROVE IInv'
<1> USE SavedFacts
<1>1. Shapes /\ Alone /\ Progress /\ Repairable /\ Tidy
  BY DEF IInv
<1>2. r \in Running /\ "rustc" \in Places \ {"idle"} /\ pc' = [pc EXCEPT ![r] = "rustc"]
  BY DEF WriteManifest, Goto, Running, Ends, Places
<1>3. /\ Running = {r} /\ Running' = {r} /\ pc'[r] = "rustc" /\ pc[r] = "saving"
      /\ pc' \in [Runs -> Places]
      /\ \A s \in Runs \ {r} : pc'[s] = pc[s] /\ pc[s] \in {"idle"} \cup Ends
      /\ Uninterrupted' <=> Uninterrupted
  BY <1>1, <1>2, TheRun DEF WriteManifest, Ends
<1>4. /\ UNCHANGED <<files, bin, out, version, prev, todo, ran>>
      /\ manifest' = Manifest(r) /\ Manifest(r)' = Manifest(r) /\ Manifest(r) \in Saved
      /\ unfinished' = IF unfinished \subseteq {Manifest(r)} THEN {} ELSE unfinished
  BY <1>1, <1>3 DEF WriteManifest, Shapes, Progress, Manifest
<1>5. Shapes'
  BY <1>1, <1>3, <1>4 DEF Shapes, Manifests
<1>6. Alone'
  BY <1>3 DEF Alone
<1>7. Progress'
  BY <1>1, <1>3, <1>4 DEF Progress, Ends
<1>8. Repairable'
  <2> SUFFICES ASSUME NEW m \in Saved, unfinished' \subseteq {m}, NEW f \in DOMAIN out[r] \cap DOMAIN m.modules,
                      m.version = version[r], m.modules[f] = out[r][f]
               PROVE  files[f] = out[r][f]
    <3>1. Untouched(r)' = {} /\ Settled(r)' = DOMAIN out[r]
      BY <1>3, <1>4 DEF Untouched, Settled
    <3> QED
      BY <1>3, <1>4, <3>1 DEF Repairable, SkipsRight
  <2>1. Settled(r) = DOMAIN out[r]
    BY <1>3 DEF Settled
  <2>2. CASE unfinished \subseteq {Manifest(r)}
    <3>1. Manifest(r).version = version[r] /\ Manifest(r).modules = out[r]
      BY DEF Manifest
    <3> QED
      BY <1>1, <1>3, <1>4, <2>1, <2>2, <3>1 DEF Repairable
  <2>3. CASE ~(unfinished \subseteq {Manifest(r)})
    BY <1>1, <1>3, <1>4, <2>1, <2>3 DEF Repairable
  <2> QED
    BY <2>2, <2>3
<1>9. Tidy'
  BY <1>1, <1>3, <1>4 DEF Tidy, Present, Allowed, Ends
<1> QED
  BY <1>5, <1>6, <1>7, <1>8, <1>9 DEF IInv

\* The files are right and the manifest is saved: so it stays for who comes next.
LEMMA SavedIsRight ==
  ASSUME Shapes, Progress, Repairable, NEW r \in Running, pc[r] \in {"rustc", "exec"},
         NEW m \in Saved, unfinished \subseteq {m}
  PROVE  SkipsRight(m, Files)
<1>1. /\ manifest = Manifest(r) /\ Manifest(r).version = version[r] /\ Manifest(r).modules = out[r]
      /\ Settled(r) = DOMAIN out[r]
  BY DEF Progress, Manifest, Settled, Running
<1>2. \A f \in Settled(r) \cap DOMAIN m.modules :
        m.version = version[r] /\ m.modules[f] = out[r][f] => files[f] = out[r][f]
  BY DEF Repairable
<1> QED
  BY <1>1, <1>2 DEF SkipsRight, NeedsRecompile

LEMMA RightFiles ==
  ASSUME Shapes, Progress, Repairable, NEW r \in Running, pc[r] \in {"rustc", "exec"},
         unfinished \subseteq {Manifest(r)}
  PROVE  \A f \in DOMAIN out[r] : files[f] = out[r][f]
<1>1. Manifest(r) \in Saved /\ Manifest(r).version = version[r] /\ Manifest(r).modules = out[r]
      /\ Settled(r) = DOMAIN out[r]
  BY DEF Manifest, Settled, Running, Shapes
<1> QED
  BY <1>1 DEF Repairable


LEMMA EndBuildStep == ASSUME IInv, NEW r \in Runs, EndBuild(r) PROVE IInv'
<1> USE SavedFacts
<1>1. Shapes /\ Alone /\ Progress /\ Repairable /\ Tidy
  BY DEF IInv
<1>2. r \in Running /\ "done" \in Places \ {"idle"} /\ pc' = [pc EXCEPT ![r] = "done"]
  BY DEF EndBuild, Goto, Running, Ends, Places
<1>3. /\ Running = {r} /\ Running' = {} /\ pc'[r] = "done" /\ pc[r] = "rustc"
      /\ pc' \in [Runs -> Places]
      /\ \A s \in Runs \ {r} : pc'[s] = pc[s] /\ pc[s] \in {"idle"} \cup Ends
      /\ Uninterrupted' <=> Uninterrupted
  BY <1>1, <1>2, TheRun DEF EndBuild, Ends
<1>4. UNCHANGED <<files, manifest, bin, out, version, prev, todo, ran, unfinished>>
  BY DEF EndBuild, disk
<1>5. Shapes'
  BY <1>1, <1>3, <1>4 DEF Shapes, Manifest
<1>6. Alone'
  BY <1>3 DEF Alone
<1>7. Progress'
  BY <1>1, <1>3, <1>4 DEF Progress, Ends
<1>8. Repairable'
  <2> SUFFICES ASSUME NEW m \in Saved, unfinished \subseteq {m} PROVE SkipsRight(m, Files)
    BY <1>3, <1>4 DEF Repairable, SkipsRight
  <2> QED
    BY <1>1, <1>3, SavedIsRight
<1>9. Tidy'
  <2>1. Allowed(r) = DOMAIN out[r] /\ DOMAIN manifest.modules = DOMAIN out[r]
    BY <1>1, <1>3, SavedFacts DEF Allowed, Progress, Manifest, Shapes
  <2> QED
    BY <1>1, <1>3, <1>4, <2>1 DEF Tidy, Present, Ends
<1> QED
  BY <1>5, <1>6, <1>7, <1>8, <1>9 DEF IInv

LEMMA ExecStep == ASSUME IInv, NEW r \in Runs, Exec(r) PROVE IInv'
<1> USE SavedFacts
<1>1. Shapes /\ Alone /\ Progress /\ Repairable /\ Tidy
  BY DEF IInv
<1>2. r \in Running /\ "done" \in Places \ {"idle"} /\ pc' = [pc EXCEPT ![r] = "done"]
  BY DEF Exec, Goto, Running, Ends, Places
<1>3. /\ Running = {r} /\ Running' = {} /\ pc'[r] = "done" /\ pc[r] = "exec"
      /\ pc' \in [Runs -> Places]
      /\ \A s \in Runs \ {r} : pc'[s] = pc[s] /\ pc[s] \in {"idle"} \cup Ends
      /\ Uninterrupted' <=> Uninterrupted
  BY <1>1, <1>2, TheRun DEF Exec, Ends
<1>4. /\ UNCHANGED <<files, manifest, bin, out, version, prev, todo, unfinished>>
      /\ ran' = [ran EXCEPT ![r] = bin] /\ DOMAIN ran' = Runs
      /\ ran'[r] = bin /\ \A s \in Runs \ {r} : ran'[s] = ran[s]
  BY <1>1 DEF Exec, disk, Shapes
<1>5. Shapes'
  BY <1>1, <1>3, <1>4 DEF Shapes, Manifest
<1>6. Alone'
  BY <1>3 DEF Alone
<1>7. Progress'
  BY <1>1, <1>3, <1>4 DEF Progress, Ends
<1>8. Repairable'
  <2> SUFFICES ASSUME NEW m \in Saved, unfinished \subseteq {m} PROVE SkipsRight(m, Files)
    BY <1>3, <1>4 DEF Repairable, SkipsRight
  <2> QED
    BY <1>1, <1>3, SavedIsRight
<1>9. Tidy'
  <2>1. Allowed(r) = DOMAIN out[r] /\ DOMAIN manifest.modules = DOMAIN out[r]
    BY <1>1, <1>3, SavedFacts DEF Allowed, Progress, Manifest, Shapes
  <2> QED
    BY <1>1, <1>3, <1>4, <2>1 DEF Tidy, Present, Ends
<1> QED
  BY <1>5, <1>6, <1>7, <1>8, <1>9 DEF IInv

LEMMA RustcStep == ASSUME IInv, NEW r \in Runs, Rustc(r) PROVE IInv'
<1> USE SavedFacts
<1>1. Shapes /\ Alone /\ Progress /\ Repairable /\ Tidy
  BY DEF IInv
<1> DEFINE source == [f \in DOMAIN out[r] |-> files[f]]
<1>2. PICK p \in {"exec", "failed"} :
        /\ pc' = [pc EXCEPT ![r] = p] /\ pc[r] = "rustc"
        /\ UNCHANGED <<files, manifest, out, version, prev, todo, ran, unfinished>>
        /\ p = "exec" => bin' = source
        /\ p = "failed" => bin' = bin
  BY DEF Rustc, Goto
<1>3. /\ r \in Running /\ Running = {r} /\ Running' = (IF p = "exec" THEN {r} ELSE {})
      /\ pc'[r] = p /\ pc' \in [Runs -> Places]
      /\ \A s \in Runs \ {r} : pc'[s] = pc[s] /\ pc[s] \in {"idle"} \cup Ends
      /\ Uninterrupted' <=> Uninterrupted
  <2>1. r \in Running /\ p \in Places \ {"idle"}
    BY <1>2 DEF Running, Ends, Places
  <2> QED
    BY <1>1, <1>2, <2>1, TheRun DEF Ends
<1>5. Shapes'
  BY <1>1, <1>2, <1>3 DEF Shapes, Manifest
<1>6. Alone'
  BY <1>3 DEF Alone
<1>7. Progress'
  BY <1>1, <1>2, <1>3 DEF Progress, Ends, Manifest
<1>8. Repairable'
  <2>1. CASE p = "exec"
    <3>1. Untouched(r)' = {} /\ Settled(r)' = DOMAIN out[r] /\ Settled(r) = DOMAIN out[r]
      BY <1>2, <1>3, <2>1 DEF Untouched, Settled
    <3> QED
      BY <1>1, <1>2, <1>3, <2>1, <3>1 DEF Repairable, SkipsRight
  <2>2. CASE p = "failed"
    <3> SUFFICES ASSUME NEW m \in Saved, unfinished \subseteq {m} PROVE SkipsRight(m, Files)
      BY <1>2, <1>3, <2>2 DEF Repairable, SkipsRight
    <3> QED
      BY <1>1, <1>2, <1>3, SavedIsRight
  <2> QED
    BY <2>1, <2>2
<1>9. Tidy'
  <2> SUFFICES ASSUME Uninterrupted PROVE Tidy'
    BY <1>3 DEF Tidy
  <2>1. Allowed(r) = DOMAIN out[r] /\ DOMAIN manifest.modules = DOMAIN out[r]
        /\ (p = "exec" => Allowed(r)' = DOMAIN out[r]) /\ out[r] \in Outputs
    BY <1>1, <1>2, <1>3 DEF Allowed, Progress, Manifest, Shapes, Saved
  <2>2. source = out[r]
    <3>1. \A f \in DOMAIN out[r] : files[f] = out[r][f]
      BY <1>1, <1>2, <1>3, RightFiles DEF Tidy
    <3> QED
      BY <2>1, <3>1
  <2> HIDE DEF source
  <2> QED
    BY <1>1, <1>2, <1>3, <2>1, <2>2 DEF Tidy, Present, Ends
<1> QED
  BY <1>5, <1>6, <1>7, <1>8, <1>9 DEF IInv

LEMMA StopStep == ASSUME IInv, NEW r \in Runs, Stop(r) PROVE IInv'
<1> USE SavedFacts
<1>1. Shapes /\ Alone /\ Progress /\ Repairable /\ Tidy
  BY DEF IInv
<1>2. r \in Running /\ "stopped" \in Places \ {"idle"} /\ pc' = [pc EXCEPT ![r] = "stopped"]
  BY DEF Stop, Goto, Ends, Places
<1>3. /\ Running = {r} /\ Running' = {} /\ pc'[r] = "stopped"
      /\ pc' \in [Runs -> Places]
      /\ \A s \in Runs \ {r} : pc'[s] = pc[s] /\ pc[s] \in {"idle"} \cup Ends
      /\ ~Uninterrupted'
  BY <1>1, <1>2, TheRun DEF Ends
<1>4. /\ UNCHANGED <<files, manifest, bin, out, version, prev, todo, ran>>
      /\ pc[r] \in {"rustc", "exec"} => unfinished' = unfinished
      /\ pc[r] \notin {"rustc", "exec"} => unfinished' = unfinished \cup {Manifest(r)}
  BY DEF Stop, disk
<1>5. Shapes'
  BY <1>1, <1>3, <1>4 DEF Shapes, Manifest
<1>6. Alone'
  BY <1>3 DEF Alone
<1>7. Progress'
  BY <1>1, <1>3, <1>4 DEF Progress, Ends
<1>8. Repairable'
  <2> SUFFICES ASSUME NEW m \in Saved, unfinished' \subseteq {m} PROVE SkipsRight(m, Files)
    BY <1>3, <1>4 DEF Repairable, SkipsRight
  <2>1. CASE pc[r] \in {"rustc", "exec"}
    BY <1>1, <1>2, <1>4, <2>1, SavedIsRight
  <2>2. CASE pc[r] \notin {"rustc", "exec"}
    <3>1. m = Manifest(r) /\ unfinished \subseteq {m} /\ m.version = version[r] /\ m.modules = out[r]
      <4>1. m = Manifest(r) /\ unfinished \subseteq {m}
        BY <1>4, <2>2
      <4> QED
        BY <4>1 DEF Manifest
    <3>2. /\ SkipsRight(m, Untouched(r))
          /\ \A f \in Settled(r) : files[f] = out[r][f]
          /\ pc[r] = "writing" => NeedsRecompile(manifest, version[r], First(r), out[r][First(r)])
      <4>1. Settled(r) \subseteq DOMAIN out[r]
        BY DEF Settled
      <4> QED
        BY <1>1, <1>2, <3>1, <4>1 DEF Repairable
    <3>3. \A f \in DOMAIN out[r] : \/ f \in Settled(r) \/ f \in Untouched(r)
                                   \/ pc[r] = "writing" /\ f = First(r)
      BY <1>1, <1>2, <2>2, <3>1 DEF Settled, Untouched, Running, Shapes, Places
    <3> QED
      BY <3>1, <3>2, <3>3 DEF SkipsRight
  <2> QED
    BY <2>1, <2>2
<1>9. Tidy'
  BY <1>3 DEF Tidy
<1> QED
  BY <1>5, <1>6, <1>7, <1>8, <1>9 DEF IInv

LEMMA StartStep ==
  ASSUME MaxRunning = 1, IInv, NEW r \in Runs, NEW o \in Outputs, NEW v \in Versions, Start(r, o, v)
  PROVE  IInv'
<1> USE SavedFacts
<1>1. Shapes /\ Alone /\ Progress /\ Repairable /\ Tidy
  BY DEF IInv
<1>2. Running = {}
  <2>1. \A s \in Runs : Cardinality({s}) = 1
    BY FS_Singleton
  <2> QED
    BY <1>1, <2>1 DEF Alone, Start
<1>3. /\ Running' = {r} /\ pc' \in [Runs -> Places] /\ pc'[r] = "load" /\ pc[r] = "idle"
      /\ \A s \in Runs \ {r} : pc'[s] = pc[s] /\ pc[s] \in {"idle"} \cup Ends
      /\ Uninterrupted' <=> Uninterrupted
  BY <1>1, <1>2 DEF Start, Goto, Shapes, Running, Ends, Places, Uninterrupted
<1>4. /\ UNCHANGED <<files, manifest, bin, prev, todo, ran, unfinished>>
      /\ out' = [out EXCEPT ![r] = o] /\ version' = [version EXCEPT ![r] = v]
      /\ out' \in [Runs -> Outputs \cup {NoProgram}] /\ version' \in [Runs -> Versions \cup {"none"}]
      /\ out'[r] = o /\ version'[r] = v
      /\ \A s \in Runs \ {r} : out'[s] = out[s] /\ version'[s] = version[s]
  BY <1>1 DEF Start, disk, Shapes
<1>5. Shapes'
  BY <1>1, <1>3, <1>4 DEF Shapes, Manifest, Saved
<1>6. Alone'
  BY <1>3 DEF Alone
<1>7. Progress'
  BY <1>1, <1>3, <1>4 DEF Progress, Ends
<1>8. Repairable'
  <2>1. Untouched(r)' = Files /\ Settled(r)' = {}
    BY <1>3, <1>4 DEF Untouched, Settled
  <2> QED
    BY <1>1, <1>2, <1>3, <1>4, <2>1 DEF Repairable, SkipsRight
<1>9. Tidy'
  <2>1. DOMAIN manifest.modules \subseteq Files
    BY <1>1 DEF Shapes, Manifests
  <2> QED
    BY <1>1, <1>2, <1>3, <1>4, <2>1 DEF Tidy, Present, Allowed, Ends
<1> QED
  BY <1>5, <1>6, <1>7, <1>8, <1>9 DEF IInv

LEMMA NextIInv == ASSUME MaxRunning = 1, IInv, [Next]_vars PROVE IInv'
<1>1. CASE UNCHANGED vars
  <2>1. UNCHANGED <<files, manifest, bin, pc, out, version, prev, todo, ran, unfinished>>
    BY <1>1 DEF vars
  <2> QED
    BY <2>1 DEF IInv, Shapes, Alone, Progress, Repairable, Tidy, Running, Manifest, First, Settled,
                Untouched, SkipsRight, NeedsRecompile, Present, Allowed, Uninterrupted
<1>2. CASE Next
  BY <1>2, StartStep, LoadStep, SkipStep, TruncateStep, WriteStep, EndWritingStep, LookStep,
     RemoveStep, EndCleaningStep, TruncateManifestStep, WriteManifestStep, EndBuildStep, RustcStep,
     ExecStep, StopStep DEF Next
<1> QED
  BY <1>1, <1>2

LEMMA IInvAlways == ASSUME MaxRunning = 1 PROVE Spec => []IInv
<1>1. IInv /\ [Next]_vars => IInv'
  BY NextIInv
<1> QED
  BY <1>1, InitIInv, PTL DEF Spec

-----------------------------------------------------------------------------
\* Whatever the earlier runs on a path compiled, a run executes the program it
\* compiled itself, unless one of them was interrupted (write_generated_output
\* and run in main.rs).
THEOREM UninterruptedRunsOwnAlways == ASSUME MaxRunning = 1 PROVE Spec => []UninterruptedRunsOwn
<1>1. IInv => UninterruptedRunsOwn
  BY DEF IInv, Tidy, UninterruptedRunsOwn, RunsOwnProgram
<1> QED
  BY <1>1, IInvAlways, PTL

\* Between uninterrupted runs the files are what the manifest says.
THEOREM ManifestTrueAlways == ASSUME MaxRunning = 1 PROVE Spec => []ManifestTrue
<1>1. ASSUME IInv, Uninterrupted, Running = {}, NEW f \in DOMAIN manifest.modules
      PROVE  files[f] = manifest.modules[f]
  <2>1. manifest \in Saved /\ f \in Files
    BY <1>1, SavedFacts DEF IInv, Shapes, Manifests
  <2>2. SkipsRight(manifest, Files)
    BY <1>1, <2>1 DEF IInv, Tidy, Repairable
  <2> QED
    BY <1>1, <2>1, <2>2 DEF SkipsRight, NeedsRecompile
<1>2. IInv => ManifestTrue
  BY <1>1 DEF ManifestTrue
<1> QED
  BY <1>2, IInvAlways, PTL

\* A run that went through its files leaves exactly them, if none before it
\* was interrupted: the loop over the files of the previous manifest finds all
\* that has to go.
THEOREM NoLeftoversAlways == ASSUME MaxRunning = 1 PROVE Spec => []NoLeftovers
<1>1. ASSUME IInv, Uninterrupted, NEW r \in Runs, pc[r] \in {"rustc", "exec"}
      PROVE  \A f \in Files : files[f] # "absent" => f \in DOMAIN out[r]
  <2>1. r \in Running
    BY <1>1 DEF Running, Ends
  <2> QED
    BY <1>1, <2>1 DEF IInv, Tidy, Present, Allowed
<1>2. IInv => NoLeftovers
  BY <1>1 DEF NoLeftovers
<1> QED
  BY <1>2, IInvAlways, PTL

\* A run killed anywhere, and repeated, finds every file right: the manifest
\* is saved last, so it never vouches for a file that the killed run touched.
THEOREM RetryRepairsAlways == ASSUME MaxRunning = 1 PROVE Spec => []RetryRepairs
<1>1. ASSUME IInv, NEW r \in Runs, pc[r] \in {"rustc", "exec"}, unfinished \subseteq {Manifest(r)}
      PROVE  \A f \in DOMAIN out[r] : files[f] = out[r][f]
  <2>1. r \in Running
    BY <1>1 DEF Running, Ends
  <2> QED
    BY <1>1, <2>1, RightFiles DEF IInv
<1>2. IInv => RetryRepairs
  BY <1>1 DEF RetryRepairs
<1> QED
  BY <1>2, IInvAlways, PTL
=============================================================================
