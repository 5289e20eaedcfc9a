----------------------------- MODULE OutputCache -----------------------------
(***************************************************************************)
(* The output directory of gors build and gors run: the generated files,   *)
(* the manifest that lets the next run skip what has not changed, and the  *)
(* program rustc makes of the files.                                       *)
(*                                                                         *)
(* The directory's name depends on the source path alone, so every run on  *)
(* the same path shares it, with no lock.  std::fs::write truncates the    *)
(* file and then writes it: each is a step, and a run may be killed, or    *)
(* fail to write, between any two steps.                                   *)
(***************************************************************************)
EXTENDS Naturals, FiniteSets

CONSTANTS
  Runs,        \* invocations of gors, each used once
  Files,       \* the names of generated files: numbers, in BTreeMap order
  Contents,    \* what a file may hold; a hash stands for what it hashes
  Outputs,     \* the outputs of the compiler: functions from names to contents
  Versions,    \* releases of gors
  MaxRunning,  \* bound: runs at the same time
  MaxStops     \* bound: runs killed or failing to write

ASSUME CacheAssumption ==
  /\ Files \subseteq Nat
  /\ \A o \in Outputs : DOMAIN o \subseteq Files /\ o \in [DOMAIN o -> Contents]
  /\ {"absent", "empty", "garbled"} \cap Contents = {}

VARIABLES
  files,     \* files[f]: "absent", "empty" (truncated), "garbled" or a content
  manifest,  \* the manifest: NoManifest when absent or unreadable
  bin,       \* the program rustc made last: an output, or NoProgram
  pc,        \* pc[r]: where run r stands
  out,       \* out[r]: what r compiled
  version,   \* version[r]: the release r runs
  prev,      \* prev[r]: the manifest r loaded
  todo,      \* todo[r]: the files the current loop has yet to look at
  ran,       \* ran[r]: the program r executed, or NoProgram
  unfinished \* history: the manifests that runs ended before they saved,
             \* until a later run saves them all

vars == <<files, manifest, bin, pc, out, version, prev, todo, ran, unfinished>>
disk == <<files, manifest, bin>>

NoManifest == [version |-> "none", modules |-> <<>>]
NoProgram == <<>>

\* A run ends "done" (executed its program), "failed" (an error it reports)
\* or "stopped".
Ends == {"done", "failed", "stopped"}
Running == {r \in Runs : pc[r] \notin {"idle"} \cup Ends}

Init ==
  /\ files = [f \in Files |-> "absent"]
  /\ manifest = NoManifest
  /\ bin = NoProgram
  /\ pc = [r \in Runs |-> "idle"]
  /\ out = [r \in Runs |-> NoProgram]
  /\ version = [r \in Runs |-> "none"]
  /\ prev = [r \in Runs |-> NoManifest]
  /\ todo = [r \in Runs |-> {}]
  /\ ran = [r \in Runs |-> NoProgram]
  /\ unfinished = {}

Goto(r, p) == pc' = [pc EXCEPT ![r] = p]
First(r) == CHOOSE f \in todo[r] : \A g \in todo[r] : f <= g
Looked(r) == todo' = [todo EXCEPT ![r] = @ \ {First(r)}]
Manifest(r) == [version |-> version[r], modules |-> out[r]]

\* Mutant: nothing is removed.
MissingNothing(r) == {}

\* The loop over the files of a manifest that the output no longer has.
Missing(r) == DOMAIN prev[r].modules \ DOMAIN out[r]

\* What is on disk after a write to a file that was truncated before: another
\* run may have written in between, and the longer content keeps its tail.
Written(now, content) == IF now \in {"empty", content} THEN {content} ELSE {content, "garbled"}

-----------------------------------------------------------------------------
\* The sources are parsed, compiled and printed by release v.
Start(r, o, v) ==
  /\ pc[r] = "idle"
  /\ Cardinality(Running) < MaxRunning
  /\ out' = [out EXCEPT ![r] = o]
  /\ version' = [version EXCEPT ![r] = v]
  /\ Goto(r, "load")
  /\ UNCHANGED <<disk, prev, todo, ran, unfinished>>

\* Mutant: the new manifest is saved before the files are written.
LoadAndSave(r) ==
  /\ pc[r] = "load"
  /\ prev' = [prev EXCEPT ![r] = manifest]
  /\ manifest' = Manifest(r)
  /\ todo' = [todo EXCEPT ![r] = DOMAIN out[r]]
  /\ Goto(r, "write")
  /\ UNCHANGED <<files, bin, out, version, ran, unfinished>>

\* BuildManifest::load
Load(r) ==
  /\ pc[r] = "load"
  /\ prev' = [prev EXCEPT ![r] = manifest]
  /\ todo' = [todo EXCEPT ![r] = DOMAIN out[r]]
  /\ Goto(r, "write")
  /\ UNCHANGED <<disk, out, version, ran, unfinished>>

\* Mutant: a file the manifest knows is taken for unchanged.
NeedsRecompileIfUnknown(m, v, f, content) ==
  m.version # v \/ f \notin DOMAIN m.modules

\* BuildManifest::needs_recompile; a missing manifest has no version.
NeedsRecompile(m, v, f, content) ==
  m.version # v \/ (f \in DOMAIN m.modules => m.modules[f] # content)

SkipUnchanged(r) ==
  /\ pc[r] = "write" /\ todo[r] # {}
  /\ LET f == First(r)
     IN  ~NeedsRecompile(prev[r], version[r], f, out[r][f]) /\ files[f] # "absent"
  /\ Looked(r)
  /\ UNCHANGED <<disk, pc, out, version, prev, ran, unfinished>>

\* std::fs::write truncates, or creates, the file
Truncate(r) ==
  /\ pc[r] = "write" /\ todo[r] # {}
  /\ LET f == First(r)
     IN  /\ NeedsRecompile(prev[r], version[r], f, out[r][f]) \/ files[f] = "absent"
         /\ files' = [files EXCEPT ![f] = "empty"]
  /\ Goto(r, "writing")
  /\ UNCHANGED <<manifest, bin, out, version, prev, todo, ran, unfinished>>

\* ... and then writes it.  A file removed after it was opened stays removed.
Write(r) ==
  /\ pc[r] = "writing"
  /\ LET f == First(r)
     IN  IF files[f] = "absent" THEN UNCHANGED files
         ELSE \E c \in Written(files[f], out[r][f]) : files' = [files EXCEPT ![f] = c]
  /\ Looked(r)
  /\ Goto(r, "write")
  /\ UNCHANGED <<manifest, bin, out, version, prev, ran, unfinished>>

EndWriting(r) ==
  /\ pc[r] = "write" /\ todo[r] = {}
  /\ todo' = [todo EXCEPT ![r] = Missing(r)]
  /\ Goto(r, "clean")
  /\ UNCHANGED <<disk, out, version, prev, ran, unfinished>>

\* file_path.is_file() of the first file that is no longer generated
Look(r) ==
  /\ pc[r] = "clean" /\ todo[r] # {}
  /\ IF files[First(r)] # "absent"
     THEN Goto(r, "remove") /\ UNCHANGED todo
     ELSE Looked(r) /\ UNCHANGED pc
  /\ UNCHANGED <<disk, out, version, prev, ran, unfinished>>

\* remove_file, which fails when another run was faster
Remove(r) ==
  /\ pc[r] = "remove"
  /\ IF files[First(r)] = "absent"
     THEN /\ Goto(r, "failed")
          /\ unfinished' = unfinished \cup {Manifest(r)}
          /\ UNCHANGED <<files, todo>>
     ELSE /\ files' = [files EXCEPT ![First(r)] = "absent"]
          /\ Looked(r)
          /\ Goto(r, "clean")
          /\ UNCHANGED unfinished
  /\ UNCHANGED <<manifest, bin, out, version, prev, ran>>

EndCleaning(r) ==
  /\ pc[r] = "clean" /\ todo[r] = {}
  /\ Goto(r, "save")
  /\ UNCHANGED <<disk, out, version, prev, todo, ran, unfinished>>

\* BuildManifest::save truncates the manifest ...
TruncateManifest(r) ==
  /\ pc[r] = "save"
  /\ manifest' = NoManifest
  /\ Goto(r, "saving")
  /\ UNCHANGED <<files, bin, out, version, prev, todo, ran, unfinished>>

\* Mutant: the entries of the previous manifest are kept.
WriteManifestOnTop(r) ==
  /\ pc[r] = "saving"
  /\ manifest' = [version |-> version[r],
                  modules |-> [f \in DOMAIN out[r] \cup DOMAIN prev[r].modules |->
                    IF f \in DOMAIN out[r] THEN out[r][f] ELSE prev[r].modules[f]]]
  /\ unfinished' = IF unfinished \subseteq {Manifest(r)} THEN {} ELSE unfinished
  /\ Goto(r, "rustc")
  /\ UNCHANGED <<files, bin, out, version, prev, todo, ran>>

\* ... and writes it; over the manifest of another run it may be unreadable.
WriteManifest(r) ==
  /\ pc[r] = "saving"
  /\ \E m \in {Manifest(r)}
              \cup (IF manifest = NoManifest THEN {} ELSE {NoManifest}) : manifest' = m
  /\ unfinished' = IF unfinished \subseteq {Manifest(r)} THEN {} ELSE unfinished
  /\ Goto(r, "rustc")
  /\ UNCHANGED <<files, bin, out, version, prev, todo, ran>>

\* gors build ends here, gors run goes on to rustc.
EndBuild(r) ==
  /\ pc[r] = "rustc"
  /\ Goto(r, "done")
  /\ UNCHANGED <<disk, out, version, prev, todo, ran, unfinished>>

\* rustc fails on a file that is missing or not a whole content.
Rustc(r) ==
  /\ pc[r] = "rustc"
  /\ LET source == [f \in DOMAIN out[r] |-> files[f]]
     IN  IF \A f \in DOMAIN source : source[f] \in Contents
         THEN bin' = source /\ Goto(r, "exec")
         ELSE UNCHANGED bin /\ Goto(r, "failed")
  /\ UNCHANGED <<files, manifest, out, version, prev, todo, ran, unfinished>>

Exec(r) ==
  /\ pc[r] = "exec"
  /\ ran' = [ran EXCEPT ![r] = bin]
  /\ Goto(r, "done")
  /\ UNCHANGED <<disk, out, version, prev, todo, unfinished>>

\* The run is killed, or a write of its files or manifest fails.
Stop(r) ==
  /\ r \in Running
  /\ Cardinality({s \in Runs : pc[s] = "stopped"}) < MaxStops
  /\ Goto(r, "stopped")
  /\ unfinished' = IF pc[r] \in {"rustc", "exec"} THEN unfinished ELSE unfinished \cup {Manifest(r)}
  /\ UNCHANGED <<disk, out, version, prev, todo, ran>>

Next == \E r \in Runs :
  \/ \E o \in Outputs, v \in Versions : Start(r, o, v)
  \/ Load(r) \/ SkipUnchanged(r) \/ Truncate(r) \/ Write(r) \/ EndWriting(r)
  \/ Look(r) \/ Remove(r) \/ EndCleaning(r) \/ TruncateManifest(r) \/ WriteManifest(r)
  \/ EndBuild(r) \/ Rustc(r) \/ Exec(r) \/ Stop(r)

Spec == Init /\ [][Next]_vars

-----------------------------------------------------------------------------
\* A run executes the program it compiled, never what an earlier or another
\* run left (write_generated_output, then rustc and the binary in run).
RunsOwnProgram == \A r \in Runs : ran[r] \in {NoProgram, out[r]}

Uninterrupted == \A r \in Runs : pc[r] # "stopped"

\* So it is as long as no run was interrupted: what the manifest lets a run
\* skip is what the run would have written.
UninterruptedRunsOwn == Uninterrupted => RunsOwnProgram

\* While no run is at work, the files are what the manifest says: the skip of
\* unchanged files relies on it.
ManifestTrue ==
  Uninterrupted /\ Running = {} =>
    \A f \in DOMAIN manifest.modules : files[f] = manifest.modules[f]

\* A run that went through its files has left exactly them in the directory.
NoLeftovers == Uninterrupted => \A r \in Runs :
  pc[r] \in {"rustc", "exec"} => \A f \in Files : files[f] # "absent" => f \in DOMAIN out[r]

\* A run redone after it was stopped, by the same release and before any
\* other output is compiled, finds every file right (the manifest is saved last).
RetryRepairs == \A r \in Runs :
  pc[r] \in {"rustc", "exec"} /\ unfinished \subseteq {Manifest(r)} =>
    \A f \in DOMAIN out[r] : files[f] = out[r][f]
=============================================================================
