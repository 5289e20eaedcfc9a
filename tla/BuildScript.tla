---------------------------- MODULE BuildScript ----------------------------
(***************************************************************************)
(* The build script of the gors crate (gors/build.rs).  It gets the Go SDK *)
(* of the wanted version into a cache that all builds of a user share, and *)
(* copies the SDK's sources into its own output directory, which the       *)
(* crate then embeds.  Builds run at the same time, without a lock on the  *)
(* cache, and may be killed between any two steps; cargo runs the script   *)
(* again after a failure and after an edit of .go-version.                 *)
(*                                                                         *)
(* A file of the SDK is there or not, and the archive is written and read  *)
(* one file after the other.  What failing disks and GORS_GO_SDK_PATH do   *)
(* is left out.                                                            *)
(***************************************************************************)
EXTENDS Naturals, Sequences, FiniteSets

CONSTANTS Build,      \* checkouts, each with its own output directory
          Version,    \* values of .go-version
          First,      \* the one that every checkout begins with
          Files,      \* the files of an SDK, in the order of the archive
          VersionFile,
          Absent,
          Budgets     \* bounds: how many kills and failures of the network
                      \* there may be, and edits by each build

ASSUME BuildScriptAssumption ==
  /\ Files \in Seq(STRING) /\ Files # <<>>
  /\ VersionFile \in {Files[i] : i \in DOMAIN Files}
  /\ Absent \notin Version
  /\ \A files \in SUBSET {Files[i] : i \in DOMAIN Files} :
       files # Absent /\ Absent \notin [files -> Version]
  /\ First \in Version
  /\ Budgets \subseteq [kills : Nat, network : Nat, edits : [Build -> Nat]]

VARIABLES
  tarball,   \* [Version -> the parts of the archive that are written]
  sdk,       \* [Version -> the files below sdk_root]
  tmp,       \* [Build -> the files below its tmp_root]
  holders,   \* [Version -> builds that are removing the present sdk_root]
  out,       \* [Build -> its output directory: preload, source and marker]
  pc, at,    \* what a build does next, and to which file
  packages,  \* [Build -> the sources it has read from the SDK]
  wanted,    \* [Build -> the version in .go-version]
  stale,     \* [Build -> whether cargo will run the script]
  failed,    \* [Build -> why its last run failed]
  left,      \* what is left of the budget
  overlapped,\* whether two builds of one version ever ran at the same time
  cut,       \* [Version -> whether a build was killed writing the archive]
  torn       \* [Build -> whether one was killed writing over another version]

cache   == <<tarball, sdk, tmp, holders>>
history == <<overlapped, cut, torn>>
vars == <<cache, out, pc, at, packages, wanted, stale, failed, left, history>>

All     == {Files[i] : i \in DOMAIN Files}
Sources == All \ {VersionFile}

-----------------------------------------------------------------------------
Init ==
  /\ tarball = [v \in Version |-> Absent] /\ sdk = [v \in Version |-> Absent]
  /\ tmp = [b \in Build |-> {}] /\ holders = [v \in Version |-> {}]
  /\ out = [b \in Build |-> [preload |-> Absent, source |-> Absent, marker |-> Absent]]
  /\ pc = [b \in Build |-> "idle"] /\ at = [b \in Build |-> 1]
  /\ packages = [b \in Build |-> {}]
  /\ wanted = [b \in Build |-> First]
  /\ stale = [b \in Build |-> TRUE] /\ failed = [b \in Build |-> "no"]
  /\ left \in Budgets
  /\ overlapped = FALSE
  /\ cut = [v \in Version |-> FALSE] /\ torn = [b \in Build |-> FALSE]

\* b goes from one place to another, to begin with the first file there.
Goto(b, to)     == pc' = [pc EXCEPT ![b] = to] /\ at' = [at EXCEPT ![b] = 1]
Step(b, from, to) == pc[b] = from /\ Goto(b, to)

\* b is at a place that goes over the files one by one.
Each(b, place, to) ==
  /\ pc[b] = place
  /\ IF at[b] < Len(Files) THEN pc' = pc /\ at' = [at EXCEPT ![b] = @ + 1]
                           ELSE Goto(b, to)

File(b) == Files[at[b]]

Fail(b, why) ==
  /\ Goto(b, "idle")
  /\ failed' = [failed EXCEPT ![b] = why]

Succeed(b) ==
  /\ Goto(b, "idle")
  /\ stale' = [stale EXCEPT ![b] = FALSE]
  /\ failed' = [failed EXCEPT ![b] = "no"]

-----------------------------------------------------------------------------
(***************************************************************************)
(* Cargo and the user.                                                     *)
(***************************************************************************)

Start(b) ==
  /\ stale[b] /\ Step(b, "idle", "check")
  /\ packages' = [packages EXCEPT ![b] = {}]
  /\ overlapped' = (overlapped \/ \E c \in Build \ {b} : pc[c] # "idle" /\ wanted[c] = wanted[b])
  /\ UNCHANGED <<cache, out, wanted, stale, failed, left, cut, torn>>

Edit(b) ==
  /\ pc[b] = "idle" /\ left.edits[b] > 0
  /\ \E v \in Version \ {wanted[b]} : wanted' = [wanted EXCEPT ![b] = v]
  /\ left' = [left EXCEPT !.edits[b] = @ - 1]
  /\ stale' = [stale EXCEPT ![b] = TRUE]
  /\ UNCHANGED <<cache, out, pc, at, packages, failed, history>>

WritesOutput == {"clear", "copy", "list", "listed"}

Kill(b) ==
  /\ pc[b] # "idle" /\ left.kills > 0
  /\ Goto(b, "idle")
  /\ left' = [left EXCEPT !.kills = @ - 1]
  /\ holders' = [v \in Version |-> holders[v] \ {b}]
  /\ cut' = [cut EXCEPT ![wanted[b]] = @ \/ pc[b] = "write"]
  /\ torn' = [torn EXCEPT ![b] = @ \/ (/\ pc[b] \in WritesOutput
                                       /\ out[b].marker \notin {Absent, wanted[b]})]
  /\ UNCHANGED <<tarball, sdk, tmp, out, packages, wanted, stale, failed,
                 overlapped>>

-----------------------------------------------------------------------------
(***************************************************************************)
(* ensure_go_tarball.                                                      *)
(***************************************************************************)

\* An archive that exists is taken as it is.
FindTarball(b) ==
  /\ Step(b, "tarball", IF tarball[wanted[b]] = Absent THEN "download" ELSE "unpack")
  /\ tmp' = IF tarball[wanted[b]] = Absent THEN tmp ELSE [tmp EXCEPT ![b] = {}]
  /\ UNCHANGED <<tarball, sdk, holders, out, packages, wanted, stale, failed, left, history>>

\* The archive is in memory and its sum is right, or the build fails.
Download(b) ==
  /\ Step(b, "download", "create")
  /\ UNCHANGED <<cache, out, packages, wanted, stale, failed, left, history>>

DownloadFails(b) ==
  /\ pc[b] = "download" /\ left.network > 0
  /\ left' = [left EXCEPT !.network = @ - 1]
  /\ Fail(b, "network")
  /\ UNCHANGED <<cache, out, packages, wanted, stale, history>>

\* fs::write truncates the file that others may be reading or writing, ...
CreateTarball(b) ==
  /\ Step(b, "create", "write")
  /\ tarball' = [tarball EXCEPT ![wanted[b]] = {}]
  /\ UNCHANGED <<sdk, tmp, holders, out, packages, wanted, stale, failed, left, history>>

\* Mutant: the archive is written as it is received.
WriteTarballStreaming(b) ==
  \/ /\ Each(b, "write", "unpack")
     /\ tarball' = [tarball EXCEPT ![wanted[b]] = @ \cup {File(b)}]
     /\ tmp' = [tmp EXCEPT ![b] = {}]
     /\ UNCHANGED <<sdk, holders, out, packages, wanted, stale, failed, left, history>>
  \/ /\ pc[b] = "write" /\ left.network > 0
     /\ left' = [left EXCEPT !.network = @ - 1]
     /\ Fail(b, "network")
     /\ UNCHANGED <<cache, out, packages, wanted, stale, history>>

\* ... and writes at its own offset.  The temporary directory that follows
\* belongs to this build alone, which removes what an earlier one left.
WriteTarball(b) ==
  /\ Each(b, "write", "unpack")
  /\ tarball' = [tarball EXCEPT ![wanted[b]] = @ \cup {File(b)}]
  /\ tmp' = [tmp EXCEPT ![b] = {}]
  /\ UNCHANGED <<sdk, holders, out, packages, wanted, stale, failed, left, history>>

-----------------------------------------------------------------------------
(***************************************************************************)
(* ensure_go_sdk.                                                          *)
(***************************************************************************)

\* validate_sdk_version looks at one file.
Valid(files) == files # Absent /\ VersionFile \in files

CheckSdk(b) ==
  /\ Step(b, "check", IF Valid(sdk[wanted[b]]) THEN "preload" ELSE "tarball")
  /\ UNCHANGED <<cache, out, packages, wanted, stale, failed, left, history>>

Readable(b) == File(b) \in tarball[wanted[b]]

\* Mutant: what is missing of the archive is passed over.
UnpackPassesOver(b) ==
  /\ Each(b, "unpack", "replace")
  /\ tmp' = [tmp EXCEPT ![b] = @ \cup ({File(b)} \cap tarball[wanted[b]])]
  /\ UNCHANGED <<tarball, sdk, holders, out, packages, wanted, stale, failed, left, history>>

Unpack(b) ==
  /\ Each(b, "unpack", "replace") /\ Readable(b)
  /\ tmp' = [tmp EXCEPT ![b] = @ \cup {File(b)}]
  /\ UNCHANGED <<tarball, sdk, holders, out, packages, wanted, stale, failed, left, history>>

UnpackFails(b) ==
  /\ pc[b] = "unpack" /\ ~Readable(b)
  /\ Fail(b, "archive")
  /\ UNCHANGED <<cache, out, packages, wanted, stale, left, history>>

\* Mutant: the old SDK is removed without a look whether it is there.
ReplaceAlways(b) ==
  /\ Step(b, "replace", "remove")
  /\ UNCHANGED <<cache, out, packages, wanted, stale, failed, left, history>>

\* What was unpacked is validated; an SDK that is there now is to be removed.
Replace(b) ==
  /\ Valid(tmp[b])
  /\ Step(b, "replace", IF sdk[wanted[b]] = Absent THEN "rename" ELSE "remove")
  /\ UNCHANGED <<cache, out, packages, wanted, stale, failed, left, history>>

\* remove_dir_all opens the directory and removes what is in it, ...
OpenOld(b) ==
  /\ pc[b] = "remove" /\ sdk[wanted[b]] # Absent
  /\ Goto(b, "unlink")
  /\ holders' = [holders EXCEPT ![wanted[b]] = @ \cup {b}]
  /\ UNCHANGED <<tarball, sdk, tmp, out, packages, wanted, stale, failed, left, history>>

OpenFails(b) ==
  /\ pc[b] = "remove" /\ sdk[wanted[b]] = Absent
  /\ Fail(b, "missing")
  /\ UNCHANGED <<cache, out, packages, wanted, stale, left, history>>

Unlink(b, f) ==
  /\ pc[b] = "unlink" /\ b \in holders[wanted[b]] /\ f \in sdk[wanted[b]]
  /\ sdk' = [sdk EXCEPT ![wanted[b]] = @ \ {f}]
  /\ UNCHANGED <<tarball, tmp, holders, out, pc, at, packages, wanted, stale,
                 failed, left, history>>

\* Mutant: the removal waits for the directory to be empty.
EmptiedAtLast(b) == sdk[wanted[b]] = {}

\* ... and then the directory that has its name by now.
Emptied(b) == b \in holders[wanted[b]] => sdk[wanted[b]] = {}

RemoveOld(b) ==
  /\ Emptied(b) /\ sdk[wanted[b]] \in {{}, Absent}
  /\ Step(b, "unlink", "rename")
  /\ sdk' = [sdk EXCEPT ![wanted[b]] = Absent]
  /\ holders' = [holders EXCEPT ![wanted[b]] = {}]
  /\ UNCHANGED <<tarball, tmp, out, packages, wanted, stale, failed, left, history>>

RemoveFails(b) ==
  /\ pc[b] = "unlink" /\ Emptied(b) /\ sdk[wanted[b]] \notin {{}, Absent}
  /\ Fail(b, "replaced")
  /\ UNCHANGED <<cache, out, packages, wanted, stale, left, history>>

\* A directory is renamed to a name that is free or an empty directory's.
Rename(b) ==
  /\ sdk[wanted[b]] \in {{}, Absent} /\ Step(b, "rename", "preload")
  /\ sdk' = [sdk EXCEPT ![wanted[b]] = tmp[b]]
  /\ tmp' = [tmp EXCEPT ![b] = {}]
  /\ holders' = [holders EXCEPT ![wanted[b]] = {}]
  /\ UNCHANGED <<tarball, out, packages, wanted, stale, failed, left, history>>

RenameFails(b) ==
  /\ pc[b] = "rename" /\ sdk[wanted[b]] \notin {{}, Absent}
  /\ Fail(b, "replaced")
  /\ UNCHANGED <<cache, out, packages, wanted, stale, left, history>>

-----------------------------------------------------------------------------
(***************************************************************************)
(* main: the output directory, which belongs to this build alone.          *)
(***************************************************************************)

UpToDate(b) ==
  /\ out[b].preload # Absent /\ out[b].source # Absent
  /\ out[b].marker = wanted[b]

Skip(b) ==
  /\ pc[b] = "preload" /\ UpToDate(b)
  /\ Succeed(b)
  /\ UNCHANGED <<cache, out, packages, wanted, left, history>>

\* Mutant: the marker is written first.
MarkAndWalk(b) ==
  /\ Step(b, "preload", "walk") /\ ~UpToDate(b)
  /\ out' = [out EXCEPT ![b].marker = wanted[b]]
  /\ UNCHANGED <<cache, packages, wanted, stale, failed, left, history>>

BeginWalk(b) ==
  /\ Step(b, "preload", "walk") /\ ~UpToDate(b)
  /\ UNCHANGED <<cache, out, packages, wanted, stale, failed, left, history>>

\* extract_stdlib_from_sdk: what cannot be read is passed over.
Walk(b) ==
  /\ Each(b, "walk", "clear")
  /\ packages' = [packages EXCEPT ![b] =
                    IF sdk[wanted[b]] = Absent THEN @
                    ELSE @ \cup ({File(b)} \cap sdk[wanted[b]] \cap Sources)]
  /\ UNCHANGED <<cache, out, wanted, stale, failed, left, history>>

\* create_stdlib_preload: the old sources go one by one, ...
Clear(b) ==
  LET old == out[b].source
  IN  /\ pc[b] = "clear"
      /\ IF old = Absent \/ old = <<>>
         THEN Goto(b, "copy") /\ out' = [out EXCEPT ![b].source = <<>>]
         ELSE /\ \E f \in DOMAIN old :
                   out' = [out EXCEPT ![b].source = [g \in DOMAIN old \ {f} |-> old[g]]]
              /\ UNCHANGED <<pc, at>>
      /\ UNCHANGED <<cache, packages, wanted, stale, failed, left, history>>

\* ... and the new ones come one by one,
Copy(b) ==
  /\ Each(b, "copy", "list")
  /\ out' = IF File(b) \notin packages[b] THEN out
            ELSE [out EXCEPT ![b].source =
                    [g \in DOMAIN @ \cup {File(b)} |-> IF g = File(b) THEN wanted[b] ELSE @[g]]]
  /\ UNCHANGED <<cache, packages, wanted, stale, failed, left, history>>

\* then the list of them, which is truncated and written, ...
TruncateList(b) ==
  /\ Step(b, "list", "listed")
  /\ out' = [out EXCEPT ![b].preload = {}]
  /\ UNCHANGED <<cache, packages, wanted, stale, failed, left, history>>

WriteList(b) ==
  /\ Step(b, "listed", "mark")
  /\ out' = [out EXCEPT ![b].preload = packages[b], ![b].marker = Absent]
  /\ torn' = [torn EXCEPT ![b] = FALSE]
  /\ UNCHANGED <<cache, packages, wanted, stale, failed, left, overlapped, cut>>

\* ... and last the marker.
WriteMarker(b) ==
  /\ pc[b] = "mark"
  /\ out' = [out EXCEPT ![b].marker = wanted[b]]
  /\ Succeed(b)
  /\ UNCHANGED <<cache, packages, wanted, left, history>>

-----------------------------------------------------------------------------
Run(b) ==
  \/ FindTarball(b) \/ Download(b) \/ CreateTarball(b) \/ WriteTarball(b)
  \/ CheckSdk(b) \/ Unpack(b) \/ UnpackFails(b) \/ Replace(b)
  \/ OpenOld(b) \/ OpenFails(b) \/ (\E f \in All : Unlink(b, f))
  \/ RemoveOld(b) \/ RemoveFails(b) \/ Rename(b) \/ RenameFails(b)
  \/ Skip(b) \/ BeginWalk(b) \/ Walk(b) \/ Clear(b) \/ Copy(b)
  \/ TruncateList(b) \/ WriteList(b) \/ WriteMarker(b)

Next == \E b \in Build : Start(b) \/ Run(b) \/ DownloadFails(b) \/ Kill(b) \/ Edit(b)

\* The system lets every build go on, and a script that failed is run again.
Spec == Init /\ [][Next]_vars /\ \A b \in Build : WF_vars(Run(b)) /\ WF_vars(Start(b))
-----------------------------------------------------------------------------
Whole(files) == files = All

\* What the crate embeds is the SDK of the wanted version, all of it.
Right(b) ==
  /\ out[b].preload = Sources
  /\ out[b].source = [f \in Sources |-> wanted[b]]

\* Builds that run one at a time, each killed wherever it may be, leave no
\* output behind that cargo takes for done and that is not right, unless one
\* was killed while it wrote over another version's output.
AloneIsRight ==
  \A b \in Build : ~stale[b] /\ pc[b] = "idle" /\ ~overlapped /\ ~torn[b] => Right(b)

\* A build fails because of the network, or because of an archive that a kill
\* cut short or another build is writing; only builds that run at the same
\* time make each other fail elsewhere.
FailuresHaveCauses ==
  \A b \in Build :
    /\ failed[b] \in {"missing", "replaced"} => overlapped
    /\ failed[b] = "archive" => overlapped \/ \E v \in Version : cut[v]

\* An archive that is there and that nobody is writing is whole, although
\* builds truncate each other's and write at their own offsets; only a kill
\* leaves it cut short.
TarballSettles ==
  \A v \in Version :
    \/ tarball[v] = Absent \/ Whole(tarball[v]) \/ cut[v]
    \/ \E b \in Build : wanted[b] = v /\ pc[b] = "write"

\* An SDK comes into the cache whole or not at all, whatever happened to the
\* archive it was unpacked from; from then on it only loses files.
ArrivesWhole ==
  [][\A v \in Version :
       sdk'[v] # sdk[v] => \/ sdk'[v] = Absent
                           \/ Whole(sdk'[v])
                           \/ sdk[v] # Absent /\ sdk'[v] \subseteq sdk[v]]_vars
=============================================================================
