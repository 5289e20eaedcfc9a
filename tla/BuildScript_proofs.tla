------------------------- MODULE BuildScript_proofs -------------------------
(***************************************************************************)
(* What the SDK cache keeps to for every number of builds and versions,    *)
(* every SDK, and every number of kills, failures and edits.               *)
(***************************************************************************)
EXTENDS BuildScript, TLAPS

Places == {"idle", "check", "tarball", "download", "create", "write", "unpack",
           "replace", "remove", "unlink", "rename", "preload", "walk", "clear",
           "copy", "list", "listed", "mark"}

Shapes ==
  /\ tarball \in [Version -> {Absent} \cup SUBSET All]
  /\ sdk \in [Version -> {Absent} \cup SUBSET All]
  /\ tmp \in [Build -> SUBSET All]
  /\ holders \in [Version -> SUBSET Build]
  /\ pc \in [Build -> Places] /\ at \in [Build -> 1..Len(Files)]
  /\ wanted \in [Build -> Version]
  /\ cut \in [Version -> BOOLEAN]

\* What a build has gone over of the archive, at its present place.
Before(b) == {Files[i] : i \in 1..(at[b] - 1)}

\* What is unpacked is there, and all of it before the directory is used.
Unpacked ==
  \A b \in Build :
    /\ pc[b] = "unpack" => Before(b) \subseteq tmp[b]
    /\ pc[b] \in {"replace", "remove", "unlink", "rename"} => tmp[b] = All

\* An archive that is not whole yet has a writer that wrote all it went over
\* since the file was truncated last.
Written ==
  \A v \in Version :
    \/ tarball[v] = Absent \/ tarball[v] = All \/ cut[v]
    \/ \E b \in Build : /\ wanted[b] = v /\ pc[b] = "write"
                        /\ Before(b) \subseteq tarball[v]

\* A directory that is held is there, and so is an archive being written.
HeldIsThere ==
  /\ \A v \in Version : holders[v] # {} => sdk[v] # Absent
  /\ \A b \in Build : pc[b] = "write" => tarball[wanted[b]] # Absent

IInv == Shapes /\ Unpacked /\ Written /\ HeldIsThere

-----------------------------------------------------------------------------
LEMMA FilesFacts ==
  /\ Len(Files) \in Nat \ {0} /\ DOMAIN Files = 1..Len(Files)
  /\ 1 \in 1..Len(Files)
  /\ \A i \in 1..Len(Files) : Files[i] \in All
  /\ \A i \in 1..Len(Files) :
       i < Len(Files) \/ All = {Files[j] : j \in 1..(i - 1)} \cup {Files[i]}
  /\ All \ {} = All /\ Absent \notin SUBSET All
<1>1. Len(Files) \in Nat /\ DOMAIN Files = 1..Len(Files) /\ Files # <<>>
  BY BuildScriptAssumption
<1>2. Len(Files) # 0
  BY BuildScriptAssumption
<1>3. \A i \in 1..Len(Files) :
        i < Len(Files) \/ All = {Files[j] : j \in 1..(i - 1)} \cup {Files[i]}
  <2> SUFFICES ASSUME NEW i \in 1..Len(Files), ~(i < Len(Files))
               PROVE  All = {Files[j] : j \in 1..(i - 1)} \cup {Files[i]}
    OBVIOUS
  <2>1. i = Len(Files)
    <3>1. \A n \in Nat : \A k \in 1..n : k < n \/ k = n
      OBVIOUS
    <3> QED
      BY <1>1, <3>1
  <2>2. 1..Len(Files) = (1..(i - 1)) \cup {i}
    BY <1>1, <1>2, <2>1
  <2> QED
    BY <1>1, <2>2 DEF All
<1>4. Absent \notin SUBSET All
  BY BuildScriptAssumption, Zenon DEF All
<1>5. /\ 1 \in 1..Len(Files) /\ \A i \in 1..Len(Files) : Files[i] \in All
  BY <1>1, <1>2 DEF All
<1> QED
  BY <1>1, <1>2, <1>3, <1>4, <1>5

\* Where a build goes: one file further, or to the first file of a new place.
LEMMA EachStep ==
  ASSUME NEW b \in Build, NEW place, NEW to \in Places, Shapes, Each(b, place, to)
  PROVE  /\ pc[b] = place
         /\ \A c \in Build \ {b} : pc'[c] = pc[c] /\ at'[c] = at[c]
         /\ pc' \in [Build -> Places] /\ at' \in [Build -> 1..Len(Files)]
         /\ \/ /\ pc'[b] = place /\ at[b] < Len(Files) /\ at'[b] = at[b] + 1
               /\ Before(b)' = Before(b) \cup {Files[at[b]]}
            \/ /\ pc'[b] = to /\ at'[b] = 1
               /\ All = Before(b) \cup {Files[at[b]]}
<1> USE FilesFacts DEF Each, Goto, Shapes
<1>1. CASE at[b] < Len(Files)
  <2>1. pc' = pc /\ at' = [at EXCEPT ![b] = @ + 1] /\ at[b] \in 1..Len(Files)
    BY <1>1
  <2>2. at'[b] = at[b] + 1 /\ at' \in [Build -> 1..Len(Files)]
    BY <1>1, <2>1
  <2>3. 1..(at'[b] - 1) = 1..(at[b] - 1) \cup {at[b]}
    BY <2>1, <2>2
  <2>4. Before(b)' = Before(b) \cup {Files[at[b]]}
    BY <2>3 DEF Before
  <2> QED
    BY <1>1, <2>1, <2>2, <2>4
<1>2. CASE ~(at[b] < Len(Files))
  <2>1. All = Before(b) \cup {Files[at[b]]}
    BY <1>2 DEF Before
  <2>2. pc' = [pc EXCEPT ![b] = to] /\ at' = [at EXCEPT ![b] = 1] /\ pc[b] = place
    BY <1>2
  <2>3. pc' \in [Build -> Places] /\ at' \in [Build -> 1..Len(Files)]
    BY <2>2
  <2>4. pc'[b] = to /\ at'[b] = 1
    BY <2>2
  <2> QED
    BY <2>1, <2>2, <2>3, <2>4
<1> QED
  BY <1>1, <1>2

LEMMA GotoStep ==
  ASSUME NEW b \in Build, NEW to \in Places, Shapes, Goto(b, to)
  PROVE  /\ \A c \in Build \ {b} : pc'[c] = pc[c] /\ at'[c] = at[c]
         /\ pc' \in [Build -> Places] /\ at' \in [Build -> 1..Len(Files)]
         /\ pc'[b] = to /\ Before(b)' = {}
  BY FilesFacts DEF Goto, Shapes, Before

LEMMA InitIInv == Init => IInv
<1> SUFFICES ASSUME Init PROVE IInv
  OBVIOUS
<1>1. Shapes
  <2>1. tarball \in [Version -> {Absent} \cup SUBSET All]
        /\ sdk \in [Version -> {Absent} \cup SUBSET All]
    BY DEF Init
  <2>2. tmp \in [Build -> SUBSET All] /\ holders \in [Version -> SUBSET Build]
    BY DEF Init
  <2>3. pc \in [Build -> Places] /\ at \in [Build -> 1..Len(Files)]
    BY FilesFacts DEF Init, Places
  <2>4. wanted \in [Build -> Version] /\ cut \in [Version -> BOOLEAN]
    BY BuildScriptAssumption DEF Init
  <2> QED
    BY <2>1, <2>2, <2>3, <2>4 DEF Shapes
<1>2. \A b \in Build : pc[b] = "idle"
  BY DEF Init
<1>3. Unpacked
  BY <1>2 DEF Unpacked
<1>4. \A v \in Version : tarball[v] = Absent /\ holders[v] = {}
  BY DEF Init
<1>5. Written
  BY <1>4 DEF Written
<1>6. HeldIsThere
  BY <1>2, <1>4 DEF HeldIsThere
<1> QED
  BY <1>1, <1>3, <1>5, <1>6 DEF IInv

-----------------------------------------------------------------------------
\* A step of one build that leaves the cache alone and takes the build to a
\* place that promises nothing new.
LEMMA QuietStep ==
  ASSUME IInv, NEW b \in Build, NEW to \in Places, Goto(b, to),
         UNCHANGED <<tarball, sdk, tmp>>, holders' \in [Version -> SUBSET Build],
         \A v \in Version : holders'[v] # {} => holders[v] # {},
         wanted' \in [Build -> Version], \A c \in Build \ {b} : wanted'[c] = wanted[c],
         pc[b] = "write" => cut'[wanted[b]],
         cut' \in [Version -> BOOLEAN], \A v \in Version : cut[v] => cut'[v],
         to # "write",
         to \in {"replace", "remove", "unlink", "rename"} => tmp[b] = All
  PROVE  IInv'
<1> USE DEF IInv
<1>1. Shapes'
  BY GotoStep DEF Places, Shapes
<1>2. Unpacked'
  <2> SUFFICES ASSUME NEW c \in Build
               PROVE  /\ pc'[c] = "unpack" => Before(c)' \subseteq tmp'[c]
                      /\ pc'[c] \in {"replace", "remove", "unlink", "rename"} => tmp'[c] = All
    BY DEF Unpacked
  <2>1. CASE c = b
    BY <2>1, GotoStep DEF Places
  <2>2. CASE c # b
    <3>1. pc'[c] = pc[c] /\ Before(c)' = Before(c) /\ tmp' = tmp
      BY <2>2, GotoStep DEF Places, Before
    <3> QED
      BY <3>1 DEF Unpacked
  <2> QED
    BY <2>1, <2>2
<1>3. Written'
  <2> SUFFICES ASSUME NEW v \in Version, ~(tarball[v] = Absent \/ tarball[v] = All \/ cut'[v])
               PROVE  \E c \in Build : /\ wanted'[c] = v /\ pc'[c] = "write"
                                       /\ Before(c)' \subseteq tarball[v]
    BY DEF Written
  <2>1. PICK c \in Build : /\ wanted[c] = v /\ pc[c] = "write" /\ Before(c) \subseteq tarball[v]
    BY DEF Written
  <2>2. c # b
    BY <2>1
  <2>3. pc'[c] = pc[c] /\ Before(c)' = Before(c) /\ wanted'[c] = wanted[c]
    BY <2>2, GotoStep DEF Places, Before
  <2> QED
    BY <2>1, <2>3
<1>4. HeldIsThere'
  <2>1. \A v \in Version : holders'[v] # {} => sdk'[v] # Absent
    BY DEF HeldIsThere
  <2>2. \A c \in Build : pc'[c] = "write" => pc[c] = "write" /\ wanted'[c] = wanted[c]
    BY GotoStep DEF Places
  <2> QED
    BY <2>1, <2>2 DEF HeldIsThere
<1> QED
  BY <1>1, <1>2, <1>3, <1>4

\* A step that changes neither the cache nor where the builds are in it.
LEMMA SameCache ==
  ASSUME IInv, UNCHANGED cache, UNCHANGED <<wanted, cut>>,
         pc' \in [Build -> Places], at' \in [Build -> 1..Len(Files)],
         \A c \in Build : \/ pc'[c] = pc[c] /\ at'[c] = at[c]
                          \/ /\ {pc[c], pc'[c]} \cap {"write", "unpack", "replace", "remove",
                                                      "unlink", "rename"} = {}
  PROVE  IInv'
<1> USE DEF IInv
<1>1. Shapes' /\ HeldIsThere'
  BY DEF Shapes, cache, HeldIsThere
<1>2. \A c \in Build : pc'[c] = pc[c] /\ at'[c] = at[c] => Before(c)' = Before(c)
  BY DEF Before
<1>3. Unpacked'
  BY <1>2 DEF Unpacked, cache
<1>4. Written'
  <2> SUFFICES ASSUME NEW v \in Version, ~(tarball[v] = Absent \/ tarball[v] = All \/ cut[v])
               PROVE  \E c \in Build : /\ wanted[c] = v /\ pc'[c] = "write"
                                       /\ Before(c)' \subseteq tarball[v]
    BY DEF Written, cache
  <2>1. PICK c \in Build : /\ wanted[c] = v /\ pc[c] = "write" /\ Before(c) \subseteq tarball[v]
    BY DEF Written
  <2>2. pc'[c] = pc[c] /\ Before(c)' = Before(c)
    BY <1>2, <2>1
  <2> QED
    BY <2>1, <2>2
<1> QED
  BY <1>1, <1>3, <1>4

-----------------------------------------------------------------------------
\* The archive.
LEMMA TarballSteps ==
  ASSUME IInv, NEW b \in Build,
         FindTarball(b) \/ CreateTarball(b) \/ WriteTarball(b)
  PROVE  IInv'
<1> USE DEF IInv
<1> DEFINE v == wanted[b]
<1>0. v \in Version /\ UNCHANGED <<sdk, holders, wanted, cut>>
  BY DEF Shapes, FindTarball, CreateTarball, WriteTarball, history
<1>1. CASE FindTarball(b)
  <2>1. PICK to \in {"download", "unpack"} : Goto(b, to)
    BY <1>1 DEF FindTarball, Step
  <2>2. /\ tmp' \in [Build -> SUBSET All]
        /\ \A c \in Build \ {b} : tmp'[c] = tmp[c]
        /\ UNCHANGED tarball /\ pc[b] # "write"
    BY <1>1 DEF FindTarball, Step, Shapes
  <2>3. \A c \in Build \ {b} : pc'[c] = pc[c] /\ Before(c)' = Before(c)
    BY <2>1, GotoStep DEF Places, Before
  <2>4. pc'[b] = to /\ Before(b)' = {}
    BY <2>1, GotoStep DEF Places
  <2>5. Shapes'
    BY <1>0, <2>1, <2>2, GotoStep DEF Places, Shapes
  <2>6. Unpacked'
    BY <2>2, <2>3, <2>4 DEF Unpacked
  <2>7. Written'
    BY <1>0, <2>2, <2>3 DEF Written
  <2>8. HeldIsThere'
    BY <1>0, <2>2, <2>3, <2>4 DEF HeldIsThere
  <2> QED
    BY <2>5, <2>6, <2>7, <2>8
<1>2. CASE CreateTarball(b)
  <2>1. Goto(b, "write") /\ UNCHANGED tmp
    BY <1>2 DEF CreateTarball, Step
  <2>2. /\ tarball' \in [Version -> {Absent} \cup SUBSET All] /\ tarball'[v] = {}
        /\ \A w \in Version \ {v} : tarball'[w] = tarball[w]
    BY <1>0, <1>2 DEF CreateTarball, Shapes
  <2>3. \A c \in Build \ {b} : pc'[c] = pc[c] /\ Before(c)' = Before(c)
    BY <2>1, GotoStep DEF Places, Before
  <2>4. pc'[b] = "write" /\ Before(b)' = {} /\ pc[b] = "create"
    BY <1>2, <2>1, GotoStep DEF Places, CreateTarball, Step
  <2>5. Shapes'
    BY <1>0, <2>1, <2>2, GotoStep DEF Places, Shapes
  <2>6. Unpacked'
    BY <2>1, <2>3, <2>4 DEF Unpacked
  <2>7. Written'
    <3>1. ASSUME NEW w \in Version \ {v}
          PROVE  \/ tarball'[w] = Absent \/ tarball'[w] = All \/ cut'[w]
                 \/ \E c \in Build : /\ wanted'[c] = w /\ pc'[c] = "write"
                                     /\ Before(c)' \subseteq tarball'[w]
      BY <1>0, <2>2, <2>3, <3>1 DEF Written
    <3> QED
      BY <1>0, <2>2, <2>4, <3>1 DEF Written
  <2>8. HeldIsThere'
    BY <1>0, <2>2, <2>3, <2>4, FilesFacts DEF HeldIsThere, Shapes
  <2> QED
    BY <2>5, <2>6, <2>7, <2>8
<1>3. CASE WriteTarball(b)
  <2>1. Each(b, "write", "unpack") /\ File(b) = Files[at[b]] /\ File(b) \in All
    BY <1>3, FilesFacts DEF WriteTarball, File, Shapes
  <2>2. pc[b] = "write" /\ tarball[v] \in SUBSET All
    <3>1. pc[b] = "write"
      BY <2>1 DEF Each
    <3> QED
      BY <1>0, <3>1 DEF HeldIsThere, Shapes
  <2>3. /\ tarball' \in [Version -> {Absent} \cup SUBSET All]
        /\ tarball'[v] = tarball[v] \cup {File(b)}
        /\ \A w \in Version \ {v} : tarball'[w] = tarball[w]
    BY <1>0, <1>3, <2>1, <2>2 DEF WriteTarball, Shapes
  <2>4. /\ tmp' \in [Build -> SUBSET All] /\ tmp'[b] = {}
        /\ \A c \in Build \ {b} : tmp'[c] = tmp[c]
    BY <1>3 DEF WriteTarball, Shapes
  <2>5. \A c \in Build \ {b} : pc'[c] = pc[c] /\ Before(c)' = Before(c)
    BY <2>1, EachStep DEF Places, Before
  <2>6. Shapes'
    BY <1>0, <2>1, <2>3, <2>4, EachStep DEF Places, Shapes
  <2>7. \/ pc'[b] = "write" /\ Before(b)' = Before(b) \cup {File(b)}
        \/ pc'[b] = "unpack" /\ Before(b)' = {} /\ All = Before(b) \cup {File(b)}
    <3>1. at'[b] = 1 => Before(b)' = {}
      BY DEF Before
    <3> QED
      BY <2>1, <3>1, EachStep DEF Places
  <2>8. Unpacked'
    BY <2>4, <2>5, <2>7 DEF Unpacked
  <2>9. Written'
    <3> SUFFICES ASSUME NEW w \in Version,
                        ~(tarball'[w] = Absent \/ tarball'[w] = All \/ cut[w])
                 PROVE  \E c \in Build : /\ wanted[c] = w /\ pc'[c] = "write"
                                         /\ Before(c)' \subseteq tarball'[w]
      BY <1>0 DEF Written
    <3>1. tarball[w] # Absent /\ tarball[w] # All
      <4>1. CASE w = v
        <5>1. tarball[w] # Absent
          BY <2>2, <4>1, FilesFacts
        <5>2. tarball[w] = All => tarball'[w] = All
          BY <2>1, <2>3, <4>1
        <5> QED
          BY <5>1, <5>2
      <4>2. CASE w # v
        BY <2>3, <4>2
      <4> QED
        BY <4>1, <4>2
    <3>2. PICK c \in Build : wanted[c] = w /\ pc[c] = "write" /\ Before(c) \subseteq tarball[w]
      BY <3>1 DEF Written
    <3>3. tarball[w] \subseteq tarball'[w] /\ tarball'[w] \subseteq All
      BY <2>3, <2>6, <3>1 DEF Shapes
    <3>4. CASE c # b
      BY <2>5, <3>2, <3>3, <3>4
    <3>5. CASE c = b
      BY <2>3, <2>7, <3>2, <3>3, <3>5
    <3> QED
      BY <3>4, <3>5
  <2>10. HeldIsThere'
    <3>1. tarball'[v] # Absent
      <4>1. tarball'[v] \in SUBSET All
        BY <2>1, <2>2, <2>3
      <4> QED
        BY <4>1, FilesFacts
    <3>2. \A c \in Build \ {b} : pc'[c] = "write" => tarball'[wanted[c]] # Absent
      BY <2>3, <2>5, <3>1 DEF HeldIsThere, Shapes
    <3>3. \A w \in Version : holders'[w] # {} => sdk'[w] # Absent
      BY <1>0 DEF HeldIsThere
    <3> QED
      BY <1>0, <3>1, <3>2, <3>3 DEF HeldIsThere
  <2> QED
    BY <2>6, <2>8, <2>9, <2>10
<1> QED
  BY <1>1, <1>2, <1>3

\* The SDK.
LEMMA UnpackStep ==
  ASSUME IInv, NEW b \in Build, Unpack(b) PROVE IInv'
<1> USE DEF IInv
<1>1. /\ Each(b, "unpack", "replace") /\ File(b) = Files[at[b]] /\ File(b) \in All
      /\ UNCHANGED <<tarball, sdk, holders, wanted, cut>>
  BY FilesFacts DEF Unpack, File, Shapes, history
<1>2. /\ tmp' \in [Build -> SUBSET All] /\ tmp'[b] = tmp[b] \cup {File(b)}
      /\ \A c \in Build \ {b} : tmp'[c] = tmp[c]
  BY <1>1 DEF Unpack, Shapes
<1>3. \A c \in Build \ {b} : pc'[c] = pc[c] /\ Before(c)' = Before(c)
  BY <1>1, EachStep DEF Places, Before
<1>4. pc[b] = "unpack" /\ Before(b) \subseteq tmp[b] /\ tmp[b] \subseteq All
  BY <1>1, EachStep DEF Places, Unpacked, Shapes
<1>5. \/ pc'[b] = "unpack" /\ Before(b)' = Before(b) \cup {File(b)}
      \/ pc'[b] = "replace" /\ All = Before(b) \cup {File(b)}
  BY <1>1, EachStep DEF Places
<1>6. Shapes'
  BY <1>1, <1>2, EachStep DEF Places, Shapes
<1>7. Unpacked'
  <2>1. /\ pc'[b] = "unpack" => Before(b)' \subseteq tmp'[b]
        /\ pc'[b] \in {"replace", "remove", "unlink", "rename"} => tmp'[b] = All
    BY <1>1, <1>2, <1>4, <1>5
  <2> QED
    BY <1>2, <1>3, <2>1 DEF Unpacked
<1>8. Written'
  BY <1>1, <1>3, <1>4 DEF Written
<1>9. HeldIsThere'
  BY <1>1, <1>3, <1>5 DEF HeldIsThere
<1> QED
  BY <1>6, <1>7, <1>8, <1>9

LEMMA SdkSteps ==
  ASSUME IInv, NEW b \in Build,
         OpenOld(b) \/ (\E f \in All : Unlink(b, f)) \/ RemoveOld(b) \/ Rename(b)
  PROVE  IInv'
<1> USE DEF IInv
<1> DEFINE v == wanted[b]
<1>1. /\ v \in Version /\ UNCHANGED <<tarball, wanted, cut>>
      /\ pc[b] \in {"remove", "unlink", "rename"} /\ tmp[b] = All
  BY DEF Shapes, OpenOld, Unlink, RemoveOld, Rename, Step, history, Unpacked
<1>2. /\ sdk' \in [Version -> {Absent} \cup SUBSET All]
      /\ holders' \in [Version -> SUBSET Build]
      /\ \A w \in Version : holders'[w] # {} => sdk'[w] # Absent
  <2>1. CASE OpenOld(b)
    BY <1>1, <2>1 DEF OpenOld, Shapes, HeldIsThere
  <2>2. ASSUME NEW f \in All, Unlink(b, f)
        PROVE  /\ sdk' \in [Version -> {Absent} \cup SUBSET All]
               /\ holders' \in [Version -> SUBSET Build]
               /\ \A w \in Version : holders'[w] # {} => sdk'[w] # Absent
    <3>1. b \in holders[v] /\ sdk[v] # Absent /\ sdk[v] \in SUBSET All /\ holders' = holders
      BY <1>1, <2>2 DEF Unlink, Shapes, HeldIsThere
    <3>2. sdk' = [sdk EXCEPT ![v] = sdk[v] \ {f}] /\ sdk[v] \ {f} \in SUBSET All
      BY <2>2, <3>1 DEF Unlink
    <3> QED
      BY <1>1, <3>1, <3>2, FilesFacts DEF Shapes, HeldIsThere
  <2>3. CASE RemoveOld(b)
    BY <1>1, <2>3 DEF RemoveOld, Shapes, HeldIsThere
  <2>4. CASE Rename(b)
    BY <1>1, <2>4 DEF Rename, Shapes, HeldIsThere
  <2> QED
    BY <2>1, <2>2, <2>3, <2>4
<1>3. \E to \in {"unlink", "rename", "preload"} :
        \/ UNCHANGED <<pc, at, tmp>>
        \/ Goto(b, to) /\ (to = "preload" \/ tmp' = tmp)
  BY DEF OpenOld, Unlink, RemoveOld, Rename, Step
<1>4. tmp' \in [Build -> SUBSET All] /\ \A c \in Build \ {b} : tmp'[c] = tmp[c]
  BY DEF OpenOld, Unlink, RemoveOld, Rename, Shapes
<1>5. /\ pc' \in [Build -> Places] /\ at' \in [Build -> 1..Len(Files)]
      /\ \A c \in Build \ {b} : pc'[c] = pc[c] /\ at'[c] = at[c]
      /\ \/ pc'[b] \in {"remove", "unlink", "rename"} /\ tmp'[b] = All
         \/ pc'[b] = "preload"
  BY <1>1, <1>3, GotoStep DEF Places, Shapes
<1>6. \A c \in Build \ {b} : Before(c)' = Before(c)
  BY <1>5 DEF Before
<1>7. Shapes'
  BY <1>1, <1>2, <1>4, <1>5 DEF Shapes
<1>8. Unpacked'
  BY <1>4, <1>5, <1>6 DEF Unpacked
<1>9. Written'
  BY <1>1, <1>5, <1>6 DEF Written
<1>10. HeldIsThere'
  BY <1>1, <1>2, <1>5 DEF HeldIsThere
<1> QED
  BY <1>7, <1>8, <1>9, <1>10

-----------------------------------------------------------------------------
\* The steps that take a build on without touching the cache.
Onward(b) ==
  \/ Download(b) \/ DownloadFails(b) \/ CheckSdk(b) \/ UnpackFails(b) \/ Replace(b)
  \/ OpenFails(b) \/ RemoveFails(b) \/ RenameFails(b) \/ Start(b)
  \/ Skip(b) \/ BeginWalk(b) \/ TruncateList(b) \/ WriteList(b) \/ WriteMarker(b)

LEMMA OnwardStep ==
  ASSUME IInv, NEW b \in Build, Onward(b) PROVE IInv'
<1> USE DEF IInv
<1>1. UNCHANGED <<cache, wanted, cut>>
  BY DEF Onward, Download, DownloadFails, CheckSdk, UnpackFails, Replace, OpenFails,
         RemoveFails, RenameFails, Start, Skip, BeginWalk, TruncateList, WriteList,
         WriteMarker, history
<1>2. PICK to \in Places \ {"write"} :
        /\ Goto(b, to) /\ pc[b] # "write"
        /\ to \in {"replace", "remove", "unlink", "rename"} => pc[b] = "replace"
  BY DEF Onward, Download, DownloadFails, CheckSdk, UnpackFails, Replace, OpenFails,
         RemoveFails, RenameFails, Start, Skip, BeginWalk, TruncateList, WriteList,
         WriteMarker, Step, Fail, Succeed, Places
<1>3. UNCHANGED <<tarball, sdk, tmp, holders>>
  BY <1>1 DEF cache
<1>4. to \in {"replace", "remove", "unlink", "rename"} => tmp[b] = All
  BY <1>2 DEF Unpacked
<1> QED
  BY <1>1, <1>2, <1>3, <1>4, QuietStep DEF Shapes

LEMMA OutputStep ==
  ASSUME IInv, NEW b \in Build, Walk(b) \/ Clear(b) \/ Copy(b) PROVE IInv'
<1>1. UNCHANGED cache /\ UNCHANGED <<wanted, cut>>
  BY DEF Walk, Clear, Copy, history
<1>2. Shapes
  BY DEF IInv
<1>3. CASE Walk(b)
  <2>1. Each(b, "walk", "clear")
    BY <1>3 DEF Walk
  <2> QED
    BY <1>1, <1>2, <2>1, EachStep, SameCache DEF Places
<1>4. CASE Copy(b)
  <2>1. Each(b, "copy", "list")
    BY <1>4 DEF Copy
  <2> QED
    BY <1>1, <1>2, <2>1, EachStep, SameCache DEF Places
<1>5. CASE Clear(b)
  <2>1. pc[b] = "clear" /\ (Goto(b, "copy") \/ UNCHANGED <<pc, at>>)
    BY <1>5 DEF Clear
  <2>2. CASE Goto(b, "copy")
    BY <1>1, <1>2, <2>1, <2>2, GotoStep, SameCache DEF Places
  <2>3. CASE UNCHANGED <<pc, at>>
    BY <1>1, <1>2, <2>3, SameCache DEF Shapes
  <2> QED
    BY <2>1, <2>2, <2>3
<1> QED
  BY <1>3, <1>4, <1>5

LEMMA EditStep ==
  ASSUME IInv, NEW b \in Build, Edit(b) PROVE IInv'
<1>1. pc[b] = "idle" /\ UNCHANGED <<tarball, sdk, tmp, holders, pc, at, cut>>
  BY DEF Edit, cache, history
<1>2. wanted' \in [Build -> Version] /\ \A c \in Build \ {b} : wanted'[c] = wanted[c]
  BY DEF Edit, IInv, Shapes
<1>3. \A c \in Build : Before(c)' = Before(c)
  BY <1>1 DEF Before
<1>4. Shapes' /\ HeldIsThere'
  BY <1>1, <1>2 DEF IInv, Shapes, HeldIsThere
<1>5. Unpacked'
  BY <1>1, <1>3 DEF IInv, Unpacked
<1>6. Written'
  BY <1>1, <1>2, <1>3 DEF IInv, Written
<1> QED
  BY <1>4, <1>5, <1>6 DEF IInv

LEMMA KillStep ==
  ASSUME IInv, NEW b \in Build, Kill(b) PROVE IInv'
<1>1. Goto(b, "idle") /\ UNCHANGED <<tarball, sdk, tmp, wanted>>
  BY DEF Kill
<1>2. /\ holders' \in [Version -> SUBSET Build]
      /\ \A v \in Version : holders'[v] # {} => holders[v] # {}
  BY DEF Kill, IInv, Shapes
<1>3. /\ cut' \in [Version -> BOOLEAN] /\ \A v \in Version : cut[v] => cut'[v]
      /\ pc[b] = "write" => cut'[wanted[b]]
  BY DEF Kill, IInv, Shapes
<1> QED
  BY <1>1, <1>2, <1>3, QuietStep DEF IInv, Shapes, Places

LEMMA StepIInv == IInv /\ [Next]_vars => IInv'
<1> SUFFICES ASSUME IInv, [Next]_vars PROVE IInv'
  OBVIOUS
<1>1. CASE UNCHANGED vars
  <2>1. UNCHANGED cache /\ UNCHANGED <<wanted, cut, pc, at>>
    BY <1>1 DEF vars, history
  <2> QED
    BY <2>1, SameCache DEF IInv, Shapes
<1>2. ASSUME NEW b \in Build, Start(b) \/ Run(b) \/ DownloadFails(b) \/ Kill(b) \/ Edit(b)
      PROVE  IInv'
  BY <1>2, OnwardStep, OutputStep, EditStep, KillStep, TarballSteps, UnpackStep, SdkSteps
     DEF Run, Onward
<1> QED
  BY <1>1, <1>2 DEF Next

LEMMA AlwaysIInv == Spec => []IInv
<1> QED
  BY InitIInv, StepIInv, PTL DEF Spec

\* For every number of builds and kills: an archive that nobody is writing is
\* whole unless a writer of it was killed (ensure_go_tarball).
THEOREM TarballSettlesAlways == Spec => []TarballSettles
<1>1. IInv => TarballSettles
  BY DEF IInv, Written, TarballSettles, Whole
<1> QED
  BY <1>1, AlwaysIInv, PTL

\* For every number of builds, kills and failures: an SDK is renamed into the
\* cache whole (ensure_go_sdk).
THEOREM ArrivesWholeAlways == Spec => ArrivesWhole
<1> DEFINE Arrives == \A v \in Version :
       sdk'[v] # sdk[v] => \/ sdk'[v] = Absent
                           \/ Whole(sdk'[v])
                           \/ sdk[v] # Absent /\ sdk'[v] \subseteq sdk[v]
<1>1. IInv /\ [Next]_vars => [Arrives]_vars
  <2> SUFFICES ASSUME IInv, Next PROVE Arrives
    OBVIOUS
  <2>1. ASSUME NEW b \in Build, Start(b) \/ Run(b) \/ DownloadFails(b) \/ Kill(b) \/ Edit(b)
        PROVE  Arrives
    <3>1. sdk' = sdk \/ (\E f \in All : Unlink(b, f)) \/ RemoveOld(b) \/ Rename(b)
      BY <2>1 DEF Run, Start, FindTarball, Download, CreateTarball, WriteTarball, CheckSdk,
         Unpack, UnpackFails, Replace, OpenOld, OpenFails, RemoveFails, RenameFails, Skip,
         BeginWalk, Walk, Clear, Copy, TruncateList, WriteList, WriteMarker, DownloadFails,
         Kill, Edit, cache
    <3>2. CASE sdk' = sdk
      BY <3>2
    <3>3. ASSUME NEW f \in All, Unlink(b, f) PROVE Arrives
      <4>1. wanted[b] \in Version /\ sdk[wanted[b]] # Absent
        BY <3>3 DEF Unlink, IInv, Shapes, HeldIsThere
      <4> QED
        BY <3>3, <4>1 DEF Unlink, IInv, Shapes
    <3>4. CASE RemoveOld(b)
      BY <3>4 DEF RemoveOld, IInv, Shapes
    <3>5. CASE Rename(b)
      <4>1. tmp[b] = All /\ wanted[b] \in Version
        BY <3>5 DEF Rename, Step, IInv, Shapes, Unpacked
      <4> QED
        BY <3>5, <4>1 DEF Rename, IInv, Shapes, Whole
    <3> QED
      BY <3>1, <3>2, <3>3, <3>4, <3>5
  <2> QED
    BY <2>1 DEF Next
<1> QED
  BY <1>1, AlwaysIInv, PTL DEF Spec, ArrivesWhole

-----------------------------------------------------------------------------
(***************************************************************************)
(* As long as builds of one version have run one at a time only, wherever  *)
(* they were killed: what a build may rely on at each of its places.       *)
(***************************************************************************)
Trees == UNION {[S -> Version] : S \in SUBSET Sources}
Dirs == [preload : {Absent} \cup SUBSET Sources, source : {Absent} \cup Trees,
         marker : {Absent} \cup Version]

Kept ==
  /\ out \in [Build -> Dirs] /\ packages \in [Build -> SUBSET Sources]
  /\ stale \in [Build -> BOOLEAN] /\ torn \in [Build -> BOOLEAN]
  /\ failed \in [Build -> {"no", "network", "archive", "missing", "replaced"}]
  /\ overlapped \in BOOLEAN
  /\ \A b \in Build : pc[b] = "copy" => out[b].source # Absent

ReadsArchive == {"tarball", "download", "create", "write", "unpack", "replace", "remove", "unlink"}
HasRead == {"clear", "copy", "list", "listed", "mark"}

Exclusive ==
  \A b, c \in Build : b # c /\ pc[b] # "idle" /\ pc[c] # "idle" => wanted[b] # wanted[c]

\* A removal that was killed began with an SDK that had no version file.
NotHalf == \A v \in Version : sdk[v] = Absent \/ sdk[v] = All \/ VersionFile \notin sdk[v]

\* What a build has found in the cache stays as it was found.
Uses(b) ==
  /\ pc[b] \in ReadsArchive => ~Valid(sdk[wanted[b]])
  /\ pc[b] = "unpack" => tarball[wanted[b]] # Absent
  /\ pc[b] = "remove" => sdk[wanted[b]] # Absent
  /\ pc[b] = "unlink" => b \in holders[wanted[b]]
  /\ pc[b] = "rename" => sdk[wanted[b]] = Absent
  /\ pc[b] \in {"preload", "walk"} => sdk[wanted[b]] = All

RightFor(b, v) == out[b].preload = Sources /\ out[b].source = [f \in Sources |-> v]

\* What a build has read and written so far.
ReadSoFar(b) ==
  /\ pc[b] # "idle" => stale[b]
  /\ pc[b] \notin HasRead \cup {"idle", "walk"} => packages[b] = {}
  /\ pc[b] = "walk" => packages[b] = Before(b) \cap Sources
  /\ pc[b] \in HasRead => packages[b] = Sources
WrittenSoFar(b) ==
  /\ pc[b] = "copy" => out[b].source = [f \in Before(b) \cap Sources |-> wanted[b]]
  /\ pc[b] \in {"list", "listed", "mark"} => out[b].source = [f \in Sources |-> wanted[b]]
  /\ pc[b] = "mark" => out[b].preload = Sources /\ out[b].marker = Absent

\* A marker speaks the truth except while its output is being replaced; then
\* it names another version.
MarkerTrue(b) ==
  ~torn[b] =>
    /\ pc[b] \in WritesOutput \cup {"walk"} => out[b].marker # wanted[b]
    /\ out[b].marker # Absent => pc[b] \in WritesOutput \/ RightFor(b, out[b].marker)
    /\ ~stale[b] => RightFor(b, wanted[b])

Own(b) == ReadSoFar(b) /\ WrittenSoFar(b) /\ MarkerTrue(b)

Alone == Exclusive /\ NotHalf /\ \A b \in Build : Uses(b) /\ Own(b)

JInv == IInv /\ Kept /\ FailuresHaveCauses /\ (~overlapped => Alone)

-----------------------------------------------------------------------------
\* What a step of one build leaves alone.
Untouched(c) ==
  /\ pc'[c] = pc[c] /\ at'[c] = at[c] /\ wanted'[c] = wanted[c] /\ packages'[c] = packages[c]
  /\ stale'[c] = stale[c] /\ failed'[c] = failed[c] /\ out'[c] = out[c] /\ torn'[c] = torn[c]

StepOf(b) == Start(b) \/ Run(b) \/ DownloadFails(b) \/ Kill(b) \/ Edit(b)

Checks(b)   == Download(b) \/ DownloadFails(b) \/ CheckSdk(b) \/ Replace(b) \/ UnpackFails(b)
               \/ OpenFails(b) \/ RemoveFails(b) \/ RenameFails(b)
Archives(b) == FindTarball(b) \/ CreateTarball(b) \/ WriteTarball(b) \/ Unpack(b)
Replaces(b) == OpenOld(b) \/ (\E f \in All : Unlink(b, f)) \/ RemoveOld(b) \/ Rename(b)
Outputs(b)  == Walk(b) \/ Clear(b) \/ Copy(b) \/ TruncateList(b) \/ WriteList(b) \/ WriteMarker(b)
Decides(b)  == Skip(b) \/ BeginWalk(b)
Users(b)    == Start(b) \/ Kill(b) \/ Edit(b)

LEMMA StepGroups ==
  ASSUME NEW b \in Build, StepOf(b)
  PROVE  Checks(b) \/ Archives(b) \/ Replaces(b) \/ Outputs(b) \/ Decides(b) \/ Users(b)
  BY DEF StepOf, Run, Checks, Archives, Replaces, Outputs, Decides, Users

LEMMA OthersUntouched ==
  ASSUME IInv, Kept, NEW b \in Build, StepOf(b), NEW c \in Build \ {b} PROVE Untouched(c)
<1>1. Shapes
  BY DEF IInv
<1>2. CASE Checks(b)
  BY <1>1, <1>2 DEF Checks, Download, DownloadFails, CheckSdk, Replace, UnpackFails, OpenFails,
     RemoveFails, RenameFails, Step, Fail, Goto, Untouched, Shapes, Kept, history
<1>3. CASE Archives(b)
  BY <1>1, <1>3 DEF Archives, FindTarball, CreateTarball, WriteTarball, Unpack, Each, Step, Goto,
     Untouched, Shapes, Kept, history
<1>4. CASE Replaces(b)
  BY <1>1, <1>4 DEF Replaces, OpenOld, Unlink, RemoveOld, Rename, Step, Goto,
     Untouched, Shapes, Kept, history
<1>5. CASE Outputs(b)
  BY <1>1, <1>5 DEF Outputs, Walk, Clear, Copy, TruncateList, WriteList, WriteMarker, Each, Step,
     Goto, Succeed, Untouched, Shapes, Kept, history
<1>6. CASE Decides(b)
  BY <1>1, <1>6 DEF Decides, Skip, BeginWalk, Step, Goto, Succeed, Untouched, Shapes, Kept, history
<1>7. CASE Users(b)
  BY <1>1, <1>7 DEF Users, Start, Kill, Edit, Step, Goto, Untouched, Shapes, Kept, history
<1> QED
  BY <1>2, <1>3, <1>4, <1>5, <1>6, <1>7, StepGroups

\* What a step of one build does to the cache and to the history.
LEMMA OneVersionOnly ==
  ASSUME IInv, Kept, NEW b \in Build, StepOf(b)
  PROVE  /\ \A v \in Version \ {wanted[b]} :
              /\ sdk'[v] = sdk[v] /\ tarball'[v] = tarball[v]
              /\ \A c \in Build \ {b} : c \in holders[v] => c \in holders'[v]
         /\ pc[b] = "idle" => UNCHANGED cache
         /\ overlapped => overlapped'
         /\ overlapped' \in BOOLEAN
         /\ \A v \in Version : cut[v] => cut'[v]
         /\ pc'[b] # "idle" =>
              /\ wanted'[b] = wanted[b]
              /\ \/ pc[b] # "idle"
                 \/ \A c \in Build \ {b} : pc[c] # "idle" /\ wanted[c] = wanted[b] => overlapped'
<1>1. Shapes
  BY DEF IInv
<1>2. CASE Checks(b)
  BY <1>1, <1>2 DEF Checks, Download, DownloadFails, CheckSdk, Replace, UnpackFails, OpenFails,
     RemoveFails, RenameFails, Step, Fail, Goto, Shapes, Kept, history, cache
<1>3. CASE Archives(b)
  <2>1. /\ pc[b] \in {"tarball", "create", "write", "unpack"} /\ wanted' = wanted
        /\ UNCHANGED <<sdk, holders, overlapped, cut>>
    BY <1>3 DEF Archives, FindTarball, CreateTarball, WriteTarball, Unpack, Each, Step, history
  <2>2. \A v \in Version \ {wanted[b]} : tarball'[v] = tarball[v]
    BY <1>1, <1>3 DEF Archives, FindTarball, CreateTarball, WriteTarball, Unpack, Shapes
  <2> QED
    BY <2>1, <2>2 DEF Kept
<1>4. CASE Replaces(b)
  <2>1. /\ pc[b] \in {"remove", "unlink", "rename"} /\ wanted' = wanted
        /\ UNCHANGED <<tarball, overlapped, cut>>
    BY <1>4 DEF Replaces, OpenOld, Unlink, RemoveOld, Rename, Step, history
  <2>2. \A v \in Version \ {wanted[b]} : sdk'[v] = sdk[v]
    BY <1>1, <1>4 DEF Replaces, OpenOld, Unlink, RemoveOld, Rename, Shapes
  <2>3. \A v \in Version \ {wanted[b]} : holders'[v] = holders[v]
    BY <1>1, <1>4 DEF Replaces, OpenOld, Unlink, RemoveOld, Rename, Shapes
  <2> QED
    BY <2>1, <2>2, <2>3 DEF Kept
<1>5. CASE Outputs(b)
  BY <1>1, <1>5 DEF Outputs, Walk, Clear, Copy, TruncateList, WriteList, WriteMarker, Each, Step,
     Goto, Succeed, Shapes, Kept, history, cache
<1>6. CASE Decides(b)
  BY <1>1, <1>6 DEF Decides, Skip, BeginWalk, Step, Goto, Succeed, Shapes, Kept, history, cache
<1>7. CASE Start(b)
  <2>1. pc[b] = "idle" /\ UNCHANGED cache /\ wanted' = wanted /\ cut' = cut
        /\ overlapped' = (overlapped \/ \E c \in Build \ {b} : pc[c] # "idle" /\ wanted[c] = wanted[b])
    BY <1>7 DEF Start, Step
  <2>2. overlapped' \in BOOLEAN
    BY <2>1, Zenon
  <2>3. \A c \in Build \ {b} : pc[c] # "idle" /\ wanted[c] = wanted[b] => overlapped'
    BY <2>1, Zenon
  <2>4. overlapped => overlapped'
    BY <2>1, Zenon
  <2> QED
    BY <2>1, <2>2, <2>3, <2>4 DEF cache
<1>8. CASE Kill(b)
  <2>1. pc[b] # "idle" /\ pc'[b] = "idle" /\ UNCHANGED <<tarball, sdk, overlapped>>
    BY <1>1, <1>8, GotoStep DEF Kill, Places
  <2>2. holders' = [v \in Version |-> holders[v] \ {b}]
    BY <1>8 DEF Kill
  <2>3. \A v \in Version : cut[v] => cut'[v]
    <3>1. cut' = [cut EXCEPT ![wanted[b]] = cut[wanted[b]] \/ pc[b] = "write"]
      BY <1>8 DEF Kill
    <3> QED
      BY <1>1, <3>1 DEF Shapes
  <2> QED
    BY <2>1, <2>2, <2>3 DEF Kept
<1>9. CASE Edit(b)
  BY <1>1, <1>9 DEF Edit, Shapes, Kept, history, cache
<1> QED
  BY <1>2, <1>3, <1>4, <1>5, <1>6, <1>7, <1>8, <1>9, StepGroups DEF Users

LEMMA InitJInv == Init => JInv
<1> SUFFICES ASSUME Init PROVE JInv
  OBVIOUS
<1>1. \A b \in Build : /\ pc[b] = "idle" /\ packages[b] = {} /\ stale[b] = TRUE /\ failed[b] = "no"
                       /\ torn[b] = FALSE
                       /\ out[b] = [preload |-> Absent, source |-> Absent, marker |-> Absent]
  BY DEF Init
<1>2. Kept
  <2>1. out \in [Build -> Dirs]
    BY DEF Init, Dirs
  <2> QED
    BY <2>1 DEF Init, Kept
<1>3. \A b \in Build : Uses(b) /\ Own(b)
  BY <1>1 DEF Uses, Own, ReadSoFar, WrittenSoFar, MarkerTrue, ReadsArchive, HasRead, WritesOutput
<1>4. Exclusive /\ NotHalf
  BY <1>1 DEF Exclusive, NotHalf, Init
<1>5. FailuresHaveCauses
  BY <1>1 DEF FailuresHaveCauses
<1> QED
  BY <1>2, <1>3, <1>4, <1>5, InitIInv DEF JInv, Alone

-----------------------------------------------------------------------------
LEMMA Trees0 ==
  /\ Absent \notin Trees /\ Sources \subseteq All /\ VersionFile \in All /\ VersionFile \notin Sources
  /\ All = Sources \cup {VersionFile}
  /\ \A S \in SUBSET Sources, v \in Version : [f \in S |-> v] \in Trees
  /\ \A t \in Trees : t = [g \in DOMAIN t |-> t[g]] /\ DOMAIN t \subseteq Sources
<1>1. Sources \subseteq All /\ VersionFile \in All /\ VersionFile \notin Sources /\ All = Sources \cup {VersionFile}
  BY BuildScriptAssumption DEF All, Sources
<1>2. Absent \notin Trees
  BY <1>1, BuildScriptAssumption DEF Trees, All
<1> QED
  BY <1>1, <1>2 DEF Trees

LEMMA TreePlus ==
  ASSUME NEW t \in Trees, NEW f \in Sources, NEW v \in Version
  PROVE  [g \in DOMAIN t \cup {f} |-> IF g = f THEN v ELSE t[g]] \in Trees
<1>1. PICK S \in SUBSET Sources : t \in [S -> Version]
  BY DEF Trees
<1>2. [g \in S \cup {f} |-> IF g = f THEN v ELSE t[g]] \in [S \cup {f} -> Version]
  BY <1>1
<1>3. DOMAIN t = S /\ S \cup {f} \in SUBSET Sources
  BY <1>1
<1> QED
  BY <1>2, <1>3 DEF Trees

LEMMA TreeMinus ==
  ASSUME NEW t \in Trees, NEW f PROVE [g \in DOMAIN t \ {f} |-> t[g]] \in Trees
<1>1. PICK S \in SUBSET Sources : t \in [S -> Version]
  BY DEF Trees
<1>2. [g \in S \ {f} |-> t[g]] \in [S \ {f} -> Version]
  BY <1>1
<1>3. DOMAIN t = S /\ S \ {f} \in SUBSET Sources
  BY <1>1
<1> QED
  BY <1>2, <1>3 DEF Trees

\* Types.
LEMMA KeptStep ==
  ASSUME IInv, Kept, NEW b \in Build, StepOf(b) PROVE Kept'
<1>1. Shapes
  BY DEF IInv
<1>2. wanted[b] \in Version /\ out[b] \in Dirs /\ packages[b] \in SUBSET Sources
  BY <1>1 DEF Shapes, Kept
<1>3. out' \in [Build -> Dirs]
  <2>1. UNCHANGED out \/ Outputs(b)
    BY StepGroups DEF Checks, Archives, Replaces, Outputs, Decides, Users, Download, DownloadFails,
       CheckSdk, Replace, UnpackFails, OpenFails, RemoveFails, RenameFails, FindTarball,
       CreateTarball, WriteTarball, Unpack, OpenOld, Unlink, RemoveOld, Rename, Skip, BeginWalk,
       Start, Kill, Edit
  <2>2. ASSUME NEW source \in {Absent} \cup Trees, out' = [out EXCEPT ![b].source = source]
        PROVE  out' \in [Build -> Dirs]
    BY <1>2, <2>2 DEF Kept, Dirs
  <2>3. CASE Walk(b)
    BY <2>3 DEF Walk, Kept
  <2>4. CASE Clear(b)
    <3>1. <<>> \in Trees
      BY DEF Trees
    <3>2. CASE out' = [out EXCEPT ![b].source = <<>>]
      BY <2>2, <3>1, <3>2
    <3>3. ASSUME out[b].source # Absent, NEW f \in DOMAIN out[b].source,
                 out' = [out EXCEPT ![b].source = [g \in DOMAIN out[b].source \ {f} |-> out[b].source[g]]]
          PROVE  out' \in [Build -> Dirs]
      <4> DEFINE t == [g \in DOMAIN out[b].source \ {f} |-> out[b].source[g]]
      <4>1. out[b].source \in Trees
        BY <1>2, <3>3 DEF Dirs
      <4>2. t \in Trees
        BY <4>1, TreeMinus
      <4> HIDE DEF t
      <4> QED
        BY <2>2, <3>3, <4>2 DEF t
    <3> QED
      BY <2>4, <3>2, <3>3 DEF Clear
  <2>5. CASE Copy(b)
    <3>1. pc[b] = "copy" /\ File(b) \in All
      BY <1>1, <2>5, FilesFacts DEF Copy, Each, File, Shapes
    <3>2. CASE File(b) \notin packages[b]
      BY <2>5, <3>2 DEF Copy, Kept
    <3>3. CASE File(b) \in packages[b]
      <4> DEFINE old == out[b].source
                 t == [g \in DOMAIN old \cup {File(b)} |-> IF g = File(b) THEN wanted[b] ELSE old[g]]
      <4>1. out' = [out EXCEPT ![b].source = t]
        BY <2>5, <3>3 DEF Copy
      <4>2. old \in Trees /\ File(b) \in Sources
        BY <1>2, <2>5, <3>1, <3>3 DEF Kept, Dirs
      <4>3. t \in Trees
        BY <1>2, <4>2, TreePlus
      <4> HIDE DEF t
      <4> QED
        BY <2>2, <4>1, <4>3
    <3> QED
      BY <3>2, <3>3
  <2>6. CASE TruncateList(b) \/ WriteList(b) \/ WriteMarker(b)
    BY <1>2, <2>6 DEF TruncateList, WriteList, WriteMarker, Kept, Dirs
  <2> QED
    BY <2>1, <2>3, <2>4, <2>5, <2>6 DEF Outputs, Kept
<1>4. packages' \in [Build -> SUBSET Sources]
  <2>1. UNCHANGED packages \/ Start(b) \/ Walk(b)
    BY StepGroups DEF Checks, Archives, Replaces, Outputs, Decides, Users, Download, DownloadFails,
       CheckSdk, Replace, UnpackFails, OpenFails, RemoveFails, RenameFails, FindTarball,
       CreateTarball, WriteTarball, Unpack, OpenOld, Unlink, RemoveOld, Rename, Skip, BeginWalk,
       Kill, Edit, Clear, Copy, TruncateList, WriteList, WriteMarker
  <2>2. CASE Start(b)
    BY <2>2 DEF Start, Kept
  <2>3. CASE Walk(b)
    <3> DEFINE new == {File(b)} \cap sdk[wanted[b]] \cap Sources
    <3>1. packages' = [packages EXCEPT ![b] = IF sdk[wanted[b]] = Absent THEN @ ELSE @ \cup new]
      BY <2>3 DEF Walk
    <3>2. new \subseteq Sources
      OBVIOUS
    <3> HIDE DEF new
    <3> QED
      BY <1>2, <3>1, <3>2 DEF Kept
  <2> QED
    BY <2>1, <2>2, <2>3 DEF Kept
<1>5. /\ stale' \in [Build -> BOOLEAN] /\ torn' \in [Build -> BOOLEAN]
      /\ failed' \in [Build -> {"no", "network", "archive", "missing", "replaced"}]
  <2>1. CASE Checks(b)
    BY <2>1 DEF Checks, Download, DownloadFails, CheckSdk, Replace, UnpackFails, OpenFails,
       RemoveFails, RenameFails, Fail, Kept, history
  <2>2. CASE Archives(b) \/ Replaces(b)
    BY <2>2 DEF Archives, FindTarball, CreateTarball, WriteTarball, Unpack, Replaces, OpenOld,
       Unlink, RemoveOld, Rename, Kept, history
  <2>3. CASE Outputs(b) \/ Decides(b)
    BY <2>3 DEF Outputs, Walk, Clear, Copy, TruncateList, WriteList, WriteMarker, Decides, Skip,
       BeginWalk, Succeed, Kept, history
  <2>4. CASE Users(b)
    <3>1. CASE Start(b) \/ Edit(b)
      BY <3>1 DEF Start, Edit, Kept, history
    <3>2. CASE Kill(b)
      BY <3>2 DEF Kill, Kept
    <3> QED
      BY <2>4, <3>1, <3>2 DEF Users
  <2> QED
    BY <2>1, <2>2, <2>3, <2>4, StepGroups
<1>6. \A c \in Build : pc'[c] = "copy" => out'[c].source # Absent
  <2>1. \A c \in Build \ {b} : pc'[c] = "copy" => out'[c].source # Absent
    BY OthersUntouched DEF Untouched, Kept
  <2>2. pc'[b] = "copy" => out'[b].source # Absent
    <3>1. CASE Checks(b) \/ Archives(b) \/ Replaces(b) \/ Decides(b) \/ Users(b)
      BY <1>1, <3>1, GotoStep DEF Checks, Archives, Replaces, Decides, Users, Download, DownloadFails,
         CheckSdk, Replace, UnpackFails, OpenFails, RemoveFails, RenameFails, FindTarball,
         CreateTarball, WriteTarball, Unpack, OpenOld, Unlink, RemoveOld, Rename, Skip, BeginWalk,
         Start, Kill, Edit, Step, Each, Goto, Fail, Succeed, Shapes
    <3>2. CASE Walk(b) \/ TruncateList(b) \/ WriteList(b) \/ WriteMarker(b)
      BY <1>1, <3>2 DEF Walk, TruncateList, WriteList, WriteMarker, Step, Each, Goto, Succeed, Shapes
    <3>3. CASE Clear(b)
      <4>1. <<>> # Absent
        <5>1. <<>> \in Trees
          BY DEF Trees
        <5> QED
          BY <5>1, Trees0
      <4>2. pc'[b] = "copy" => out' = [out EXCEPT ![b].source = <<>>]
        BY <1>1, <3>3 DEF Clear, Shapes
      <4> QED
        BY <1>2, <4>1, <4>2 DEF Kept, Dirs
    <3>4. CASE Copy(b)
      <4>1. pc[b] = "copy" /\ out[b].source # Absent
        BY <3>4 DEF Copy, Each, Kept
      <4>2. CASE out' = out
        BY <4>1, <4>2
      <4>3. CASE File(b) \in packages[b]
        <5> DEFINE old == out[b].source
                   t == [g \in DOMAIN old \cup {File(b)} |-> IF g = File(b) THEN wanted[b] ELSE old[g]]
        <5>1. out' = [out EXCEPT ![b].source = t]
          BY <3>4, <4>3 DEF Copy
        <5>2. old \in Trees /\ File(b) \in Sources
          BY <1>2, <4>1, <4>3 DEF Dirs
        <5>3. t \in Trees
          BY <1>2, <5>2, TreePlus
        <5> HIDE DEF t
        <5> QED
          BY <1>2, <5>1, <5>3, Trees0 DEF Kept, Dirs
      <4> QED
        BY <3>4, <4>2, <4>3 DEF Copy
    <3> QED
      BY <3>1, <3>2, <3>3, <3>4, StepGroups DEF Outputs
  <2> QED
    BY <2>1, <2>2
<1>7. overlapped' \in BOOLEAN
  BY OneVersionOnly
<1> QED
  BY <1>3, <1>4, <1>5, <1>6, <1>7 DEF Kept

-----------------------------------------------------------------------------
\* The others keep what they rely on.
LEMMA OthersRely ==
  ASSUME IInv, Kept, NEW b \in Build, StepOf(b), ~overlapped', Alone
  PROVE  Exclusive' /\ \A c \in Build \ {b} : Uses(c)' /\ Own(c)'
<1>1. Shapes
  BY DEF IInv
<1>2. ASSUME NEW c \in Build \ {b} PROVE Untouched(c)
  BY <1>2, OthersUntouched
<1>3. ASSUME NEW c \in Build \ {b}, pc[c] # "idle"
      PROVE  /\ sdk'[wanted[c]] = sdk[wanted[c]] /\ tarball'[wanted[c]] = tarball[wanted[c]]
             /\ c \in holders[wanted[c]] => c \in holders'[wanted[c]]
  <2>1. wanted[c] \in Version
    BY <1>1, <1>3 DEF Shapes
  <2>2. CASE pc[b] = "idle"
    BY <2>2, OneVersionOnly DEF cache
  <2>3. CASE pc[b] # "idle"
    <3>1. wanted[c] # wanted[b]
      BY <1>3, <2>3 DEF Alone, Exclusive
    <3> QED
      BY <1>3, <2>1, <3>1, OneVersionOnly
  <2> QED
    BY <2>2, <2>3
<1>4. ASSUME NEW c \in Build \ {b} PROVE Uses(c)'
  <2>1. Uses(c) /\ Untouched(c)
    BY <1>2, <1>4 DEF Alone
  <2>2. CASE pc[c] = "idle"
    BY <2>1, <2>2 DEF Uses, Untouched, ReadsArchive
  <2>3. CASE pc[c] # "idle"
    BY <1>3, <1>4, <2>1, <2>3 DEF Uses, Untouched, Valid
  <2> QED
    BY <2>2, <2>3
<1>5. ASSUME NEW c \in Build \ {b} PROVE Own(c)'
  <2>1. Own(c) /\ Untouched(c)
    BY <1>2, <1>5 DEF Alone
  <2>2. Before(c)' = Before(c)
    BY <2>1 DEF Before, Untouched
  <2>3. ReadSoFar(c)'
    BY <2>1, <2>2 DEF Own, ReadSoFar, Untouched
  <2>4. WrittenSoFar(c)'
    BY <2>1, <2>2 DEF Own, WrittenSoFar, Untouched
  <2>5. \A v : RightFor(c, v)' <=> RightFor(c, v)
    BY <2>1 DEF RightFor, Untouched
  <2>6. MarkerTrue(c)'
    <3>1. RightFor(c, out[c].marker)' <=> RightFor(c, out[c].marker)
      BY <2>1 DEF RightFor, Untouched
    <3>2. RightFor(c, wanted[c])' <=> RightFor(c, wanted[c])
      BY <2>1 DEF RightFor, Untouched
    <3> QED
      BY <2>1, <3>1, <3>2 DEF Own, MarkerTrue, Untouched
  <2> QED
    BY <2>3, <2>4, <2>6 DEF Own
<1>6. Exclusive'
  <2>1. \A c \in Build \ {b} : pc'[c] = pc[c] /\ wanted'[c] = wanted[c]
    BY <1>2 DEF Untouched
  <2>2. ASSUME NEW c \in Build \ {b}, pc'[b] # "idle", pc[c] # "idle" PROVE wanted'[b] # wanted[c]
    <3>1. wanted'[b] = wanted[b]
      BY <2>2, OneVersionOnly
    <3>2. CASE pc[b] # "idle"
      BY <2>2, <3>1, <3>2 DEF Alone, Exclusive
    <3>3. CASE pc[b] = "idle"
      BY <2>2, <3>1, <3>3, OneVersionOnly
    <3> QED
      BY <3>2, <3>3
  <2> QED
    BY <2>1, <2>2 DEF Alone, Exclusive
<1> QED
  BY <1>4, <1>5, <1>6

\* A build before it has read the SDK has written nothing.
LEMMA OwnEarly ==
  ASSUME NEW b \in Build, Own(b), Shapes, pc[b] \notin HasRead \cup {"idle", "walk"},
         pc'[b] \notin HasRead \cup {"walk"},
         UNCHANGED <<out, packages, stale, torn, wanted>>
  PROVE  Own(b)'
<1>1. ReadSoFar(b)'
  BY DEF Own, ReadSoFar, HasRead
<1>2. WrittenSoFar(b)'
  BY DEF WrittenSoFar, HasRead
<1>3. MarkerTrue(b)'
  BY DEF Own, MarkerTrue, HasRead, WritesOutput, RightFor
<1> QED
  BY <1>1, <1>2, <1>3 DEF Own

LEMMA ChecksRely ==
  ASSUME IInv, Kept, NEW b \in Build, Checks(b), Alone
  PROVE  Uses(b)' /\ Own(b)' /\ NotHalf'
<1>1. /\ Shapes /\ Uses(b) /\ Own(b) /\ NotHalf /\ wanted[b] \in Version
      /\ UNCHANGED <<sdk, tarball, holders, out, packages, stale, torn, wanted>>
  BY DEF IInv, Alone, Shapes, Checks, Download, DownloadFails, CheckSdk, Replace, UnpackFails,
     OpenFails, RemoveFails, RenameFails, Fail, cache, history
<1>2. pc[b] \notin HasRead \cup {"idle", "walk"} /\ pc'[b] \notin HasRead \cup {"walk"} /\ Uses(b)'
  <2>1. CASE Download(b) \/ DownloadFails(b) \/ UnpackFails(b) \/ OpenFails(b) \/ RemoveFails(b)
             \/ RenameFails(b)
    BY <1>1, <2>1 DEF Download, DownloadFails, UnpackFails, OpenFails, RemoveFails, RenameFails,
       Fail, Step, Goto, Uses, Shapes, HasRead, ReadsArchive
  <2>2. CASE CheckSdk(b)
    <3>1. Valid(sdk[wanted[b]]) => sdk[wanted[b]] = All
      BY <1>1 DEF NotHalf, Valid
    <3>2. pc[b] = "check" /\ pc'[b] = IF Valid(sdk[wanted[b]]) THEN "preload" ELSE "tarball"
      BY <1>1, <2>2 DEF CheckSdk, Step, Goto, Shapes
    <3> QED
      BY <1>1, <3>1, <3>2 DEF Uses, ReadsArchive, HasRead
  <2>3. CASE Replace(b)
    <3>1. pc[b] = "replace" /\ pc'[b] = IF sdk[wanted[b]] = Absent THEN "rename" ELSE "remove"
      BY <1>1, <2>3 DEF Replace, Step, Goto, Shapes
    <3> QED
      BY <1>1, <3>1 DEF Uses, ReadsArchive, HasRead
  <2> QED
    BY <2>1, <2>2, <2>3 DEF Checks
<1> QED
  BY <1>1, <1>2, OwnEarly DEF NotHalf

LEMMA ArchivesRely ==
  ASSUME IInv, Kept, NEW b \in Build, Archives(b), Alone
  PROVE  Uses(b)' /\ Own(b)' /\ NotHalf'
<1>1. /\ Shapes /\ Uses(b) /\ Own(b) /\ NotHalf /\ wanted[b] \in Version
      /\ UNCHANGED <<sdk, holders, out, packages, stale, torn, wanted>>
  BY DEF IInv, Alone, Shapes, Archives, FindTarball, CreateTarball, WriteTarball, Unpack, history
<1>2. /\ pc[b] \in {"tarball", "create", "write", "unpack"}
      /\ pc'[b] \in {"download", "write", "unpack", "replace"}
  BY <1>1 DEF Archives, FindTarball, CreateTarball, WriteTarball, Unpack, Step, Each, Goto, Shapes
<1>3. pc'[b] = "unpack" => tarball'[wanted[b]] # Absent
  <2>1. CASE FindTarball(b)
    BY <1>1, <2>1 DEF FindTarball, Step, Goto, Shapes
  <2>2. CASE CreateTarball(b)
    BY <1>1, <2>2 DEF CreateTarball, Step, Goto, Shapes
  <2>3. CASE WriteTarball(b)
    <3>1. pc[b] = "write" /\ File(b) \in All
      BY <1>1, <2>3, FilesFacts DEF WriteTarball, Each, File, Shapes
    <3>2. tarball[wanted[b]] \in SUBSET All
      BY <1>1, <3>1 DEF IInv, HeldIsThere, Shapes
    <3>3. tarball'[wanted[b]] = tarball[wanted[b]] \cup {File(b)}
      BY <1>1, <2>3 DEF WriteTarball, Shapes
    <3>4. tarball'[wanted[b]] \in SUBSET All
      BY <3>1, <3>2, <3>3
    <3> QED
      BY <3>4, FilesFacts
  <2>4. CASE Unpack(b)
    BY <1>1, <2>4 DEF Unpack, Each, Uses
  <2> QED
    BY <2>1, <2>2, <2>3, <2>4 DEF Archives
<1>4. Uses(b)'
  BY <1>1, <1>2, <1>3 DEF Uses, ReadsArchive
<1>5. Own(b)'
  BY <1>1, <1>2, OwnEarly DEF HasRead
<1> QED
  BY <1>1, <1>4, <1>5 DEF NotHalf

LEMMA ReplacesRely ==
  ASSUME IInv, Kept, NEW b \in Build, Replaces(b), Alone
  PROVE  Uses(b)' /\ Own(b)' /\ NotHalf'
<1>1. /\ Shapes /\ Uses(b) /\ Own(b) /\ NotHalf /\ wanted[b] \in Version
      /\ UNCHANGED <<tarball, out, packages, stale, torn, wanted>>
  BY DEF IInv, Alone, Shapes, Replaces, OpenOld, Unlink, RemoveOld, Rename, history
<1>2. pc[b] \in {"remove", "unlink", "rename"} /\ pc'[b] \in {"unlink", "rename", "preload"}
  BY <1>1 DEF Replaces, OpenOld, Unlink, RemoveOld, Rename, Step, Goto, Shapes
<1>3. Uses(b)' /\ NotHalf'
  <2>1. CASE OpenOld(b)
    BY <1>1, <2>1 DEF OpenOld, Goto, Shapes, Uses, ReadsArchive, NotHalf
  <2>2. ASSUME NEW f \in All, Unlink(b, f) PROVE Uses(b)' /\ NotHalf'
    <3>1. pc[b] = "unlink" /\ pc' = pc /\ b \in holders[wanted[b]] /\ holders' = holders
          /\ sdk' = [sdk EXCEPT ![wanted[b]] = sdk[wanted[b]] \ {f}]
      BY <2>2 DEF Unlink
    <3>2. sdk[wanted[b]] # Absent
      BY <1>1, <3>1 DEF IInv, HeldIsThere
    <3>3. VersionFile \notin sdk[wanted[b]]
      BY <1>1, <3>1, <3>2 DEF Uses, ReadsArchive, Valid
    <3>4. /\ sdk'[wanted[b]] = sdk[wanted[b]] \ {f}
          /\ \A v \in Version \ {wanted[b]} : sdk'[v] = sdk[v]
      BY <1>1, <3>1 DEF Shapes
    <3>5. NotHalf'
      BY <1>1, <3>3, <3>4 DEF NotHalf
    <3>6. Uses(b)'
      BY <1>1, <3>1, <3>3, <3>4 DEF Uses, ReadsArchive, Valid
    <3> QED
      BY <3>5, <3>6
  <2>3. CASE RemoveOld(b)
    BY <1>1, <2>3 DEF RemoveOld, Step, Goto, Shapes, Uses, ReadsArchive, NotHalf, Valid
  <2>4. CASE Rename(b)
    <3>1. pc[b] = "rename" /\ tmp[b] = All
      BY <2>4 DEF Rename, Step, IInv, Unpacked
    <3>2. pc'[b] = "preload" /\ sdk'[wanted[b]] = All
          /\ \A v \in Version \ {wanted[b]} : sdk'[v] = sdk[v]
      BY <1>1, <2>4, <3>1 DEF Rename, Step, Goto, Shapes
    <3> QED
      BY <1>1, <3>2 DEF Uses, ReadsArchive, NotHalf
  <2> QED
    BY <2>1, <2>2, <2>3, <2>4 DEF Replaces
<1>4. Own(b)'
  BY <1>1, <1>2, OwnEarly DEF HasRead
<1> QED
  BY <1>3, <1>4

-----------------------------------------------------------------------------
LEMMA EmptyTree == ASSUME NEW v PROVE <<>> = [f \in {} |-> v]
  OBVIOUS

LEMMA TreeGrows ==
  ASSUME NEW S, NEW f, NEW v, NEW t, t = [g \in S |-> v]
  PROVE  [g \in DOMAIN t \cup {f} |-> IF g = f THEN v ELSE t[g]] = [g \in S \cup {f} |-> v]
  OBVIOUS

LEMMA WalkRelies ==
  ASSUME IInv, Kept, NEW b \in Build, Walk(b), Alone PROVE Own(b)'
<1>1. /\ Shapes /\ Uses(b) /\ Own(b) /\ wanted[b] \in Version /\ pc[b] = "walk"
      /\ UNCHANGED <<out, stale, torn, wanted>> /\ Each(b, "walk", "clear")
  BY DEF IInv, Alone, Shapes, Walk, Each, history
<1>2. File(b) = Files[at[b]] /\ File(b) \in All
  BY <1>1, FilesFacts DEF File, Shapes
<1>3. packages'[b] = (Before(b) \cup {File(b)}) \cap Sources
  <2>1. sdk[wanted[b]] = All /\ packages[b] = Before(b) \cap Sources
    BY <1>1 DEF Uses, Own, ReadSoFar
  <2>2. All # Absent
    BY FilesFacts
  <2>3. packages'[b] = packages[b] \cup ({File(b)} \cap All \cap Sources)
    BY <2>1, <2>2 DEF Walk, Kept
  <2> QED
    BY <1>2, <2>1, <2>3
<1>4. \/ pc'[b] = "walk" /\ Before(b)' = Before(b) \cup {File(b)}
      \/ pc'[b] = "clear" /\ All = Before(b) \cup {File(b)}
  BY <1>1, <1>2, EachStep DEF Places
<1>5. ReadSoFar(b)'
  BY <1>1, <1>3, <1>4, Trees0 DEF Own, ReadSoFar, HasRead
<1>6. WrittenSoFar(b)'
  BY <1>4 DEF WrittenSoFar
<1>7. MarkerTrue(b)'
  BY <1>1, <1>4 DEF Own, MarkerTrue, WritesOutput, RightFor
<1> QED
  BY <1>5, <1>6, <1>7 DEF Own

\* The places where the output is replaced: what was read stays, and the
\* marker still names another version.
LEMMA Replacing ==
  ASSUME NEW b \in Build, Own(b), pc[b] \in WritesOutput, pc'[b] \in WritesOutput,
         UNCHANGED <<packages, stale, torn, wanted>>, out'[b].marker = out[b].marker
  PROVE  ReadSoFar(b)' /\ MarkerTrue(b)'
<1>1. ReadSoFar(b)'
  BY DEF Own, ReadSoFar, WritesOutput, HasRead
<1>2. stale[b]
  BY DEF Own, ReadSoFar, WritesOutput
<1>3. MarkerTrue(b)'
  BY <1>2 DEF Own, MarkerTrue, WritesOutput
<1> QED
  BY <1>1, <1>3

LEMMA ClearRelies ==
  ASSUME IInv, Kept, NEW b \in Build, Clear(b), Alone PROVE Own(b)'
<1>1. /\ Shapes /\ Own(b) /\ pc[b] = "clear" /\ out[b] \in Dirs
      /\ UNCHANGED <<packages, stale, torn, wanted>>
  BY DEF IInv, Alone, Kept, Clear, history
<1>2. CASE Goto(b, "copy") /\ out' = [out EXCEPT ![b].source = <<>>]
  <2>1. pc'[b] = "copy" /\ Before(b)' = {}
    BY <1>1, <1>2, GotoStep DEF Places
  <2>2. out'[b].source = <<>> /\ out'[b].marker = out[b].marker
    BY <1>1, <1>2 DEF Kept, Dirs
  <2>3. WrittenSoFar(b)'
    <3>1. {} \cap Sources = {}
      OBVIOUS
    <3>2. out'[b].source = [f \in {} |-> wanted'[b]]
      BY <2>2, EmptyTree
    <3> QED
      BY <2>1, <3>1, <3>2 DEF WrittenSoFar
  <2> QED
    BY <1>1, <2>1, <2>2, <2>3, Replacing DEF WritesOutput, Own
<1>3. CASE pc' = pc /\ out'[b].marker = out[b].marker
  BY <1>1, <1>3, Replacing DEF WritesOutput, Own, WrittenSoFar
<1>4. ASSUME NEW t, out' = [out EXCEPT ![b].source = t] PROVE out'[b].marker = out[b].marker
  BY <1>1, <1>4 DEF Kept, Dirs
<1> QED
  BY <1>2, <1>3, <1>4 DEF Clear

LEMMA CopyRelies ==
  ASSUME IInv, Kept, NEW b \in Build, Copy(b), Alone PROVE Own(b)'
<1> DEFINE old == out[b].source
           B == Before(b) \cap Sources
<1>1. /\ Shapes /\ Own(b) /\ pc[b] = "copy" /\ out[b] \in Dirs /\ Each(b, "copy", "list")
      /\ UNCHANGED <<packages, stale, torn, wanted>>
  BY DEF IInv, Alone, Kept, Copy, Each, history
<1>2. File(b) = Files[at[b]] /\ File(b) \in All
  BY <1>1, FilesFacts DEF File, Shapes
<1>3. packages[b] = Sources /\ old = [f \in B |-> wanted[b]]
  BY <1>1 DEF Own, ReadSoFar, WrittenSoFar, HasRead
<1>4. \/ pc'[b] = "copy" /\ Before(b)' = Before(b) \cup {File(b)}
      \/ pc'[b] = "list" /\ All = Before(b) \cup {File(b)}
  BY <1>1, <1>2, EachStep DEF Places
<1>5. /\ out'[b].source = [f \in (Before(b) \cup {File(b)}) \cap Sources |-> wanted[b]]
      /\ out'[b].marker = out[b].marker
  <2>1. CASE File(b) \notin Sources
    <3>1. (Before(b) \cup {File(b)}) \cap Sources = B /\ out' = out
      BY <1>3, <2>1 DEF Copy
    <3> QED
      BY <1>3, <3>1
  <2>2. CASE File(b) \in Sources
    <3> DEFINE t == [g \in DOMAIN old \cup {File(b)} |-> IF g = File(b) THEN wanted[b] ELSE old[g]]
    <3>1. out' = [out EXCEPT ![b].source = t]
      BY <1>3, <2>2 DEF Copy
    <3>2. (Before(b) \cup {File(b)}) \cap Sources = B \cup {File(b)}
      BY <2>2
    <3>3. t = [g \in B \cup {File(b)} |-> wanted[b]]
      <4> HIDE DEF B
      <4> QED
        BY <1>3, TreeGrows
    <3>4. out'[b].source = t /\ out'[b].marker = out[b].marker
      <4> HIDE DEF t
      <4> QED
        BY <1>1, <3>1 DEF Kept, Dirs
    <3> HIDE DEF t, B
    <3> QED
      BY <3>2, <3>3, <3>4
  <2> QED
    BY <2>1, <2>2
<1>6. WrittenSoFar(b)'
  <2>1. All \cap Sources = Sources
    BY Trees0
  <2> QED
    BY <1>1, <1>4, <1>5, <2>1 DEF WrittenSoFar
<1> QED
  BY <1>1, <1>4, <1>5, <1>6, Replacing DEF WritesOutput, Own

LEMMA ListRelies ==
  ASSUME IInv, Kept, NEW b \in Build, TruncateList(b) \/ WriteList(b), Alone PROVE Own(b)'
<1>1. /\ Shapes /\ Own(b) /\ out[b] \in Dirs /\ UNCHANGED <<packages, stale, wanted>>
  BY DEF IInv, Alone, Kept, TruncateList, WriteList
<1>2. CASE TruncateList(b)
  <2>1. pc[b] = "list" /\ pc'[b] = "listed" /\ torn' = torn
    BY <1>1, <1>2 DEF TruncateList, Step, Goto, Shapes, history
  <2>2. out'[b].source = out[b].source /\ out'[b].marker = out[b].marker
    BY <1>1, <1>2 DEF TruncateList, Kept, Dirs
  <2>3. WrittenSoFar(b)'
    BY <1>1, <2>1, <2>2 DEF Own, WrittenSoFar
  <2> QED
    BY <1>1, <2>1, <2>2, <2>3, Replacing DEF WritesOutput, Own
<1>3. CASE WriteList(b)
  <2>1. pc[b] = "listed" /\ pc'[b] = "mark"
    BY <1>1, <1>3 DEF WriteList, Step, Goto, Shapes
  <2>2. /\ out'[b].source = out[b].source /\ out'[b].marker = Absent
        /\ out'[b].preload = packages[b]
    BY <1>1, <1>3 DEF WriteList, Kept, Dirs
  <2>3. WrittenSoFar(b)' /\ ReadSoFar(b)' /\ stale[b]
    BY <1>1, <2>1, <2>2 DEF Own, WrittenSoFar, ReadSoFar, HasRead
  <2>4. MarkerTrue(b)'
    BY <1>1, <2>1, <2>2, <2>3 DEF MarkerTrue, WritesOutput
  <2> QED
    BY <2>3, <2>4 DEF Own
<1> QED
  BY <1>2, <1>3

LEMMA MarkerRelies ==
  ASSUME IInv, Kept, NEW b \in Build, WriteMarker(b), Alone PROVE Own(b)'
<1>1. /\ Shapes /\ Own(b) /\ out[b] \in Dirs /\ UNCHANGED <<packages, wanted>>
      /\ pc[b] = "mark" /\ pc'[b] = "idle"
  BY DEF IInv, Alone, Shapes, Kept, WriteMarker, Succeed, Goto
<1>2. /\ out'[b].source = out[b].source /\ out'[b].marker = wanted[b]
      /\ out'[b].preload = out[b].preload
  BY <1>1 DEF WriteMarker, Kept, Dirs
<1>3. ReadSoFar(b)' /\ WrittenSoFar(b)'
  BY <1>1 DEF ReadSoFar, WrittenSoFar, HasRead
<1>4. RightFor(b, wanted[b])'
  BY <1>1, <1>2 DEF Own, WrittenSoFar, RightFor
<1>5. MarkerTrue(b)'
  BY <1>1, <1>2, <1>4 DEF MarkerTrue, WritesOutput, RightFor
<1> QED
  BY <1>3, <1>5 DEF Own

LEMMA OutputsRely ==
  ASSUME IInv, Kept, NEW b \in Build, Outputs(b), Alone
  PROVE  Uses(b)' /\ Own(b)' /\ NotHalf'
<1>1. /\ Shapes /\ Uses(b) /\ NotHalf /\ UNCHANGED cache /\ wanted' = wanted
  BY DEF IInv, Alone, Outputs, Walk, Clear, Copy, TruncateList, WriteList, WriteMarker
<1>2. /\ pc'[b] \in WritesOutput \cup {"walk", "mark", "idle"} /\ (pc'[b] = "walk" => pc[b] = "walk")
  BY <1>1 DEF Outputs, Walk, Clear, Copy, TruncateList, WriteList, WriteMarker, Step, Each, Goto,
     Succeed, Shapes, WritesOutput
<1>3. Uses(b)'
  BY <1>1, <1>2 DEF Uses, WritesOutput, ReadsArchive, cache
<1> QED
  BY <1>1, <1>3, WalkRelies, ClearRelies, CopyRelies, ListRelies, MarkerRelies DEF Outputs, NotHalf, cache

LEMMA DecidesRely ==
  ASSUME IInv, Kept, NEW b \in Build, Decides(b), Alone
  PROVE  Uses(b)' /\ Own(b)' /\ NotHalf'
<1>1. /\ Shapes /\ Uses(b) /\ Own(b) /\ NotHalf /\ wanted[b] \in Version /\ out[b] \in Dirs
      /\ pc[b] = "preload" /\ UNCHANGED <<cache, wanted, out, packages, torn>>
  BY DEF IInv, Alone, Shapes, Kept, Decides, Skip, BeginWalk, Step, history
<1>2. wanted[b] # Absent
  BY <1>1, BuildScriptAssumption
<1>3. ~torn[b] /\ out[b].marker # Absent => RightFor(b, out[b].marker)
  BY <1>1 DEF Own, MarkerTrue, WritesOutput
<1>4. CASE Skip(b)
  <2>1. pc'[b] = "idle" /\ out[b].marker = wanted[b]
    BY <1>1, <1>4 DEF Skip, Succeed, Goto, Shapes, UpToDate
  <2>2. ReadSoFar(b)' /\ WrittenSoFar(b)' /\ Uses(b)'
    BY <2>1 DEF ReadSoFar, WrittenSoFar, HasRead, Uses, ReadsArchive
  <2>3. MarkerTrue(b)'
    BY <1>1, <1>2, <1>3, <2>1 DEF MarkerTrue, WritesOutput, RightFor
  <2> QED
    BY <1>1, <2>2, <2>3 DEF Own, NotHalf, cache
<1>5. CASE BeginWalk(b)
  <2>1. pc'[b] = "walk" /\ Before(b)' = {} /\ ~UpToDate(b) /\ stale' = stale
    BY <1>1, <1>5, GotoStep DEF BeginWalk, Step, Places
  <2>2. ReadSoFar(b)'
    <3>1. packages[b] = {} /\ stale[b]
      BY <1>1 DEF Own, ReadSoFar, HasRead
    <3>2. {} \cap Sources = {}
      OBVIOUS
    <3> QED
      BY <1>1, <2>1, <3>1, <3>2 DEF ReadSoFar, HasRead
  <2>3. ~torn[b] => out[b].marker # wanted[b]
    <3>1. Sources # Absent /\ [f \in Sources |-> wanted[b]] # Absent
      <4>1. Sources \in SUBSET All
        BY Trees0
      <4>2. [f \in Sources |-> wanted[b]] \in Trees
        BY <1>1, Trees0
      <4> QED
        BY <4>1, <4>2, FilesFacts, Trees0
    <3> QED
      BY <1>2, <1>3, <2>1, <3>1 DEF UpToDate, RightFor
  <2>4. MarkerTrue(b)'
    BY <1>1, <1>3, <2>1, <2>3 DEF Own, MarkerTrue, WritesOutput, RightFor
  <2>5. Uses(b)' /\ WrittenSoFar(b)'
    BY <1>1, <2>1 DEF Uses, WrittenSoFar, ReadsArchive, cache
  <2> QED
    BY <1>1, <2>2, <2>4, <2>5 DEF Own, NotHalf, cache
<1> QED
  BY <1>4, <1>5 DEF Decides

LEMMA UsersRely ==
  ASSUME IInv, Kept, NEW b \in Build, Users(b), Alone
  PROVE  Uses(b)' /\ Own(b)' /\ NotHalf'
<1>1. /\ Shapes /\ Uses(b) /\ Own(b) /\ NotHalf /\ out[b] \in Dirs /\ UNCHANGED <<sdk, out>>
  BY DEF IInv, Alone, Kept, Users, Start, Kill, Edit, cache
<1>2. CASE Start(b)
  <2>1. /\ pc[b] = "idle" /\ pc'[b] = "check" /\ stale[b] /\ packages'[b] = {}
        /\ UNCHANGED <<stale, torn, wanted>>
    BY <1>1, <1>2 DEF Start, Step, Goto, Shapes, Kept
  <2>2. ReadSoFar(b)' /\ WrittenSoFar(b)' /\ Uses(b)'
    BY <2>1 DEF ReadSoFar, WrittenSoFar, HasRead, Uses, ReadsArchive
  <2>3. MarkerTrue(b)'
    BY <1>1, <2>1 DEF Own, MarkerTrue, WritesOutput, RightFor
  <2> QED
    BY <1>1, <2>2, <2>3 DEF Own, NotHalf
<1>3. CASE Kill(b)
  <2>1. /\ pc[b] # "idle" /\ pc'[b] = "idle" /\ stale[b] /\ UNCHANGED <<stale, wanted>>
        /\ torn'[b] = (torn[b] \/ (pc[b] \in WritesOutput /\ out[b].marker \notin {Absent, wanted[b]}))
    <3>1. torn' = [torn EXCEPT ![b] =
                     torn[b] \/ (pc[b] \in WritesOutput /\ out[b].marker \notin {Absent, wanted[b]})]
      BY <1>3 DEF Kill
    <3>2. torn'[b] = (torn[b] \/ (pc[b] \in WritesOutput /\ out[b].marker \notin {Absent, wanted[b]}))
      BY <3>1 DEF Kept
    <3>3. pc[b] # "idle" /\ pc'[b] = "idle" /\ UNCHANGED <<stale, wanted>>
      BY <1>1, <1>3, GotoStep DEF Kill, Places
    <3> QED
      BY <1>1, <3>2, <3>3 DEF Own, ReadSoFar
  <2>2. ReadSoFar(b)' /\ WrittenSoFar(b)' /\ Uses(b)'
    BY <2>1 DEF ReadSoFar, WrittenSoFar, HasRead, Uses, ReadsArchive
  <2>3. ASSUME ~torn'[b], out[b].marker # Absent PROVE RightFor(b, out[b].marker)
    BY <1>1, <2>1, <2>3 DEF Own, MarkerTrue
  <2>4. MarkerTrue(b)'
    BY <1>1, <2>1, <2>3 DEF MarkerTrue, WritesOutput, RightFor
  <2> QED
    BY <1>1, <2>2, <2>4 DEF Own, NotHalf
<1>4. CASE Edit(b)
  <2>1. pc[b] = "idle" /\ pc'[b] = "idle" /\ stale'[b] /\ torn' = torn
    BY <1>4 DEF Edit, Kept, history
  <2>2. ReadSoFar(b)' /\ WrittenSoFar(b)' /\ Uses(b)'
    BY <2>1 DEF ReadSoFar, WrittenSoFar, HasRead, Uses, ReadsArchive
  <2>3. MarkerTrue(b)'
    BY <1>1, <2>1 DEF Own, MarkerTrue, WritesOutput, RightFor
  <2> QED
    BY <1>1, <2>2, <2>3 DEF Own, NotHalf
<1> QED
  BY <1>2, <1>3, <1>4 DEF Users

LEMMA AloneStep ==
  ASSUME IInv, Kept, NEW b \in Build, StepOf(b), ~overlapped', Alone PROVE Alone'
<1>1. Uses(b)' /\ Own(b)' /\ NotHalf'
  BY StepGroups, ChecksRely, ArchivesRely, ReplacesRely, OutputsRely, DecidesRely, UsersRely
<1> QED
  BY <1>1, OthersRely DEF Alone

-----------------------------------------------------------------------------
\* Of builds that run one at a time none fails at the old SDK, and none at an
\* archive that no kill cut short.
LEMMA FailsOf ==
  ASSUME IInv, Kept, NEW b \in Build, StepOf(b), Alone
  PROVE  /\ failed'[b] \in {"missing", "replaced"} => failed'[b] = failed[b]
         /\ failed'[b] = "archive" => failed'[b] = failed[b] \/ \E v \in Version : cut[v]
<1>1. Shapes /\ Uses(b) /\ wanted[b] \in Version
  BY DEF IInv, Alone, Shapes
<1>2. CASE UnpackFails(b)
  <2>1. failed'[b] = "archive" /\ pc[b] = "unpack" /\ ~Readable(b)
    BY <1>2 DEF UnpackFails, Fail, Kept
  <2>2. File(b) \in All
    BY <1>1, FilesFacts DEF File, Shapes
  <2>3. tarball[wanted[b]] # Absent /\ tarball[wanted[b]] # All
    BY <1>1, <2>1, <2>2 DEF Uses, Readable
  <2>4. \A c \in Build : pc[c] = "write" => wanted[c] # wanted[b]
    BY <2>1 DEF Alone, Exclusive
  <2>5. cut[wanted[b]]
    BY <1>1, <2>3, <2>4 DEF IInv, Written
  <2> QED
    BY <1>1, <2>1, <2>5
<1>3. ~OpenFails(b) /\ ~RenameFails(b)
  BY <1>1 DEF Uses, OpenFails, RenameFails
<1>4. ~RemoveFails(b)
  <2> SUFFICES ASSUME RemoveFails(b) PROVE FALSE
    OBVIOUS
  <2>1. pc[b] = "unlink" /\ sdk[wanted[b]] # {} /\ Emptied(b)
    BY DEF RemoveFails
  <2> QED
    BY <1>1, <2>1 DEF Uses, Emptied
<1>5. CASE Download(b) \/ DownloadFails(b) \/ CheckSdk(b) \/ Replace(b)
  BY <1>5 DEF Download, DownloadFails, CheckSdk, Replace, Fail, Kept
<1>6. CASE Archives(b) \/ Replaces(b) \/ Users(b)
  BY <1>6 DEF Archives, FindTarball, CreateTarball, WriteTarball, Unpack, Replaces, OpenOld, Unlink,
     RemoveOld, Rename, Users, Start, Kill, Edit
<1>7. CASE Outputs(b) \/ Decides(b)
  BY <1>7 DEF Outputs, Walk, Clear, Copy, TruncateList, WriteList, WriteMarker, Decides, Skip,
     BeginWalk, Succeed, Kept
<1> QED
  BY <1>2, <1>3, <1>4, <1>5, <1>6, <1>7, StepGroups DEF Checks

LEMMA CausesStep ==
  ASSUME IInv, Kept, NEW b \in Build, StepOf(b), FailuresHaveCauses, ~overlapped => Alone
  PROVE  FailuresHaveCauses'
<1>1. CASE overlapped'
  BY <1>1 DEF FailuresHaveCauses
<1>2. CASE ~overlapped'
  <2>1. ~overlapped /\ Alone /\ \A v \in Version : cut[v] => cut'[v]
    BY <1>2, OneVersionOnly DEF Kept
  <2>2. \A c \in Build \ {b} : failed'[c] = failed[c]
    BY OthersUntouched DEF Untouched
  <2>3. \A c \in Build : failed[c] \notin {"missing", "replaced"}
                         /\ (failed[c] = "archive" => \E v \in Version : cut[v])
    BY <2>1 DEF FailuresHaveCauses
  <2>4. \A c \in Build : failed'[c] \notin {"missing", "replaced"}
                         /\ (failed'[c] = "archive" => \E v \in Version : cut[v])
    BY <2>1, <2>2, <2>3, FailsOf
  <2> QED
    BY <2>1, <2>4 DEF FailuresHaveCauses
<1> QED
  BY <1>1, <1>2

LEMMA StutterJInv == ASSUME JInv, UNCHANGED vars PROVE JInv'
<1>1. UNCHANGED <<tarball, sdk, tmp, holders, out, pc, at, packages, wanted, stale, failed,
                  overlapped, cut, torn>>
  BY DEF vars, cache, history
<1>2. IInv'
  BY StepIInv DEF JInv
<1>3. Kept' /\ FailuresHaveCauses'
  BY <1>1 DEF JInv, Kept, FailuresHaveCauses
<1>4. (~overlapped => Alone)'
  <2>1. \A b \in Build : Before(b)' = Before(b)
    BY <1>1 DEF Before
  <2>2. Alone => Exclusive' /\ NotHalf'
    BY <1>1 DEF Alone, Exclusive, NotHalf
  <2>3. ASSUME NEW b \in Build, Uses(b), Own(b) PROVE Uses(b)' /\ Own(b)'
    <3>1. Uses(b)'
      BY <1>1, <2>3 DEF Uses, Valid
    <3>2. ReadSoFar(b)' /\ WrittenSoFar(b)'
      BY <1>1, <2>1, <2>3 DEF Own, ReadSoFar, WrittenSoFar
    <3>3. MarkerTrue(b)'
      BY <1>1, <2>3 DEF Own, MarkerTrue, RightFor
    <3> QED
      BY <3>1, <3>2, <3>3 DEF Own
  <2> QED
    BY <1>1, <2>2, <2>3 DEF JInv, Alone
<1> QED
  BY <1>2, <1>3, <1>4 DEF JInv

LEMMA StepJInv == JInv /\ [Next]_vars => JInv'
<1> SUFFICES ASSUME JInv, [Next]_vars PROVE JInv'
  OBVIOUS
<1>1. CASE UNCHANGED vars
  BY <1>1, StutterJInv
<1>2. ASSUME NEW b \in Build, StepOf(b) PROVE JInv'
  <2>1. IInv /\ Kept /\ FailuresHaveCauses /\ (~overlapped => Alone)
    BY DEF JInv
  <2>2. IInv'
    BY <2>1, StepIInv
  <2>3. Kept' /\ FailuresHaveCauses'
    BY <1>2, <2>1, KeptStep, CausesStep
  <2>4. ASSUME ~overlapped' PROVE Alone'
    <3>1. ~overlapped
      BY <1>2, <2>1, <2>4, OneVersionOnly
    <3> QED
      BY <1>2, <2>1, <2>4, <3>1, AloneStep
  <2> QED
    BY <2>2, <2>3, <2>4 DEF JInv
<1> QED
  BY <1>1, <1>2 DEF Next, StepOf

LEMMA AlwaysJInv == Spec => []JInv
  BY InitJInv, StepJInv, PTL DEF Spec

\* For every number of builds, of versions, and of kills, failures and edits:
\* as long as builds of one version ran one at a time, what cargo takes for
\* done is right, unless a build was killed while it wrote over another
\* version's output (main of build.rs).
THEOREM AloneIsRightAlways == Spec => []AloneIsRight
<1>1. JInv => AloneIsRight
  BY DEF JInv, Alone, Own, MarkerTrue, RightFor, Right, AloneIsRight
<1> QED
  BY <1>1, AlwaysJInv, PTL

\* For as many: a build that fails has met the network, an archive that a kill
\* cut short, or another build of its version (ensure_go_sdk).
THEOREM FailuresHaveCausesAlways == Spec => []FailuresHaveCauses
<1>1. JInv => FailuresHaveCauses
  BY DEF JInv
<1> QED
  BY <1>1, AlwaysJInv, PTL
=============================================================================
