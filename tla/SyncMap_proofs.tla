--------------------------- MODULE SyncMap_proofs ---------------------------
(***************************************************************************)
(* Proofs about the replacement of sync.Map, for any number of goroutines, *)
(* keys and values and any programs.                                       *)
(***************************************************************************)
EXTENDS SyncMap, SequenceTheorems, WellFoundedInduction, TLAPS

StoredKeys == Keys \cup {NilKey}
Entry == StoredKeys \X Values
Vectors == Seq(Entry)

\* No key that compares is in a vector twice.
Unique(v) == \A i, j \in DOMAIN v : v[i][1] = v[j][1] /\ v[i][1] \in Keys => i = j

-----------------------------------------------------------------------------
(* The operators on vectors.                                               *)

\* find_key finds an equal key if there is one.
LEMMA FindKey ==
  ASSUME NEW v \in Vectors, NEW k
  PROVE  LET i == find_key(v, k) IN
         IF \E j \in DOMAIN v : any_eq(v[j][1], k) THEN i \in DOMAIN v /\ any_eq(v[i][1], k) ELSE i = 0
<1> DEFINE I == {i \in 1 .. Len(v) : any_eq(v[i][1], k)}
<1>1. find_key(v, k) = IF I # {} THEN Min(I) ELSE 0
  BY DEF find_key, SelectInSeq
<1>2. I # {} => Min(I) \in I
  <2> SUFFICES ASSUME I # {} PROVE Min(I) \in I
    OBVIOUS
  <2>1. PICK m \in I : \A j \in I : ~(<<j, m>> \in OpToRel(<, Nat))
    <3>1. I \in SUBSET Nat
      OBVIOUS
    <3> HIDE DEF I
    <3> QED BY <3>1, WFMin, NatLessThanWellFounded
  <2>2. \A j \in I : m <= j
    <3>1. I \subseteq Nat
      OBVIOUS
    <3> HIDE DEF I
    <3>2. \A j \in I : ~(j < m)
      BY <2>1, <3>1 DEF OpToRel
    <3> QED BY <3>1, <3>2
  <2> HIDE DEF I
  <2> QED BY <2>2 DEF Min
<1>3. DOMAIN v = 1 .. Len(v)
  BY DEF Vectors
<1> HIDE DEF find_key
<1> QED BY <1>1, <1>2, <1>3

\* On a vector without repetitions, Lookup is the value beside the key.
LEMMA LookupIs ==
  ASSUME NEW v \in Vectors, Unique(v), NEW k \in Keys
  PROVE  /\ \A i \in DOMAIN v : v[i][1] = k => Lookup(v, k) = v[i][2]
         /\ (\A i \in DOMAIN v : v[i][1] # k) => Lookup(v, k) = None
<1> DEFINE f == find_key(v, k)
<1>1. IF \E j \in DOMAIN v : any_eq(v[j][1], k) THEN f \in DOMAIN v /\ any_eq(v[f][1], k) ELSE f = 0
  BY FindKey
<1>2. \A j \in DOMAIN v : any_eq(v[j][1], k) <=> v[j][1] = k
  BY DEF any_eq
<1>3. Lookup(v, k) = IF f = 0 THEN None ELSE v[f][2]
  BY DEF Lookup
<1>4. 0 \notin DOMAIN v /\ k \in StoredKeys
  BY DEF Vectors, StoredKeys
<1> HIDE DEF f
<1> QED BY <1>1, <1>2, <1>3, <1>4 DEF Unique

Replaced(v, i, val) == [v EXCEPT ![i][2] = val]
Added(v, key, val) == Append(v, <<key, val>>)

\* An entry is replaced.
LEMMA ReplaceEntry ==
  ASSUME NEW v \in Vectors, Unique(v), NEW i \in DOMAIN v, NEW val \in Values,
         NEW w, w = Replaced(v, i, val)
  PROVE  /\ w \in Vectors /\ Unique(w) /\ DOMAIN w = DOMAIN v
         /\ \A j \in DOMAIN v : w[j][1] = v[j][1]
         /\ \A k \in Keys : Lookup(w, k) = IF k = v[i][1] THEN val ELSE Lookup(v, k)
<1>1. v \in Seq(Entry) /\ v[i] \in Entry /\ i \in 1 .. Len(v)
  BY DEF Vectors
<1> DEFINE e == [v[i] EXCEPT ![2] = val]
<1>2. e \in Entry /\ e[1] = v[i][1] /\ e[2] = val
  BY <1>1 DEF Entry
<1>3. w = [v EXCEPT ![i] = e]
  BY DEF Replaced
<1> HIDE DEF e
<1>4. /\ w \in Vectors /\ DOMAIN w = DOMAIN v /\ w[i] = e
      /\ \A j \in DOMAIN v : j # i => w[j] = v[j]
  <2>1. w \in Seq(Entry) /\ Len(w) = Len(v) /\ \A j \in 1 .. Len(v) : w[j] = IF j = i THEN e ELSE v[j]
    <3>1. /\ [v EXCEPT ![i] = e] \in Seq(Entry)
          /\ Len([v EXCEPT ![i] = e]) = Len(v)
          /\ \A j \in 1 .. Len(v) : [v EXCEPT ![i] = e][j] = IF j = i THEN e ELSE v[j]
      BY <1>1, <1>2, ExceptSeq
    <3> QED BY <1>3, <3>1, Zenon
  <2>2. DOMAIN v = 1 .. Len(v) /\ DOMAIN w = 1 .. Len(w)
    BY <1>1, <2>1
  <2> QED BY <2>1, <2>2 DEF Vectors
<1>5. \A j \in DOMAIN v : w[j][1] = v[j][1]
  BY <1>2, <1>4
<1>6. Unique(w)
  BY <1>4, <1>5 DEF Unique
<1>7. ASSUME NEW k \in Keys PROVE Lookup(w, k) = IF k = v[i][1] THEN val ELSE Lookup(v, k)
  <2>1. CASE k = v[i][1]
    <3>1. i \in DOMAIN w /\ w[i][1] = k /\ w[i][2] = val
      BY <1>2, <1>4, <2>1
    <3>2. Lookup(w, k) = w[i][2]
      BY <1>4, <1>6, <3>1, LookupIs
    <3> QED BY <2>1, <3>1, <3>2
  <2>2. CASE k # v[i][1] /\ \E j \in DOMAIN v : v[j][1] = k
    <3>1. PICK j \in DOMAIN v : v[j][1] = k /\ j # i
      BY <2>2
    <3>2. w[j] = v[j] /\ j \in DOMAIN w
      BY <1>4, <3>1
    <3>3. Lookup(v, k) = v[j][2] /\ Lookup(w, k) = w[j][2]
      BY <1>4, <1>6, <3>1, <3>2, LookupIs
    <3> QED BY <2>2, <3>2, <3>3
  <2>3. CASE k # v[i][1] /\ \A j \in DOMAIN v : v[j][1] # k
    BY <1>4, <1>5, <1>6, <2>3, LookupIs
  <2> QED BY <2>1, <2>2, <2>3
<1> QED BY <1>4, <1>5, <1>6, <1>7

\* An entry is appended whose key is new.
LEMMA AppendEntry ==
  ASSUME NEW v \in Vectors, Unique(v), NEW key \in StoredKeys, NEW val \in Values,
         key \in Keys => \A j \in DOMAIN v : v[j][1] # key,
         NEW w, w = Added(v, key, val)
  PROVE  /\ w \in Vectors /\ Unique(w)
         /\ KeysOf(w) = KeysOf(v) \cup {key}
         /\ \A k \in Keys : Lookup(w, k) = IF k = key THEN val ELSE Lookup(v, k)
<1> DEFINE e == <<key, val>>
           n == Len(v)
<1>1. v \in Seq(Entry) /\ n \in Nat /\ DOMAIN v = 1 .. n
  BY DEF Vectors
<1>2. e \in Entry /\ e[1] = key /\ e[2] = val
  BY DEF Entry
<1> HIDE DEF e
<1>3. /\ w \in Vectors /\ DOMAIN w = 1 .. n + 1 /\ w[n + 1] = e
      /\ \A j \in DOMAIN v : w[j] = v[j]
  <2>1. w = Append(v, e)
    BY DEF e, Added
  <2> HIDE DEF Entry
  <2> QED BY <1>1, <1>2, <2>1 DEF Vectors
<1> HIDE DEF n
<1>4. /\ n + 1 \in DOMAIN w /\ \A j \in DOMAIN v : j \in DOMAIN w
      /\ \A j \in DOMAIN w : j \in DOMAIN v \/ j = n + 1
  BY <1>1, <1>3
<1>5. Unique(w)
  <2> SUFFICES ASSUME NEW i \in DOMAIN w, NEW j \in DOMAIN w, w[i][1] = w[j][1], w[i][1] \in Keys
               PROVE  i = j
    BY DEF Unique
  <2> QED BY <1>2, <1>3, <1>4 DEF Unique
<1>6. ASSUME NEW k \in Keys PROVE Lookup(w, k) = IF k = key THEN val ELSE Lookup(v, k)
  <2>1. CASE k = key
    <3>1. n + 1 \in DOMAIN w /\ w[n + 1][1] = k /\ w[n + 1][2] = val
      BY <1>2, <1>3, <1>4, <2>1
    <3> QED BY <1>3, <1>5, <2>1, <3>1, LookupIs
  <2>2. CASE k # key /\ \E j \in DOMAIN v : v[j][1] = k
    <3>1. PICK j \in DOMAIN v : v[j][1] = k
      BY <2>2
    <3>2. w[j] = v[j] /\ j \in DOMAIN w
      BY <1>3, <1>4, <3>1
    <3>3. Lookup(v, k) = v[j][2] /\ Lookup(w, k) = w[j][2]
      BY <1>3, <1>5, <3>1, <3>2, LookupIs
    <3> QED BY <2>2, <3>2, <3>3
  <2>3. CASE k # key /\ \A j \in DOMAIN v : v[j][1] # k
    <3>1. \A j \in DOMAIN w : w[j][1] # k
      BY <1>2, <1>3, <1>4, <2>3
    <3>2. Lookup(v, k) = None /\ Lookup(w, k) = None
      BY <1>3, <1>5, <2>3, <3>1, LookupIs
    <3> QED BY <2>3, <3>2
  <2> QED BY <2>1, <2>2, <2>3
<1>7. KeysOf(w) = KeysOf(v) \cup {key}
  <2>1. \A x \in KeysOf(w) : x \in KeysOf(v) \cup {key}
    BY <1>2, <1>3, <1>4 DEF KeysOf
  <2>2. \A x \in KeysOf(v) : x \in KeysOf(w)
    BY <1>3, <1>4 DEF KeysOf
  <2>3. key \in KeysOf(w)
    BY <1>2, <1>3, <1>4 DEF KeysOf
  <2> QED BY <2>1, <2>2, <2>3
<1> QED BY <1>3, <1>5, <1>6, <1>7

LEMMA RemoveAtIs ==
  ASSUME NEW S, NEW v \in Seq(S), NEW i \in 1 .. Len(v), NEW w, w = RemoveAt(v, i)
  PROVE  /\ w \in Seq(S) /\ Len(w) = Len(v) - 1
         /\ \A j \in 1 .. Len(v) - 1 : w[j] = IF j < i THEN v[j] ELSE v[j + 1]
<1> DEFINE n == Len(v)
           a == SubSeq(v, 1, i - 1)
           b == SubSeq(v, i + 1, n)
<1>1. n \in Nat /\ i \in 1 .. n /\ i \in Nat
  OBVIOUS
<1>2. w = a \o b
  BY DEF RemoveAt
<1>3. a \in Seq(S) /\ Len(a) = i - 1 /\ \A j \in 1 .. i - 1 : a[j] = v[j]
  <2>1. \A j \in 1 .. i - 1 : v[j] \in S
    BY <1>1
  <2>2. /\ a \in Seq(S)
        /\ Len(a) = IF 1 <= i - 1 THEN i - 1 - 1 + 1 ELSE 0
        /\ \A j \in 1 .. i - 1 - 1 + 1 : a[j] = v[1 + j - 1]
    BY <1>1, <2>1, SubSeqProperties, 1 \in Int, i - 1 \in Int
  <2> HIDE DEF a, n
  <2>3. Len(a) = i - 1
    BY <1>1, <2>2
  <2>4. ASSUME NEW j \in 1 .. i - 1 PROVE a[j] = v[j]
    <3>1. j \in 1 .. i - 1 - 1 + 1 /\ 1 + j - 1 = j
      BY <1>1
    <3>2. a[j] = v[1 + j - 1]
      BY <2>2, <3>1
    <3> QED BY <3>1, <3>2
  <2> QED BY <2>2, <2>3, <2>4
<1>4. b \in Seq(S) /\ Len(b) = n - i /\ \A j \in 1 .. n - i : b[j] = v[i + j]
  <2>1. \A j \in i + 1 .. n : v[j] \in S
    BY <1>1
  <2>2. /\ b \in Seq(S)
        /\ Len(b) = IF i + 1 <= n THEN n - (i + 1) + 1 ELSE 0
        /\ \A j \in 1 .. n - (i + 1) + 1 : b[j] = v[i + 1 + j - 1]
    BY <1>1, <2>1, SubSeqProperties, i + 1 \in Int, n \in Int
  <2> HIDE DEF b, n
  <2>3. Len(b) = n - i
    BY <1>1, <2>2
  <2>4. ASSUME NEW j \in 1 .. n - i PROVE b[j] = v[i + j]
    <3>1. j \in 1 .. n - (i + 1) + 1 /\ i + 1 + j - 1 = i + j
      BY <1>1
    <3>2. b[j] = v[i + 1 + j - 1]
      BY <2>2, <3>1
    <3> QED BY <3>1, <3>2
  <2> QED BY <2>2, <2>3, <2>4
<1> HIDE DEF a, b
<1>5. /\ a \o b \in Seq(S) /\ Len(a \o b) = Len(a) + Len(b)
      /\ \A j \in 1 .. Len(a) + Len(b) : (a \o b)[j] = IF j <= Len(a) THEN a[j] ELSE b[j - Len(a)]
  BY <1>3, <1>4, ConcatProperties
<1>6. w \in Seq(S) /\ Len(w) = Len(a) + Len(b)
      /\ \A j \in 1 .. Len(a) + Len(b) : w[j] = IF j <= Len(a) THEN a[j] ELSE b[j - Len(a)]
  BY <1>2, <1>5, Zenon
<1> HIDE DEF n
<1>7. Len(a) + Len(b) = n - 1
  BY <1>1, <1>3, <1>4
<1>8. ASSUME NEW j \in 1 .. n - 1 PROVE w[j] = IF j < i THEN v[j] ELSE v[j + 1]
  <2>1. w[j] = IF j <= i - 1 THEN a[j] ELSE b[j - (i - 1)]
    BY <1>3, <1>6, <1>7
  <2>2. CASE j < i
    BY <1>1, <1>3, <2>1, <2>2
  <2>3. CASE ~(j < i)
    <3>1. j - (i - 1) \in 1 .. n - i /\ i + (j - (i - 1)) = j + 1 /\ ~(j <= i - 1)
      BY <1>1, <2>3
    <3>2. b[j - (i - 1)] = v[j + 1]
      BY <1>4, <3>1
    <3> QED BY <2>1, <2>3, <3>1, <3>2
  <2> QED BY <2>2, <2>3
<1> QED BY <1>6, <1>7, <1>8 DEF n

\* An entry is removed.
LEMMA RemoveEntry ==
  ASSUME NEW v \in Vectors, Unique(v), NEW i \in DOMAIN v, NEW w, w = RemoveAt(v, i)
  PROVE  /\ w \in Vectors /\ Unique(w)
         /\ \A k \in Keys : Lookup(w, k) = IF k = v[i][1] THEN None ELSE Lookup(v, k)
<1> DEFINE n == Len(v)
<1>1. v \in Seq(Entry) /\ n \in Nat /\ DOMAIN v = 1 .. n /\ i \in 1 .. n
  BY DEF Vectors
<1>2. /\ w \in Seq(Entry) /\ Len(w) = n - 1
      /\ \A j \in 1 .. n - 1 : w[j] = IF j < i THEN v[j] ELSE v[j + 1]
  <2> HIDE DEF Entry
  <2> QED BY <1>1, RemoveAtIs
<1>3. w \in Vectors /\ DOMAIN w = 1 .. n - 1
  BY <1>2 DEF Vectors
<1> HIDE DEF n
\* The place in v of an entry of w.
<1> DEFINE at(j) == IF j < i THEN j ELSE j + 1
<1>4. \A j \in DOMAIN w : at(j) \in DOMAIN v /\ at(j) # i /\ w[j] = v[at(j)]
  BY <1>1, <1>2, <1>3
<1>5. \A j, l \in DOMAIN w : at(j) = at(l) => j = l
  BY <1>1, <1>3
<1>6. \A l \in DOMAIN v : l # i => \E j \in DOMAIN w : at(j) = l
  <2> SUFFICES ASSUME NEW l \in DOMAIN v, l # i PROVE \E j \in DOMAIN w : at(j) = l
    OBVIOUS
  <2>1. CASE l < i
    <3>1. l \in DOMAIN w /\ at(l) = l
      BY <1>1, <1>3, <2>1
    <3> QED BY <3>1
  <2>2. CASE ~(l < i)
    <3>1. l - 1 \in DOMAIN w /\ at(l - 1) = l
      BY <1>1, <1>3, <2>2
    <3> QED BY <3>1
  <2> QED BY <2>1, <2>2
<1> HIDE DEF at
<1>7. Unique(w)
  <2> SUFFICES ASSUME NEW j \in DOMAIN w, NEW l \in DOMAIN w, w[j][1] = w[l][1], w[j][1] \in Keys
               PROVE  j = l
    BY DEF Unique
  <2>1. at(j) = at(l)
    BY <1>4 DEF Unique
  <2> QED BY <1>5, <2>1
<1>8. ASSUME NEW k \in Keys PROVE Lookup(w, k) = IF k = v[i][1] THEN None ELSE Lookup(v, k)
  <2>1. CASE k = v[i][1]
    <3>1. \A j \in DOMAIN w : w[j][1] # k
      BY <1>4, <2>1 DEF Unique
    <3> QED BY <1>3, <1>7, <2>1, <3>1, LookupIs
  <2>2. CASE k # v[i][1] /\ \E l \in DOMAIN v : v[l][1] = k
    <3>1. PICK l \in DOMAIN v : v[l][1] = k /\ l # i
      BY <2>2
    <3>2. PICK j \in DOMAIN w : at(j) = l
      BY <1>6, <3>1
    <3>3. w[j] = v[l]
      BY <1>4, <3>2
    <3>4. Lookup(v, k) = v[l][2] /\ Lookup(w, k) = w[j][2]
      BY <1>3, <1>7, <3>1, <3>3, LookupIs
    <3> QED BY <2>2, <3>3, <3>4
  <2>3. CASE k # v[i][1] /\ \A l \in DOMAIN v : v[l][1] # k
    <3>1. \A j \in DOMAIN w : w[j][1] # k
      BY <1>4, <2>3
    <3>2. Lookup(v, k) = None /\ Lookup(w, k) = None
      BY <1>3, <1>7, <2>3, <3>1, LookupIs
    <3> QED BY <2>3, <3>2
  <2> QED BY <2>1, <2>2, <2>3
<1> QED BY <1>3, <1>7, <1>8

-----------------------------------------------------------------------------
(* The invariant.                                                          *)

RangeStates == [list : Vectors, next : Nat \ {0}, visited : Seq(StoredKeys)]

MTypes ==
  /\ todo \in [Goroutines -> Seq(Made \cup Ranging)]
  /\ pc \in [Goroutines -> {"call", "cloned", "section"}]
  /\ entries \in Seq(Vectors)
  /\ \A e \in DOMAIN entries : Unique(entries[e])
  /\ field \in DOMAIN entries
  /\ handle \in [Goroutines -> DOMAIN entries]
  /\ ranging \in [Goroutines -> {None} \cup RangeStates]
  /\ due \in [Goroutines -> SUBSET StoredKeys]
  /\ broken \in BOOLEAN

\* A running call has a key that can be hashed, and f runs between calls.
CallsOK == \A g \in Goroutines :
  /\ pc[g] # "call" => /\ Calling(g)
                       /\ Now(g).op \in {"Clear", "Range"} \/ Now(g).key # Slice
  /\ pc[g] = "cloned" => projected

\* While the map is in one place, every goroutine works on the same vector.
OneVector == ~broken =>
  /\ \A g \in Goroutines : handle[g] = 1
  /\ Out = {} => field = 1
  /\ \A g, h \in Out : g = h

\* f has been passed the keys of the list so far.
Passing(r) ==
  /\ Unique(r.list)
  /\ r.next <= Len(r.list) + 1
  /\ Len(r.visited) = r.next - 1
  /\ \A i \in DOMAIN r.visited : r.visited[i] = r.list[i][1]

\* What has been in the map ever since the Range began is in the vector that the
\* snapshot will be taken of, and then in the snapshot.
Begun(g) == todo[g] # <<>> /\ Now(g).op = "Range" /\ ranging[g] = None /\ pc[g] # "call"
RangesOK == \A g \in Goroutines :
  /\ ranging[g] # None => Passing(ranging[g])
  /\ ~broken /\ ranging[g] # None => due[g] \subseteq KeysOf(ranging[g].list)
  /\ ~broken /\ Begun(g) => due[g] \subseteq KeysOf(entries[1])

MInv == MTypes /\ CallsOK /\ OneVector /\ RangesOK

\* The calls of a program.
LEMMA MadeCalls ==
  /\ \A c \in Made : /\ c \in PlainCalls /\ c.op \in Operations /\ c.op # "Range"
                     /\ c.key = None => c.op = "Clear"
  /\ \A c \in Ranging : c \in Ranges /\ c.op = "Range"
  /\ \A c \in Ranging, k \in StoredKeys : c.body # None =>
       (IF c.body.key = None THEN [c.body EXCEPT !.key = k] ELSE c.body) \in Made
<1>1. ASSUME NEW c \in Given
      PROVE  c \in PlainCalls \cup Ranges /\ (c.key = None => c.op \in {"Clear", "Range"})
  <2>1. PICK p \in Programs, g \in Goroutines : c \in ToSet(p[g])
    BY <1>1 DEF Given
  <2>2. PICK i \in DOMAIN p[g] : c = p[g][i]
    BY <2>1 DEF ToSet
  <2>3. p[g] \in Seq(PlainCalls \cup Ranges)
    BY SyncMapAssumption
  <2> HIDE DEF PlainCalls, Ranges
  <2> QED BY <2>2, <2>3, SyncMapAssumption
<1>2. \A c \in PlainCalls : c.op \in Operations /\ c.op # "Range"
  BY DEF PlainCalls, Operations, Storing
<1>3. \A c \in Ranges : c.op = "Range"
  BY DEF Ranges
<1>4. \A c \in Given \ Ranging : c \in PlainCalls /\ c.op \in Operations /\ c.op # "Range" /\ (c.key = None => c.op = "Clear")
  BY <1>1, <1>2, <1>3 DEF Ranging
<1>5. \A c \in Ranging : c \in Ranges /\ c.op = "Range"
  BY <1>1, <1>2 DEF Ranging
<1>6. ASSUME NEW c \in Ranging, c.body # None, NEW k \in StoredKeys
      PROVE  LET d == [c.body EXCEPT !.key = IF @ = None THEN k ELSE @] IN
             /\ d = IF c.body.key = None THEN [c.body EXCEPT !.key = k] ELSE c.body
             /\ d \in PlainCalls /\ d.key # None
  <2>1. c.body \in PlainCalls
    BY <1>5, <1>6 DEF Ranges
  <2>2. k \in AnyKey /\ k # None
    BY SyncMapAssumption DEF AnyKey, StoredKeys
  <2> QED BY <2>1, <2>2 DEF PlainCalls
<1>7. \A c \in Made : /\ c \in PlainCalls /\ c.op \in Operations /\ c.op # "Range"
                      /\ c.key = None => c.op = "Clear"
  <2> SUFFICES ASSUME NEW c \in Made
               PROVE  c \in PlainCalls /\ c.op \in Operations /\ c.op # "Range" /\ (c.key = None => c.op = "Clear")
    OBVIOUS
  <2>1. CASE c \in Given \ Ranging
    BY <1>4, <2>1
  <2>2. CASE c \notin Given \ Ranging
    <3>1. PICK d \in Ranging, k \in StoredKeys :
            d.body # None /\ c = [d.body EXCEPT !.key = IF @ = None THEN k ELSE @]
      BY <2>2 DEF Made, StoredKeys
    <3>2. c \in PlainCalls /\ c.key # None
      BY <1>6, <3>1
    <3> QED BY <1>2, <3>2
  <2> QED BY <2>1, <2>2
<1>8. \A c \in Ranging, k \in StoredKeys : c.body # None =>
        (IF c.body.key = None THEN [c.body EXCEPT !.key = k] ELSE c.body) \in Made
  <2> SUFFICES ASSUME NEW c \in Ranging, NEW k \in StoredKeys, c.body # None
               PROVE  (IF c.body.key = None THEN [c.body EXCEPT !.key = k] ELSE c.body) \in Made
    OBVIOUS
  <2>1. [c.body EXCEPT !.key = IF @ = None THEN k ELSE @] \in Made
    BY DEF Made, StoredKeys
  <2>2. [c.body EXCEPT !.key = IF @ = None THEN k ELSE @]
          = IF c.body.key = None THEN [c.body EXCEPT !.key = k] ELSE c.body
    BY <1>6
  <2> QED BY <2>1, <2>2, Zenon
<1> QED BY <1>5, <1>7, <1>8

LEMMA InitMInv == Init => MInv
<1> SUFFICES ASSUME Init PROVE MInv
  OBVIOUS
<1>1. entries = << <<>> >> /\ field = 1 /\ handle = [g \in Goroutines |-> 1] /\ pc = [g \in Goroutines |-> "call"]
      /\ ranging = [g \in Goroutines |-> None] /\ broken = FALSE /\ due = [g \in Goroutines |-> {}]
      /\ todo \in Programs
  BY DEF Init
<1>2. <<>> \in Vectors /\ Unique(<<>>)
  BY DEF Vectors, Unique
<1>3. entries \in Seq(Vectors) /\ DOMAIN entries = {1} /\ entries[1] = <<>>
  BY <1>1, <1>2
<1>4. todo \in [Goroutines -> Seq(Made \cup Ranging)]
  <2>1. todo \in [Goroutines -> Seq(PlainCalls \cup Ranges)]
    BY <1>1, SyncMapAssumption
  <2>2. ASSUME NEW g \in Goroutines PROVE todo[g] \in Seq(Made \cup Ranging)
    <3>1. todo[g] \in Seq(PlainCalls \cup Ranges)
      BY <2>1
    <3>2. ASSUME NEW i \in DOMAIN todo[g] PROVE todo[g][i] \in Given
      <4>1. todo[g][i] \in ToSet(todo[g])
        BY DEF ToSet
      <4> QED BY <1>1, <4>1 DEF Given
    <3>3. \A i \in DOMAIN todo[g] : todo[g][i] \in Made \cup Ranging
      BY <3>2 DEF Made
    <3> DEFINE s == todo[g]
               M == Made \cup Ranging
    <3>4. s \in Seq(PlainCalls \cup Ranges) /\ \A i \in DOMAIN s : s[i] \in M
      BY <3>1, <3>3
    <3> HIDE DEF s, M
    <3>5. s \in Seq(M)
      BY <3>4
    <3> QED BY <3>5 DEF s, M
  <2> QED BY <2>1, <2>2
<1>5. MTypes
  BY <1>1, <1>2, <1>3, <1>4 DEF MTypes
<1>6. \A g \in Goroutines : handle[g] = 1 /\ pc[g] = "call" /\ ranging[g] = None
  BY <1>1
<1>7. Out = {}
  BY <1>6 DEF Out
<1>8. CallsOK /\ OneVector /\ RangesOK
  BY <1>1, <1>6, <1>7 DEF CallsOK, OneVector, RangesOK, Begun
<1> QED BY <1>5, <1>8 DEF MInv

-----------------------------------------------------------------------------
(* One lemma for each kind of step.                                        *)

\* What is the same as before.
LEMMA Unchanged == ASSUME MInv, UNCHANGED vars PROVE MInv'
  BY DEF MInv, vars, MTypes, CallsOK, OneVector, RangesOK, Calling, InRange, Now, Out, Begun

\* The calls a goroutine has left.
LEMMA TodoTail ==
  ASSUME MTypes, NEW g \in Goroutines, todo[g] # <<>>
  PROVE  Tail(todo[g]) \in Seq(Made \cup Ranging) /\ Now(g) \in Made \cup Ranging
<1> DEFINE s == todo[g]
           M == Made \cup Ranging
<1>1. s \in Seq(M) /\ s # <<>>
  BY DEF MTypes
<1> HIDE DEF s, M
<1>2. Tail(s) \in Seq(M) /\ Head(s) \in M
  BY <1>1
<1> QED BY <1>2 DEF s, M, Now

LEMMA UnhashableStep == ASSUME MInv, NEW g \in Goroutines, Unhashable(g) PROVE MInv'
<1>1. /\ todo' = [todo EXCEPT ![g] = <<>>] /\ ranging' = [ranging EXCEPT ![g] = None]
      /\ UNCHANGED <<projected, pc, handle, field, entries, broken, due>>
      /\ pc[g] = "call"
  BY DEF Unhashable
<1>2. MTypes'
  <2>1. <<>> \in Seq(Made \cup Ranging)
    OBVIOUS
  <2> QED BY <1>1, <2>1 DEF MInv, MTypes
<1>3. \A h \in Goroutines : h # g => todo'[h] = todo[h] /\ ranging'[h] = ranging[h]
  BY <1>1 DEF MInv, MTypes
<1>4. todo'[g] = <<>> /\ ranging'[g] = None
  BY <1>1 DEF MInv, MTypes
<1>5. CallsOK' /\ OneVector' /\ RangesOK'
  BY <1>1, <1>3, <1>4 DEF MInv, CallsOK, OneVector, RangesOK, Calling, InRange, Now, Out, Begun
<1> QED BY <1>2, <1>5 DEF MInv

LEMMA EntriesStep == ASSUME MInv, NEW g \in Goroutines, Entries(g) PROVE MInv'
<1>0. MTypes /\ CallsOK /\ OneVector /\ RangesOK
  BY DEF MInv
<1>1. /\ Calling(g) /\ pc[g] = "call"
      /\ Now(g).op \in {"Clear", "Range"} \/ Now(g).key # Slice
      /\ handle' = [handle EXCEPT ![g] = field]
      /\ UNCHANGED <<projected, todo, ranging>>
      /\ due' = IF Now(g).op = "Range" THEN [due EXCEPT ![g] = KeysOf(entries[field])] ELSE due
  BY DEF Entries
<1>2. \/ /\ projected /\ entries' = Append(entries, <<>>) /\ field' = Len(entries')
         /\ pc' = [pc EXCEPT ![g] = "cloned"]
         /\ broken' = (broken \/ \E h \in Goroutines : pc[h] = "cloned")
      \/ /\ ~projected /\ pc' = [pc EXCEPT ![g] = "section"]
         /\ UNCHANGED <<entries, field, broken>>
  BY DEF Entries
<1>3. /\ entries \in Seq(Vectors) /\ DOMAIN entries = 1 .. Len(entries) /\ Len(entries) \in Nat
      /\ field \in 1 .. Len(entries) /\ 1 \in 1 .. Len(entries)
  BY <1>0 DEF MTypes
<1>4. /\ entries' \in Seq(Vectors) /\ field' \in DOMAIN entries' /\ DOMAIN entries \subseteq DOMAIN entries'
      /\ \A e \in DOMAIN entries : entries'[e] = entries[e]
      /\ \A e \in DOMAIN entries' : Unique(entries'[e])
  <2>1. CASE entries' = Append(entries, <<>>) /\ field' = Len(entries')
    <3> DEFINE l == entries'
               n == Len(entries)
    <3>1. <<>> \in Vectors /\ Unique(<<>>)
      BY DEF Vectors, Unique
    <3>2. l \in Seq(Vectors) /\ Len(l) = n + 1 /\ DOMAIN l = 1 .. n + 1 /\ l[n + 1] = <<>>
          /\ \A e \in 1 .. n : l[e] = entries[e]
      <4>1. l = Append(entries, <<>>)
        BY <2>1
      <4> HIDE DEF l
      <4> QED BY <1>3, <3>1, <4>1
    <3>3. field' = Len(l)
      BY <2>1
    <3> HIDE DEF l
    <3>4. \A e \in DOMAIN l : e \in 1 .. n \/ e = n + 1
      BY <1>3, <3>2
    <3>5. \A e \in DOMAIN l : Unique(l[e])
      BY <1>0, <1>3, <3>1, <3>2, <3>4 DEF MTypes
    <3> QED BY <1>3, <3>2, <3>3, <3>5 DEF l
  <2>2. CASE UNCHANGED <<entries, field>>
    BY <1>0, <2>2 DEF MTypes
  <2> QED BY <1>2, <2>1, <2>2
<1>5. /\ pc' \in [Goroutines -> {"call", "cloned", "section"}] /\ broken' \in BOOLEAN
      /\ pc'[g] # "call"
      /\ \A h \in Goroutines : h # g => pc'[h] = pc[h]
      /\ pc'[g] = "cloned" => projected
  <2>1. pc' \in [Goroutines -> {"call", "cloned", "section"}]
    BY <1>0, <1>2 DEF MTypes
  <2>2. pc'[g] # "call" /\ (pc'[g] = "cloned" => projected) /\ \A h \in Goroutines : h # g => pc'[h] = pc[h]
    BY <1>0, <1>2 DEF MTypes
  <2>3. broken' \in BOOLEAN
    BY <1>0, <1>2 DEF MTypes
  <2> QED BY <2>1, <2>2, <2>3
<1>6. /\ due' \in [Goroutines -> SUBSET StoredKeys]
      /\ \A h \in Goroutines : h # g \/ Now(g).op # "Range" => due'[h] = due[h]
      /\ Now(g).op = "Range" => due'[g] = KeysOf(entries[field])
  <2>1. KeysOf(entries[field]) \subseteq StoredKeys
    <3>1. entries[field] \in Seq(Entry)
      BY <1>3 DEF Vectors
    <3> QED BY <3>1 DEF KeysOf, Entry
  <2> QED BY <1>0, <1>1, <2>1 DEF MTypes
<1>7. MTypes'
  <2>1. handle' \in [Goroutines -> DOMAIN entries']
    BY <1>0, <1>1, <1>3, <1>4 DEF MTypes
  <2> QED BY <1>0, <1>1, <1>4, <1>5, <1>6, <2>1 DEF MTypes
<1>8. CallsOK'
  BY <1>0, <1>1, <1>5 DEF CallsOK, Calling, InRange, Now
<1>9. ASSUME ~broken'
      PROVE  ~broken /\ Out = {} /\ field = 1 /\ \A h \in Goroutines : handle[h] = 1
  <2>1. ~broken
    BY <1>0, <1>2, <1>9 DEF MTypes
  <2>2. Out = {}
    BY <1>0, <1>2, <1>9 DEF CallsOK, Out
  <2> QED BY <1>0, <2>1, <2>2 DEF OneVector
<1>10. OneVector'
  <2> SUFFICES ASSUME ~broken'
               PROVE  /\ \A h \in Goroutines : handle'[h] = 1
                      /\ Out' = {} => field' = 1
                      /\ \A h, i \in Out' : h = i
    BY DEF OneVector
  <2>1. \A h \in Goroutines : handle'[h] = 1
    BY <1>0, <1>1, <1>9 DEF MTypes
  <2>2. Out' \subseteq {g}
    BY <1>5, <1>9 DEF Out
  <2>3. Out' = {} => field' = 1
    <3>1. CASE projected /\ pc' = [pc EXCEPT ![g] = "cloned"]
      BY <1>0, <3>1 DEF Out, MTypes
    <3>2. CASE ~projected /\ field' = field
      BY <1>9, <3>2
    <3> QED BY <1>2, <3>1, <3>2
  <2> QED BY <2>1, <2>2, <2>3
<1>11. RangesOK'
  <2>1. Now(g).op = "Range" => ranging[g] = None
    BY <1>1 DEF Calling, InRange
  <2>2. \A h \in Goroutines : ranging[h] # None => due'[h] = due[h]
    BY <1>6, <2>1
  <2>3. ASSUME ~broken', NEW h \in Goroutines, Begun(h)' PROVE due'[h] \subseteq KeysOf(entries'[1])
    <3>1. entries'[1] = entries[1]
      BY <1>3, <1>4
    <3>2. CASE h = g
      <4>1. Now(g).op = "Range"
        BY <1>1, <2>3, <3>2 DEF Begun, Now
      <4> QED BY <1>6, <1>9, <2>3, <3>1, <3>2, <4>1
    <3>3. CASE h # g
      <4>1. Begun(h)
        BY <1>1, <1>5, <2>3, <3>3 DEF Begun, Now
      <4> QED BY <1>0, <1>6, <1>9, <2>3, <3>1, <3>3, <4>1 DEF RangesOK
    <3> QED BY <3>2, <3>3
  <2>4. \A h \in Goroutines : ~broken' /\ ranging[h] # None => due'[h] \subseteq KeysOf(ranging[h].list)
    BY <1>0, <1>9, <2>2 DEF RangesOK
  <2> QED BY <1>0, <1>1, <2>3, <2>4 DEF RangesOK
<1> QED BY <1>7, <1>8, <1>10, <1>11 DEF MInv

LEMMA PutBackStep == ASSUME MInv, NEW g \in Goroutines, PutBack(g) PROVE MInv'
<1>0. MTypes /\ CallsOK /\ OneVector /\ RangesOK
  BY DEF MInv
<1>1. /\ pc[g] = "cloned" /\ field' = handle[g] /\ pc' = [pc EXCEPT ![g] = "section"]
      /\ UNCHANGED <<projected, todo, handle, entries, ranging, broken, due>>
  BY DEF PutBack
<1>2. MTypes'
  BY <1>0, <1>1 DEF MTypes
<1>3. pc'[g] = "section" /\ \A h \in Goroutines : h # g => pc'[h] = pc[h]
  BY <1>0, <1>1 DEF MTypes
<1>4. CallsOK'
  BY <1>0, <1>1, <1>3 DEF CallsOK, Calling, InRange, Now
<1>5. OneVector'
  <2>1. Out' \subseteq Out \ {g} /\ g \in Out
    BY <1>1, <1>3 DEF Out
  <2> QED BY <1>0, <1>1, <2>1 DEF OneVector
<1>6. RangesOK'
  BY <1>0, <1>1, <1>3 DEF RangesOK, Begun, Now
<1> QED BY <1>2, <1>4, <1>5, <1>6 DEF MInv

\* An operation ends: its vector is the old one with one entry more, less or
\* changed.
LEMMA ReturnStep ==
  ASSUME MInv, NEW g \in Goroutines, Calling(g), pc[g] = "section",
         NEW vector \in Vectors, Unique(vector), NEW r, Return(g, vector, r)
  PROVE  MInv'
<1>0. MTypes /\ CallsOK /\ OneVector /\ RangesOK
  BY DEF MInv
<1>1. /\ entries' = [entries EXCEPT ![handle[g]] = vector]
      /\ due' = [h \in Goroutines |-> due[h] \cap KeysOf(vector)]
      /\ todo' = [todo EXCEPT ![g] = Tail(@)]
      /\ pc' = [pc EXCEPT ![g] = "call"]
      /\ UNCHANGED <<projected, handle, field, ranging, broken>>
  BY DEF Return
<1>2. /\ entries' \in Seq(Vectors) /\ DOMAIN entries' = DOMAIN entries
      /\ entries'[handle[g]] = vector
      /\ \A e \in DOMAIN entries : e # handle[g] => entries'[e] = entries[e]
  <2>1. entries \in Seq(Vectors) /\ handle[g] \in 1 .. Len(entries) /\ DOMAIN entries = 1 .. Len(entries)
    BY <1>0 DEF MTypes
  <2>2. /\ [entries EXCEPT ![handle[g]] = vector] \in Seq(Vectors)
        /\ Len([entries EXCEPT ![handle[g]] = vector]) = Len(entries)
        /\ \A j \in 1 .. Len(entries) :
             [entries EXCEPT ![handle[g]] = vector][j] = IF j = handle[g] THEN vector ELSE entries[j]
    BY <2>1, ExceptSeq
  <2>3. /\ entries' \in Seq(Vectors) /\ Len(entries') = Len(entries)
        /\ \A j \in 1 .. Len(entries) : entries'[j] = IF j = handle[g] THEN vector ELSE entries[j]
    BY <1>1, <2>2, Zenon
  <2>4. DOMAIN entries' = 1 .. Len(entries')
    BY <2>3
  <2> QED BY <2>1, <2>3, <2>4
<1>3. todo' \in [Goroutines -> Seq(Made \cup Ranging)] /\ \A h \in Goroutines : h # g => todo'[h] = todo[h]
  <2>1. todo[g] # <<>>
    BY DEF Calling
  <2>2. Tail(todo[g]) \in Seq(Made \cup Ranging)
    BY <1>0, <2>1, TodoTail
  <2> QED BY <1>0, <1>1, <2>2 DEF MTypes
<1>4. /\ pc' \in [Goroutines -> {"call", "cloned", "section"}] /\ pc'[g] = "call"
      /\ \A h \in Goroutines : h # g => pc'[h] = pc[h]
  BY <1>0, <1>1 DEF MTypes
<1>5. due' \in [Goroutines -> SUBSET StoredKeys]
  BY <1>0, <1>1 DEF MTypes
<1>6. MTypes'
  <2>1. \A e \in DOMAIN entries' : Unique(entries'[e])
    BY <1>0, <1>2 DEF MTypes
  <2> QED BY <1>0, <1>1, <1>2, <1>3, <1>4, <1>5, <2>1 DEF MTypes
<1>7. CallsOK'
  BY <1>0, <1>1, <1>3, <1>4 DEF CallsOK, Calling, InRange, Now
<1>8. OneVector'
  <2>1. Out' = Out
    BY <1>4 DEF Out
  <2> QED BY <1>0, <1>1, <2>1 DEF OneVector
<1>9. RangesOK'
  <2>1. ASSUME ~broken, NEW h \in Goroutines, Begun(h)' PROVE due'[h] \subseteq KeysOf(entries'[1])
    <3>1. handle[g] = 1
      BY <1>0, <2>1 DEF OneVector
    <3> QED BY <1>1, <1>2, <3>1
  <2>2. \A h \in Goroutines : due'[h] \subseteq due[h]
    BY <1>1
  <2> QED BY <1>0, <1>1, <2>1, <2>2 DEF RangesOK
<1> QED BY <1>6, <1>7, <1>8, <1>9 DEF MInv

LEMMA SnapshotStep == ASSUME MInv, NEW g \in Goroutines, Snapshot(g) PROVE MInv'
<1>0. MTypes /\ CallsOK /\ OneVector /\ RangesOK
  BY DEF MInv
<1>1. /\ Calling(g) /\ pc[g] = "section" /\ Now(g).op = "Range"
      /\ ranging' = [ranging EXCEPT ![g] = [list |-> Vector(g), next |-> 1, visited |-> <<>>]]
      /\ pc' = [pc EXCEPT ![g] = "call"]
      /\ UNCHANGED <<projected, todo, handle, field, entries, broken, due>>
  BY DEF Snapshot, Section
<1> DEFINE r == [list |-> Vector(g), next |-> 1, visited |-> <<>>]
<1>2. Vector(g) \in Vectors /\ Unique(Vector(g))
  BY <1>0 DEF MTypes, Vector
<1>3. r \in RangeStates /\ Passing(r)
  <2>1. r.list = Vector(g) /\ r.next = 1 /\ r.visited = <<>>
    OBVIOUS
  <2>2. r \in RangeStates
    BY <1>2 DEF RangeStates
  <2>3. Len(Vector(g)) \in Nat
    BY <1>2 DEF Vectors
  <2> HIDE DEF r
  <2> QED BY <1>2, <2>1, <2>2, <2>3 DEF Passing
<1>4. /\ ranging'[g] = r /\ pc'[g] = "call"
      /\ \A h \in Goroutines : h # g => ranging'[h] = ranging[h] /\ pc'[h] = pc[h]
  BY <1>0, <1>1 DEF MTypes
<1>5. MTypes'
  BY <1>0, <1>1, <1>3 DEF MTypes
<1>6. CallsOK'
  BY <1>0, <1>1, <1>4 DEF CallsOK, Calling, InRange, Now
<1>7. OneVector'
  <2>1. Out' = Out
    BY <1>1, <1>4 DEF Out
  <2> QED BY <1>0, <1>1, <2>1 DEF OneVector
<1>8. RangesOK'
  <2>1. Begun(g)
    BY <1>1 DEF Begun, Calling, InRange
  <2>2. ~broken => due[g] \subseteq KeysOf(r.list)
    BY <1>0, <2>1 DEF OneVector, RangesOK, Vector
  <2> HIDE DEF r
  <2>3. ranging'[g] # None => Passing(ranging'[g])
    BY <1>3, <1>4
  <2>4. ~broken /\ ranging'[g] # None => due[g] \subseteq KeysOf(ranging'[g].list)
    BY <1>4, <2>2
  <2>5. ~Begun(g)'
    BY <1>4 DEF Begun
  <2>6. \A h \in Goroutines : h # g => (Begun(h)' <=> Begun(h))
    BY <1>1, <1>4 DEF Begun, Now
  <2> QED BY <1>0, <1>1, <1>4, <2>3, <2>4, <2>5, <2>6 DEF RangesOK
<1> QED BY <1>5, <1>6, <1>7, <1>8 DEF MInv

LEMMA VisitStep == ASSUME MInv, NEW g \in Goroutines, Visit(g) PROVE MInv'
<1>0. MTypes /\ CallsOK /\ OneVector /\ RangesOK
  BY DEF MInv
<1> DEFINE r == ranging[g]
           key == List(g)[ranging[g].next][1]
           body == Now(g).body
           call == IF body.key = None THEN [body EXCEPT !.key = key] ELSE body
           w == [r EXCEPT !.next = @ + 1, !.visited = Append(@, key)]
<1>1. /\ InRange(g) /\ r.next <= Len(r.list)
      /\ ranging' = [ranging EXCEPT ![g].next = @ + 1, ![g].visited = Append(@, key)]
      /\ todo' = IF body = None THEN todo ELSE [todo EXCEPT ![g] = <<call>> \o @]
      /\ UNCHANGED <<projected, pc, handle, field, entries, broken, due>>
  BY DEF Visit, List
<1>2. pc[g] = "call" /\ todo[g] # <<>> /\ Now(g).op = "Range" /\ r # None
  BY <1>0, <1>1 DEF CallsOK, Calling, InRange
<1>3. r \in RangeStates /\ Passing(r)
  BY <1>0, <1>2 DEF MTypes, RangesOK
<1>4. key \in StoredKeys
  <2>1. r.next \in 1 .. Len(r.list) /\ r.list \in Seq(Entry)
    BY <1>1, <1>3 DEF RangeStates, Vectors
  <2> QED BY <2>1 DEF List, Entry
<1>5. w.list = r.list /\ w.next = r.next + 1 /\ w.visited = Append(r.visited, key) /\ w \in RangeStates
  <2>1. r = [r EXCEPT !.next = @] /\ r.visited \in Seq(StoredKeys) /\ r.next \in Nat
    BY <1>3 DEF RangeStates
  <2>2. Append(r.visited, key) \in Seq(StoredKeys) /\ r.next + 1 \in Nat \ {0}
    <3> DEFINE s == r.visited
    <3>1. s \in Seq(StoredKeys)
      BY <2>1
    <3> HIDE DEF s, key
    <3>2. Append(s, key) \in Seq(StoredKeys)
      BY <1>4, <3>1
    <3> QED BY <2>1, <3>2 DEF s
  <2> DEFINE t == Append(r.visited, key)
  <2> HIDE DEF key, t
  <2>3. w = [r EXCEPT !.next = @ + 1, !.visited = t]
    BY DEF t
  <2> QED BY <1>3, <2>2, <2>3 DEF RangeStates, t
<1>6. Passing(w)
  <2>1. r.visited \in Seq(StoredKeys) /\ r.next \in Nat /\ Len(r.list) \in Nat
    BY <1>3 DEF RangeStates, Vectors
  <2>2. key = r.list[r.next][1]
    BY DEF List
  <2> DEFINE s == r.visited
             t == w.visited
             n == r.next
             l == r.list
  <2>3. t = Append(s, key) /\ s \in Seq(StoredKeys) /\ Len(s) = n - 1 /\ n \in Nat
    BY <1>3, <1>5, <2>1 DEF Passing
  <2>4. \A i \in DOMAIN s : s[i] = l[i][1]
    BY <1>3 DEF Passing
  <2>5. key = l[n][1]
    BY <2>2
  <2>6. Len(t) = n /\ \A i \in DOMAIN t : t[i] = l[i][1]
    <3> HIDE DEF s, t, n, l, key
    <3>1. Len(t) = Len(s) + 1 /\ t[Len(s) + 1] = key /\ DOMAIN t = 1 .. Len(s) + 1
          /\ \A i \in 1 .. Len(s) : t[i] = s[i]
      BY <1>4, <2>3
    <3> QED BY <2>3, <2>4, <2>5, <3>1
  <2> HIDE DEF w
  <2> QED BY <1>1, <1>3, <1>5, <2>1, <2>6 DEF Passing
<1>7. ranging' = [ranging EXCEPT ![g] = w]
  BY <1>0, <1>1 DEF MTypes
<1> HIDE DEF w
<1>8. ranging'[g] = w /\ \A h \in Goroutines : h # g => ranging'[h] = ranging[h]
  BY <1>0, <1>7 DEF MTypes
<1>9. /\ todo' \in [Goroutines -> Seq(Made \cup Ranging)]
      /\ \A h \in Goroutines : h # g => todo'[h] = todo[h]
  <2>1. CASE body = None
    BY <1>0, <1>1, <2>1 DEF MTypes
  <2>2. CASE body # None
    <3>1. Now(g) \in Ranging
      BY <1>0, <1>2, TodoTail, MadeCalls
    <3>2. call \in Made
      BY <1>4, <2>2, <3>1, MadeCalls
    <3> DEFINE M == Made \cup Ranging
    <3>3. call \in M /\ todo \in [Goroutines -> Seq(M)] /\ todo' = [todo EXCEPT ![g] = <<call>> \o @]
      BY <1>0, <1>1, <2>2, <3>2 DEF MTypes
    <3> HIDE DEF call, M
    <3>4. <<call>> \o todo[g] \in Seq(M)
      <4> DEFINE s == todo[g]
      <4>1. s \in Seq(M) /\ <<call>> \in Seq(M)
        BY <3>3
      <4> HIDE DEF s
      <4>2. <<call>> \o s \in Seq(M)
        BY <4>1, ConcatProperties
      <4> QED BY <4>2 DEF s
    <3>5. todo' \in [Goroutines -> Seq(M)] /\ \A h \in Goroutines : h # g => todo'[h] = todo[h]
      BY <3>3, <3>4
    <3> QED BY <3>5 DEF M
  <2> QED BY <2>1, <2>2
<1>10. MTypes'
  BY <1>0, <1>1, <1>5, <1>7, <1>9 DEF MTypes
<1>11. CallsOK'
  BY <1>0, <1>1, <1>2, <1>8, <1>9 DEF CallsOK, Calling, InRange, Now
<1>12. OneVector'
  <2>1. Out' = Out
    BY <1>1 DEF Out
  <2> QED BY <1>0, <1>1, <2>1 DEF OneVector
<1>13. RangesOK'
  <2>1. ~Begun(g)'
    BY <1>1, <1>2 DEF Begun
  <2>2. \A h \in Goroutines : h # g => (Begun(h)' <=> Begun(h))
    BY <1>1, <1>8, <1>9 DEF Begun, Now
  <2>3. ~broken => due[g] \subseteq KeysOf(w.list)
    BY <1>0, <1>2, <1>5 DEF RangesOK
  <2> QED BY <1>0, <1>1, <1>6, <1>8, <2>1, <2>2, <2>3 DEF RangesOK
<1> QED BY <1>10, <1>11, <1>12, <1>13 DEF MInv

LEMMA EndRangeStep == ASSUME MInv, NEW g \in Goroutines, EndRange(g) PROVE MInv'
<1>0. MTypes /\ CallsOK /\ OneVector /\ RangesOK
  BY DEF MInv
<1>1. /\ InRange(g)
      /\ ranging' = [ranging EXCEPT ![g] = None]
      /\ todo' = [todo EXCEPT ![g] = Tail(@)]
      /\ UNCHANGED <<projected, pc, handle, field, entries, broken, due>>
  BY DEF EndRange
<1>2. pc[g] = "call" /\ todo[g] # <<>>
  BY <1>0, <1>1 DEF CallsOK, Calling, InRange
<1>3. Tail(todo[g]) \in Seq(Made \cup Ranging)
  BY <1>0, <1>2, TodoTail
<1>4. MTypes'
  BY <1>0, <1>1, <1>3 DEF MTypes
<1>5. /\ ranging'[g] = None
      /\ \A h \in Goroutines : h # g => ranging'[h] = ranging[h] /\ todo'[h] = todo[h]
  BY <1>0, <1>1 DEF MTypes
<1>6. CallsOK' /\ OneVector' /\ RangesOK'
  BY <1>0, <1>1, <1>2, <1>5 DEF CallsOK, OneVector, RangesOK, Calling, InRange, Now, Out, Begun
<1> QED BY <1>4, <1>6 DEF MInv

-----------------------------------------------------------------------------
(* The operations.                                                         *)

\* What an operation sees of its vector.
LEMMA VectorIs == ASSUME MInv, NEW g \in Goroutines
                  PROVE  Vector(g) \in Vectors /\ Unique(Vector(g)) /\ handle[g] \in DOMAIN entries
  BY DEF MInv, MTypes, Vector

\* The entry that an operation finds.
LEMMA IndexIs ==
  ASSUME MInv, NEW g \in Goroutines
  PROVE  \/ Index(g) = 0 /\ \A i \in DOMAIN Vector(g) : ~any_eq(Vector(g)[i][1], Now(g).key)
         \/ /\ Index(g) # 0 /\ Index(g) \in DOMAIN Vector(g)
            /\ Vector(g)[Index(g)][1] = Now(g).key /\ Now(g).key \in StoredKeys
            /\ Stored(g) \in Values
<1> DEFINE v == Vector(g)
           k == Now(g).key
           f == Index(g)
<1>1. v \in Vectors /\ v \in Seq(Entry) /\ Unique(v)
  BY VectorIs DEF Vectors
<1>2. IF \E j \in DOMAIN v : any_eq(v[j][1], k) THEN f \in DOMAIN v /\ any_eq(v[f][1], k) ELSE f = 0
  <2> HIDE DEF v, k
  <2>1. LET i == find_key(v, k) IN
        IF \E j \in DOMAIN v : any_eq(v[j][1], k) THEN i \in DOMAIN v /\ any_eq(v[i][1], k) ELSE i = 0
    BY <1>1, FindKey
  <2>2. f = find_key(v, k)
    BY DEF Index, v, k
  <2> HIDE DEF f
  <2> QED BY <2>1, <2>2
<1>3. 0 \notin DOMAIN v /\ \A i \in DOMAIN v : v[i][2] \in Values
  <2> HIDE DEF v
  <2>1. 0 \notin DOMAIN v /\ \A i \in DOMAIN v : v[i] \in Entry
    BY <1>1
  <2> QED BY <2>1 DEF Entry
<1>4. Stored(g) = v[f][2]
  BY DEF Stored
<1>5. \A a, b : any_eq(a, b) => a = b /\ b \in StoredKeys
  BY DEF any_eq, StoredKeys
<1> HIDE DEF v, k, f
<1>6. \/ f = 0 /\ \A i \in DOMAIN v : ~any_eq(v[i][1], k)
      \/ /\ f # 0 /\ f \in DOMAIN v /\ v[f][1] = k /\ k \in StoredKeys /\ Stored(g) \in Values
  BY <1>2, <1>3, <1>4, <1>5
<1> QED BY <1>6 DEF v, k, f

\* A running operation that stores has a value and a key that is not a slice.
LEMMA StoringCall ==
  ASSUME MInv, NEW g \in Goroutines, pc[g] = "section", Calling(g), Now(g).op \in Operations
  PROVE  /\ Now(g) \in Made /\ (Now(g).op # "Clear" => Now(g).key \in AnyKey \ {Slice})
         /\ Now(g).op \in Storing => Now(g).val \in Values /\ clone_any(Now(g).key) \in StoredKeys
         /\ Now(g).op \in Storing /\ clone_any(Now(g).key) \in Keys => clone_any(Now(g).key) = Now(g).key
<1>1. Now(g) \in Made \cup Ranging
  BY TodoTail DEF Calling, MInv
<1>2. Now(g).op # "Range"
  BY DEF Operations, Storing
<1>3. Now(g) \in Made /\ Now(g) \in PlainCalls /\ (Now(g).key = None => Now(g).op = "Clear")
  BY <1>1, <1>2, MadeCalls
<1>4. Now(g).op # "Clear" => Now(g).key # Slice
  BY <1>2 DEF MInv, CallsOK
<1>5. Now(g).key \in AnyKey \cup {None} /\ (Now(g).op \in Storing => Now(g).val \in Values)
  BY <1>3 DEF PlainCalls
<1>6. "Clear" \notin Storing
  BY DEF Storing
<1>7. \A k \in AnyKey \ {Slice} : clone_any(k) \in StoredKeys /\ (clone_any(k) \in Keys => clone_any(k) = k)
  BY SyncMapAssumption DEF AnyKey, StoredKeys, clone_any
<1> QED BY <1>3, <1>4, <1>5, <1>6, <1>7

LEMMA PushedIs ==
  ASSUME MInv, NEW g \in Goroutines, pc[g] = "section", Calling(g), Now(g).op \in Storing, Index(g) = 0
  PROVE  /\ Pushed(g) \in Vectors /\ Unique(Pushed(g))
         /\ \A k \in Keys : Lookup(Pushed(g), k) = IF k = Now(g).key THEN Now(g).val ELSE Lookup(Vector(g), k)
<1> DEFINE v == Vector(g)
           key == clone_any(Now(g).key)
           val == Now(g).val
           w == Pushed(g)
<1>1. v \in Vectors /\ Unique(v)
  BY VectorIs
<1>2. key \in StoredKeys /\ val \in Values /\ (key \in Keys => key = Now(g).key)
  BY StoringCall DEF Operations
<1>3. \A i \in DOMAIN v : ~any_eq(v[i][1], Now(g).key)
  BY IndexIs
<1>4. key \in Keys => \A j \in DOMAIN v : v[j][1] # key
  BY <1>2, <1>3 DEF any_eq
<1>5. w = Added(v, key, val)
  BY DEF Pushed, Added
<1>6. \A k \in Keys : k = key <=> k = Now(g).key
  <2>1. Now(g).key \in Keys => key = Now(g).key
    BY SyncMapAssumption DEF clone_any
  <2> QED BY <1>2, <2>1
<1> HIDE DEF v, key, val, w
<1>7. /\ w \in Vectors /\ Unique(w)
      /\ \A k \in Keys : Lookup(w, k) = IF k = key THEN val ELSE Lookup(v, k)
  BY <1>1, <1>2, <1>4, <1>5, AppendEntry
<1>8. \A k \in Keys : Lookup(w, k) = IF k = Now(g).key THEN val ELSE Lookup(v, k)
  BY <1>6, <1>7
<1> QED BY <1>7, <1>8 DEF v, val, w

LEMMA WithIs ==
  ASSUME MInv, NEW g \in Goroutines, Index(g) # 0, Now(g).val \in Values
  PROVE  /\ With(g, Now(g).val) \in Vectors /\ Unique(With(g, Now(g).val))
         /\ \A k \in Keys : Lookup(With(g, Now(g).val), k) =
                              IF k = Now(g).key THEN Now(g).val ELSE Lookup(Vector(g), k)
<1> DEFINE v == Vector(g)
           i == Index(g)
           val == Now(g).val
           w == With(g, val)
<1>1. v \in Vectors /\ Unique(v) /\ i \in DOMAIN v /\ v[i][1] = Now(g).key
  BY VectorIs, IndexIs
<1>2. w = Replaced(v, i, val)
  BY DEF With, Replaced
<1> HIDE DEF v, i, w
<1>3. /\ w \in Vectors /\ Unique(w)
      /\ \A k \in Keys : Lookup(w, k) = IF k = v[i][1] THEN val ELSE Lookup(v, k)
  BY <1>1, <1>2, ReplaceEntry
<1> QED BY <1>1, <1>3 DEF v, i, w

LEMMA WithoutIs ==
  ASSUME MInv, NEW g \in Goroutines, Index(g) # 0
  PROVE  /\ Without(g) \in Vectors /\ Unique(Without(g))
         /\ \A k \in Keys : Lookup(Without(g), k) = IF k = Now(g).key THEN None ELSE Lookup(Vector(g), k)
<1> DEFINE v == Vector(g)
           i == Index(g)
           w == Without(g)
<1>1. v \in Vectors /\ Unique(v) /\ i \in DOMAIN v /\ v[i][1] = Now(g).key
  BY VectorIs, IndexIs
<1>2. w = RemoveAt(v, i)
  BY DEF Without
<1> HIDE DEF v, i, w
<1>3. /\ w \in Vectors /\ Unique(w)
      /\ \A k \in Keys : Lookup(w, k) = IF k = v[i][1] THEN None ELSE Lookup(v, k)
  BY <1>1, <1>2, RemoveEntry
<1> QED BY <1>1, <1>3 DEF v, i, w

LEMMA Results ==
  ASSUME NEW c
  PROVE  /\ c.op \in {"Load", "LoadAndDelete", "Swap"} =>
              Promised!Result(c) = IF Promised!Found(c.key) THEN <<Contents[c.key], TRUE>> ELSE Promised!Nothing
         /\ c.op = "LoadOrStore" =>
              Promised!Result(c) = IF Promised!Found(c.key) THEN <<Contents[c.key], TRUE>> ELSE <<c.val, FALSE>>
         /\ c.op \in {"CompareAndSwap", "CompareAndDelete"} => Promised!Result(c) = <<None, Promised!Matches(c)>>
         /\ c.op = "Clear" => Promised!Result(c) = Promised!Nothing
<1>1. c.op \in {"Load", "LoadAndDelete", "Swap"} =>
              Promised!Result(c) = IF Promised!Found(c.key) THEN <<Contents[c.key], TRUE>> ELSE Promised!Nothing
  BY Zenon DEF Promised!Result
<1>2. c.op = "LoadOrStore" =>
              Promised!Result(c) = IF Promised!Found(c.key) THEN <<Contents[c.key], TRUE>> ELSE <<c.val, FALSE>>
  BY Zenon DEF Promised!Result
<1>3. c.op \in {"CompareAndSwap", "CompareAndDelete"} => Promised!Result(c) = <<None, Promised!Matches(c)>>
  BY Zenon DEF Promised!Result
<1>4. c.op = "Clear" => Promised!Result(c) = Promised!Nothing
  BY Zenon DEF Promised!Result
<1> QED BY <1>1, <1>2, <1>3, <1>4

LEMMA Afters ==
  ASSUME NEW c
  PROVE  /\ c.op = "Load" => Promised!After(c) = Contents
         /\ c.op = "Swap" => Promised!After(c) = [Contents EXCEPT ![c.key] = c.val]
         /\ c.op = "LoadAndDelete" => Promised!After(c) = [Contents EXCEPT ![c.key] = None]
         /\ c.op = "LoadOrStore" =>
              Promised!After(c) = IF Promised!Found(c.key) THEN Contents ELSE [Contents EXCEPT ![c.key] = c.val]
         /\ c.op = "CompareAndSwap" =>
              Promised!After(c) = IF Promised!Matches(c) THEN [Contents EXCEPT ![c.key] = c.val] ELSE Contents
         /\ c.op = "CompareAndDelete" =>
              Promised!After(c) = IF Promised!Matches(c) THEN [Contents EXCEPT ![c.key] = None] ELSE Contents
         /\ c.op = "Clear" => Promised!After(c) = [k \in Keys |-> None]
<1>1. c.op = "Load" => Promised!After(c) = Contents
  BY Zenon DEF Promised!After
<1>2. c.op = "Swap" => Promised!After(c) = [Contents EXCEPT ![c.key] = c.val]
  BY Zenon DEF Promised!After
<1>3. c.op = "LoadAndDelete" => Promised!After(c) = [Contents EXCEPT ![c.key] = None]
  BY Zenon DEF Promised!After
<1>4. c.op = "LoadOrStore" =>
         Promised!After(c) = IF Promised!Found(c.key) THEN Contents ELSE [Contents EXCEPT ![c.key] = c.val]
  BY Zenon DEF Promised!After
<1>5. c.op = "CompareAndSwap" =>
         Promised!After(c) = IF Promised!Matches(c) THEN [Contents EXCEPT ![c.key] = c.val] ELSE Contents
  BY Zenon DEF Promised!After
<1>6. c.op = "CompareAndDelete" =>
         Promised!After(c) = IF Promised!Matches(c) THEN [Contents EXCEPT ![c.key] = None] ELSE Contents
  BY Zenon DEF Promised!After
<1>7. c.op = "Clear" => Promised!After(c) = [k \in Keys |-> None]
  BY Zenon DEF Promised!After
<1> QED BY <1>1, <1>2, <1>3, <1>4, <1>5, <1>6, <1>7

\* What a vector says of every key that compares.
Image(v) == [k \in Keys |-> Lookup(v, k)]

LEMMA ImageIs ==
  ASSUME NEW v, NEW w, NEW key, NEW x, \A k \in Keys : Lookup(w, k) = IF k = key THEN x ELSE Lookup(v, k)
  PROVE  Image(w) = [Image(v) EXCEPT ![key] = x] /\ (key \notin Keys => Image(w) = Image(v))
  BY DEF Image

\* The vector and the result of the running call of g are the promised ones.
Right(g, vector, r) ==
  /\ vector \in Vectors /\ Unique(vector)
  /\ r \in (Values \cup {None}) \X BOOLEAN
  /\ Now(g).op # "Clear" /\ Now(g).key \notin Keys => Image(vector) = Image(Vector(g))
  /\ (Now(g).op = "Clear" \/ Now(g).key \in Keys) /\ Contents = Image(Vector(g)) =>
       Image(vector) = Promised!After(Now(g)) /\ r = Promised!Result(Now(g))

\* What the contents say of the key of the running call.
LEMMA KeyIs ==
  ASSUME MInv, NEW g \in Goroutines, Now(g).key \in Keys, Contents = Image(Vector(g))
  PROVE  /\ Index(g) = 0 => /\ ~Promised!Found(Now(g).key) /\ ~Promised!Matches(Now(g))
                            /\ [Contents EXCEPT ![Now(g).key] = None] = Contents
         /\ Index(g) # 0 => /\ Promised!Found(Now(g).key) /\ Contents[Now(g).key] = Stored(g)
                            /\ Promised!Matches(Now(g)) <=> Stored(g) = Now(g).old
<1> DEFINE v == Vector(g)
           k == Now(g).key
           i == Index(g)
<1>1. v \in Vectors /\ Unique(v)
  BY VectorIs
<1>2. \/ i = 0 /\ \A j \in DOMAIN v : v[j][1] # k
      \/ i # 0 /\ i \in DOMAIN v /\ v[i][1] = k /\ Stored(g) \in Values /\ Stored(g) = v[i][2]
  <2>1. \A j \in DOMAIN v : v[j][1] = k => any_eq(v[j][1], k)
    BY DEF any_eq
  <2> QED BY <2>1, IndexIs DEF Stored
<1>3. Contents[k] = Lookup(v, k) /\ Contents = [j \in Keys |-> Lookup(v, j)]
  BY DEF Image
<1> HIDE DEF v, i
<1>4. \/ i = 0 /\ Contents[k] = None
      \/ i # 0 /\ Contents[k] = Stored(g) /\ Stored(g) # None
  BY <1>1, <1>2, <1>3, LookupIs, SyncMapAssumption
<1>5. Contents[k] = None => [Contents EXCEPT ![k] = None] = Contents
  BY <1>3
<1> QED BY <1>4, <1>5 DEF i, Promised!Found, Promised!Matches

LEMMA LoadIs ==
  ASSUME MInv, NEW g \in Goroutines, Load(g) PROVE \E vector, r : Return(g, vector, r) /\ Right(g, vector, r)
<1> DEFINE r == IF Index(g) = 0 THEN Missing ELSE <<Stored(g), TRUE>>
<1>1. Return(g, Vector(g), r) /\ Now(g).op = "Load"
  BY DEF Load, Section
<1>2. Vector(g) \in Vectors /\ Unique(Vector(g))
  BY VectorIs
<1>3. r \in (Values \cup {None}) \X BOOLEAN
  BY IndexIs DEF Missing
<1>4. ASSUME Now(g).key \in Keys, Contents = Image(Vector(g))
      PROVE  Image(Vector(g)) = Promised!After(Now(g)) /\ r = Promised!Result(Now(g))
  <2>1. Image(Vector(g)) = Promised!After(Now(g))
    BY <1>1, <1>4, Afters
  <2>2. r = Promised!Result(Now(g))
    BY <1>1, <1>4, KeyIs, Results DEF Missing, Promised!Nothing
  <2> QED BY <2>1, <2>2
<1>5. Right(g, Vector(g), r)
  BY <1>1, <1>2, <1>3, <1>4 DEF Right
<1> QED BY <1>1, <1>5

LEMMA ClearIs ==
  ASSUME MInv, NEW g \in Goroutines, Clear(g) PROVE \E vector, r : Return(g, vector, r) /\ Right(g, vector, r)
<1>1. Return(g, <<>>, Missing) /\ Now(g).op = "Clear"
  BY DEF Clear, Section
<1>2. <<>> \in Vectors /\ Unique(<<>>) /\ DOMAIN <<>> = {}
  BY DEF Vectors, Unique
<1>3. \A k \in Keys : Lookup(<<>>, k) = None
  BY <1>2, LookupIs
<1>4. Image(<<>>) = Promised!After(Now(g)) /\ Missing = Promised!Result(Now(g))
  BY <1>1, <1>3, Afters, Results DEF Missing, Promised!Nothing, Image
<1>5. Missing \in (Values \cup {None}) \X BOOLEAN
  BY DEF Missing
<1>6. Right(g, <<>>, Missing)
  BY <1>1, <1>2, <1>4, <1>5 DEF Right
<1> QED BY <1>1, <1>6

LEMMA LoadOrStoreIs ==
  ASSUME MInv, NEW g \in Goroutines, LoadOrStore(g)
  PROVE  \E vector, r : Return(g, vector, r) /\ Right(g, vector, r)
<1>1. Now(g).op = "LoadOrStore" /\ pc[g] = "section" /\ Calling(g)
  BY DEF LoadOrStore, Section
<1>2. Now(g).op \in Storing /\ Now(g).val \in Values
  BY <1>1, StoringCall DEF Storing, Operations
<1>3. CASE Index(g) = 0
  <2>1. Return(g, Pushed(g), <<Now(g).val, FALSE>>)
    BY <1>3 DEF LoadOrStore
  <2>2. /\ Pushed(g) \in Vectors /\ Unique(Pushed(g))
        /\ \A k \in Keys : Lookup(Pushed(g), k) = IF k = Now(g).key THEN Now(g).val ELSE Lookup(Vector(g), k)
    BY <1>1, <1>2, <1>3, PushedIs
  <2>3. /\ Image(Pushed(g)) = [Image(Vector(g)) EXCEPT ![Now(g).key] = Now(g).val]
        /\ Now(g).key \notin Keys => Image(Pushed(g)) = Image(Vector(g))
    BY <2>2, ImageIs
  <2>4. ASSUME Now(g).key \in Keys, Contents = Image(Vector(g))
        PROVE  Image(Pushed(g)) = Promised!After(Now(g)) /\ <<Now(g).val, FALSE>> = Promised!Result(Now(g))
    BY <1>1, <1>3, <2>3, <2>4, KeyIs, Afters, Results, Zenon
  <2>5. <<Now(g).val, FALSE>> \in (Values \cup {None}) \X BOOLEAN
    BY <1>2
  <2>6. Right(g, Pushed(g), <<Now(g).val, FALSE>>)
    BY <1>1, <2>2, <2>3, <2>4, <2>5 DEF Right
  <2> QED BY <2>1, <2>6
<1>4. CASE Index(g) # 0
  <2>1. Return(g, Vector(g), <<Stored(g), TRUE>>)
    BY <1>4 DEF LoadOrStore
  <2>2. Vector(g) \in Vectors /\ Unique(Vector(g))
    BY VectorIs
  <2>3. ASSUME Now(g).key \in Keys, Contents = Image(Vector(g))
        PROVE  Image(Vector(g)) = Promised!After(Now(g)) /\ <<Stored(g), TRUE>> = Promised!Result(Now(g))
    BY <1>1, <1>4, <2>3, KeyIs, Afters, Results, Zenon
  <2>4. <<Stored(g), TRUE>> \in (Values \cup {None}) \X BOOLEAN
    BY <1>4, IndexIs
  <2>5. Right(g, Vector(g), <<Stored(g), TRUE>>)
    BY <1>1, <2>2, <2>3, <2>4 DEF Right
  <2> QED BY <2>1, <2>5
<1> QED BY <1>3, <1>4

LEMMA LoadAndDeleteIs ==
  ASSUME MInv, NEW g \in Goroutines, LoadAndDelete(g)
  PROVE  \E vector, r : Return(g, vector, r) /\ Right(g, vector, r)
<1>1. Now(g).op = "LoadAndDelete" /\ pc[g] = "section" /\ Calling(g)
  BY DEF LoadAndDelete, Section
<1>2. Now(g).op \in Operations
  BY <1>1 DEF Operations
<1>3. CASE Index(g) = 0
  <2>1. Return(g, Vector(g), Missing)
    BY <1>3 DEF LoadAndDelete
  <2>2. Vector(g) \in Vectors /\ Unique(Vector(g))
    BY VectorIs
  <2>3. ASSUME Now(g).key \in Keys, Contents = Image(Vector(g))
        PROVE  Image(Vector(g)) = Promised!After(Now(g)) /\ Missing = Promised!Result(Now(g))
    BY <1>1, <1>3, <2>3, KeyIs, Afters, Results, Zenon DEF Missing, Promised!Nothing
  <2>4. Missing \in (Values \cup {None}) \X BOOLEAN
    BY <1>3, IndexIs DEF Missing
  <2>5. Right(g, Vector(g), Missing)
    BY <1>1, <2>2, <2>3, <2>4 DEF Right
  <2> QED BY <2>1, <2>5
<1>4. CASE Index(g) # 0
  <2>1. Return(g, Without(g), <<Stored(g), TRUE>>)
    BY <1>4 DEF LoadAndDelete
  <2>2. /\ Without(g) \in Vectors /\ Unique(Without(g))
        /\ \A k \in Keys : Lookup(Without(g), k) = IF k = Now(g).key THEN None ELSE Lookup(Vector(g), k)
    BY <1>1, <1>2, <1>4, WithoutIs
  <2>3. /\ Image(Without(g)) = [Image(Vector(g)) EXCEPT ![Now(g).key] = None]
        /\ Now(g).key \notin Keys => Image(Without(g)) = Image(Vector(g))
    BY <2>2 DEF Image
  <2>4. ASSUME Now(g).key \in Keys, Contents = Image(Vector(g))
        PROVE  Image(Without(g)) = Promised!After(Now(g)) /\ <<Stored(g), TRUE>> = Promised!Result(Now(g))
    BY <1>1, <1>4, <2>3, <2>4, KeyIs, Afters, Results, Zenon DEF Missing, Promised!Nothing
  <2>5. <<Stored(g), TRUE>> \in (Values \cup {None}) \X BOOLEAN
    BY <1>2, <1>4, IndexIs DEF Missing
  <2>6. Right(g, Without(g), <<Stored(g), TRUE>>)
    BY <1>1, <2>2, <2>3, <2>4, <2>5 DEF Right
  <2> QED BY <2>1, <2>6
<1> QED BY <1>3, <1>4

LEMMA SwapIs ==
  ASSUME MInv, NEW g \in Goroutines, Swap(g)
  PROVE  \E vector, r : Return(g, vector, r) /\ Right(g, vector, r)
<1>1. Now(g).op = "Swap" /\ pc[g] = "section" /\ Calling(g)
  BY DEF Swap, Section
<1>2. Now(g).op \in Storing /\ Now(g).val \in Values
  BY <1>1, StoringCall DEF Storing, Operations
<1>3. CASE Index(g) = 0
  <2>1. Return(g, Pushed(g), Missing)
    BY <1>3 DEF Swap
  <2>2. /\ Pushed(g) \in Vectors /\ Unique(Pushed(g))
        /\ \A k \in Keys : Lookup(Pushed(g), k) = IF k = Now(g).key THEN Now(g).val ELSE Lookup(Vector(g), k)
    BY <1>1, <1>2, <1>3, PushedIs
  <2>3. /\ Image(Pushed(g)) = [Image(Vector(g)) EXCEPT ![Now(g).key] = Now(g).val]
        /\ Now(g).key \notin Keys => Image(Pushed(g)) = Image(Vector(g))
    BY <2>2 DEF Image
  <2>4. ASSUME Now(g).key \in Keys, Contents = Image(Vector(g))
        PROVE  Image(Pushed(g)) = Promised!After(Now(g)) /\ Missing = Promised!Result(Now(g))
    BY <1>1, <1>3, <2>3, <2>4, KeyIs, Afters, Results, Zenon DEF Missing, Promised!Nothing
  <2>5. Missing \in (Values \cup {None}) \X BOOLEAN
    BY <1>2, <1>3, IndexIs DEF Missing
  <2>6. Right(g, Pushed(g), Missing)
    BY <1>1, <2>2, <2>3, <2>4, <2>5 DEF Right
  <2> QED BY <2>1, <2>6
<1>4. CASE Index(g) # 0
  <2>1. Return(g, With(g, Now(g).val), <<Stored(g), TRUE>>)
    BY <1>4 DEF Swap
  <2>2. /\ With(g, Now(g).val) \in Vectors /\ Unique(With(g, Now(g).val))
        /\ \A k \in Keys : Lookup(With(g, Now(g).val), k) =
             IF k = Now(g).key THEN Now(g).val ELSE Lookup(Vector(g), k)
    BY <1>1, <1>2, <1>4, WithIs
  <2>3. /\ Image(With(g, Now(g).val)) = [Image(Vector(g)) EXCEPT ![Now(g).key] = Now(g).val]
        /\ Now(g).key \notin Keys => Image(With(g, Now(g).val)) = Image(Vector(g))
    BY <2>2 DEF Image
  <2>4. ASSUME Now(g).key \in Keys, Contents = Image(Vector(g))
        PROVE  Image(With(g, Now(g).val)) = Promised!After(Now(g)) /\ <<Stored(g), TRUE>> = Promised!Result(Now(g))
    BY <1>1, <1>4, <2>3, <2>4, KeyIs, Afters, Results, Zenon DEF Missing, Promised!Nothing
  <2>5. <<Stored(g), TRUE>> \in (Values \cup {None}) \X BOOLEAN
    BY <1>2, <1>4, IndexIs DEF Missing
  <2>6. Right(g, With(g, Now(g).val), <<Stored(g), TRUE>>)
    BY <1>1, <2>2, <2>3, <2>4, <2>5 DEF Right
  <2> QED BY <2>1, <2>6
<1> QED BY <1>3, <1>4

LEMMA CompareAndSwapIs ==
  ASSUME MInv, NEW g \in Goroutines, CompareAndSwap(g)
  PROVE  \E vector, r : Return(g, vector, r) /\ Right(g, vector, r)
<1>1. Now(g).op = "CompareAndSwap" /\ pc[g] = "section" /\ Calling(g)
  BY DEF CompareAndSwap, Section
<1>2. Now(g).op \in Storing /\ Now(g).val \in Values
  BY <1>1, StoringCall DEF Storing, Operations
<1>3. CASE Index(g) # 0 /\ Stored(g) = Now(g).old
  <2>1. Return(g, With(g, Now(g).val), <<None, TRUE>>)
    BY <1>3 DEF CompareAndSwap
  <2>2. /\ With(g, Now(g).val) \in Vectors /\ Unique(With(g, Now(g).val))
        /\ \A k \in Keys : Lookup(With(g, Now(g).val), k) =
             IF k = Now(g).key THEN Now(g).val ELSE Lookup(Vector(g), k)
    BY <1>1, <1>2, <1>3, WithIs
  <2>3. /\ Image(With(g, Now(g).val)) = [Image(Vector(g)) EXCEPT ![Now(g).key] = Now(g).val]
        /\ Now(g).key \notin Keys => Image(With(g, Now(g).val)) = Image(Vector(g))
    BY <2>2 DEF Image
  <2>4. ASSUME Now(g).key \in Keys, Contents = Image(Vector(g))
        PROVE  Image(With(g, Now(g).val)) = Promised!After(Now(g)) /\ <<None, TRUE>> = Promised!Result(Now(g))
    BY <1>1, <1>3, <2>3, <2>4, KeyIs, Afters, Results, Zenon DEF Missing, Promised!Nothing
  <2>5. <<None, TRUE>> \in (Values \cup {None}) \X BOOLEAN
    BY <1>2, <1>3, IndexIs DEF Missing
  <2>6. Right(g, With(g, Now(g).val), <<None, TRUE>>)
    BY <1>1, <2>2, <2>3, <2>4, <2>5 DEF Right
  <2> QED BY <2>1, <2>6
<1>4. CASE ~(Index(g) # 0 /\ Stored(g) = Now(g).old)
  <2>1. Return(g, Vector(g), Missing)
    BY <1>4 DEF CompareAndSwap
  <2>2. Vector(g) \in Vectors /\ Unique(Vector(g))
    BY VectorIs
  <2>3. ASSUME Now(g).key \in Keys, Contents = Image(Vector(g))
        PROVE  Image(Vector(g)) = Promised!After(Now(g)) /\ Missing = Promised!Result(Now(g))
    <3>1. ~Promised!Matches(Now(g))
      BY <1>4, <2>3, KeyIs, Zenon
    <3>2. Promised!Matches(Now(g)) = FALSE
      BY <3>1 DEF Promised!Matches
    <3> QED BY <1>1, <2>3, <3>1, <3>2, Afters, Results, Zenon DEF Missing
  <2>4. Missing \in (Values \cup {None}) \X BOOLEAN
    BY <1>4, IndexIs DEF Missing
  <2>5. Right(g, Vector(g), Missing)
    BY <1>1, <2>2, <2>3, <2>4 DEF Right
  <2> QED BY <2>1, <2>5
<1> QED BY <1>3, <1>4

LEMMA CompareAndDeleteIs ==
  ASSUME MInv, NEW g \in Goroutines, CompareAndDelete(g)
  PROVE  \E vector, r : Return(g, vector, r) /\ Right(g, vector, r)
<1>1. Now(g).op = "CompareAndDelete" /\ pc[g] = "section" /\ Calling(g)
  BY DEF CompareAndDelete, Section
<1>2. Now(g).op \in Operations
  BY <1>1 DEF Operations
<1>3. CASE Index(g) # 0 /\ Stored(g) = Now(g).old
  <2>1. Return(g, Without(g), <<None, TRUE>>)
    BY <1>3 DEF CompareAndDelete
  <2>2. /\ Without(g) \in Vectors /\ Unique(Without(g))
        /\ \A k \in Keys : Lookup(Without(g), k) = IF k = Now(g).key THEN None ELSE Lookup(Vector(g), k)
    BY <1>1, <1>2, <1>3, WithoutIs
  <2>3. /\ Image(Without(g)) = [Image(Vector(g)) EXCEPT ![Now(g).key] = None]
        /\ Now(g).key \notin Keys => Image(Without(g)) = Image(Vector(g))
    BY <2>2 DEF Image
  <2>4. ASSUME Now(g).key \in Keys, Contents = Image(Vector(g))
        PROVE  Image(Without(g)) = Promised!After(Now(g)) /\ <<None, TRUE>> = Promised!Result(Now(g))
    BY <1>1, <1>3, <2>3, <2>4, KeyIs, Afters, Results, Zenon DEF Missing, Promised!Nothing
  <2>5. <<None, TRUE>> \in (Values \cup {None}) \X BOOLEAN
    BY <1>2, <1>3, IndexIs DEF Missing
  <2>6. Right(g, Without(g), <<None, TRUE>>)
    BY <1>1, <2>2, <2>3, <2>4, <2>5 DEF Right
  <2> QED BY <2>1, <2>6
<1>4. CASE ~(Index(g) # 0 /\ Stored(g) = Now(g).old)
  <2>1. Return(g, Vector(g), Missing)
    BY <1>4 DEF CompareAndDelete
  <2>2. Vector(g) \in Vectors /\ Unique(Vector(g))
    BY VectorIs
  <2>3. ASSUME Now(g).key \in Keys, Contents = Image(Vector(g))
        PROVE  Image(Vector(g)) = Promised!After(Now(g)) /\ Missing = Promised!Result(Now(g))
    <3>1. ~Promised!Matches(Now(g))
      BY <1>4, <2>3, KeyIs, Zenon
    <3>2. Promised!Matches(Now(g)) = FALSE
      BY <3>1 DEF Promised!Matches
    <3> QED BY <1>1, <2>3, <3>1, <3>2, Afters, Results, Zenon DEF Missing
  <2>4. Missing \in (Values \cup {None}) \X BOOLEAN
    BY <1>4, IndexIs DEF Missing
  <2>5. Right(g, Vector(g), Missing)
    BY <1>1, <2>2, <2>3, <2>4 DEF Right
  <2> QED BY <2>1, <2>5
<1> QED BY <1>3, <1>4

\* Each step is a Return, or one that leaves the first vector and the results.
LEMMA Steps ==
  ASSUME MInv, NEW g \in Goroutines, Advance(g)
  PROVE  \/ /\ pc[g] = "section" /\ Calling(g) /\ Now(g).op \in Operations
            /\ \E vector, r : Return(g, vector, r) /\ Right(g, vector, r)
         \/ /\ Unhashable(g) \/ Entries(g) \/ PutBack(g) \/ Snapshot(g) \/ Visit(g) \/ EndRange(g)
            /\ entries'[1] = entries[1] /\ UNCHANGED result
<1>1. CASE \/ Load(g) \/ Clear(g) \/ LoadOrStore(g) \/ LoadAndDelete(g) \/ Swap(g)
           \/ CompareAndSwap(g) \/ CompareAndDelete(g)
  <2>1. pc[g] = "section" /\ Calling(g) /\ Now(g).op \in Operations
    BY <1>1 DEF Load, Clear, LoadOrStore, LoadAndDelete, Swap, CompareAndSwap, CompareAndDelete, Section,
                Operations, Storing
  <2>2. \E vector, r : Return(g, vector, r) /\ Right(g, vector, r)
    BY <1>1, LoadIs, ClearIs, LoadOrStoreIs, LoadAndDeleteIs, SwapIs, CompareAndSwapIs, CompareAndDeleteIs
  <2> QED BY <2>1, <2>2
<1>2. CASE Unhashable(g) \/ PutBack(g) \/ Snapshot(g) \/ Visit(g) \/ EndRange(g)
  BY <1>2 DEF Unhashable, PutBack, Snapshot, Visit, EndRange
<1>3. CASE Entries(g)
  <2>1. entries' = Append(entries, <<>>) \/ entries' = entries
    BY <1>3 DEF Entries
  <2>2. entries \in Seq(Vectors) /\ 1 \in 1 .. Len(entries)
    BY DEF MInv, MTypes
  <2>3. entries'[1] = entries[1]
    BY <2>1, <2>2
  <2> QED BY <1>3, <2>3 DEF Entries
<1> QED BY <1>1, <1>2, <1>3 DEF Advance

LEMMA NextMInv == ASSUME MInv, [Next]_vars PROVE MInv'
<1>1. ASSUME NEW g \in Goroutines, Advance(g) PROVE MInv'
  <2>1. ASSUME NEW vector, NEW r, Return(g, vector, r), Right(g, vector, r), pc[g] = "section", Calling(g)
        PROVE  MInv'
    BY <2>1, ReturnStep DEF Right
  <2> QED BY <1>1, <2>1, Steps, UnhashableStep, EntriesStep, PutBackStep, SnapshotStep, VisitStep, EndRangeStep
<1>2. CASE UNCHANGED vars
  BY <1>2, Unchanged
<1> QED BY <1>1, <1>2 DEF Next, Done

THEOREM MInvAlways == Spec => []MInv
<1>1. MInv /\ [Next]_vars => MInv'
  BY NextMInv
<1> QED BY <1>1, InitMInv, PTL DEF Spec

\* As long as no two goroutines have the map out of its field at once, a Range
\* that was not stopped has passed f every key that was there all along, and
\* none twice: the entries of the snapshot are those of the map at one instant.
THEOREM RangeVisitsAllAlways == Spec => []RangeVisitsAll
<1>1. MInv => RangeVisitsAll
  <2> SUFFICES ASSUME MInv, NEW g \in Goroutines, InRange(g), ranging[g].next > Len(List(g)), ~broken
               PROVE  LET visited == ranging[g].visited
                      IN  /\ due[g] \cap Keys \subseteq ToSet(visited)
                          /\ \A i, j \in DOMAIN visited :
                               visited[i] = visited[j] /\ visited[i] \in Keys => i = j
    BY DEF RangeVisitsAll
  <2> DEFINE r == ranging[g]
             l == r.list
             s == r.visited
  <2>1. r # None /\ l = List(g)
    BY DEF InRange, List
  <2>2. r \in RangeStates /\ Passing(r) /\ due[g] \subseteq KeysOf(l)
    BY <2>1 DEF MInv, MTypes, RangesOK
  <2>3. l \in Seq(Entry) /\ s \in Seq(StoredKeys) /\ r.next \in Nat
    BY <2>2 DEF RangeStates, Vectors
  <2>4. Len(s) = r.next - 1 /\ r.next <= Len(l) + 1 /\ Unique(l) /\ \A i \in DOMAIN s : s[i] = l[i][1]
    BY <2>2 DEF Passing
  <2>5. r.next > Len(l)
    BY <2>1
  <2> HIDE DEF l, s
  <2>6. DOMAIN s = DOMAIN l
    BY <2>3, <2>4, <2>5
  <2>7. due[g] \cap Keys \subseteq ToSet(s)
    BY <2>2, <2>4, <2>6 DEF KeysOf, ToSet
  <2>8. \A i, j \in DOMAIN s : s[i] = s[j] /\ s[i] \in Keys => i = j
    BY <2>4, <2>6 DEF Unique
  <2> QED BY <2>7, <2>8 DEF s
<1> QED BY <1>1, MInvAlways, PTL

-----------------------------------------------------------------------------
(* The refinement.                                                         *)

\* Until two goroutines have had the map out at once, there is one vector.
LEMMA ContentsAre == ASSUME MInv, ~broken PROVE Contents = Image(entries[1])
<1>1. /\ \A g \in Goroutines : handle[g] = 1
      /\ Out = {} => field = 1
  BY DEF MInv, OneVector
<1>2. Out # {} => (CHOOSE g \in Out : TRUE) \in Goroutines
  BY DEF Out
<1>3. Current = entries[1]
  BY <1>1, <1>2 DEF Current
<1> QED BY <1>3 DEF Contents, Image

LEMMA ContentsBecome == ASSUME MInv', ~broken' PROVE Contents' = Image(entries'[1])
<1>1. /\ \A g \in Goroutines : handle'[g] = 1
      /\ Out' = {} => field' = 1
  BY DEF MInv, OneVector
<1>2. Out' # {} => (CHOOSE g \in Out' : TRUE) \in Goroutines
  BY DEF Out
<1>3. Current' = entries'[1]
  BY <1>1, <1>2 DEF Current
<1> QED BY <1>3 DEF Contents, Image

LEMMA Triple == ASSUME NEW a, NEW b, NEW d PROVE <<a>> \o <<b, d>> = <<a, b, d>>
<1> DEFINE S == {a, b, d}
           s == <<a>>
           t == <<b, d>>
           p == s \o t
           q == <<a, b, d>>
<1>1. s \in Seq(S) /\ t \in Seq(S) /\ Len(s) = 1 /\ Len(t) = 2 /\ s[1] = a /\ t[1] = b /\ t[2] = d
  OBVIOUS
<1>2. q \in Seq(S) /\ Len(q) = 3 /\ q[1] = a /\ q[2] = b /\ q[3] = d
  OBVIOUS
<1> HIDE DEF S, s, t, q
<1>3. /\ p \in Seq(S) /\ Len(p) = Len(s) + Len(t)
      /\ \A i \in 1 .. Len(s) + Len(t) : p[i] = IF i <= Len(s) THEN s[i] ELSE t[i - Len(s)]
  BY <1>1, ConcatProperties
<1> HIDE DEF p
<1>4. Len(p) = 3 /\ \A i \in 1 .. 3 : p[i] = IF i <= 1 THEN s[i] ELSE t[i - 1]
  BY <1>1, <1>3
<1>5. p[1] = a /\ p[2] = b /\ p[3] = d
  BY <1>1, <1>4
<1>6. \A i \in 1 .. 3 : p[i] = q[i]
  BY <1>2, <1>5
<1>7. p = q
  BY <1>2, <1>3, <1>4, <1>6, SeqEqual
<1> QED BY <1>7 DEF p, q, s, t

LEMMA InitImplements == Init => Promised!Init
<1> SUFFICES ASSUME Init PROVE Promised!Init
  OBVIOUS
<1>1. MInv /\ ~broken /\ entries[1] = <<>> /\ result = [g \in Goroutines |-> <<None, None, FALSE>>] /\ broken = FALSE
  BY InitMInv DEF Init
<1>2. <<>> \in Vectors /\ Unique(<<>>) /\ DOMAIN <<>> = {}
  BY DEF Vectors, Unique
<1>3. Contents = [k \in Keys |-> None]
  BY <1>1, <1>2, ContentsAre, LookupIs DEF Image
<1> QED BY <1>1, <1>3 DEF Promised!Init

\* An operation is a step of the atomic map.
LEMMA OperationImplements ==
  ASSUME MInv, MInv', ~broken, ~broken', NEW g \in Goroutines, pc[g] = "section", Calling(g),
         Now(g).op \in Operations, NEW vector, NEW r, Return(g, vector, r), Right(g, vector, r)
  PROVE  Promised!Next
<1> DEFINE c == Now(g)
<1>1. c \in Made
  BY StoringCall
<1>2. Vector(g) = entries[1] /\ Contents = Image(Vector(g))
  BY ContentsAre DEF MInv, OneVector, Vector
<1>3. Contents' = Image(vector)
  <2>1. entries'[1] = vector
    <3>1. handle[g] = 1 /\ 1 \in DOMAIN entries
      BY DEF MInv, OneVector, MTypes
    <3> QED BY <3>1 DEF Return
  <2> QED BY <2>1, ContentsBecome
<1>4. result' = [result EXCEPT ![g] = <<c>> \o r]
  BY DEF Return
<1>5. CASE c.key \in Keys \/ c.op = "Clear"
  <2>1. Image(vector) = Promised!After(c) /\ r = Promised!Result(c)
    BY <1>2, <1>5 DEF Right
  <2>2. Promised!Do(g, c)
    BY <1>3, <1>4, <2>1, Zenon DEF Promised!Do
  <2> QED BY <1>1, <1>5, <2>2 DEF Promised!Next
<1>6. CASE ~(c.key \in Keys \/ c.op = "Clear")
  <2>1. Contents' = Contents
    BY <1>2, <1>3, <1>6 DEF Right
  <2>2. PICK value \in Values \cup {None}, ok \in BOOLEAN : r = <<value, ok>>
    BY DEF Right
  <2>3. <<c>> \o r = <<c, value, ok>>
    BY <2>2, Triple, Zenon
  <2>4. Promised!Other(g, c)
    BY <1>4, <2>1, <2>3, Zenon DEF Promised!Other
  <2> QED BY <1>1, <1>6, <2>4 DEF Promised!Next
<1> QED BY <1>5, <1>6

LEMMA NextImplements == ASSUME MInv, MInv', [Next]_vars PROVE [Promised!Next]_(Promised!vars)
<1>1. CASE broken'
  BY <1>1 DEF Promised!Next
<1>2. CASE ~broken'
  <2>1. CASE UNCHANGED vars
    BY <2>1 DEF vars, Promised!vars, Contents, Current, Out
  <2>2. ASSUME NEW g \in Goroutines, Advance(g) PROVE [Promised!Next]_(Promised!vars)
    <3>1. ASSUME Unhashable(g) \/ Entries(g) \/ PutBack(g) \/ Snapshot(g) \/ Visit(g) \/ EndRange(g),
                 entries'[1] = entries[1], UNCHANGED result
          PROVE  UNCHANGED Promised!vars
      <4>1. ~broken /\ broken' = broken
        BY <1>2, <3>1 DEF Unhashable, Entries, PutBack, Snapshot, Visit, EndRange, MInv, MTypes
      <4>2. Contents = Image(entries[1]) /\ Contents' = Image(entries'[1])
        BY <1>2, <4>1, ContentsAre, ContentsBecome
      <4>3. Contents' = Contents
        BY <3>1, <4>2
      <4> QED BY <3>1, <4>1, <4>3 DEF Promised!vars
    <3>2. ASSUME NEW vector, NEW r, Return(g, vector, r), Right(g, vector, r), pc[g] = "section", Calling(g),
                 Now(g).op \in Operations
          PROVE  Promised!Next
      <4>1. ~broken
        BY <1>2, <3>2 DEF Return
      <4> QED BY <1>2, <3>2, <4>1, OperationImplements
    <3> QED BY <2>2, <3>1, <3>2, Steps
  <2> QED BY <2>1, <2>2 DEF Next, Done
<1> QED BY <1>1, <1>2

\* The replacement of sync.Map is an atomic map, operation by operation, until
\* two goroutines have had a map that is a field out of it at once: the mutex
\* makes each operation atomic, and the entry of a key that compares is unique.
THEOREM ImplementsMapAlways == Spec => ImplementsMap
<1>1. MInv /\ MInv' /\ [Next]_vars => [Promised!Next]_(Promised!vars)
  BY NextImplements
<1> QED BY <1>1, InitImplements, MInvAlways, PTL DEF Spec, ImplementsMap, Promised!Spec
=============================================================================
