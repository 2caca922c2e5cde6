----------------------------- MODULE ManifestProofs -----------------------------
(***************************************************************************)
(* The static mounts and the manifests, for any constants.  StaticOK and   *)
(* ManifestsOK are their invariants.  That a lock tells what was declared  *)
(* rests on the order of its maps, which are written by key, and on the    *)
(* labels of an object, by which it is taken apart again.                  *)
(***************************************************************************)
EXTENDS Registries, Iteration

---------------------------------------------------------------------------------
\* The static mounts and the copies of a client.

MountRecord == [prefix : MountPrefixes, dir : Dirs, fallback : Fallbacks]
Before == {pair \in MountRecord \X MountRecord :
             pair[1].prefix # pair[2].prefix /\ Len(pair[1].prefix) >= Len(pair[2].prefix)}

\* A copy's ETag is its content's; a request that asks with an ETag asks with the copy's.
CopiesOK ==
  /\ \A p \in DOMAIN copies : copies[p].etag = copies[p].content
  /\ request # Static!Idle =>
       /\ DOMAIN request = {"at", "method", "path", "bytes", "file", "inm", "ims"}
       /\ (request.inm # Static!Absent =>
             request.path \in DOMAIN copies /\ copies[request.path].content = request.inm)
  /\ page # Static!Idle =>
       (page.status = 304 /\ page.byEtag =>
          page.path \in DOMAIN copies /\ copies[page.path].content = page.content)

\* The longest prefix comes first, and each prefix once.
MountsOK == mounts \in Seq(MountRecord) /\ InOrder(mounts, Before)

StaticOK == MountsOK /\ CopiesOK

LEMMA StaticKept == \A s, S : Static!Kept(s, S) = Kept(s, S)
  BY DEF Static!Kept, Kept, Static!KeptUpTo, KeptUpTo

LEMMA StaticToSet == \A s : Static!ToSet(s) = ToSet(s)
  BY DEF Static!ToSet, ToSet

LEMMA IsBefore ==
  \A m, n \in MountRecord : <<m, n>> \in Before <=> m.prefix # n.prefix /\ Len(m.prefix) >= Len(n.prefix)
  BY DEF Before

LEMMA StaticInit == Static!Init => StaticOK
  <1> SUFFICES ASSUME Static!Init PROVE StaticOK
    OBVIOUS
  <1>1. mounts = <<>> /\ copies = [p \in {} |-> Static!Absent] /\ request = Static!Idle /\ page = Static!Idle
    BY DEF Static!Init
  <1>2. MountsOK
    BY <1>1, EmptySeq DEF MountsOK, InOrder
  <1>3. CopiesOK
    BY <1>1 DEF CopiesOK
  <1>4. QED
    BY <1>2, <1>3 DEF StaticOK

LEMMA LengthsOfPrefixes == \A m \in MountRecord : Len(m.prefix) \in Nat
  BY PrefixesAssumption, LenProperties DEF MountRecord

\* A mount replaced in place.
LEMMA MountsReplaced ==
  ASSUME NEW ms \in Seq(MountRecord), InOrder(ms, Before), NEW mount \in MountRecord
  PROVE  LET new == [i \in DOMAIN ms |-> IF ms[i].prefix = mount.prefix THEN mount ELSE ms[i]]
         IN new \in Seq(MountRecord) /\ InOrder(new, Before)
  <1> DEFINE new == [i \in DOMAIN ms |-> IF ms[i].prefix = mount.prefix THEN mount ELSE ms[i]]
  <1>1. DOMAIN ms = 1 .. Len(ms) /\ Len(ms) \in Nat /\ \A i \in 1 .. Len(ms) : ms[i] \in MountRecord
    BY LenProperties, ElementOfSeq
  <1>2. new \in [1 .. Len(ms) -> MountRecord]
    BY <1>1
  <1>3. new \in Seq(MountRecord)
    BY <1>1, <1>2, SeqDef
  <1>4. \A i \in 1 .. Len(ms) : new[i] \in MountRecord /\ new[i].prefix = ms[i].prefix
    BY <1>1
  <1>5. Len(new) = Len(ms)
    BY <1>1, <1>2, <1>3, LenProperties
  <1> HIDE DEF new
  <1>6. InOrder(new, Before)
    <2> SUFFICES ASSUME NEW i \in 1 .. Len(ms), NEW j \in 1 .. Len(ms), i < j
                 PROVE  <<new[i], new[j]>> \in Before
      BY <1>5 DEF InOrder
    <2>1. <<ms[i], ms[j]>> \in Before
      BY DEF InOrder
    <2>2. ms[i] \in MountRecord /\ ms[j] \in MountRecord
      BY <1>1
    <2>3. ms[i].prefix # ms[j].prefix /\ Len(ms[i].prefix) >= Len(ms[j].prefix)
      BY <2>1, <2>2, IsBefore
    <2>4. /\ new[i] \in MountRecord /\ new[j] \in MountRecord
          /\ new[i].prefix = ms[i].prefix /\ new[j].prefix = ms[j].prefix
      BY <1>4
    <2>5. QED
      BY <2>3, <2>4, IsBefore
  <1>7. QED
    BY <1>3, <1>6 DEF new

\* A mount added between the longer and the shorter ones.
LEMMA MountsAdded ==
  ASSUME NEW ms \in Seq(MountRecord), InOrder(ms, Before), NEW mount \in MountRecord,
         \A i \in DOMAIN ms : ms[i].prefix # mount.prefix,
         NEW longer, longer = {m \in ToSet(ms) : Len(m.prefix) >= Len(mount.prefix)}
  PROVE  LET new == Kept(ms, longer) \o <<mount>> \o Kept(ms, ToSet(ms) \ longer)
         IN new \in Seq(MountRecord) /\ InOrder(new, Before)
  <1> DEFINE front == Kept(ms, longer)
             back == Kept(ms, ToSet(ms) \ longer)
  <1>1. \A x \in ToSet(ms) : x \in MountRecord /\ x.prefix # mount.prefix
    BY LenProperties, ElementOfSeq DEF ToSet
  <1>2. front \in Seq(MountRecord) /\ InOrder(front, Before) /\ back \in Seq(MountRecord) /\ InOrder(back, Before)
    BY KeptIn, KeptInOrder
  <1>3. /\ \A x : Contains(front, x) => x \in longer
        /\ \A x : Contains(back, x) => x \in ToSet(ms) \ longer
    BY KeptContains
  <1> HIDE DEF front, back
  <1>4. \A x : Contains(front, x) => /\ x \in MountRecord /\ x.prefix # mount.prefix
                                     /\ Len(x.prefix) >= Len(mount.prefix)
    BY <1>1, <1>3
  <1>5. \A y : Contains(back, y) => /\ y \in MountRecord /\ y.prefix # mount.prefix
                                    /\ Len(mount.prefix) >= Len(y.prefix) /\ Len(mount.prefix) # Len(y.prefix)
    BY <1>1, <1>3, LengthsOfPrefixes
  <1>6. \A x, y : Contains(front, x) /\ Contains(back, y) => <<x, y>> \in Before
    <2> SUFFICES ASSUME NEW x, NEW y, Contains(front, x), Contains(back, y) PROVE <<x, y>> \in Before
      OBVIOUS
    <2>1. Len(x.prefix) \in Nat /\ Len(y.prefix) \in Nat /\ Len(mount.prefix) \in Nat
      BY <1>4, <1>5, LengthsOfPrefixes
    <2>2. x.prefix # y.prefix /\ Len(x.prefix) >= Len(y.prefix)
      BY <1>4, <1>5, <2>1
    <2>3. QED
      BY <1>4, <1>5, <2>2, IsBefore
  <1>7. /\ \A x : Contains(front, x) => <<x, mount>> \in Before
        /\ \A y : Contains(back, y) => <<mount, y>> \in Before
    BY <1>4, <1>5, IsBefore
  <1>8. QED
    BY <1>2, <1>6, <1>7, BetweenInOrder DEF front, back

LEMMA MountsNext ==
  ASSUME MountsOK, [Static!Next]_staticVars
  PROVE  MountsOK'
  <1>1. ASSUME NEW p \in MountPrefixes, NEW d \in Dirs, NEW f \in Fallbacks, Static!Register(p, d, f)
        PROVE  MountsOK'
    <2> DEFINE mount == [prefix |-> p, dir |-> d, fallback |-> f]
               longer == {m \in ToSet(mounts) : Len(m.prefix) >= Len(mount.prefix)}
    <2>1. mount \in MountRecord
      BY DEF MountRecord
    <2>2. mounts' = Static!WithMount(mounts, mount)
      BY <1>1 DEF Static!Register
    <2> HIDE DEF mount
    <2>3. CASE \E i \in DOMAIN mounts : mounts[i].prefix = mount.prefix
      <3>1. mounts' = [i \in DOMAIN mounts |-> IF mounts[i].prefix = mount.prefix THEN mount ELSE mounts[i]]
        BY <2>2, <2>3 DEF Static!WithMount
      <3>2. QED
        BY <2>1, <3>1, MountsReplaced DEF MountsOK
    <2>4. CASE ~ \E i \in DOMAIN mounts : mounts[i].prefix = mount.prefix
      <3>1. mounts' = Kept(mounts, longer) \o <<mount>> \o Kept(mounts, ToSet(mounts) \ longer)
        BY <2>2, <2>4, StaticKept, StaticToSet DEF Static!WithMount
      <3> HIDE DEF longer
      <3>2. longer = {m \in ToSet(mounts) : Len(m.prefix) >= Len(mount.prefix)}
        BY DEF longer
      <3>3. QED
        BY <2>1, <2>4, <3>1, <3>2, MountsAdded DEF MountsOK
    <2>5. QED
      BY <2>3, <2>4
  <1>2. ASSUME NEW p \in MountPrefixes, Static!Unmount(p)
        PROVE  MountsOK'
    <2> DEFINE rest == {m \in ToSet(mounts) : m.prefix # p}
    <2>1. mounts' = Kept(mounts, rest)
      BY <1>2, StaticKept, StaticToSet DEF Static!Unmount
    <2> HIDE DEF rest
    <2>2. QED
      BY <2>1, KeptIn, KeptInOrder DEF MountsOK
  <1>3. CASE UNCHANGED mounts
    BY <1>3 DEF MountsOK
  <1>4. QED
    BY <1>1, <1>2, <1>3
    DEF Static!Next, Static!Delete, Static!Save, Static!Tick, Static!Ask, Static!ReadFile,
        Static!Respond, staticVars

LEMMA CopiesNext ==
  ASSUME CopiesOK, [Static!Next]_staticVars
  PROVE  CopiesOK'
  <1>1. CASE UNCHANGED <<copies, request, page>>
    BY <1>1 DEF CopiesOK
  <1>2. ASSUME NEW m \in {"GET", "HEAD"}, NEW p \in Paths, NEW e \in BOOLEAN, NEW d \in BOOLEAN,
               Static!Ask(m, p, e, d)
        PROVE  CopiesOK'
    <2>1. copies' = copies /\ page' = Static!Idle /\ (e => p \in DOMAIN copies)
      BY <1>2 DEF Static!Ask
    <2>2. /\ DOMAIN request' = {"at", "method", "path", "bytes", "file", "inm", "ims"}
          /\ request'.path = p
          /\ request'.inm = IF e THEN copies[p].etag ELSE Static!Absent
      BY <1>2 DEF Static!Ask
    <2>3. QED
      BY <2>1, <2>2 DEF CopiesOK
  <1>3. CASE Static!ReadFile
    <2>1. copies' = copies /\ request.at = "matched"
      BY <1>3 DEF Static!ReadFile
    <2>2. CASE Static!NotFound
      BY <2>1, <2>2 DEF Static!NotFound, CopiesOK, Static!Idle
    <2>3. CASE ~ Static!NotFound
      <3>1. page' = page
        BY <1>3, <2>3 DEF Static!ReadFile
      <3>2. PICK f, b : request' = [request EXCEPT !.at = "read", !.file = f, !.bytes = b]
        BY <1>3, <2>3 DEF Static!ReadFile
      <3>3. request # Static!Idle
        BY <2>1 DEF Static!Idle
      <3>4. /\ DOMAIN request' = DOMAIN request
            /\ request'.inm = request.inm /\ request'.path = request.path
        BY <3>2, <3>3 DEF CopiesOK
      <3>5. QED
        BY <2>1, <3>1, <3>3, <3>4 DEF CopiesOK
    <2>4. QED
      BY <2>2, <2>3
  <1>4. CASE Static!Respond
    <2> DEFINE modified == IF request.file \in DOMAIN files THEN Static!Date(files[request.file].mtime)
                           ELSE Static!Absent
               copy == [content |-> request.bytes, etag |-> request.bytes, modified |-> modified]
    <2>1. /\ request.at = "read" /\ request' = Static!Idle
          /\ page' = Static!Answer(request, modified)
          /\ copies' = IF page'.status = 200 /\ request.method = "GET"
                       THEN Static!Put(copies, request.path, copy) ELSE copies
      BY <1>4 DEF Static!Respond
    <2>2. request # Static!Idle
      BY <2>1 DEF Static!Idle
    <2>3. copy.etag = copy.content
      OBVIOUS
    <2> HIDE DEF modified, copy
    <2>4. \A p \in DOMAIN copies' : copies'[p].etag = copies'[p].content
      BY <2>1, <2>3 DEF CopiesOK, Static!Put
    <2>5. page'.status = 304 /\ page'.byEtag =>
            page'.path \in DOMAIN copies' /\ copies'[page'.path].content = page'.content
      <3> SUFFICES ASSUME page'.status = 304, page'.byEtag
                   PROVE  page'.path \in DOMAIN copies' /\ copies'[page'.path].content = page'.content
        OBVIOUS
      <3>1. copies' = copies
        BY <2>1
      <3>2. /\ Static!Unchanged(request, modified) /\ request.inm # Static!Absent
            /\ page'.path = request.path /\ page'.content = request.bytes
        BY <2>1 DEF Static!Answer
      <3>3. request.inm = request.bytes
        BY <3>2 DEF Static!Unchanged
      <3>4. QED
        BY <2>2, <3>1, <3>2, <3>3 DEF CopiesOK
    <2>6. QED
      BY <2>1, <2>4, <2>5 DEF CopiesOK
  <1>5. QED
    BY <1>1, <1>2, <1>3, <1>4
    DEF Static!Next, Static!Register, Static!Unmount, Static!Delete, Static!Save, Static!Tick, staticVars

LEMMA StaticNext ==
  ASSUME StaticOK, [Static!Next]_staticVars
  PROVE  StaticOK'
  BY MountsNext, CopiesNext DEF StaticOK

\* The first mount that covers a path has the longest prefix of those that do.
LEMMA StaticSafe == StaticOK => Static!MostSpecificMountServes /\ Static!CopiesAreConfirmed
  <1> SUFFICES ASSUME StaticOK PROVE Static!MostSpecificMountServes /\ Static!CopiesAreConfirmed
    OBVIOUS
  <1>1. /\ DOMAIN mounts = 1 .. Len(mounts) /\ Len(mounts) \in Nat
        /\ \A i \in 1 .. Len(mounts) : mounts[i] \in MountRecord
        /\ InOrder(mounts, Before)
    BY LenProperties, ElementOfSeq DEF StaticOK, MountsOK
  <1>2. ASSUME NEW i \in 1 .. Len(mounts), NEW j \in 1 .. Len(mounts), i < j
        PROVE  mounts[i].prefix # mounts[j].prefix /\ Len(mounts[i].prefix) >= Len(mounts[j].prefix)
    <2>1. <<mounts[i], mounts[j]>> \in Before
      BY <1>1, <1>2 DEF InOrder
    <2>2. QED
      BY <1>1, <2>1, IsBefore
  <1>3. \A i, j \in DOMAIN mounts : mounts[i].prefix = mounts[j].prefix => i = j
    <2> SUFFICES ASSUME NEW i \in 1 .. Len(mounts), NEW j \in 1 .. Len(mounts), i # j
                 PROVE  mounts[i].prefix # mounts[j].prefix
      BY <1>1
    <2>1. i < j \/ j < i
      BY <1>1
    <2>2. QED
      BY <1>2, <2>1
  <1>4. ASSUME NEW p \in Paths, NEW i \in DOMAIN mounts, Static!Covers(mounts[i], p)
        PROVE  Len(mounts[i].prefix) <= Len(Static!FindMount(p).prefix)
    <2> DEFINE covering == {j \in DOMAIN mounts : Static!Covers(mounts[j], p)}
    <2>1. i \in covering /\ covering \in SUBSET Nat
      BY <1>1, <1>4
    <2>2. Static!FindMount(p) = mounts[Static!Min(covering)]
      BY DEF Static!FindMount
    <2>3. Static!Min(covering) \in covering /\ \A j \in covering : Static!Min(covering) <= j
      <3> HIDE DEF covering
      <3>1. \E n \in covering : \A j \in covering : n =< j
        BY <2>1, SmallestNat
      <3>2. QED
        BY <3>1 DEF Static!Min
    <2>4. PICK n \in covering : n = Static!Min(covering) /\ n <= i
      BY <2>1, <2>3
    <2>5. n \in 1 .. Len(mounts) /\ i \in 1 .. Len(mounts)
      BY <1>1, <1>4
    <2>6. Len(mounts[n].prefix) >= Len(mounts[i].prefix)
      <3>1. CASE n = i
        BY <1>1, <2>5, <3>1, LengthsOfPrefixes
      <3>2. CASE n # i
        <4>1. n < i
          BY <1>1, <2>4, <2>5, <3>2
        <4>2. QED
          BY <1>2, <2>5, <4>1
      <3>3. QED
        BY <3>1, <3>2
    <2>7. QED
      BY <1>1, <2>2, <2>4, <2>5, <2>6, LengthsOfPrefixes
  <1>5. Static!CopiesAreConfirmed
    BY DEF StaticOK, CopiesOK, Static!CopiesAreConfirmed
  <1>6. QED
    BY <1>3, <1>4, <1>5 DEF Static!MostSpecificMountServes

---------------------------------------------------------------------------------
\* The manifests.

\* The texts and the states of a builder.  (The provers do not know that a literal is
\* in STRING.)
Texts == Seq(STRING \cup {"d", "e", "ts", "bridge/demo-", ":1"})
States == {"absent", "building", "final", "bad name", "invalid", "duplicate resource", "unknown reference"}

LEMMA TextsAre ==
  /\ \A text \in Manifests!Texts : text \in Texts
  /\ \A file \in Seq(Manifests!Texts) : file \in Seq(Texts)
  <1>1. ASSUME NEW X, NEW Y, X \subseteq Y, NEW s \in Seq(X) PROVE s \in Seq(Y)
    <2>1. s = [i \in 1 .. Len(s) |-> s[i]] /\ Len(s) \in Nat
      BY LenProperties
    <2>2. \A i \in 1 .. Len(s) : s[i] \in Y
      BY <1>1, ElementOfSeq
    <2>3. QED
      BY <2>1, <2>2, IsASeq
  <1>2. \A text \in Manifests!Texts : text \in Texts
    BY <1>1 DEF Manifests!Texts, Texts
  <1>3. QED
    BY <1>1, <1>2

Chars == {"-", "0", "1", "2", "3", "4", "5", "6", "7", "8", "9", "A", "B", "a", "b", "c", "d", "e"}

\* Entries of a map by their keys.
Ports == {pair \in (Nat \X Nat) \X (Nat \X Nat) : pair[1][1] < pair[2][1]}

LEMMA ManifestKept == \A s, S : Manifests!Kept(s, S) = Kept(s, S)
  BY DEF Manifests!Kept, Kept, Manifests!KeptUpTo, KeptUpTo

LEMMA ManifestToSet == \A s : Manifests!ToSet(s) = ToSet(s)
  BY DEF Manifests!ToSet, ToSet

\* Characters have numbers.
LEMMA OrdType == \A c \in Chars : Manifests!Ord(c) \in Int
  <1> SUFFICES ASSUME NEW c \in Chars PROVE Manifests!Ord(c) \in Int
    OBVIOUS
  <1>1. \E i \in DOMAIN Manifests!Alphabet : Manifests!Alphabet[i] = c
    BY DEF Manifests!Alphabet, Chars
  <1>2. DOMAIN Manifests!Alphabet \subseteq Int
    BY DEF Manifests!Alphabet
  <1>3. QED
    BY <1>1, <1>2 DEF Manifests!Ord

\* Text in front of text: nothing is in front of itself, and the order is transitive.
LEMMA ByNameIrreflexive ==
  ASSUME NEW k \in Seq(Chars)
  PROVE  ~ Manifests!ByName(k, k)
  <1>1. ASSUME NEW i \in DOMAIN k PROVE ~ (Manifests!Ord(k[i]) < Manifests!Ord(k[i]))
    <2>1. k[i] \in Chars
      BY LenProperties, ElementOfSeq
    <2>2. Manifests!Ord(k[i]) \in Int
      BY <2>1, OrdType
    <2>3. QED
      BY <2>2
  <1>2. QED
    BY <1>1 DEF Manifests!ByName

LEMMA ByNameTransitive ==
  ASSUME NEW k \in Seq(Chars), NEW l \in Seq(Chars), NEW m \in Seq(Chars),
         Manifests!ByName(k, l), Manifests!ByName(l, m)
  PROVE  Manifests!ByName(k, m)
  <1> DEFINE O(c) == Manifests!Ord(c)
  <1>1. PICK a \in DOMAIN l : /\ \A j \in 1 .. (a - 1) : j \in DOMAIN k /\ k[j] = l[j]
                              /\ a \in DOMAIN k => O(k[a]) < O(l[a])
    BY DEF Manifests!ByName
  <1>2. PICK b \in DOMAIN m : /\ \A j \in 1 .. (b - 1) : j \in DOMAIN l /\ l[j] = m[j]
                              /\ b \in DOMAIN l => O(l[b]) < O(m[b])
    BY DEF Manifests!ByName
  <1>3. /\ DOMAIN k = 1 .. Len(k) /\ DOMAIN l = 1 .. Len(l) /\ DOMAIN m = 1 .. Len(m)
        /\ Len(k) \in Nat /\ Len(l) \in Nat /\ Len(m) \in Nat
    BY LenProperties
  <1>4. /\ \A i \in DOMAIN k : O(k[i]) \in Int
        /\ \A i \in DOMAIN l : O(l[i]) \in Int
        /\ \A i \in DOMAIN m : O(m[i]) \in Int
    <2>1. /\ \A i \in DOMAIN k : k[i] \in Chars
          /\ \A i \in DOMAIN l : l[i] \in Chars
          /\ \A i \in DOMAIN m : m[i] \in Chars
      BY <1>3, ElementOfSeq
    <2>2. QED
      BY <2>1, OrdType
  <1> HIDE DEF O
  <1>5. SUFFICES \E i \in DOMAIN m : /\ \A j \in 1 .. (i - 1) : j \in DOMAIN k /\ k[j] = m[j]
                                     /\ i \in DOMAIN k => O(k[i]) < O(m[i])
    BY DEF Manifests!ByName, O
  <1>6. CASE a < b
    <2>1. a \in 1 .. (b - 1) /\ a \in DOMAIN m /\ l[a] = m[a]
      BY <1>2, <1>3, <1>6
    <2>2. \A j \in 1 .. (a - 1) : j \in DOMAIN k /\ k[j] = m[j]
      <3> SUFFICES ASSUME NEW j \in 1 .. (a - 1) PROVE j \in DOMAIN k /\ k[j] = m[j]
        OBVIOUS
      <3>1. j \in 1 .. (b - 1)
        BY <1>3, <1>6
      <3>2. QED
        BY <1>1, <1>2, <3>1
    <2>3. a \in DOMAIN k => O(k[a]) < O(m[a])
      BY <1>1, <2>1
    <2>4. QED
      BY <2>1, <2>2, <2>3
  <1>7. CASE b <= a
    <2>1. b \in DOMAIN l
      BY <1>3, <1>7
    <2>2. \A j \in 1 .. (b - 1) : j \in DOMAIN k /\ k[j] = m[j]
      <3> SUFFICES ASSUME NEW j \in 1 .. (b - 1) PROVE j \in DOMAIN k /\ k[j] = m[j]
        OBVIOUS
      <3>1. j \in 1 .. (a - 1)
        BY <1>3, <1>7
      <3>2. QED
        BY <1>1, <1>2, <3>1
    <2>3. b \in DOMAIN k => O(k[b]) < O(m[b])
      <3> SUFFICES ASSUME b \in DOMAIN k PROVE O(k[b]) < O(m[b])
        OBVIOUS
      <3>1. O(l[b]) < O(m[b])
        BY <1>2, <2>1
      <3>2. CASE b = a
        BY <1>1, <1>4, <2>1, <3>1, <3>2
      <3>3. CASE b # a
        <4>1. b \in 1 .. (a - 1)
          BY <1>3, <1>7, <3>3
        <4>2. QED
          BY <1>1, <3>1, <4>1
      <3>4. QED
        BY <3>2, <3>3
    <2>4. QED
      BY <2>2, <2>3
  <1>8. QED
    BY <1>3, <1>6, <1>7

---------------------------------------------------------------------------------
\* Maps in order of their keys.

Named(V) == {pair \in (Seq(Chars) \X V) \X (Seq(Chars) \X V) : Manifests!ByName(pair[1][1], pair[2][1])}

Transitive(X, R) == \A x, y, z \in X : <<x, y>> \in R /\ <<y, z>> \in R => <<x, z>> \in R
Irreflexive(X, R) == \A x \in X : <<x, x>> \notin R

LEMMA NamedOrder ==
  ASSUME NEW V
  PROVE  /\ Transitive(Seq(Chars) \X V, Named(V)) /\ Irreflexive(Seq(Chars) \X V, Named(V))
         /\ \A x, y \in Seq(Chars) \X V : <<x, y>> \in Named(V) <=> Manifests!ByName(x[1], y[1])
  <1>1. \A x, y \in Seq(Chars) \X V : <<x, y>> \in Named(V) <=> Manifests!ByName(x[1], y[1])
    BY DEF Named
  <1>2. \A x \in Seq(Chars) \X V : x[1] \in Seq(Chars)
    OBVIOUS
  <1>3. Irreflexive(Seq(Chars) \X V, Named(V))
    BY <1>1, <1>2, ByNameIrreflexive DEF Irreflexive
  <1>4. Transitive(Seq(Chars) \X V, Named(V))
    <2> SUFFICES ASSUME NEW x \in Seq(Chars) \X V, NEW y \in Seq(Chars) \X V, NEW z \in Seq(Chars) \X V,
                        <<x, y>> \in Named(V), <<y, z>> \in Named(V)
                 PROVE  <<x, z>> \in Named(V)
      BY DEF Transitive
    <2>1. Manifests!ByName(x[1], y[1]) /\ Manifests!ByName(y[1], z[1])
      BY <1>1
    <2>2. Manifests!ByName(x[1], z[1])
      BY <1>2, <2>1, ByNameTransitive
    <2>3. QED
      BY <1>1, <2>2
  <1>5. QED
    BY <1>1, <1>3, <1>4

LEMMA PortsOrder ==
  /\ Transitive(Nat \X Nat, Ports) /\ Irreflexive(Nat \X Nat, Ports)
  /\ \A x, y \in Nat \X Nat : <<x, y>> \in Ports <=> x[1] < y[1]
  <1>1. \A x, y \in Nat \X Nat : <<x, y>> \in Ports <=> x[1] < y[1]
    BY DEF Ports
  <1>2. \A x \in Nat \X Nat : x[1] \in Nat
    OBVIOUS
  <1>3. QED
    BY <1>1, <1>2 DEF Transitive, Irreflexive

\* An entry put between those before it and those after it.
LEMMA InsertedInOrder ==
  ASSUME NEW X, NEW map \in Seq(X), NEW R, Transitive(X, R), InOrder(map, R), NEW new \in X,
         NEW low, low = {e \in ToSet(map) : <<e, new>> \in R},
         NEW high, high = {e \in ToSet(map) : <<new, e>> \in R}
  PROVE  LET all == Kept(map, low) \o <<new>> \o Kept(map, high)
         IN all \in Seq(X) /\ InOrder(all, R)
  <1> DEFINE front == Kept(map, low)
             back == Kept(map, high)
  <1>1. front \in Seq(X) /\ InOrder(front, R) /\ back \in Seq(X) /\ InOrder(back, R)
    BY KeptIn, KeptInOrder
  <1>2. /\ \A x : Contains(front, x) => x \in low
        /\ \A x : Contains(back, x) => x \in high
    BY KeptContains
  <1> HIDE DEF front, back
  <1>3. \A e \in ToSet(map) : e \in X
    BY LenProperties, ElementOfSeq DEF ToSet
  <1>4. /\ \A x : Contains(front, x) => <<x, new>> \in R
        /\ \A y : Contains(back, y) => <<new, y>> \in R
        /\ \A x, y : Contains(front, x) /\ Contains(back, y) => <<x, y>> \in R
    BY <1>2, <1>3 DEF Transitive
  <1>5. QED
    BY <1>1, <1>4, BetweenInOrder DEF front, back

LEMMA InsertedByName ==
  ASSUME NEW V, NEW map \in Seq(Seq(Chars) \X V), InOrder(map, Named(V)), NEW k \in Seq(Chars), NEW v \in V
  PROVE  LET all == Manifests!Inserted(map, k, v, Manifests!ByName)
         IN all \in Seq(Seq(Chars) \X V) /\ InOrder(all, Named(V))
  <1> DEFINE X == Seq(Chars) \X V
             new == <<k, v>>
             low == {e \in ToSet(map) : Manifests!ByName(e[1], k)}
             high == {e \in ToSet(map) : Manifests!ByName(k, e[1])}
  <1>1. new \in X /\ new[1] = k
    OBVIOUS
  <1>2. \A e \in ToSet(map) : e \in X
    BY LenProperties, ElementOfSeq DEF ToSet
  <1>3. /\ low = {e \in ToSet(map) : <<e, new>> \in Named(V)}
        /\ high = {e \in ToSet(map) : <<new, e>> \in Named(V)}
    <2>1. \A e \in ToSet(map) : /\ Manifests!ByName(e[1], k) <=> <<e, new>> \in Named(V)
                                /\ Manifests!ByName(k, e[1]) <=> <<new, e>> \in Named(V)
      BY <1>1, <1>2, NamedOrder
    <2>2. QED
      BY <2>1
  <1>4. Manifests!Inserted(map, k, v, Manifests!ByName) = Kept(map, low) \o <<new>> \o Kept(map, high)
    BY ManifestKept, ManifestToSet DEF Manifests!Inserted
  <1> HIDE DEF new, low, high
  <1>5. LET all == Kept(map, low) \o <<new>> \o Kept(map, high) IN all \in Seq(X) /\ InOrder(all, Named(V))
    BY <1>1, <1>3, NamedOrder, InsertedInOrder
  <1>6. QED
    BY <1>4, <1>5

LEMMA InsertedByNumber ==
  ASSUME NEW map \in Seq(Nat \X Nat), InOrder(map, Ports), NEW k \in Nat, NEW v \in Nat
  PROVE  LET all == Manifests!Inserted(map, k, v, Manifests!ByNumber)
         IN all \in Seq(Nat \X Nat) /\ InOrder(all, Ports)
  <1> DEFINE X == Nat \X Nat
             new == <<k, v>>
             low == {e \in ToSet(map) : Manifests!ByNumber(e[1], k)}
             high == {e \in ToSet(map) : Manifests!ByNumber(k, e[1])}
  <1>1. new \in X /\ new[1] = k
    OBVIOUS
  <1>2. \A e \in ToSet(map) : e \in X
    BY LenProperties, ElementOfSeq DEF ToSet
  <1>3. /\ low = {e \in ToSet(map) : <<e, new>> \in Ports}
        /\ high = {e \in ToSet(map) : <<new, e>> \in Ports}
    <2>1. \A e \in ToSet(map) : /\ Manifests!ByNumber(e[1], k) <=> <<e, new>> \in Ports
                                /\ Manifests!ByNumber(k, e[1]) <=> <<new, e>> \in Ports
      BY <1>1, <1>2, PortsOrder DEF Manifests!ByNumber
    <2>2. QED
      BY <2>1
  <1>4. Manifests!Inserted(map, k, v, Manifests!ByNumber) = Kept(map, low) \o <<new>> \o Kept(map, high)
    BY ManifestKept, ManifestToSet DEF Manifests!Inserted
  <1> HIDE DEF new, low, high
  <1>5. LET all == Kept(map, low) \o <<new>> \o Kept(map, high) IN all \in Seq(X) /\ InOrder(all, Ports)
    BY <1>1, <1>3, PortsOrder, InsertedInOrder
  <1>6. QED
    BY <1>4, <1>5

---------------------------------------------------------------------------------
\* Declared services.

SpecRecord ==
  [image : Texts, ports : Seq(Nat \X Nat), env : Seq(Seq(Chars) \X Texts),
   bucket : Seq(Texts), topic : Seq(Texts), database : Seq(Texts)]
Specs == {s \in SpecRecord : InOrder(s.ports, Ports) /\ InOrder(s.env, Named(Texts))}

LEMMA CharsAre == ToSet(Manifests!Alphabet) = Chars
  BY DEF ToSet, Manifests!Alphabet, Chars

LEMMA NewSpecOK == \A image \in Texts : Manifests!NewSpec(image) \in Specs
  <1> SUFFICES ASSUME NEW image \in Texts PROVE Manifests!NewSpec(image) \in Specs
    OBVIOUS
  <1>1. \A R : InOrder(<<>>, R)
    BY DEF InOrder
  <1>2. \A X : <<>> \in Seq(X)
    OBVIOUS
  <1>3. Manifests!NewSpec(image) \in SpecRecord
    BY <1>2 DEF Manifests!NewSpec, SpecRecord
  <1>4. QED
    BY <1>1, <1>3 DEF Manifests!NewSpec, Specs

LEMMA WithOK ==
  ASSUME NEW spec \in Specs, NEW call \in Manifests!Call
  PROVE  Manifests!With(spec, call) \in Specs
  <1>1. /\ spec \in SpecRecord /\ InOrder(spec.ports, Ports) /\ InOrder(spec.env, Named(Texts))
        /\ spec.ports \in Seq(Nat \X Nat) /\ spec.env \in Seq(Seq(Chars) \X Texts)
        /\ spec.bucket \in Seq(Texts) /\ spec.topic \in Seq(Texts) /\ spec.database \in Seq(Texts)
    BY DEF Specs, SpecRecord
  <1>2. CASE call \in {"port"} \X Nat \X Nat
    <2> DEFINE new == Manifests!Inserted(spec.ports, call[2], call[3], Manifests!ByNumber)
    <2>1. call[1] = "port" /\ call[2] \in Nat /\ call[3] \in Nat
      BY <1>2
    <2>2. new \in Seq(Nat \X Nat) /\ InOrder(new, Ports)
      BY <1>1, <2>1, InsertedByNumber
    <2>3. Manifests!With(spec, call) = [spec EXCEPT !.ports = new]
      BY <2>1 DEF Manifests!With
    <2> HIDE DEF new
    <2>4. [spec EXCEPT !.ports = new] \in SpecRecord
      BY <1>1, <2>2 DEF SpecRecord
    <2>5. QED
      BY <1>1, <2>2, <2>3, <2>4 DEF Specs, SpecRecord
  <1>3. CASE call \in {"env"} \X Seq(Manifests!ToSet(Manifests!Alphabet)) \X Manifests!Texts
    <2> DEFINE new == Manifests!Inserted(spec.env, call[2], call[3], Manifests!ByName)
    <2>1. call[1] = "env" /\ call[2] \in Seq(Chars) /\ call[3] \in Texts
      BY <1>3, CharsAre, ManifestToSet, TextsAre
    <2>2. new \in Seq(Seq(Chars) \X Texts) /\ InOrder(new, Named(Texts))
      BY <1>1, <2>1, InsertedByName
    <2>3. Manifests!With(spec, call) = [spec EXCEPT !.env = new]
      BY <2>1 DEF Manifests!With
    <2> HIDE DEF new
    <2>4. [spec EXCEPT !.env = new] \in SpecRecord
      BY <1>1, <2>2 DEF SpecRecord
    <2>5. QED
      BY <1>1, <2>2, <2>3, <2>4 DEF Specs, SpecRecord
  <1>4. CASE call \in {"bucket", "topic", "database"} \X Manifests!Texts
    <2>1. call[1] \in {"bucket", "topic", "database"} /\ call[2] \in Texts
      BY <1>4, TextsAre
    <2>2. \A list \in Seq(Texts) : Append(list, call[2]) \in Seq(Texts)
      BY <2>1, AppendProperties
    <2>3. Manifests!With(spec, call) = [spec EXCEPT ![call[1]] = Append(spec[call[1]], call[2])]
      BY <2>1 DEF Manifests!With
    <2> DEFINE new == Append(spec[call[1]], call[2])
    <2>4. spec[call[1]] \in Seq(Texts)
      BY <1>1, <2>1
    <2>5. new \in Seq(Texts)
      BY <2>2, <2>4
    <2> HIDE DEF new
    <2>6. [spec EXCEPT ![call[1]] = new] \in SpecRecord
      BY <1>1, <2>1, <2>5 DEF SpecRecord
    <2>7. /\ [spec EXCEPT ![call[1]] = new].ports = spec.ports
          /\ [spec EXCEPT ![call[1]] = new].env = spec.env
      BY <1>1, <2>1 DEF SpecRecord
    <2>8. QED
      BY <1>1, <2>3, <2>6, <2>7 DEF Specs, new
  <1>5. QED
    BY <1>2, <1>3, <1>4 DEF Manifests!Call

\* The specification that a sequence of calls builds.
IsSpec(f, image, calls) ==
  f = [i \in 0 .. Len(calls) |-> IF i = 0 THEN Manifests!NewSpec(image)
                                          ELSE Manifests!With(f[i - 1], calls[i])]

LEMMA SpecOfOK ==
  ASSUME NEW image \in Texts, NEW calls \in Seq(Manifests!Call)
  PROVE  Manifests!SpecOf(image, calls) \in Specs
  <1> DEFINE n == Len(calls)
             start == Manifests!NewSpec(image)
             step == [i \in 1 .. n |-> [s \in Specs |-> Manifests!With(s, calls[i])]]
  <1>1. start \in Specs /\ n \in Nat
    BY NewSpecOK, LenProperties
  <1>2. step \in [1 .. n -> [Specs -> Specs]] /\ \A i \in 1 .. n : \A s \in Specs : step[i][s] = Manifests!With(s, calls[i])
    <2>1. \A i \in 1 .. n : calls[i] \in Manifests!Call
      BY ElementOfSeq
    <2>2. \A i \in 1 .. n : \A s \in Specs : Manifests!With(s, calls[i]) \in Specs
      BY <2>1, WithOK
    <2>3. QED
      BY <2>2
  <1>3. Manifests!SpecOf(image, calls) = (CHOOSE f : IsSpec(f, image, calls))[n]
    BY DEF Manifests!SpecOf, IsSpec
  <1> HIDE DEF step, start
  <1>4. PICK f \in [0 .. n -> Specs] : f[0] = start /\ \A i \in 1 .. n : f[i] = step[i][f[i - 1]]
    <2>1. Loops(Specs, start, n, step) # {}
      BY <1>1, <1>2, LoopExists
    <2>2. QED
      BY <2>1 DEF Loops
  <1>5. IsSpec(f, image, calls)
    <2>1. ASSUME NEW i \in 0 .. n
          PROVE  f[i] = IF i = 0 THEN Manifests!NewSpec(image) ELSE Manifests!With(f[i - 1], calls[i])
      <3>1. CASE i = 0
        BY <1>4, <3>1 DEF start
      <3>2. CASE i # 0
        <4>1. i \in 1 .. n /\ i - 1 \in 0 .. n
          BY <1>1, <3>2
        <4>2. QED
          BY <1>2, <1>4, <3>2, <4>1
      <3>3. QED
        BY <3>1, <3>2
    <2>2. f = [i \in 0 .. n |-> f[i]]
      BY <1>4
    <2>3. QED
      BY <2>1, <2>2 DEF IsSpec
  <1> DEFINE g == CHOOSE h : IsSpec(h, image, calls)
             S == {i \in 0 .. n : g[i] \in Specs}
  <1>6. IsSpec(g, image, calls)
    BY <1>5
  <1>7. \A i \in 0 .. n : g[i] = IF i = 0 THEN Manifests!NewSpec(image) ELSE Manifests!With(g[i - 1], calls[i])
    <2> HIDE DEF g
    <2>1. QED
      BY <1>6 DEF IsSpec
  <1> HIDE DEF g
  <1>8. 0 \in S
    BY <1>1, <1>7, NewSpecOK
  <1>9. ASSUME NEW i \in 1 .. n, i - 1 \in S
        PROVE  i \in S
    <2>1. g[i - 1] \in Specs /\ i \in 0 .. n /\ i # 0 /\ calls[i] \in Manifests!Call
      BY <1>1, <1>9, ElementOfSeq
    <2>2. g[i] = Manifests!With(g[i - 1], calls[i])
      BY <1>7, <2>1
    <2>3. QED
      BY <2>1, <2>2, WithOK
  <1> HIDE DEF S
  <1>10. \A i \in 0 .. n : i \in S
    BY <1>1, <1>8, <1>9, Stepwise
  <1>11. g[n] \in Specs
    BY <1>1, <1>10 DEF S
  <1>12. QED
    BY <1>3, <1>11 DEF g

---------------------------------------------------------------------------------
\* Manifests: every map in the order of its keys; a final one has the hash of what it
\* holds, and refers to nothing it does not hold.

Fields == {"at", "app", "language", "services", "resources", "hash"}
Resource == Manifests!Resource

Held(m) == \A name \in Manifests!References(m) : Manifests!HasKey(m.resources, name)
ManifestOK(m) ==
  /\ m = [f \in Fields |-> m[f]]
  /\ m.app \in Texts /\ m.language \in Texts
  /\ m.services \in Seq(Seq(Chars) \X Specs) /\ InOrder(m.services, Named(Specs))
  /\ m.resources \in Seq(Seq(Chars) \X Resource) /\ InOrder(m.resources, Named(Resource))
  /\ m.at \in States
  /\ IF m.at = "final" THEN m.hash = Manifests!ContentHash(m) /\ Held(m) ELSE m.hash = <<>>
ManifestsOK ==
  /\ builders = [b \in Builders |-> builders[b]]
  /\ \A b \in Builders : ManifestOK(builders[b])

\* A label is made of characters.
LEMMA LabelsOK == \A name \in Texts : Manifests!IsLabel(name) => name \in Seq(Chars)
  <1> SUFFICES ASSUME NEW name \in Texts, Manifests!IsLabel(name) PROVE name \in Seq(Chars)
    OBVIOUS
  <1>1. name = [i \in 1 .. Len(name) |-> name[i]] /\ Len(name) \in Nat
    BY LenProperties DEF Texts
  <1>2. \A i \in 1 .. Len(name) : name[i] \in Chars
    BY <1>1 DEF Manifests!IsLabel, Manifests!IsLower, Manifests!IsDigit, Chars
  <1>3. QED
    BY <1>1, <1>2, IsASeq

LEMMA EmptyManifest ==
  ASSUME NEW app \in Texts, NEW language \in Texts, NEW at \in States, at # "final"
  PROVE  ManifestOK([at |-> at, app |-> app, language |-> language, services |-> <<>>, resources |-> <<>>, hash |-> <<>>])
  <1> DEFINE m == [at |-> at, app |-> app, language |-> language, services |-> <<>>, resources |-> <<>>, hash |-> <<>>]
  <1>1. \A R : InOrder(<<>>, R)
    BY DEF InOrder
  <1>2. \A X : <<>> \in Seq(X)
    OBVIOUS
  <1>3. /\ m = [f \in Fields |-> m[f]] /\ m.at = at /\ m.app = app /\ m.language = language
        /\ m.services = <<>> /\ m.resources = <<>> /\ m.hash = <<>>
    BY DEF Fields
  <1> HIDE DEF m
  <1>4. ManifestOK(m)
    BY <1>1, <1>2, <1>3 DEF ManifestOK
  <1>5. QED
    BY <1>4 DEF m

LEMMA RefusedOK == \A m : \A error \in States : error # "final" => ManifestOK(Manifests!Refused(m, error))
  <1> SUFFICES ASSUME NEW m, NEW error \in States, error # "final" PROVE ManifestOK(Manifests!Refused(m, error))
    OBVIOUS
  <1>1. <<>> \in Texts
    BY DEF Texts
  <1>2. Manifests!Refused(m, error) = [at |-> error, app |-> <<>>, language |-> <<>>, services |-> <<>>, resources |-> <<>>, hash |-> <<>>]
    BY DEF Manifests!Refused, Manifests!Absent
  <1>3. QED
    BY <1>1, <1>2, EmptyManifest

LEMMA FreshOK == \A app \in Texts : ManifestOK(Manifests!Fresh(app))
  <1> SUFFICES ASSUME NEW app \in Texts PROVE ManifestOK(Manifests!Fresh(app))
    OBVIOUS
  <1>1. <<>> \in Texts
    BY DEF Texts
  <1> DEFINE a == [at |-> "building", app |-> <<>>, language |-> <<>>, services |-> <<>>, resources |-> <<>>, hash |-> <<>>]
  <1>2. [Manifests!Absent EXCEPT !.at = "building"] = a
    BY DEF Manifests!Absent
  <1>3. [a EXCEPT !.app = app] = [at |-> "building", app |-> app, language |-> <<>>, services |-> <<>>, resources |-> <<>>, hash |-> <<>>]
    OBVIOUS
  <1> HIDE DEF a
  <1>4. Manifests!Fresh(app) = [at |-> "building", app |-> app, language |-> <<>>, services |-> <<>>, resources |-> <<>>, hash |-> <<>>]
    BY <1>2, <1>3 DEF Manifests!Fresh
  <1>5. QED
    BY <1>1, <1>4, EmptyManifest DEF States

LEMMA AbsentOK == ManifestOK(Manifests!Absent)
  <1>1. <<>> \in Texts
    BY DEF Texts
  <1>2. QED
    BY <1>1, EmptyManifest DEF Manifests!Absent, States

LEMMA LanguageOK ==
  ASSUME NEW m, ManifestOK(m), m.at # "final", NEW language \in Texts
  PROVE  ManifestOK([m EXCEPT !.language = language])
  <1> DEFINE l == [m EXCEPT !.language = language]
  <1>1. /\ l = [f \in Fields |-> l[f]] /\ l.at = m.at /\ l.app = m.app /\ l.language = language
        /\ l.services = m.services /\ l.resources = m.resources /\ l.hash = m.hash
    BY DEF ManifestOK, Fields
  <1> HIDE DEF l
  <1>2. ManifestOK(l)
    BY <1>1 DEF ManifestOK
  <1>3. QED
    BY <1>2 DEF l

LEMMA WithResourceOK ==
  ASSUME NEW m, ManifestOK(m), m.at # "final", NEW name \in Texts, NEW r \in Resource
  PROVE  ManifestOK(Manifests!WithResource(m, name, r))
  <1> DEFINE new == Manifests!Inserted(m.resources, name, r, Manifests!ByName)
             l == [m EXCEPT !.resources = new]
  <1>1. CASE ~ Manifests!Sound(r) \/ ~ Manifests!IsLabel(name) \/ Manifests!HasKey(m.resources, name)
    BY <1>1, RefusedOK DEF Manifests!WithResource, States
  <1>2. CASE ~ (~ Manifests!Sound(r) \/ ~ Manifests!IsLabel(name) \/ Manifests!HasKey(m.resources, name))
    <2>1. Manifests!WithResource(m, name, r) = l
      BY <1>2 DEF Manifests!WithResource
    <2>2. name \in Seq(Chars)
      BY <1>2, LabelsOK
    <2>3. new \in Seq(Seq(Chars) \X Resource) /\ InOrder(new, Named(Resource))
      BY <2>2, InsertedByName DEF ManifestOK
    <2> HIDE DEF new
    <2>4. /\ l = [f \in Fields |-> l[f]] /\ l.at = m.at /\ l.app = m.app /\ l.language = m.language
          /\ l.services = m.services /\ l.resources = new /\ l.hash = m.hash
      BY DEF ManifestOK, Fields
    <2> HIDE DEF l
    <2>5. QED
      BY <2>1, <2>3, <2>4 DEF ManifestOK
  <1>3. QED
    BY <1>1, <1>2

LEMMA WithServiceOK ==
  ASSUME NEW m, ManifestOK(m), m.at # "final", NEW name \in Texts, NEW spec \in Specs
  PROVE  /\ ManifestOK(Manifests!WithService(m, name, spec))
         /\ Manifests!WithService(m, name, spec).at # "final"
  <1> DEFINE new == Manifests!Inserted(m.services, name, spec, Manifests!ByName)
             l == [m EXCEPT !.services = new]
  <1>1. CASE ~ Manifests!IsLabel(name) \/ spec.image = <<>>
    <2>1. \E error \in {"bad name", "invalid"} : Manifests!WithService(m, name, spec) = Manifests!Refused(m, error)
      BY <1>1 DEF Manifests!WithService
    <2>2. \A error : Manifests!Refused(m, error).at = error
      BY DEF Manifests!Refused, Manifests!Absent
    <2>3. QED
      BY <2>1, <2>2, RefusedOK DEF States
  <1>2. CASE ~ (~ Manifests!IsLabel(name) \/ spec.image = <<>>)
    <2>1. Manifests!WithService(m, name, spec) = l
      BY <1>2 DEF Manifests!WithService
    <2>2. name \in Seq(Chars)
      BY <1>2, LabelsOK
    <2>3. new \in Seq(Seq(Chars) \X Specs) /\ InOrder(new, Named(Specs))
      BY <2>2, InsertedByName DEF ManifestOK
    <2> HIDE DEF new
    <2>4. /\ l = [f \in Fields |-> l[f]] /\ l.at = m.at /\ l.app = m.app /\ l.language = m.language
          /\ l.services = new /\ l.resources = m.resources /\ l.hash = m.hash
      BY DEF ManifestOK, Fields
    <2> HIDE DEF l
    <2>5. QED
      BY <2>1, <2>3, <2>4 DEF ManifestOK
  <1>3. QED
    BY <1>1, <1>2

LEMMA FinalizedOK ==
  ASSUME NEW m, ManifestOK(m)
  PROVE  ManifestOK(Manifests!FinalizedFrom(m))
  <1> DEFINE hash == Manifests!ContentHash(m)
             l == [m EXCEPT !.at = "final", !.hash = hash]
  <1>1. CASE ~ Held(m)
    BY <1>1, RefusedOK DEF Manifests!FinalizedFrom, Held, States
  <1>2. CASE Held(m)
    <2>1. Manifests!FinalizedFrom(m) = l
      BY <1>2 DEF Manifests!FinalizedFrom, Held
    <2> HIDE DEF hash
    <2>2. /\ l = [f \in Fields |-> l[f]] /\ l.at = "final" /\ l.app = m.app /\ l.language = m.language
          /\ l.services = m.services /\ l.resources = m.resources /\ l.hash = hash
      BY DEF ManifestOK, Fields
    <2> HIDE DEF l
    <2>3. Manifests!ContentHash(l) = hash
      BY <2>2 DEF hash, Manifests!ContentHash, Manifests!ToObject
    <2>4. Held(l)
      BY <1>2, <2>2 DEF Held, Manifests!References
    <2>5. QED
      BY <2>1, <2>2, <2>3, <2>4 DEF ManifestOK, States
  <1>3. QED
    BY <1>1, <1>2

\* The manifest that a sequence of service names builds.
IsManifest(f, file) ==
  f = [i \in 0 .. Len(file) |-> IF i = 0 THEN [Manifests!Fresh(<<"d", "e">>) EXCEPT !.language = <<"ts">>]
                                         ELSE Manifests!WithImage(f[i - 1], file[i])]

LEMMA GeneratedOK ==
  ASSUME NEW file \in Seq(Texts)
  PROVE  ManifestOK(Manifests!Generated(file))
  <1> DEFINE n == Len(file)
             Good(m) == ManifestOK(m) /\ m.at # "final"
             start == [Manifests!Fresh(<<"d", "e">>) EXCEPT !.language = <<"ts">>]
  <1>1. n \in Nat /\ \A i \in 1 .. n : file[i] \in Texts
    BY LenProperties, ElementOfSeq
  <1>2. Good(start)
    <2>1. <<"d", "e">> \in Texts /\ <<"ts">> \in Texts
      BY DEF Texts
    <2>2. ManifestOK(Manifests!Fresh(<<"d", "e">>)) /\ Manifests!Fresh(<<"d", "e">>).at = "building"
      BY <2>1, FreshOK DEF Manifests!Fresh, Manifests!Absent
    <2> DEFINE m == Manifests!Fresh(<<"d", "e">>)
    <2>3. ManifestOK(m) /\ m.at # "final" /\ start = [m EXCEPT !.language = <<"ts">>]
      BY <2>2
    <2> HIDE DEF m, start
    <2>4. start.at = m.at
      BY <2>3 DEF ManifestOK, Fields
    <2>5. QED
      BY <2>1, <2>3, <2>4, LanguageOK
  <1>3. ASSUME NEW m, Good(m), NEW name \in Texts
        PROVE  Good(Manifests!WithImage(m, name))
    <2> DEFINE image == <<"bridge/demo-">> \o name \o <<":1">>
    <2>1. image \in Texts
      <3>1. <<"bridge/demo-">> \in Texts /\ <<":1">> \in Texts
        BY DEF Texts
      <3>2. QED
        BY <3>1, ConcatProperties DEF Texts
    <2>2. Manifests!NewSpec(image) \in Specs
      BY <2>1, NewSpecOK
    <2> HIDE DEF image
    <2>3. CASE m.at # "building"
      BY <1>3, <2>3 DEF Manifests!WithImage
    <2>4. CASE m.at = "building"
      <3>1. Manifests!WithImage(m, name) = Manifests!WithService(m, name, Manifests!NewSpec(image))
        BY <2>4 DEF Manifests!WithImage, image
      <3>2. QED
        BY <1>3, <2>2, <3>1, WithServiceOK
    <2>5. QED
      BY <2>3, <2>4
  <1> DEFINE g == CHOOSE h : IsManifest(h, file)
  <1>4. Manifests!Generated(file) = IF g[n].at # "building" THEN g[n] ELSE Manifests!FinalizedFrom(g[n])
    BY DEF Manifests!Generated, IsManifest
  <1> DEFINE Value == States \cup Texts \cup Seq(Seq(Chars) \X Specs) \cup Seq(Seq(Chars) \X Resource)
             D == {m \in [Fields -> Value] : Good(m)}
             step == [i \in 1 .. n |-> [m \in D |-> Manifests!WithImage(m, file[i])]]
  <1>5. \A m : Good(m) => m \in D
    <2> SUFFICES ASSUME NEW m, Good(m) PROVE m \in [Fields -> Value]
      OBVIOUS
    <2>1. /\ m.at \in States /\ m.app \in Texts /\ m.language \in Texts
          /\ m.services \in Seq(Seq(Chars) \X Specs) /\ m.resources \in Seq(Seq(Chars) \X Resource)
          /\ m.hash = <<>>
      BY DEF ManifestOK
    <2>2. <<>> \in Texts
      BY DEF Texts
    <2>3. \A f \in Fields : m[f] \in Value
      BY <2>1, <2>2, Zenon DEF Fields
    <2>4. QED
      BY <2>3 DEF ManifestOK
  <1>6. start \in D
    BY <1>2, <1>5
  <1>7. /\ step \in [1 .. n -> [D -> D]]
        /\ \A i \in 1 .. n : \A m \in D : step[i][m] = Manifests!WithImage(m, file[i])
    <2>1. \A i \in 1 .. n : \A m \in D : Good(Manifests!WithImage(m, file[i]))
      BY <1>1, <1>3
    <2>2. \A i \in 1 .. n : \A m \in D : Manifests!WithImage(m, file[i]) \in D
      BY <1>5, <2>1
    <2> HIDE DEF D
    <2>3. QED
      BY <2>2
  <1> HIDE DEF D, step, start
  <1>8. PICK f \in [0 .. n -> D] : f[0] = start /\ \A i \in 1 .. n : f[i] = step[i][f[i - 1]]
    <2>1. Loops(D, start, n, step) # {}
      BY <1>1, <1>6, <1>7, LoopExists
    <2>2. QED
      BY <2>1 DEF Loops
  <1>9. IsManifest(f, file)
    <2>1. ASSUME NEW i \in 0 .. n
          PROVE  f[i] = IF i = 0 THEN [Manifests!Fresh(<<"d", "e">>) EXCEPT !.language = <<"ts">>]
                                 ELSE Manifests!WithImage(f[i - 1], file[i])
      <3>1. CASE i = 0
        BY <1>8, <3>1 DEF start
      <3>2. CASE i # 0
        <4>1. i \in 1 .. n /\ i - 1 \in 0 .. n
          BY <1>1, <3>2
        <4>2. QED
          BY <1>7, <1>8, <3>2, <4>1
      <3>3. QED
        BY <3>1, <3>2
    <2>2. f = [i \in 0 .. n |-> f[i]]
      BY <1>8
    <2>3. QED
      BY <2>1, <2>2 DEF IsManifest
  <1>10. \A i \in 0 .. n : g[i] = IF i = 0 THEN start ELSE Manifests!WithImage(g[i - 1], file[i])
    <2>1. IsManifest(g, file)
      BY <1>9
    <2> HIDE DEF g
    <2>2. QED
      BY <2>1 DEF IsManifest, start
  <1> DEFINE S == {i \in 0 .. n : Good(g[i])}
  <1> HIDE DEF g, Good
  <1>11. 0 \in S
    BY <1>1, <1>2, <1>10
  <1>12. ASSUME NEW i \in 1 .. n, i - 1 \in S
        PROVE  i \in S
    <2>1. Good(g[i - 1]) /\ i \in 0 .. n /\ i # 0 /\ file[i] \in Texts
      BY <1>1, <1>12
    <2>2. g[i] = Manifests!WithImage(g[i - 1], file[i])
      BY <1>10, <2>1
    <2>3. Good(g[i])
      BY <1>3, <2>1, <2>2
    <2>4. QED
      BY <2>1, <2>3
  <1> HIDE DEF S
  <1>13. \A i \in 0 .. n : i \in S
    BY <1>1, <1>11, <1>12, Stepwise
  <1>14. Good(g[n])
    BY <1>1, <1>13 DEF S
  <1>15. QED
    BY <1>4, <1>14, FinalizedOK DEF Good

LEMMA ManifestsInit == Manifests!Init => ManifestsOK
  <1> SUFFICES ASSUME Manifests!Init PROVE ManifestsOK
    OBVIOUS
  <1>1. builders = [b \in Builders |-> Manifests!Absent]
    BY DEF Manifests!Init
  <1>2. QED
    BY <1>1, AbsentOK DEF ManifestsOK

\* One builder changes, to what is a manifest.
LEMMA BecomesOK ==
  ASSUME ManifestsOK, NEW b \in Builders, NEW m, ManifestOK(m), Manifests!Becomes(b, m)
  PROVE  ManifestsOK'
  <1>1. builders' = [builders EXCEPT ![b] = m] /\ DOMAIN builders = Builders
    BY DEF Manifests!Becomes, ManifestsOK
  <1>2. \A c \in Builders : builders'[c] = IF c = b THEN m ELSE builders[c]
    BY <1>1
  <1>3. \A c \in Builders : ManifestOK(builders'[c])
    BY <1>2 DEF ManifestsOK
  <1>4. builders' = [c \in Builders |-> builders'[c]]
    BY <1>1
  <1>5. QED
    BY <1>3, <1>4 DEF ManifestsOK

LEMMA ManifestsNext ==
  ASSUME ManifestsOK, [Manifests!Next]_builders
  PROVE  ManifestsOK'
  <1>1. CASE UNCHANGED builders
    BY <1>1 DEF ManifestsOK
  <1>2. ASSUME NEW b \in Builders, NEW app \in Apps, Manifests!New(b, app)
        PROVE  ManifestsOK'
    <2>1. app \in Texts
      BY DeclarationsAssumption, TextsAre
    <2>2. ManifestOK(Manifests!Fresh(app)) /\ ManifestOK(Manifests!Refused(Manifests!Absent, "bad name"))
      BY <2>1, FreshOK, RefusedOK DEF States
    <2> DEFINE m == IF Manifests!IsLabel(app) THEN Manifests!Fresh(app) ELSE Manifests!Refused(Manifests!Absent, "bad name")
    <2>3. ManifestOK(m) /\ Manifests!Becomes(b, m)
      BY <1>2, <2>2 DEF Manifests!New
    <2> HIDE DEF m
    <2>4. QED
      BY <2>3, BecomesOK
  <1>3. ASSUME NEW b \in Builders, NEW lang \in Languages, Manifests!Language(b, lang)
        PROVE  ManifestsOK'
    <2>1. lang \in Texts /\ ManifestOK(builders[b]) /\ builders[b].at # "final"
      BY <1>3, DeclarationsAssumption, TextsAre DEF ManifestsOK, Manifests!Language, Manifests!Building
    <2> DEFINE m == [builders[b] EXCEPT !.language = lang]
    <2>2. ManifestOK(m) /\ Manifests!Becomes(b, m)
      BY <1>3, <2>1, LanguageOK DEF Manifests!Language
    <2> HIDE DEF m
    <2>3. QED
      BY <2>2, BecomesOK
  <1>4. ASSUME NEW b \in Builders, NEW name \in ItemNames, NEW r \in Resources, Manifests!Declare(b, name, r)
        PROVE  ManifestsOK'
    <2>1. name \in Texts /\ r \in Resource /\ ManifestOK(builders[b]) /\ builders[b].at # "final"
      BY <1>4, DeclarationsAssumption, TextsAre DEF ManifestsOK, Manifests!Declare, Manifests!Building, Resource
    <2> DEFINE m == Manifests!WithResource(builders[b], name, r)
    <2>2. ManifestOK(m) /\ Manifests!Becomes(b, m)
      BY <1>4, <2>1, WithResourceOK DEF Manifests!Declare
    <2> HIDE DEF m
    <2>3. QED
      BY <2>2, BecomesOK
  <1>5. ASSUME NEW b \in Builders, NEW name \in ItemNames, NEW image \in Images, NEW calls \in SpecCalls,
               Manifests!Serve(b, name, Manifests!SpecOf(image, calls))
        PROVE  ManifestsOK'
    <2> DEFINE spec == Manifests!SpecOf(image, calls)
               m == Manifests!WithService(builders[b], name, spec)
    <2>1. name \in Texts /\ ManifestOK(builders[b]) /\ builders[b].at # "final" /\ Manifests!Becomes(b, m)
      BY <1>5, DeclarationsAssumption, TextsAre DEF ManifestsOK, Manifests!Serve, Manifests!Building
    <2>2. spec \in Specs
      <3>1. image \in Texts /\ calls \in Seq(Manifests!Call)
        BY DeclarationsAssumption, TextsAre
      <3>2. QED
        BY <3>1, SpecOfOK
    <2> HIDE DEF spec
    <2>3. ManifestOK(m)
      BY <2>1, <2>2, WithServiceOK
    <2> HIDE DEF m
    <2>4. QED
      BY <2>1, <2>3, BecomesOK
  <1>6. ASSUME NEW b \in Builders, NEW c \in Builders, Manifests!Clone(b, c)
        PROVE  ManifestsOK'
    <2>1. ManifestOK(builders[b]) /\ Manifests!Becomes(c, builders[b])
      BY <1>6 DEF ManifestsOK, Manifests!Clone
    <2>2. QED
      BY <2>1, BecomesOK
  <1>7. ASSUME NEW b \in Builders, Manifests!Finalize(b)
        PROVE  ManifestsOK'
    <2> DEFINE m == Manifests!FinalizedFrom(builders[b])
    <2>1. ManifestOK(m) /\ Manifests!Becomes(b, m)
      BY <1>7, FinalizedOK DEF ManifestsOK, Manifests!Finalize
    <2> HIDE DEF m
    <2>2. QED
      BY <2>1, BecomesOK
  <1>8. ASSUME NEW b \in Builders, NEW file \in BridgeFiles, Manifests!Generate(b, file)
        PROVE  ManifestsOK'
    <2> DEFINE m == Manifests!Generated(file)
    <2>1. file \in Seq(Texts)
      BY DeclarationsAssumption, TextsAre
    <2>2. ManifestOK(m) /\ Manifests!Becomes(b, m)
      BY <1>8, <2>1, GeneratedOK DEF Manifests!Generate
    <2> HIDE DEF m
    <2>3. QED
      BY <2>2, BecomesOK
  <1>9. ASSUME NEW b \in Builders, Manifests!Drop(b)
        PROVE  ManifestsOK'
    <2>1. ManifestOK(Manifests!Absent) /\ Manifests!Becomes(b, Manifests!Absent)
      BY <1>9, AbsentOK DEF Manifests!Drop
    <2> HIDE DEF Manifests!Absent
    <2>2. QED
      BY <2>1, BecomesOK
  <1>10. QED
    BY <1>1, <1>2, <1>3, <1>4, <1>5, <1>6, <1>7, <1>8, <1>9 DEF Manifests!Next

---------------------------------------------------------------------------------
\* What a lock tells.  An object is a list of labelled values: it is taken apart by its
\* labels, which no two of its fields share.

LEMMA ConcatContains ==
  ASSUME NEW X, NEW s \in Seq(X), NEW t \in Seq(X)
  PROVE  s \o t \in Seq(X) /\ \A x : Contains(s \o t, x) <=> Contains(s, x) \/ Contains(t, x)
  <1> DEFINE l == s \o t
  <1>1. /\ Len(s) \in Nat /\ Len(t) \in Nat /\ l \in Seq(X) /\ Len(l) = Len(s) + Len(t)
        /\ \A i \in 1 .. Len(s) : l[i] = s[i]
        /\ \A i \in 1 .. Len(l) : i > Len(s) => l[i] = t[i - Len(s)]
    BY ConcatProperties, LenProperties
  <1> HIDE DEF l
  <1>2. ASSUME NEW i \in 1 .. Len(l) PROVE Contains(s, l[i]) \/ Contains(t, l[i])
    <2>1. CASE i <= Len(s)
      BY <1>1, <2>1 DEF Contains
    <2>2. CASE i > Len(s)
      <3>1. i - Len(s) \in 1 .. Len(t) /\ l[i] = t[i - Len(s)]
        BY <1>1, <2>2
      <3>2. QED
        BY <3>1 DEF Contains
    <2>3. QED
      BY <1>1, <2>1, <2>2
  <1>3. ASSUME NEW i \in 1 .. Len(s) PROVE Contains(l, s[i])
    <2>1. i \in 1 .. Len(l) /\ l[i] = s[i]
      BY <1>1
    <2>2. QED
      BY <2>1 DEF Contains
  <1>4. ASSUME NEW i \in 1 .. Len(t) PROVE Contains(l, t[i])
    <2>1. i + Len(s) \in 1 .. Len(l) /\ l[i + Len(s)] = t[i]
      BY <1>1, SMTT(60)
    <2>2. QED
      BY <2>1 DEF Contains
  <1>5. ASSUME NEW x, Contains(l, x) PROVE Contains(s, x) \/ Contains(t, x)
    BY <1>2, <1>5 DEF Contains
  <1>6. ASSUME NEW x, Contains(s, x) \/ Contains(t, x) PROVE Contains(l, x)
    BY <1>3, <1>4, <1>6 DEF Contains
  <1>7. QED
    BY <1>1, <1>5, <1>6 DEF l

LEMMA OneContains ==
  ASSUME NEW X, NEW e \in X
  PROVE  <<e>> \in Seq(X) /\ \A x : Contains(<<e>>, x) <=> x = e
  BY DEF Contains

LEMMA UnlessContains ==
  ASSUME NEW X, NEW empty, NEW key, NEW value, <<key, value>> \in X
  PROVE  /\ Manifests!Unless(empty, key, value) \in Seq(X)
         /\ \A x : Contains(Manifests!Unless(empty, key, value), x) <=> x = <<key, value>> /\ value # empty
  <1>1. CASE value = empty
    BY <1>1 DEF Manifests!Unless, Contains
  <1>2. CASE value # empty
    BY <1>2, OneContains DEF Manifests!Unless
  <1>3. QED
    BY <1>1, <1>2

\* The same labels with the same values.
LEMMA ServiceObjectTells ==
  ASSUME NEW s \in SpecRecord, NEW t \in SpecRecord, Manifests!ServiceObject(s) = Manifests!ServiceObject(t)
  PROVE  s = t
  <1> DEFINE Field(r, label) ==
               CASE label = "image" -> r.image [] label = "ports" -> r.ports [] label = "env" -> r.env
                 [] label = "buckets" -> r.bucket [] label = "topics" -> r.topic
                 [] label = "databases" -> r.database
             Listed(r, label) == label = "image" \/ Field(r, label) # <<>>
             Labels == {"image", "ports", "env", "buckets", "topics", "databases"}
  <1>1. ASSUME NEW r \in SpecRecord
        PROVE  \A x : Contains(Manifests!ServiceObject(r), x)
                        <=> \E label \in Labels : x = <<label, Field(r, label)>> /\ Listed(r, label)
    <2> DEFINE a == <<"image", r.image>>
               b == <<"ports", r.ports>>
               c == <<"env", r.env>>
               d == <<"buckets", r.bucket>>
               e == <<"topics", r.topic>>
               f == <<"databases", r.database>>
               X == {a, b, c, d, e, f}
               B == Manifests!Unless(<<>>, "ports", r.ports)
               C == Manifests!Unless(<<>>, "env", r.env)
               D == Manifests!Unless(<<>>, "buckets", r.bucket)
               E == Manifests!Unless(<<>>, "topics", r.topic)
               F == Manifests!Unless(<<>>, "databases", r.database)
    <2>1. a \in X /\ b \in X /\ c \in X /\ d \in X /\ e \in X /\ f \in X
      OBVIOUS
    <2>2. Manifests!ServiceObject(r) = ((((<<a>> \o B) \o C) \o D) \o E) \o F
      BY DEF Manifests!ServiceObject
    <2> HIDE DEF X
    <2>3. <<a>> \in Seq(X) /\ \A x : Contains(<<a>>, x) <=> x = a
      BY <2>1, OneContains
    <2>4. /\ B \in Seq(X) /\ \A x : Contains(B, x) <=> x = b /\ r.ports # <<>>
          /\ C \in Seq(X) /\ \A x : Contains(C, x) <=> x = c /\ r.env # <<>>
          /\ D \in Seq(X) /\ \A x : Contains(D, x) <=> x = d /\ r.bucket # <<>>
      <3> HIDE DEF Manifests!Unless
      <3>1. QED
        BY <2>1, UnlessContains
    <2>5. /\ E \in Seq(X) /\ \A x : Contains(E, x) <=> x = e /\ r.topic # <<>>
          /\ F \in Seq(X) /\ \A x : Contains(F, x) <=> x = f /\ r.database # <<>>
      BY <2>1, UnlessContains
    <2> DEFINE A == <<a>>
    <2> HIDE DEF B, C, D, E, F
    <2>8. A \o B \in Seq(X) /\ \A x : Contains(A \o B, x) <=> Contains(A, x) \/ Contains(B, x)
      <3> HIDE DEF A
      <3>1. A \in Seq(X) /\ B \in Seq(X)
        BY <2>3, <2>4 DEF A
      <3>2. QED
        BY <3>1, ConcatContains
    <2> DEFINE AB == A \o B
               AC == AB \o C
               AD == AC \o D
               AE == AD \o E
               AF == AE \o F
    <2>9. AB \in Seq(X) /\ \A x : Contains(AB, x) <=> x = a \/ (x = b /\ r.ports # <<>>)
      BY <2>3, <2>4, <2>8
    <2> HIDE DEF AB
    <2>10. AC \in Seq(X) /\ \A x : Contains(AC, x) <=> Contains(AB, x) \/ Contains(C, x)
      BY <2>4, <2>9, ConcatContains
    <2> HIDE DEF AC
    <2>11. AD \in Seq(X) /\ \A x : Contains(AD, x) <=> Contains(AC, x) \/ Contains(D, x)
      BY <2>4, <2>10, ConcatContains
    <2> HIDE DEF AD
    <2>12. AE \in Seq(X) /\ \A x : Contains(AE, x) <=> Contains(AD, x) \/ Contains(E, x)
      BY <2>5, <2>11, ConcatContains
    <2> HIDE DEF AE
    <2>13. AF \in Seq(X) /\ \A x : Contains(AF, x) <=> Contains(AE, x) \/ Contains(F, x)
      BY <2>5, <2>12, ConcatContains
    <2>14. Manifests!ServiceObject(r) = AF
      BY <2>2 DEF AB, AC, AD, AE
    <2> HIDE DEF AF
    <2>15. \A x : Contains(AF, x) <=>
             \/ x = a
             \/ x = b /\ r.ports # <<>>
             \/ x = c /\ r.env # <<>>
             \/ x = d /\ r.bucket # <<>>
             \/ x = e /\ r.topic # <<>>
             \/ x = f /\ r.database # <<>>
      BY <2>4, <2>5, <2>9, <2>10, <2>11, <2>12, <2>13
    <2>16. \A x : (\E label \in Labels : x = <<label, Field(r, label)>> /\ Listed(r, label)) <=>
             \/ x = a
             \/ x = b /\ r.ports # <<>>
             \/ x = c /\ r.env # <<>>
             \/ x = d /\ r.bucket # <<>>
             \/ x = e /\ r.topic # <<>>
             \/ x = f /\ r.database # <<>>
      OBVIOUS
    <2>17. QED
      BY <2>14, <2>15, <2>16
  <1> HIDE DEF Field
  <1>2. \A label \in Labels : /\ Listed(s, label) => Listed(t, label) /\ Field(s, label) = Field(t, label)
                              /\ Listed(t, label) => Listed(s, label) /\ Field(s, label) = Field(t, label)
    <2>1. \A r, q \in SpecRecord : Manifests!ServiceObject(r) = Manifests!ServiceObject(q) =>
            \A label \in Labels : Listed(r, label) => Listed(q, label) /\ Field(r, label) = Field(q, label)
      <3> SUFFICES ASSUME NEW r \in SpecRecord, NEW q \in SpecRecord,
                          Manifests!ServiceObject(r) = Manifests!ServiceObject(q),
                          NEW label \in Labels, Listed(r, label)
                   PROVE  Listed(q, label) /\ Field(r, label) = Field(q, label)
        OBVIOUS
      <3> HIDE DEF Listed, Labels
      <3>1. Contains(Manifests!ServiceObject(q), <<label, Field(r, label)>>)
        BY <1>1
      <3>2. PICK other \in Labels : <<label, Field(r, label)>> = <<other, Field(q, other)>> /\ Listed(q, other)
        BY <1>1, <3>1
      <3>3. QED
        BY <3>2
    <2> HIDE DEF Listed, Labels
    <2>2. QED
      BY <2>1
  <1>3. \A label \in Labels : Field(s, label) = Field(t, label)
    BY <1>2
  <1>4. /\ s.image = t.image /\ s.ports = t.ports /\ s.env = t.env
        /\ s.bucket = t.bucket /\ s.topic = t.topic /\ s.database = t.database
    BY <1>3 DEF Field
  <1>5. QED
    BY <1>4, SMTT(60) DEF SpecRecord

LEMMA Joined == \A a, b : <<a>> \o <<b>> = <<a, b>> /\ <<a>> \o <<>> = <<a>>
  <1> SUFFICES ASSUME NEW a, NEW b PROVE <<a>> \o <<b>> = <<a, b>> /\ <<a>> \o <<>> = <<a>>
    OBVIOUS
  <1> DEFINE X == {a, b}
             A == <<a>>
             B == <<b>>
             l == A \o B
  <1>1. A \in Seq(X) /\ B \in Seq(X) /\ Len(A) = 1 /\ Len(B) = 1 /\ A[1] = a /\ B[1] = b
    OBVIOUS
  <1>2. <<a>> \o <<>> = <<a>>
    BY <1>1, ConcatEmptySeq
  <1> HIDE DEF X, A, B
  <1>3. l \in Seq(X) /\ Len(l) = 2 /\ l[1] = a /\ l[2] = b
    BY <1>1, ConcatProperties
  <1> HIDE DEF l
  <1>4. l = [i \in 1 .. 2 |-> l[i]]
    BY <1>3, LenProperties
  <1>5. l = <<a, b>>
    BY <1>3, <1>4
  <1>6. QED
    BY <1>2, <1>5 DEF l, A, B

\* What each type of resource is printed as.
Printed(p, object) ==
  /\ p.type = "bucket" => object = << <<"type", p.type>>, <<"public", p.public>> >>
  /\ p.type = "cron"   => object = << <<"type", p.type>>, <<"schedule", p.schedule>> >>
  /\ p.type = "topic"  => object = IF p.region = <<>> THEN << <<"type", p.type>> >>
                                                     ELSE << <<"type", p.type>>, <<"region", p.region>> >>
  /\ object[1] = <<"type", p.type>>

LEMMA ResourcesPrinted == \A p \in Resource : Printed(p, Manifests!ResourceObject(p))
  <1> SUFFICES ASSUME NEW p \in Resource PROVE Printed(p, Manifests!ResourceObject(p))
    OBVIOUS
  <1> DEFINE t == <<"type", p.type>>
  <1>1. CASE p \in [type : {"bucket"}, public : BOOLEAN]
    <2>1. p.type = "bucket"
      BY <1>1
    <2> DEFINE v == <<"public", p.public>>
    <2>2. Manifests!ResourceObject(p) = <<t>> \o <<v>>
      BY <2>1 DEF Manifests!ResourceObject
    <2>3. Manifests!ResourceObject(p) = <<t, v>>
      BY <2>2, Joined, Zenon
    <2>4. QED
      BY <2>1, <2>3 DEF Printed
  <1>2. CASE p \in [type : {"topic"}, region : Manifests!Texts]
    <2>1. p.type = "topic"
      BY <1>2
    <2> DEFINE v == <<"region", p.region>>
    <2>2. Manifests!ResourceObject(p) = <<t>> \o (IF p.region = <<>> THEN <<>> ELSE <<v>>)
      BY <2>1 DEF Manifests!ResourceObject, Manifests!Unless
    <2>3. Manifests!ResourceObject(p) = IF p.region = <<>> THEN <<t>> ELSE <<t, v>>
      BY <2>2, Joined, Zenon
    <2>4. QED
      BY <2>1, <2>3 DEF Printed
  <1>3. CASE p \in [type : {"database"}]
    <2>1. p.type = "database"
      BY <1>3
    <2> DEFINE v == <<"engine", "postgres">>
    <2>2. Manifests!ResourceObject(p) = <<t>> \o <<v>>
      BY <2>1 DEF Manifests!ResourceObject
    <2>3. Manifests!ResourceObject(p) = <<t, v>>
      BY <2>2, Joined, Zenon
    <2>4. QED
      BY <2>1, <2>3 DEF Printed
  <1>4. CASE p \in [type : {"cron"}, schedule : Manifests!Texts]
    <2>1. p.type = "cron"
      BY <1>4
    <2> DEFINE v == <<"schedule", p.schedule>>
    <2>2. Manifests!ResourceObject(p) = <<t>> \o <<v>>
      BY <2>1 DEF Manifests!ResourceObject
    <2>3. Manifests!ResourceObject(p) = <<t, v>>
      BY <2>2, Joined, Zenon
    <2>4. QED
      BY <2>1, <2>3 DEF Printed
  <1>5. CASE p \in [type : {"secret"}]
    <2>1. p.type = "secret"
      BY <1>5
    <2>2. Manifests!ResourceObject(p) = <<t>> \o <<>>
      BY <2>1 DEF Manifests!ResourceObject
    <2>3. Manifests!ResourceObject(p) = <<t>>
      BY <2>2, Joined, Zenon
    <2>4. QED
      BY <2>1, <2>3 DEF Printed
  <1>6. p \in [type : {"database", "secret"}] => p \in [type : {"database"}] \/ p \in [type : {"secret"}]
    OBVIOUS
  <1>7. QED
    BY <1>1, <1>2, <1>3, <1>4, <1>5, <1>6 DEF Resource, Manifests!Resource

LEMMA ResourceObjectTells ==
  ASSUME NEW r \in Resource, NEW q \in Resource, Manifests!ResourceObject(r) = Manifests!ResourceObject(q)
  PROVE  r = q
  <1> DEFINE object == Manifests!ResourceObject(r)
  <1>1. Printed(r, object) /\ Printed(q, object)
    BY ResourcesPrinted
  <1> HIDE DEF object
  <1>2. r.type = q.type
    BY <1>1 DEF Printed
  <1>3. CASE r \in [type : {"bucket"}, public : BOOLEAN]
    <2>1. r.type = "bucket" /\ q \in [type : {"bucket"}, public : BOOLEAN]
      BY <1>2, <1>3 DEF Resource, Manifests!Resource
    <2>2. r.public = q.public
      BY <1>1, <1>2, <2>1 DEF Printed
    <2>3. QED
      BY <1>3, <2>1, <2>2
  <1>4. CASE r \in [type : {"cron"}, schedule : Manifests!Texts]
    <2>1. r.type = "cron" /\ q \in [type : {"cron"}, schedule : Manifests!Texts]
      BY <1>2, <1>4 DEF Resource, Manifests!Resource
    <2>2. r.schedule = q.schedule
      BY <1>1, <1>2, <2>1 DEF Printed
    <2>3. QED
      BY <1>4, <2>1, <2>2
  <1>5. CASE r \in [type : {"topic"}, region : Manifests!Texts]
    <2>1. r.type = "topic" /\ q \in [type : {"topic"}, region : Manifests!Texts]
      BY <1>2, <1>5 DEF Resource, Manifests!Resource
    <2>2. r.region = q.region
      <3>1. CASE r.region = <<>>
        <4>1. object = << <<"type", r.type>> >> /\ Len(object) = 1
          BY <1>1, <2>1, <3>1 DEF Printed
        <4>2. q.region # <<>> => Len(object) = 2
          BY <1>1, <1>2, <2>1 DEF Printed
        <4>3. QED
          BY <3>1, <4>1, <4>2
      <3>2. CASE r.region # <<>>
        <4>1. object = << <<"type", r.type>>, <<"region", r.region>> >> /\ Len(object) = 2
          BY <1>1, <2>1, <3>2 DEF Printed
        <4>2. q.region = <<>> => Len(object) = 1
          BY <1>1, <1>2, <2>1 DEF Printed
        <4>3. object = << <<"type", q.type>>, <<"region", q.region>> >>
          BY <1>1, <1>2, <2>1, <4>1, <4>2 DEF Printed
        <4>4. QED
          BY <4>1, <4>3
      <3>3. QED
        BY <3>1, <3>2
    <2>3. QED
      BY <1>5, <2>1, <2>2
  <1>6. CASE r \in [type : {"database", "secret"}]
    <2>1. q \in [type : {"database", "secret"}]
      BY <1>2, <1>6 DEF Resource, Manifests!Resource
    <2>2. QED
      BY <1>2, <1>6, <2>1
  <1>7. QED
    BY <1>3, <1>4, <1>5, <1>6 DEF Resource, Manifests!Resource

LEMMA ObjectTells ==
  ASSUME NEW m, NEW l, NEW h, NEW k, Manifests!ToObject(m, h) = Manifests!ToObject(l, k)
  PROVE  /\ m.app = l.app /\ m.language = l.language
         /\ Manifests!Mapped(m.services, Manifests!ServiceObject) = Manifests!Mapped(l.services, Manifests!ServiceObject)
         /\ Manifests!Mapped(m.resources, Manifests!ResourceObject) = Manifests!Mapped(l.resources, Manifests!ResourceObject)
  <1> DEFINE S(p) == Manifests!Mapped(p.services, Manifests!ServiceObject)
             R(p) == Manifests!Mapped(p.resources, Manifests!ResourceObject)
  <1> HIDE DEF S, R
  <1>1. ASSUME NEW p, NEW hash
        PROVE  \A x : Contains(Manifests!ToObject(p, hash), x) <=>
                 \/ x = <<"schema_version", 1>>
                 \/ x = <<"app", p.app>>
                 \/ x = <<"language", p.language>> /\ p.language # <<>>
                 \/ x = <<"services", S(p)>>
                 \/ x = <<"resources", R(p)>>
                 \/ x = <<"content_hash", hash>> /\ hash # <<>>
    <2> DEFINE a == <<"schema_version", 1>>
               b == <<"app", p.app>>
               c == <<"language", p.language>>
               d == <<"services", S(p)>>
               e == <<"resources", R(p)>>
               f == <<"content_hash", hash>>
               X == {a, b, c, d, e, f}
               A == <<a, b>>
               C == Manifests!Unless(<<>>, "language", p.language)
               D == <<d, e>>
               F == Manifests!Unless(<<>>, "content_hash", hash)
    <2>1. a \in X /\ b \in X /\ c \in X /\ d \in X /\ e \in X /\ f \in X
      OBVIOUS
    <2>2. Manifests!ToObject(p, hash) = ((A \o C) \o D) \o F
      BY DEF Manifests!ToObject, S, R
    <2> HIDE DEF X
    <2>3. \A u, v \in X : <<u, v>> \in Seq(X) /\ \A x : Contains(<<u, v>>, x) <=> x = u \/ x = v
      BY DEF Contains
    <2>4. /\ A \in Seq(X) /\ \A x : Contains(A, x) <=> x = a \/ x = b
          /\ D \in Seq(X) /\ \A x : Contains(D, x) <=> x = d \/ x = e
      BY <2>1, <2>3
    <2>5. /\ C \in Seq(X) /\ \A x : Contains(C, x) <=> x = c /\ p.language # <<>>
          /\ F \in Seq(X) /\ \A x : Contains(F, x) <=> x = f /\ hash # <<>>
      BY <2>1, UnlessContains
    <2> HIDE DEF A, C, D, F
    <2> DEFINE AC == A \o C
               AD == AC \o D
               AF == AD \o F
    <2>6. AC \in Seq(X) /\ \A x : Contains(AC, x) <=> Contains(A, x) \/ Contains(C, x)
      BY <2>4, <2>5, ConcatContains
    <2> HIDE DEF AC
    <2>7. AD \in Seq(X) /\ \A x : Contains(AD, x) <=> Contains(AC, x) \/ Contains(D, x)
      BY <2>4, <2>6, ConcatContains
    <2> HIDE DEF AD
    <2>8. AF \in Seq(X) /\ \A x : Contains(AF, x) <=> Contains(AD, x) \/ Contains(F, x)
      BY <2>5, <2>7, ConcatContains
    <2>9. Manifests!ToObject(p, hash) = AF
      BY <2>2 DEF AC, AD
    <2> HIDE DEF AF
    <2>10. QED
      BY <2>4, <2>5, <2>6, <2>7, <2>8, <2>9
  <1> DEFINE object == Manifests!ToObject(m, h)
             other == Manifests!ToObject(l, k)
  <1>2. object = other
    OBVIOUS
  <1>3. \A x : Contains(object, x) <=>
          \/ x = <<"schema_version", 1>>
          \/ x = <<"app", m.app>>
          \/ x = <<"language", m.language>> /\ m.language # <<>>
          \/ x = <<"services", S(m)>>
          \/ x = <<"resources", R(m)>>
          \/ x = <<"content_hash", h>> /\ h # <<>>
    BY <1>1
  <1>4. \A x : Contains(other, x) <=>
          \/ x = <<"schema_version", 1>>
          \/ x = <<"app", l.app>>
          \/ x = <<"language", l.language>> /\ l.language # <<>>
          \/ x = <<"services", S(l)>>
          \/ x = <<"resources", R(l)>>
          \/ x = <<"content_hash", k>> /\ k # <<>>
    BY <1>1
  <1> HIDE DEF object, other
  <1>5. m.app = l.app
    <2>1. Contains(other, <<"app", m.app>>)
      BY <1>2, <1>3
    <2>2. QED
      BY <1>4, <2>1
  <1>6. S(m) = S(l)
    <2>1. Contains(other, <<"services", S(m)>>)
      BY <1>2, <1>3
    <2>2. QED
      BY <1>4, <2>1
  <1>7. R(m) = R(l)
    <2>1. Contains(other, <<"resources", R(m)>>)
      BY <1>2, <1>3
    <2>2. QED
      BY <1>4, <2>1
  <1>8. m.language = l.language
    <2>1. CASE m.language # <<>>
      <3>1. Contains(other, <<"language", m.language>>)
        BY <1>2, <1>3, <2>1
      <3>2. QED
        BY <1>4, <3>1
    <2>2. CASE l.language # <<>>
      <3>1. Contains(object, <<"language", l.language>>)
        BY <1>2, <1>4, <2>2
      <3>2. QED
        BY <1>3, <3>1
    <2>3. QED
      BY <2>1, <2>2
  <1>9. QED
    BY <1>5, <1>6, <1>7, <1>8 DEF S, R

\* Maps with the same keys and values in the same places.
LEMMA SamePair == \A K, V : \A x, y \in K \X V : x[1] = y[1] /\ x[2] = y[2] => x = y
  OBVIOUS

LEMMA ServicesTell ==
  ASSUME NEW s \in Seq(Seq(Chars) \X Specs), NEW t \in Seq(Seq(Chars) \X Specs),
         Manifests!Mapped(s, Manifests!ServiceObject) = Manifests!Mapped(t, Manifests!ServiceObject)
  PROVE  s = t
  <1> DEFINE F(p) == Manifests!ServiceObject(p)
             f == [i \in DOMAIN s |-> <<s[i][1], F(s[i][2])>>]
             g == [i \in DOMAIN t |-> <<t[i][1], F(t[i][2])>>]
  <1>1. f = g
    BY DEF Manifests!Mapped
  <1>2. \A p, q \in Specs : F(p) = F(q) => p = q
    BY ServiceObjectTells DEF Specs
  <1> HIDE DEF F
  <1>3. /\ DOMAIN f = 1 .. Len(s) /\ DOMAIN g = 1 .. Len(t)
        /\ Len(s) \in Nat /\ Len(t) \in Nat
        /\ \A i \in 1 .. Len(s) : f[i] = <<s[i][1], F(s[i][2])>>
        /\ \A i \in 1 .. Len(t) : g[i] = <<t[i][1], F(t[i][2])>>
    BY LenProperties
  <1> HIDE DEF f, g
  <1>4. Len(s) = Len(t)
    BY <1>1, <1>3
  <1>5. \A i \in 1 .. Len(s) : s[i] \in Seq(Chars) \X Specs /\ t[i] \in Seq(Chars) \X Specs
    BY <1>4, ElementOfSeq
  <1>6. \A i \in 1 .. Len(s) : <<s[i][1], F(s[i][2])>> = <<t[i][1], F(t[i][2])>>
    BY <1>1, <1>3, <1>4, Zenon
  <1>7. \A x, y \in Seq(Chars) \X Specs : <<x[1], F(x[2])>> = <<y[1], F(y[2])>> => x = y
    <2> SUFFICES ASSUME NEW x \in Seq(Chars) \X Specs, NEW y \in Seq(Chars) \X Specs,
                        <<x[1], F(x[2])>> = <<y[1], F(y[2])>>
                 PROVE  x = y
      OBVIOUS
    <2>1. x[2] \in Specs /\ y[2] \in Specs /\ x[1] = y[1] /\ F(x[2]) = F(y[2])
      OBVIOUS
    <2>2. x[2] = y[2]
      BY <1>2, <2>1
    <2>3. QED
      BY <2>1, <2>2, SamePair, Zenon
  <1>8. \A i \in 1 .. Len(s) : s[i] = t[i]
    BY <1>5, <1>6, <1>7, Zenon
  <1>9. QED
    BY <1>4, <1>8, SeqEqual

LEMMA ResourcesTell ==
  ASSUME NEW s \in Seq(Seq(Chars) \X Resource), NEW t \in Seq(Seq(Chars) \X Resource),
         Manifests!Mapped(s, Manifests!ResourceObject) = Manifests!Mapped(t, Manifests!ResourceObject)
  PROVE  s = t
  <1> DEFINE F(p) == Manifests!ResourceObject(p)
             f == [i \in DOMAIN s |-> <<s[i][1], F(s[i][2])>>]
             g == [i \in DOMAIN t |-> <<t[i][1], F(t[i][2])>>]
  <1>1. f = g
    BY DEF Manifests!Mapped
  <1>2. \A p, q \in Resource : F(p) = F(q) => p = q
    BY ResourceObjectTells
  <1> HIDE DEF F
  <1>3. /\ DOMAIN f = 1 .. Len(s) /\ DOMAIN g = 1 .. Len(t)
        /\ Len(s) \in Nat /\ Len(t) \in Nat
        /\ \A i \in 1 .. Len(s) : f[i] = <<s[i][1], F(s[i][2])>>
        /\ \A i \in 1 .. Len(t) : g[i] = <<t[i][1], F(t[i][2])>>
    BY LenProperties
  <1> HIDE DEF f, g
  <1>4. Len(s) = Len(t)
    BY <1>1, <1>3
  <1>5. \A i \in 1 .. Len(s) : s[i] \in Seq(Chars) \X Resource /\ t[i] \in Seq(Chars) \X Resource
    BY <1>4, ElementOfSeq
  <1>6. \A i \in 1 .. Len(s) : <<s[i][1], F(s[i][2])>> = <<t[i][1], F(t[i][2])>>
    BY <1>1, <1>3, <1>4, Zenon
  <1>7. \A x, y \in Seq(Chars) \X Resource : <<x[1], F(x[2])>> = <<y[1], F(y[2])>> => x = y
    <2> SUFFICES ASSUME NEW x \in Seq(Chars) \X Resource, NEW y \in Seq(Chars) \X Resource,
                        <<x[1], F(x[2])>> = <<y[1], F(y[2])>>
                 PROVE  x = y
      OBVIOUS
    <2>1. x[2] \in Resource /\ y[2] \in Resource /\ x[1] = y[1] /\ F(x[2]) = F(y[2])
      OBVIOUS
    <2>2. x[2] = y[2]
      BY <1>2, <2>1
    <2>3. QED
      BY <2>1, <2>2, SamePair, Zenon
  <1>8. \A i \in 1 .. Len(s) : s[i] = t[i]
    BY <1>5, <1>6, <1>7, Zenon
  <1>9. QED
    BY <1>4, <1>8, SeqEqual

---------------------------------------------------------------------------------
\* What was declared tells the maps: entries in the order of their keys are in one order.

LEMMA EntriesTell ==
  ASSUME NEW K, NEW V, NEW R, NEW s \in Seq(K \X V), NEW t \in Seq(K \X V), InOrder(s, R), InOrder(t, R),
         Transitive(K \X V, R), Irreflexive(K \X V, R), Manifests!Entries(s) = Manifests!Entries(t)
  PROVE  s = t
  <1>1. ASSUME NEW q \in Seq(K \X V) PROVE \A x : Contains(q, x) <=> x \in Manifests!Entries(q)
    <2>1. DOMAIN q = 1 .. Len(q) /\ \A i \in 1 .. Len(q) : q[i] \in K \X V
      BY LenProperties, ElementOfSeq
    <2>2. \A i \in 1 .. Len(q) : <<q[i][1], q[i][2]>> = q[i]
      BY <2>1
    <2>3. QED
      BY <2>1, <2>2 DEF Contains, Manifests!Entries
  <1>2. \A x : Contains(s, x) <=> Contains(t, x)
    BY <1>1
  <1>3. QED
    BY <1>2, SameOrder DEF Transitive, Irreflexive

LEMMA LooseTells ==
  ASSUME NEW s \in Specs, NEW t \in Specs, Manifests!Loose(s) = Manifests!Loose(t)
  PROVE  s = t
  <1> DEFINE P(r) == Manifests!Entries(r.ports)
             E(r) == Manifests!Entries(r.env)
  <1>1. /\ s \in SpecRecord /\ InOrder(s.ports, Ports) /\ InOrder(s.env, Named(Texts))
        /\ t \in SpecRecord /\ InOrder(t.ports, Ports) /\ InOrder(t.env, Named(Texts))
    BY DEF Specs
  <1>2. ASSUME NEW r \in SpecRecord
        PROVE  /\ Manifests!Loose(r).ports = P(r) /\ Manifests!Loose(r).env = E(r)
               /\ Manifests!Loose(r).image = r.image /\ Manifests!Loose(r).bucket = r.bucket
               /\ Manifests!Loose(r).topic = r.topic /\ Manifests!Loose(r).database = r.database
    <2> HIDE DEF P, E
    <2>1. Manifests!Loose(r) = [r EXCEPT !.ports = P(r), !.env = E(r)]
      BY DEF Manifests!Loose, P, E
    <2>2. QED
      BY <2>1 DEF SpecRecord
  <1>3. P(s) = P(t) /\ E(s) = E(t)
    BY <1>1, <1>2
  <1>4. s.ports = t.ports
    <2>1. s.ports \in Seq(Nat \X Nat) /\ t.ports \in Seq(Nat \X Nat)
      BY <1>1 DEF SpecRecord
    <2>2. QED
      BY <1>1, <1>3, <2>1, PortsOrder, EntriesTell
  <1>5. s.env = t.env
    <2>1. s.env \in Seq(Seq(Chars) \X Texts) /\ t.env \in Seq(Seq(Chars) \X Texts)
      BY <1>1 DEF SpecRecord
    <2>2. QED
      BY <1>1, <1>3, <2>1, NamedOrder, EntriesTell
  <1>6. s.image = t.image /\ s.bucket = t.bucket /\ s.topic = t.topic /\ s.database = t.database
    BY <1>1, <1>2
  <1>7. QED
    BY <1>1, <1>4, <1>5, <1>6, SMTT(60) DEF SpecRecord

LEMMA DeclaredTells ==
  ASSUME NEW m, NEW l, ManifestOK(m), ManifestOK(l), Manifests!Declared(m) = Manifests!Declared(l)
  PROVE  m.app = l.app /\ m.language = l.language /\ m.services = l.services /\ m.resources = l.resources
  <1> DEFINE Keyed(q) == {<<q[i][1], Manifests!Loose(q[i][2])>> : i \in DOMAIN q}
  <1>1. /\ m.app = l.app /\ m.language = l.language
        /\ Keyed(m.services) = Keyed(l.services)
        /\ Manifests!Entries(m.resources) = Manifests!Entries(l.resources)
    BY DEF Manifests!Declared
  <1>2. m.resources = l.resources
    BY <1>1, NamedOrder, EntriesTell, ZenonT(60) DEF ManifestOK
  <1>3. \A s, t \in Seq(Seq(Chars) \X Specs) : Keyed(s) = Keyed(t) =>
          \A x : Contains(s, x) => Contains(t, x)
    <2> SUFFICES ASSUME NEW s \in Seq(Seq(Chars) \X Specs), NEW t \in Seq(Seq(Chars) \X Specs),
                        Keyed(s) = Keyed(t), NEW x, Contains(s, x)
                 PROVE  Contains(t, x)
      OBVIOUS
    <2> PICK i \in 1 .. Len(s) : s[i] = x
      BY DEF Contains
    <2>1. /\ DOMAIN s = 1 .. Len(s) /\ DOMAIN t = 1 .. Len(t)
          /\ \A j \in DOMAIN s : s[j] \in Seq(Chars) \X Specs
          /\ \A j \in DOMAIN t : t[j] \in Seq(Chars) \X Specs
      BY LenProperties, ElementOfSeq
    <2>2. <<s[i][1], Manifests!Loose(s[i][2])>> \in Keyed(t)
      BY <2>1
    <2>3. PICK j \in DOMAIN t : <<s[i][1], Manifests!Loose(s[i][2])>> = <<t[j][1], Manifests!Loose(t[j][2])>>
      BY <2>2
    <2>4. s[i][1] = t[j][1] /\ s[i][2] = t[j][2]
      BY <2>1, <2>3, LooseTells
    <2>5. s[i] = t[j]
      BY <2>1, <2>4, SamePair, Zenon
    <2>6. QED
      BY <2>1, <2>5, Zenon DEF Contains
  <1> HIDE DEF Keyed
  <1>4. \A x : Contains(m.services, x) <=> Contains(l.services, x)
    BY <1>1, <1>3 DEF ManifestOK
  <1>5. m.services = l.services
    <2> DEFINE X == Seq(Chars) \X Specs
               R == Named(Specs)
    <2>1. /\ m.services \in Seq(X) /\ InOrder(m.services, R)
          /\ l.services \in Seq(X) /\ InOrder(l.services, R)
      BY DEF ManifestOK
    <2>2. Transitive(X, R) /\ Irreflexive(X, R)
      BY NamedOrder
    <2> HIDE DEF X, R
    <2>3. QED
      BY <1>4, <2>1, <2>2, SameOrder DEF Transitive, Irreflexive
  <1>6. QED
    BY <1>1, <1>2, <1>5

LEMMA ManifestSafe == ManifestsOK => Manifests!LocksTellContents
  <1> SUFFICES ASSUME ManifestsOK PROVE Manifests!LocksTellContents
    OBVIOUS
  <1> DEFINE Same(m, l) ==
               m.app = l.app /\ m.language = l.language /\ m.services = l.services /\ m.resources = l.resources
  <1>1. ASSUME NEW m, NEW l, ManifestOK(m), ManifestOK(l), Manifests!Final(m), Manifests!Final(l)
        PROVE  /\ (Manifests!Declared(m) = Manifests!Declared(l)) <=> (Manifests!ToLock(m) = Manifests!ToLock(l))
               /\ (m.hash = l.hash) <=> (Manifests!ToLock(m) = Manifests!ToLock(l))
    <2>1. m.hash = Manifests!ContentHash(m) /\ l.hash = Manifests!ContentHash(l)
      BY <1>1 DEF ManifestOK, Manifests!Final
    <2>2. \A h, k : Manifests!ToObject(m, h) = Manifests!ToObject(l, k) => Same(m, l)
      <3> SUFFICES ASSUME NEW h, NEW k, Manifests!ToObject(m, h) = Manifests!ToObject(l, k)
                   PROVE  Same(m, l)
        OBVIOUS
      <3>1. /\ m.app = l.app /\ m.language = l.language
            /\ Manifests!Mapped(m.services, Manifests!ServiceObject) = Manifests!Mapped(l.services, Manifests!ServiceObject)
            /\ Manifests!Mapped(m.resources, Manifests!ResourceObject) = Manifests!Mapped(l.resources, Manifests!ResourceObject)
        BY ObjectTells
      <3>2. m.services = l.services
        BY <1>1, <3>1, ServicesTell DEF ManifestOK
      <3>3. m.resources = l.resources
        BY <1>1, <3>1, ResourcesTell DEF ManifestOK
      <3>4. QED
        BY <3>1, <3>2, <3>3
    <2>3. \A h : Same(m, l) => Manifests!ToObject(m, h) = Manifests!ToObject(l, h)
      BY DEF Manifests!ToObject
    <2>4. Same(m, l) => Manifests!Declared(m) = Manifests!Declared(l)
      BY DEF Manifests!Declared
    <2>5. Manifests!Declared(m) = Manifests!Declared(l) => Same(m, l)
      BY <1>1, DeclaredTells
    <2> HIDE DEF Same
    <2>6. m.hash = l.hash <=> Same(m, l)
      BY <2>1, <2>2, <2>3 DEF Manifests!ContentHash
    <2>7. Manifests!ToLock(m) = Manifests!ToLock(l) <=> Same(m, l)
      BY <2>2, <2>3, <2>6 DEF Manifests!ToLock
    <2>8. QED
      BY <2>4, <2>5, <2>6, <2>7
  <1>2. ASSUME NEW m, ManifestOK(m), Manifests!Final(m)
        PROVE  Manifests!Verify(m) /\ Held(m)
    BY <1>2 DEF ManifestOK, Manifests!Final, Manifests!Verify
  <1>3. QED
    BY <1>1, <1>2 DEF Manifests!LocksTellContents, ManifestsOK, Held
=================================================================================
