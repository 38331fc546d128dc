------------------------- MODULE BuildStatusProofs -------------------------
(* What the pages say of builds, proved of every table of recipes and of     *)
(* published files: the sorts of the pages pick a least element, and their   *)
(* choices agree where readers rely on it.                                   *)
EXTENDS BuildStatus, FiniteSetTheorems, SequenceTheorems, TLAPS

-----------------------------------------------------------------------------
(* The order of sort keys *)

LEMMA LexTransitive ==
    ASSUME NEW n \in Nat, NEW s \in [1 .. n -> Int], NEW t \in [1 .. n -> Int],
           NEW u \in [1 .. n -> Int], LexLess(s, t), LexLess(t, u)
    PROVE  LexLess(s, u)
<1>1. PICK i \in 1 .. n : s[i] < t[i] /\ \A k \in 1 .. i - 1 : s[k] = t[k]
  BY DEF LexLess
<1>2. PICK j \in 1 .. n : t[j] < u[j] /\ \A k \in 1 .. j - 1 : t[k] = u[k]
  BY DEF LexLess
<1>3. CASE i <= j
  <2>1. s[i] < u[i] /\ \A k \in 1 .. i - 1 : s[k] = u[k]
    BY <1>1, <1>2, <1>3
  <2>. QED
    BY <2>1 DEF LexLess
<1>4. CASE j < i
  <2>1. s[j] < u[j] /\ \A k \in 1 .. j - 1 : s[k] = u[k]
    BY <1>1, <1>2, <1>4
  <2>. QED
    BY <2>1 DEF LexLess
<1>. QED
  BY <1>3, <1>4

\* A sort of finitely many rows by such keys has a first row. Of the sets of
\* rows without one, a smallest would lack a first row although it has one
\* after any of its rows is taken away.
LEMMA LeastExists ==
    ASSUME NEW S, IsFiniteSet(S), S # {}, NEW n \in Nat,
           NEW rank \in [S -> [1 .. n -> Int]]
    PROVE  \E p \in S : \A q \in S : ~LexLess(rank[q], rank[p])
<1>. DEFINE First(T) == \E p \in T : \A q \in T : ~LexLess(rank[q], rank[p])
            Bad == {T \in SUBSET S : T # {} /\ ~First(T)}
<1>. SUFFICES ASSUME Bad # {} PROVE FALSE
  <2>1. S \notin Bad => First(S)
    OBVIOUS
  <2>. QED
    BY <2>1
<1>1. PICK T \in Bad : \A U \in Bad : ~(<<U, T>> \in StrictSubsetOrdering(S))
  <2>1. IsWellFoundedOn(StrictSubsetOrdering(S), SUBSET S)
    BY FS_StrictSubsetOrderingWellFounded, FS_FiniteSubsetsOfFinite
  <2>2. Bad \subseteq SUBSET S
    OBVIOUS
  <2>. HIDE DEF Bad
  <2>. QED
    BY <2>1, <2>2, WFMin
<1>2. PICK x \in T : TRUE
  OBVIOUS
<1>3. T \subseteq S /\ ~First(T)
  OBVIOUS
<1>4. ~LexLess(rank[x], rank[x])
  <2>1. rank[x] \in [1 .. n -> Int]
    BY <1>3
  <2>. QED
    BY <2>1 DEF LexLess
<1>5. T \ {x} \notin Bad
  <2>1. T \ {x} # T /\ T \ {x} \subseteq T
    BY <1>2
  <2>. QED
    BY <1>1, <1>3, <2>1 DEF StrictSubsetOrdering
<1>6. CASE T \ {x} = {}
  <2>1. \A q \in T : ~LexLess(rank[q], rank[x])
    BY <1>4, <1>6
  <2>. QED
    BY <1>2, <2>1
<1>7. CASE T \ {x} # {}
  <2>1. PICK p \in T \ {x} : \A q \in T \ {x} : ~LexLess(rank[q], rank[p])
    BY <1>3, <1>5, <1>7
  <2>2. CASE LexLess(rank[x], rank[p])
    <3>1. \A q \in T : ~LexLess(rank[q], rank[x])
      BY <1>3, <1>4, <2>1, <2>2, LexTransitive
    <3>. QED
      BY <1>2, <3>1
  <2>3. CASE ~LexLess(rank[x], rank[p])
    <3>1. \A q \in T : ~LexLess(rank[q], rank[p])
      BY <2>1, <2>3
    <3>. QED
      BY <2>1, <3>1
  <2>. QED
    BY <2>2, <2>3
<1>. QED
  BY <1>6, <1>7

\* Two keys of which neither comes first are the same.
LEMMA LexTotal ==
    ASSUME NEW n \in 1 .. 5, NEW s \in [1 .. n -> Int], NEW t \in [1 .. n -> Int],
           ~LexLess(s, t), ~LexLess(t, s)
    PROVE  s = t
<1>. DEFINE Agree(k) == \A j \in 1 .. k : j <= n => s[j] = t[j]
<1>1. ASSUME NEW k \in 1 .. 5, Agree(k - 1) PROVE Agree(k)
  <2>1. CASE k <= n
    <3>1. k \in 1 .. n /\ \A j \in 1 .. k - 1 : s[j] = t[j] /\ t[j] = s[j]
      BY <1>1, <2>1
    <3>2. ~(s[k] < t[k]) /\ ~(t[k] < s[k])
      BY <3>1 DEF LexLess
    <3>3. s[k] = t[k]
      BY <3>1, <3>2
    <3>. QED
      BY <1>1, <3>3
  <2>2. CASE k > n
    BY <1>1, <2>2
  <2>. QED
    BY <2>1, <2>2
<1>2. Agree(0)
  OBVIOUS
<1>3. Agree(1)
  BY <1>1, <1>2
<1>4. Agree(2)
  BY <1>1, <1>3
<1>5. Agree(3)
  BY <1>1, <1>4
<1>6. Agree(4)
  BY <1>1, <1>5
<1>7. Agree(5)
  BY <1>1, <1>6
<1>. QED
  BY <1>7

-----------------------------------------------------------------------------
(* The sort keys of the pages *)

LEMMA Joined ==
    ASSUME NEW m \in Nat, NEW k \in Nat,
           NEW s \in [1 .. m -> Int], NEW t \in [1 .. k -> Int]
    PROVE  /\ s \o t \in [1 .. m + k -> Int]
           /\ \A i \in 1 .. m : (s \o t)[i] = s[i]
           /\ \A i \in 1 .. k : (s \o t)[m + i] = t[i]
<1>1. s \in Seq(Int) /\ Len(s) = m /\ t \in Seq(Int) /\ Len(t) = k
  OBVIOUS
<1>2. /\ s \o t \in Seq(Int) /\ Len(s \o t) = m + k
      /\ \A i \in 1 .. m + k :
            (s \o t)[i] = IF i <= m THEN s[i] ELSE t[i - m]
  BY <1>1, ConcatProperties
<1>3. s \o t \in [1 .. m + k -> Int]
  BY <1>2, LenProperties
<1>4. ASSUME NEW i \in 1 .. k PROVE (s \o t)[m + i] = t[i]
  <2>1. m + i \in 1 .. m + k /\ ~(m + i <= m) /\ m + i - m = i
    OBVIOUS
  <2>. QED
    BY <1>2, <2>1
<1>. QED
  BY <1>2, <1>3, <1>4

LEMMA VersionParts ==
    ASSUME NEW v \in Nat \X Nat \X Nat
    PROVE  /\ v \in [1 .. 3 -> Int]
           /\ Newest(v) \in [1 .. 3 -> Int]
           /\ \A i \in 1 .. 3 : Newest(v)[i] = -v[i]
<1>1. PICK a \in Nat, b \in Nat, c \in Nat : v = <<a, b, c>>
  OBVIOUS
<1>2. -a \in Int /\ -b \in Int /\ -c \in Int
  OBVIOUS
<1>3. Newest(v) = <<-a, -b, -c>>
  BY <1>1 DEF Newest
<1>. QED
  BY <1>1, <1>2, <1>3

\* Keys that begin with the version, newest first.
LEMMA KeyParts ==
    ASSUME NEW v \in Nat \X Nat \X Nat, NEW k \in Nat, NEW t \in [1 .. k -> Int]
    PROVE  /\ Newest(v) \o t \in [1 .. 3 + k -> Int]
           /\ \A i \in 1 .. 3 : (Newest(v) \o t)[i] = -v[i]
           /\ \A i \in 1 .. k : (Newest(v) \o t)[3 + i] = t[i]
<1>1. Newest(v) \in [1 .. 3 -> Int] /\ 3 \in Nat
  BY VersionParts
<1>2. /\ Newest(v) \o t \in [1 .. 3 + k -> Int]
      /\ \A i \in 1 .. 3 : (Newest(v) \o t)[i] = Newest(v)[i]
      /\ \A i \in 1 .. k : (Newest(v) \o t)[3 + i] = t[i]
  BY <1>1, Joined, Zenon
<1>3. \A i \in 1 .. 3 : Newest(v)[i] = -v[i]
  BY VersionParts
<1>. QED
  BY <1>2, <1>3

LEMMA NewestFirst ==
    ASSUME NEW u \in Nat \X Nat \X Nat, NEW v \in Nat \X Nat \X Nat, LexLess(u, v),
           NEW k \in Nat, NEW s \in [1 .. k -> Int], NEW t \in [1 .. k -> Int]
    PROVE  LexLess(Newest(v) \o t, Newest(u) \o s)
<1>. DEFINE x == Newest(v) \o t
            y == Newest(u) \o s
<1>1. u \in [1 .. 3 -> Int] /\ v \in [1 .. 3 -> Int]
  BY VersionParts
<1>2. PICK i \in 1 .. 3 : u[i] < v[i] /\ \A j \in 1 .. i - 1 : u[j] = v[j]
  BY <1>1 DEF LexLess
<1>3. /\ x \in [1 .. 3 + k -> Int]
      /\ \A j \in 1 .. 3 : x[j] = -v[j]
      /\ \A j \in 1 .. 3 : y[j] = -u[j]
  BY KeyParts, Zenon
<1>. HIDE DEF x, y
<1>4. x[i] < y[i] /\ \A j \in 1 .. i - 1 : x[j] = y[j]
  <2>1. u[i] \in Int /\ v[i] \in Int /\ x[i] = -v[i] /\ y[i] = -u[i]
    BY <1>1, <1>3
  <2>2. \A j \in 1 .. i - 1 : j \in 1 .. 3
    OBVIOUS
  <2>3. \A j \in 1 .. i - 1 : x[j] = y[j]
    BY <1>2, <1>3, <2>2
  <2>. QED
    BY <1>2, <2>1, <2>3
<1>5. i \in 1 .. 3 + k
  OBVIOUS
<1>6. LexLess(x, y)
  BY <1>3, <1>4, <1>5 DEF LexLess
<1>. QED
  BY <1>6 DEF x, y

LEMMA RankTypes ==
    ASSUME NEW p \in Builds
    PROVE  /\ LatestRank(p) \in [1 .. 5 -> Int] /\ LatestRank(p)[5] = p.file
           /\ DetailRank(p) \in [1 .. 5 -> Int] /\ DetailRank(p)[5] = -p.file
           /\ ListRank(p) \in [1 .. 3 -> Int]
           /\ \A r : PickRank(r, p) \in [1 .. 7 -> Int]
<1>1. /\ p.v \in Versions /\ p.at \in 1 .. MaxTime /\ p.file \in Filenames
      /\ p.arch \in Arches /\ p.channel \in Channels /\ p.slot \in Slots
  BY DEF Builds
<1>2. /\ p.v \in Nat \X Nat \X Nat
      /\ -p.at \in Int /\ -p.file \in Int /\ p.file \in Int
      /\ ArchRank[p.arch] \in Int /\ ChannelRank[p.channel] \in Int
      /\ p.slot \in Int
  <2>1. p.at \in Nat /\ p.file \in Nat
    <3>1. MaxTime \in Nat /\ Filenames \subseteq Nat
      BY ConstantsAssumption
    <3>2. p.file \in Nat
      BY <1>1, <3>1
    <3>3. p.at \in Nat
      BY <1>1, <3>1
    <3>. QED
      BY <3>2, <3>3
  <2>2. ArchRank[p.arch] \in Nat /\ ChannelRank[p.channel] \in Nat
    BY <1>1, ConstantsAssumption
  <2>3. p.v \in Nat \X Nat \X Nat /\ p.slot \in Nat
    BY <1>1, ConstantsAssumption
  <2>. QED
    BY <2>1, <2>2, <2>3
<1>3. -p.v[1] \in Int /\ -p.v[2] \in Int /\ -p.v[3] \in Int
  BY <1>2
<1>4. /\ <<-p.at, p.file>> \in [1 .. 2 -> Int] /\ <<-p.at, p.file>>[2] = p.file
      /\ <<-p.at, -p.file>> \in [1 .. 2 -> Int] /\ <<-p.at, -p.file>>[2] = -p.file
      /\ 2 \in Nat /\ 2 \in 1 .. 2 /\ 3 + 2 = 5
  BY <1>2
<1>5. LatestRank(p) \in [1 .. 5 -> Int] /\ LatestRank(p)[5] = p.file
  <2>. DEFINE t == <<-p.at, p.file>>
  <2>1. t \in [1 .. 2 -> Int] /\ t[2] = p.file
    BY <1>4
  <2>. HIDE DEF t
  <2>2. /\ Newest(p.v) \o t \in [1 .. 3 + 2 -> Int]
        /\ (Newest(p.v) \o t)[3 + 2] = t[2]
    BY <1>2, <1>4, <2>1, KeyParts, Zenon
  <2>3. LatestRank(p) = Newest(p.v) \o t
    BY DEF LatestRank, t
  <2>. QED
    BY <1>4, <2>1, <2>2, <2>3, Zenon
<1>6. DetailRank(p) \in [1 .. 5 -> Int] /\ DetailRank(p)[5] = -p.file
  <2>. DEFINE t == <<-p.at, -p.file>>
  <2>1. t \in [1 .. 2 -> Int] /\ t[2] = -p.file
    BY <1>4
  <2>. HIDE DEF t
  <2>2. /\ Newest(p.v) \o t \in [1 .. 3 + 2 -> Int]
        /\ (Newest(p.v) \o t)[3 + 2] = t[2]
    BY <1>2, <1>4, <2>1, KeyParts, Zenon
  <2>3. DetailRank(p) = Newest(p.v) \o t
    BY DEF DetailRank, t
  <2>. QED
    BY <1>4, <2>1, <2>2, <2>3, Zenon
<1>7. ListRank(p) \in [1 .. 3 -> Int]
  BY <1>2 DEF ListRank
<1>8. ASSUME NEW r PROVE PickRank(r, p) \in [1 .. 7 -> Int]
  <2>. DEFINE exact == IF p.arch = r.arch THEN 0 ELSE 1
  <2>1. <<exact, -p.v[2], -p.v[3], -p.at>> \in [1 .. 4 -> Int]
    <3>1. exact \in Int
      OBVIOUS
    <3>. HIDE DEF exact
    <3>. QED
      BY <1>2, <1>3, <3>1
  <2>2. PickRank(r, p) \in [1 .. 4 + 3 -> Int]
    BY <1>7, <2>1, Joined DEF PickRank
  <2>. QED
    BY <2>2
<1>. QED
  BY <1>5, <1>6, <1>7, <1>8

-----------------------------------------------------------------------------
(* The tables *)

\* A table has finitely many rows of the declared types.
TablesInv == TypeOK /\ IsFiniteSet(recipes)

LEMMA TablesInit == Init => TablesInv
<1>. SUFFICES ASSUME Init PROVE TablesInv
  OBVIOUS
<1>1. IsFiniteSet({})
  BY FS_EmptySet
<1>2. 1 \in 1 .. MaxTime
  BY ConstantsAssumption
<1>. QED
  BY <1>1, <1>2 DEF Init, TablesInv, TypeOK

LEMMA TablesNext == TablesInv /\ [Next]_vars => TablesInv'
<1>. SUFFICES ASSUME TablesInv, [Next]_vars PROVE TablesInv'
  OBVIOUS
<1>. USE DEF TablesInv, TypeOK
<1>1. ASSUME NEW new \in Sources, Sync(new) PROVE TablesInv'
  BY <1>1, ConstantsAssumption DEF Sync
<1>2. ASSUME NEW f \in Filenames, Withdraw(f) PROVE TablesInv'
  BY <1>2 DEF Withdraw
<1>3. ASSUME NEW f \in Filenames, NEW u \in Uploads, Upload(f, u) PROVE TablesInv'
  <2>1. now' \in 1 .. MaxTime
    BY <1>3 DEF Upload
  <2>2. [arch |-> Canonical[u.arch], channel |-> u.channel, slot |-> u.slot,
         v |-> u.v, at |-> now'] \in Rows
    BY <2>1, ConstantsAssumption DEF Manifests, Arches, Rows
  <2>. QED
    BY <1>3, <2>1, <2>2 DEF Upload
<1>4. CASE UNCHANGED vars
  BY <1>4 DEF vars
<1>. QED
  BY <1>1, <1>2, <1>3, <1>4 DEF Next

\* The tables hold rows of the declared types only, after any upload,
\* withdrawal or sync, with the canonical name of every architecture.
THEOREM TypesCorrect == Spec => []TypeOK
<1>1. TablesInv => TypeOK
  BY DEF TablesInv
<1>. QED
  BY <1>1, TablesInit, TablesNext, PTL DEF Spec

LEMMA PublishedFacts ==
    ASSUME TablesInv
    PROVE  /\ PublishedAll \subseteq Builds
           /\ IsFiniteSet(PublishedAll)
           /\ \A p, q \in PublishedAll : p.file = q.file => p = q
<1>. DEFINE names == {g \in Filenames : published[g] # None}
            Row(f) == [file |-> f, arch |-> Canonical[published[f].arch],
                       channel |-> published[f].channel,
                       slot |-> published[f].slot,
                       v |-> published[f].v, at |-> published[f].at]
<1>1. PublishedAll = {Row(f) : f \in names}
  BY DEF PublishedAll
<1>2. ASSUME NEW f \in names PROVE Row(f) \in Builds
  <2>1. published[f] \in Rows
    BY DEF TablesInv, TypeOK
  <2>2. Canonical[published[f].arch] = published[f].arch
    BY <2>1, ConstantsAssumption DEF Rows
  <2>. QED
    BY <2>1, <2>2 DEF Rows, Builds
<1>3. IsFiniteSet(names)
  BY FS_Subset, ConstantsAssumption
<1>4. IsFiniteSet(PublishedAll)
  <2>. DEFINE h == [f \in names |-> Row(f)]
  <2>1. h \in Surjection(names, PublishedAll)
    BY <1>1 DEF Surjection
  <2>. HIDE DEF h, names
  <2>. QED
    BY <1>3, <2>1, FS_Surjection
<1>5. \A f \in names : Row(f).file = f
  OBVIOUS
<1>. QED
  BY <1>1, <1>2, <1>4, <1>5

-----------------------------------------------------------------------------
(* What the sorts put first *)

LEMMA PairKey == \A a, b \in Int : <<a, b>> \in [1 .. 2 -> Int]
OBVIOUS

LEMMA LatestFound ==
    ASSUME NEW S \in SUBSET Builds, IsFiniteSet(S), S # {}
    PROVE  /\ Least(S, LatestRank) \in S
           /\ \A q \in S : ~LexLess(LatestRank(q), LatestRank(Least(S, LatestRank)))
<1>. DEFINE rank == [q \in S |-> LatestRank(q)]
<1>1. rank \in [S -> [1 .. 5 -> Int]]
  BY RankTypes
<1>2. \E p \in S : \A q \in S : ~LexLess(rank[q], rank[p])
  <2>. HIDE DEF rank
  <2>. QED
    BY <1>1, LeastExists
<1>3. \E p \in S : \A q \in S : ~LexLess(LatestRank(q), LatestRank(p))
  BY <1>2
<1>. QED
  BY <1>3 DEF Least

LEMMA DetailFound ==
    ASSUME NEW S \in SUBSET Builds, IsFiniteSet(S), S # {}
    PROVE  /\ Least(S, DetailRank) \in S
           /\ \A q \in S : ~LexLess(DetailRank(q), DetailRank(Least(S, DetailRank)))
<1>. DEFINE rank == [q \in S |-> DetailRank(q)]
<1>1. rank \in [S -> [1 .. 5 -> Int]]
  BY RankTypes
<1>2. \E p \in S : \A q \in S : ~LexLess(rank[q], rank[p])
  <2>. HIDE DEF rank
  <2>. QED
    BY <1>1, LeastExists
<1>3. \E p \in S : \A q \in S : ~LexLess(DetailRank(q), DetailRank(p))
  BY <1>2
<1>. QED
  BY <1>3 DEF Least

LEMMA ListFound ==
    ASSUME NEW S \in SUBSET Builds, IsFiniteSet(S), S # {}
    PROVE  Least(S, ListRank) \in S
<1>. DEFINE rank == [q \in S |-> ListRank(q)]
<1>1. rank \in [S -> [1 .. 3 -> Int]]
  BY RankTypes
<1>2. \E p \in S : \A q \in S : ~LexLess(rank[q], rank[p])
  <2>. HIDE DEF rank
  <2>. QED
    BY <1>1, LeastExists
<1>3. \E p \in S : \A q \in S : ~LexLess(ListRank(q), ListRank(p))
  BY <1>2
<1>. QED
  BY <1>3 DEF Least

LastResort(r, S) ==
    CHOOSE p \in S : \A q \in S : ~LexLess(PickRank(r, q), PickRank(r, p))

LEMMA PickFound ==
    ASSUME NEW r, NEW S \in SUBSET Builds, IsFiniteSet(S), S # {}
    PROVE  LastResort(r, S) \in S
<1>. DEFINE rank == [q \in S |-> PickRank(r, q)]
<1>1. rank \in [S -> [1 .. 7 -> Int]]
  BY RankTypes
<1>2. \E p \in S : \A q \in S : ~LexLess(rank[q], rank[p])
  <2>. HIDE DEF rank
  <2>. QED
    BY <1>1, LeastExists
<1>3. \E p \in S : \A q \in S : ~LexLess(PickRank(r, q), PickRank(r, p))
  BY <1>2
<1>. QED
  BY <1>3 DEF LastResort

LEMMA UploadFound ==
    ASSUME NEW S \in SUBSET Builds, IsFiniteSet(S), S # {}
    PROVE  LET ByUpload(p) == <<-p.at, p.file>> IN Least(S, ByUpload) \in S
<1>. DEFINE rank == [q \in S |-> <<-q.at, q.file>>]
<1>1. ASSUME NEW q \in S PROVE <<-q.at, q.file>> \in [1 .. 2 -> Int]
  <2>1. q.at \in 1 .. MaxTime /\ q.file \in Filenames
    BY DEF Builds
  <2>2. MaxTime \in Nat /\ Filenames \subseteq Nat
    BY ConstantsAssumption
  <2>3. -q.at \in Int
    <3>1. q.at \in Int
      BY <2>1
    <3>. QED
      BY <3>1
  <2>4. q.file \in Int
    <3>1. q.file \in Nat
      BY <2>1, <2>2
    <3>. QED
      BY <3>1
  <2>. QED
    BY <2>3, <2>4, PairKey, Zenon
<1>2. rank \in [S -> [1 .. 2 -> Int]]
  BY <1>1
<1>3. \E p \in S : \A q \in S : ~LexLess(rank[q], rank[p])
  <2>. HIDE DEF rank
  <2>. QED
    BY <1>2, LeastExists
<1>4. \E p \in S : \A q \in S : ~LexLess(<<-q.at, q.file>>, <<-p.at, p.file>>)
  BY <1>3
<1>. QED
  BY <1>4 DEF Least

LEMMA SameVersion ==
    ASSUME NEW u \in Nat \X Nat \X Nat, NEW v \in Nat \X Nat \X Nat,
           ~LexLess(u, v), ~LexLess(v, u)
    PROVE  u = v
<1>1. u \in [1 .. 3 -> Int] /\ v \in [1 .. 3 -> Int] /\ 3 \in 1 .. 5
  BY VersionParts
<1>. QED
  BY <1>1, LexTotal

\* An older version is never put before a newer one.
LEMMA NewerFirst ==
    ASSUME NEW p \in Builds, NEW q \in Builds, LexLess(p.v, q.v)
    PROVE  /\ LexLess(LatestRank(q), LatestRank(p))
           /\ LexLess(DetailRank(q), DetailRank(p))
<1>1. \A b \in Builds : /\ b.v \in Nat \X Nat \X Nat
                       /\ <<-b.at, b.file>> \in [1 .. 2 -> Int]
                       /\ <<-b.at, -b.file>> \in [1 .. 2 -> Int]
  <2>. SUFFICES ASSUME NEW b \in Builds
                PROVE  /\ b.v \in Nat \X Nat \X Nat
                       /\ <<-b.at, b.file>> \in [1 .. 2 -> Int]
                       /\ <<-b.at, -b.file>> \in [1 .. 2 -> Int]
    OBVIOUS
  <2>1. b.v \in Versions /\ b.at \in 1 .. MaxTime /\ b.file \in Filenames
    BY DEF Builds
  <2>2. b.v \in Nat \X Nat \X Nat /\ b.file \in Nat
    BY <2>1, ConstantsAssumption
  <2>3. b.at \in Int
    BY <2>1
  <2>4. b.file \in Int /\ -b.file \in Int /\ -b.at \in Int
    BY <2>2, <2>3
  <2>. QED
    BY <2>2, <2>4, PairKey, Zenon
<1>2. 2 \in Nat
  OBVIOUS
<1>3. LexLess(Newest(q.v) \o <<-q.at, q.file>>, Newest(p.v) \o <<-p.at, p.file>>)
  BY <1>1, <1>2, NewestFirst, Zenon
<1>4. LexLess(Newest(q.v) \o <<-q.at, -q.file>>, Newest(p.v) \o <<-p.at, -p.file>>)
  BY <1>1, <1>2, NewestFirst, Zenon
<1>. QED
  BY <1>3, <1>4 DEF LatestRank, DetailRank

LEMMA DetailNewest ==
    ASSUME NEW S \in SUBSET Builds, IsFiniteSet(S), NEW p \in S
    PROVE  /\ Least(S, DetailRank) \in S
           /\ ~LexLess(Least(S, DetailRank).v, p.v)
<1>1. /\ Least(S, DetailRank) \in S
      /\ ~LexLess(DetailRank(p), DetailRank(Least(S, DetailRank)))
  BY DetailFound
<1>. QED
  BY <1>1, NewerFirst

\* The recipes of the pages are of the newest version they choose from.
LEMMA RecipeKeys ==
    ASSUME NEW r \in Recipes
    PROVE  /\ r.v \in Nat \X Nat \X Nat
           /\ <<ChannelRank[r.channel], r.slot>> \in [1 .. 2 -> Int]
           /\ <<ChannelRank[r.channel], r.slot, ArchRank[r.arch]>> \in [1 .. 3 -> Int]
<1>1. r.v \in Versions /\ r.channel \in Channels /\ r.slot \in Slots /\ r.arch \in Arches
  BY DEF Recipes
<1>2. r.v \in Nat \X Nat \X Nat /\ r.slot \in Nat
  BY <1>1, ConstantsAssumption
<1>3. ChannelRank[r.channel] \in Nat /\ ArchRank[r.arch] \in Nat
  BY <1>1, ConstantsAssumption
<1>. QED
  BY <1>2, <1>3

LEMMA NewestRecipe ==
    ASSUME NEW S \in SUBSET Recipes, IsFiniteSet(S), S # {}, NEW k \in Nat,
           NEW tail \in [S -> [1 .. k -> Int]]
    PROVE  \E p \in S : \A q \in S :
                ~LexLess(Newest(q.v) \o tail[q], Newest(p.v) \o tail[p])
<1>. DEFINE rank == [q \in S |-> Newest(q.v) \o tail[q]]
<1>1. ASSUME NEW q \in S PROVE Newest(q.v) \o tail[q] \in [1 .. 3 + k -> Int]
  <2>1. q.v \in Nat \X Nat \X Nat
    BY RecipeKeys
  <2>2. tail[q] \in [1 .. k -> Int]
    OBVIOUS
  <2>. QED
    BY <2>1, <2>2, KeyParts, Zenon
<1>2. rank \in [S -> [1 .. 3 + k -> Int]] /\ 3 + k \in Nat
  BY <1>1
<1>3. \E p \in S : \A q \in S : ~LexLess(rank[q], rank[p])
  <2>. HIDE DEF rank
  <2>. QED
    BY <1>2, LeastExists
<1>. QED
  BY <1>3

LEMMA PackageFound ==
    ASSUME TablesInv, recipes # {}
    PROVE  /\ PackageByName \in recipes
           /\ \A q \in recipes : ~LexLess(PackageByName.v, q.v)
<1>. DEFINE RestOf(r) == <<ChannelRank[r.channel], r.slot, ArchRank[r.arch]>>
            tail == [r \in recipes |-> RestOf(r)]
            Rank(r) == Newest(r.v) \o RestOf(r)
            pkg == CHOOSE p \in recipes : \A q \in recipes : ~LexLess(Rank(q), Rank(p))
<1>1. recipes \in SUBSET Recipes /\ IsFiniteSet(recipes)
  BY DEF TablesInv, TypeOK
<1>2. ASSUME NEW r \in recipes
      PROVE  r.v \in Nat \X Nat \X Nat /\ RestOf(r) \in [1 .. 3 -> Int]
  BY <1>1, RecipeKeys
<1>. HIDE DEF RestOf
<1>3. tail \in [recipes -> [1 .. 3 -> Int]]
  BY <1>2
<1>4. \E p \in recipes : \A q \in recipes :
            ~LexLess(Newest(q.v) \o tail[q], Newest(p.v) \o tail[p])
  <2>. HIDE DEF tail
  <2>. QED
    BY <1>1, <1>3, NewestRecipe
<1>5. \E p \in recipes : \A q \in recipes : ~LexLess(Rank(q), Rank(p))
  BY <1>4
<1>6. pkg \in recipes /\ \A q \in recipes : ~LexLess(Rank(q), Rank(pkg))
  BY <1>5
<1>7. PackageByName = pkg
  BY DEF PackageByName, Least, RestOf
<1>. HIDE DEF pkg
<1>8. ASSUME NEW q \in recipes, LexLess(pkg.v, q.v) PROVE FALSE
  <2>1. LexLess(Rank(q), Rank(pkg))
    BY <1>2, <1>6, <1>8, NewestFirst, Zenon
  <2>. QED
    BY <1>6, <2>1
<1>. QED
  BY <1>6, <1>7, <1>8

LEMMA DetailRecipeFound ==
    ASSUME TablesInv, NEW want, {r \in recipes : r.arch = SelectedArch(want)} # {}
    PROVE  /\ DetailRecipe(want) \in recipes
           /\ DetailRecipe(want).arch = SelectedArch(want)
           /\ \A q \in recipes : q.arch = SelectedArch(want) =>
                    ~LexLess(DetailRecipe(want).v, q.v)
<1>. DEFINE S == {r \in recipes : r.arch = SelectedArch(want)}
            RestOf(r) == <<ChannelRank[r.channel], r.slot>>
            tail == [r \in S |-> RestOf(r)]
            Rank(r) == Newest(r.v) \o RestOf(r)
            pkg == CHOOSE p \in S : \A q \in S : ~LexLess(Rank(q), Rank(p))
<1>1. S \in SUBSET Recipes /\ IsFiniteSet(S) /\ S # {}
  BY FS_Subset DEF TablesInv, TypeOK
<1>2. ASSUME NEW r \in S
      PROVE  r.v \in Nat \X Nat \X Nat /\ RestOf(r) \in [1 .. 2 -> Int]
  BY <1>1, RecipeKeys
<1>3. DetailRecipe(want) = pkg
  BY DEF DetailRecipe, Least
<1>4. \A q : q \in S <=> q \in recipes /\ q.arch = SelectedArch(want)
  OBVIOUS
<1>. HIDE DEF S, RestOf
<1>5. tail \in [S -> [1 .. 2 -> Int]]
  BY <1>2
<1>6. \E p \in S : \A q \in S :
            ~LexLess(Newest(q.v) \o tail[q], Newest(p.v) \o tail[p])
  <2>. HIDE DEF tail
  <2>. QED
    BY <1>1, <1>5, NewestRecipe
<1>7. \E p \in S : \A q \in S : ~LexLess(Rank(q), Rank(p))
  BY <1>6
<1>8. pkg \in S /\ \A q \in S : ~LexLess(Rank(q), Rank(pkg))
  BY <1>7
<1>. HIDE DEF pkg
<1>9. ASSUME NEW q \in S, LexLess(pkg.v, q.v) PROVE FALSE
  <2>1. LexLess(Rank(q), Rank(pkg))
    BY <1>2, <1>8, <1>9, NewestFirst, Zenon
  <2>. QED
    BY <1>8, <2>1
<1>. QED
  BY <1>3, <1>4, <1>8, <1>9

-----------------------------------------------------------------------------
(* The build a page compares with *)

KeyClass(p) == {q \in PublishedAll : LatestKey(q) = LatestKey(p)}

LEMMA ClassFacts ==
    ASSUME TablesInv, NEW p \in PublishedAll
    PROVE  /\ KeyClass(p) \in SUBSET Builds /\ IsFiniteSet(KeyClass(p))
           /\ p \in KeyClass(p)
<1>1. KeyClass(p) \subseteq PublishedAll /\ p \in KeyClass(p)
  BY DEF KeyClass
<1>. QED
  BY <1>1, PublishedFacts, FS_Subset

\* The newest build of each channel, slot and architecture is a published file,
\* and no channel, slot and architecture is forgotten.
LEMMA LatestFacts ==
    ASSUME TablesInv
    PROVE  /\ PublishedLatestByArch \subseteq PublishedAll
           /\ IsFiniteSet(PublishedLatestByArch)
           /\ \A p \in PublishedAll : \E m \in PublishedLatestByArch :
                    LatestKey(m) = LatestKey(p)
<1>1. PublishedLatestByArch = {Least(KeyClass(p), LatestRank) : p \in PublishedAll}
  BY DEF PublishedLatestByArch, KeyClass
<1>2. ASSUME NEW p \in PublishedAll
      PROVE  Least(KeyClass(p), LatestRank) \in KeyClass(p)
  BY ClassFacts, LatestFound
<1>3. PublishedLatestByArch \subseteq PublishedAll
  BY <1>1, <1>2 DEF KeyClass
<1>4. IsFiniteSet(PublishedLatestByArch)
  BY <1>3, PublishedFacts, FS_Subset
<1>5. \A p \in PublishedAll :
        LatestKey(Least(KeyClass(p), LatestRank)) = LatestKey(p)
  BY <1>2 DEF KeyClass
<1>. QED
  BY <1>1, <1>3, <1>4, <1>5

\* Which build is compatible depends on the key of the newest builds only.
LEMMA CompatibleByKey ==
    ASSUME NEW r, NEW p, NEW q, LatestKey(p) = LatestKey(q)
    PROVE  Compatible(r, p) <=> Compatible(r, q)
<1>1. p.channel = q.channel /\ p.slot = q.slot /\ p.arch = q.arch
  BY DEF LatestKey
<1>. QED
  BY <1>1 DEF Compatible

\* A recipe is compared with a compatible published build, unless there is none.
LEMMA PickFacts ==
    ASSUME TablesInv, NEW r, NEW want
    PROVE  LET p == PickPublished(r, want) IN
           \/ p = None /\ \A q \in PublishedAll : ~Compatible(r, q)
           \/ p # None /\ p \in PublishedAll /\ Compatible(r, p)
<1>. DEFINE fit == {p \in PublishedLatestByArch : Compatible(r, p)}
            same == {p \in fit : want # None /\ p.v[2] = want}
            exact == {p \in same : p.arch = r.arch}
            pick == PickPublished(r, want)
<1>1. pick = IF fit = {} THEN None
             ELSE IF exact # {} THEN Least(exact, ListRank)
             ELSE IF same # {} THEN Least(same, ListRank)
             ELSE LastResort(r, fit)
  BY DEF PickPublished, Least, LastResort
<1>2. \A S \in SUBSET fit : S \in SUBSET Builds /\ IsFiniteSet(S)
  BY LatestFacts, PublishedFacts, FS_Subset
<1>3. exact \in SUBSET fit /\ same \in SUBSET fit
  OBVIOUS
<1>4. fit \subseteq PublishedAll /\ \A p \in fit : Compatible(r, p)
  BY LatestFacts
<1>5. fit = {} => \A q \in PublishedAll : ~Compatible(r, q)
  BY LatestFacts, CompatibleByKey
<1>6. None \notin PublishedAll
  BY PublishedFacts, ConstantsAssumption
<1>. HIDE DEF fit, same, exact
<1>7. CASE fit = {}
  BY <1>1, <1>5, <1>7
<1>8. ASSUME NEW S \in SUBSET fit, S # {} PROVE Least(S, ListRank) \in fit
  BY <1>2, <1>8, ListFound
<1>9. fit # {} => LastResort(r, fit) \in fit
  BY <1>2, PickFound
<1>10. CASE fit # {}
  <2>1. pick \in fit
    BY <1>1, <1>3, <1>8, <1>9, <1>10
  <2>. QED
    BY <1>4, <1>6, <2>1
<1>. QED
  BY <1>7, <1>10

-----------------------------------------------------------------------------
(* What the pages say *)

\* A recipe awaits its first build exactly when no published file fits it.
THEOREM MissingIsTrue == Spec => []MissingMeansNoBuild
<1>1. ASSUME TablesInv, NEW r PROVE
        ViewState(r) = "missing" <=> ~\E p \in PublishedAll : Compatible(r, p)
  BY <1>1, PickFacts DEF ViewState, DeriveWithEpoch
<1>2. TablesInv => MissingMeansNoBuild
  BY <1>1 DEF MissingMeansNoBuild
<1>. QED
  BY <1>2, TablesInit, TablesNext, PTL DEF Spec

\* A recipe shown as built, on any list, has a published file of its version.
THEOREM BuiltIsTrue == Spec => []BuiltMeansBuilt
<1>1. ASSUME TablesInv, NEW r, NEW want,
             DeriveWithEpoch(r.v, PickPublished(r, want)) = "built"
      PROVE  \E p \in PublishedAll : Compatible(r, p) /\ p.v = r.v
  <2>1. /\ PickPublished(r, want) # None
        /\ PickPublished(r, want).v = r.v
    BY <1>1 DEF DeriveWithEpoch
  <2>. QED
    BY <1>1, <2>1, PickFacts
<1>2. TablesInv => BuiltMeansBuilt
  BY <1>1 DEF BuiltMeansBuilt, ViewState, ApiState, ApiPackageState
<1>. QED
  BY <1>2, TablesInit, TablesNext, PTL DEF Spec

\* A package without a recipe is never shown as behind its own builds.
THEOREM OrphanIsTrue == Spec => []OrphanNeverBehind
<1>1. ASSUME TablesInv, PublishedAll # {} PROVE OrphanState \in {"built", "ahead"}
  <2>. DEFINE ByUpload(p) == <<-p.at, p.file>>
              shown == Least(PublishedAll, ByUpload)
              newest == Least(PublishedAll, DetailRank)
  <2>1. PublishedAll \in SUBSET Builds /\ IsFiniteSet(PublishedAll)
    BY <1>1, PublishedFacts
  <2>2. shown \in PublishedAll
    BY <1>1, <2>1, UploadFound
  <2>3. newest \in PublishedAll /\ ~LexLess(newest.v, shown.v)
    BY <2>1, <2>2, DetailNewest
  <2>4. newest # None
    BY <2>1, <2>3, ConstantsAssumption
  <2>5. OrphanState = DeriveWithEpoch(shown.v, newest)
    BY DEF OrphanState
  <2>. QED
    BY <2>3, <2>4, <2>5 DEF DeriveWithEpoch
<1>2. TablesInv => OrphanNeverBehind
  BY <1>1 DEF OrphanNeverBehind
<1>. QED
  BY <1>2, TablesInit, TablesNext, PTL DEF Spec

\* The receipt of the newest build says what the page of its package says.
THEOREM ReceiptIsTrue == Spec => []ReceiptAgreesWithPage
<1>1. TablesInv => ReceiptAgreesWithPage
  <2>. DEFINE arch == PackageByName.arch
              builds == {p \in PublishedAll : ArchMatch(arch, p.arch)}
              newest == Least(builds, DetailRank)
  <2>. SUFFICES ASSUME TablesInv, recipes # {}, NEW p \in builds,
                       \A q \in builds : ~LexLess(p.v, q.v)
                PROVE  ReceiptState(p) = DetailState(arch)
    BY DEF ReceiptAgreesWithPage
  <2>1. /\ PackageByName \in recipes
        /\ \A q \in recipes : ~LexLess(PackageByName.v, q.v)
    BY PackageFound
  <2>2. SelectedArch(arch) = arch
    BY <2>1 DEF SelectedArch
  <2>3. {r \in recipes : r.arch = SelectedArch(arch)} # {}
    BY <2>1, <2>2
  <2>4. /\ DetailRecipe(arch) \in recipes
        /\ ~LexLess(DetailRecipe(arch).v, PackageByName.v)
    BY <2>1, <2>2, <2>3, DetailRecipeFound
  <2>5. DetailRecipe(arch).v = PackageByName.v
    <3>1. \A r \in recipes : r.v \in Nat \X Nat \X Nat
      BY RecipeKeys DEF TablesInv, TypeOK
    <3>. QED
      BY <2>1, <2>4, <3>1, SameVersion
  <2>6. builds \in SUBSET Builds /\ IsFiniteSet(builds) /\ None \notin builds
    BY PublishedFacts, FS_Subset, ConstantsAssumption
  <2>7. newest \in builds /\ ~LexLess(newest.v, p.v) /\ ~LexLess(p.v, newest.v)
    BY <2>6, DetailNewest
  <2>8. newest.v = p.v
    <3>1. \A b \in builds : b.v \in Nat \X Nat \X Nat
      BY <2>6, ConstantsAssumption DEF Builds
    <3>. QED
      BY <2>7, <3>1, SameVersion
  <2>9. DetailState(arch) = DeriveWithEpoch(PackageByName.v, newest)
    BY <2>2, <2>5, <2>7 DEF DetailState
  <2>10. ReceiptState(p) = DeriveWithEpoch(PackageByName.v, p)
    BY DEF ReceiptState
  <2>. QED
    BY <2>6, <2>7, <2>8, <2>9, <2>10 DEF DeriveWithEpoch
<1>. QED
  BY <1>1, TablesInit, TablesNext, PTL DEF Spec

-----------------------------------------------------------------------------
(* An old rebuild *)

\* A build older than one there already is never put first, however the files
\* are named: two files never have the same key.
LEMMA LeastKept ==
    ASSUME NEW S \in SUBSET Builds, IsFiniteSet(S),
           \A q1, q2 \in S : q1.file = q2.file => q1 = q2,
           NEW p \in S, NEW b \in Builds, LexLess(b.v, p.v)
    PROVE  /\ Least(S \cup {b}, LatestRank) = Least(S, LatestRank)
           /\ Least(S \cup {b}, DetailRank) = Least(S, DetailRank)
<1>. DEFINE T == S \cup {b}
<1>1. T \in SUBSET Builds /\ IsFiniteSet(T) /\ T # {} /\ S # {}
  BY FS_AddElement
<1>2. p \in Builds /\ LexLess(LatestRank(p), LatestRank(b))
      /\ LexLess(DetailRank(p), DetailRank(b))
  BY NewerFirst
<1>3. \A q \in T : q # b => q \in S
  OBVIOUS
<1>4. S \subseteq T
  OBVIOUS
<1>5. Least(T, LatestRank) = Least(S, LatestRank)
  <2>. DEFINE m == Least(S, LatestRank)
              l == Least(T, LatestRank)
  <2>. HIDE DEF T
  <2>1. m \in S /\ \A q \in S : ~LexLess(LatestRank(q), LatestRank(m))
    BY <1>1, LatestFound
  <2>2. l \in T /\ \A q \in T : ~LexLess(LatestRank(q), LatestRank(l))
    BY <1>1, LatestFound
  <2>. HIDE DEF m, l
  <2>3. l \in S /\ ~LexLess(LatestRank(m), LatestRank(l))
    BY <1>2, <1>3, <1>4, <2>1, <2>2
  <2>4. ~LexLess(LatestRank(l), LatestRank(m))
    BY <2>1, <2>3
  <2>5. LatestRank(l) = LatestRank(m)
    <3>1. 5 \in 1 .. 5
      OBVIOUS
    <3>2. LatestRank(l) \in [1 .. 5 -> Int] /\ LatestRank(m) \in [1 .. 5 -> Int]
      BY <2>1, <2>3, RankTypes
    <3>. QED
      BY <2>3, <2>4, <3>1, <3>2, LexTotal, Zenon
  <2>6. l.file = m.file
    <3>1. l \in Builds /\ m \in Builds
      BY <2>1, <2>3
    <3>. QED
      BY <2>5, <3>1, RankTypes, Zenon
  <2>. QED
    BY <2>1, <2>3, <2>6 DEF l, m
<1>6. Least(T, DetailRank) = Least(S, DetailRank)
  <2>. DEFINE m == Least(S, DetailRank)
              l == Least(T, DetailRank)
  <2>. HIDE DEF T
  <2>1. m \in S /\ \A q \in S : ~LexLess(DetailRank(q), DetailRank(m))
    BY <1>1, DetailFound
  <2>2. l \in T /\ \A q \in T : ~LexLess(DetailRank(q), DetailRank(l))
    BY <1>1, DetailFound
  <2>. HIDE DEF m, l
  <2>3. l \in S /\ ~LexLess(DetailRank(m), DetailRank(l))
    BY <1>2, <1>3, <1>4, <2>1, <2>2
  <2>4. ~LexLess(DetailRank(l), DetailRank(m))
    BY <2>1, <2>3
  <2>5. DetailRank(l) = DetailRank(m)
    <3>1. 5 \in 1 .. 5
      OBVIOUS
    <3>2. DetailRank(l) \in [1 .. 5 -> Int] /\ DetailRank(m) \in [1 .. 5 -> Int]
      BY <2>1, <2>3, RankTypes
    <3>. QED
      BY <2>3, <2>4, <3>1, <3>2, LexTotal, Zenon
  <2>6. l.file = m.file
    <3>1. l \in Builds /\ m \in Builds
      BY <2>1, <2>3
    <3>2. -l.file = -m.file
      BY <2>5, <3>1, RankTypes, Zenon
    <3>3. l.file \in Filenames /\ m.file \in Filenames /\ Filenames \subseteq Nat
      BY <3>1, ConstantsAssumption DEF Builds
    <3>4. l.file \in Nat /\ m.file \in Nat
      BY <3>3
    <3>. QED
      BY <3>2, <3>4
  <2>. QED
    BY <2>1, <2>3, <2>6 DEF l, m
<1>. QED
  BY <1>5, <1>6

\* The newest builds of a set of published files.
Class(P, p) == {q \in P : LatestKey(q) = LatestKey(p)}
NewestOf(P) == {Least(Class(P, p), LatestRank) : p \in P}

LEMMA NewestKept ==
    ASSUME NEW P \in SUBSET Builds, IsFiniteSet(P),
           \A q1, q2 \in P : q1.file = q2.file => q1 = q2,
           NEW p \in P, NEW b \in Builds,
           LatestKey(b) = LatestKey(p), LexLess(b.v, p.v)
    PROVE  NewestOf(P \cup {b}) = NewestOf(P)
<1>1. ASSUME NEW q \in P
      PROVE  Least(Class(P \cup {b}, q), LatestRank) = Least(Class(P, q), LatestRank)
  <2>1. CASE LatestKey(q) = LatestKey(b)
    <3>1. Class(P \cup {b}, q) = Class(P, q) \cup {b}
      BY <2>1 DEF Class
    <3>2. p \in Class(P, q)
      BY <2>1 DEF Class
    <3>3. Class(P, q) \in SUBSET Builds /\ Class(P, q) \in SUBSET P
      BY DEF Class
    <3>4. IsFiniteSet(Class(P, q))
      BY <3>3, FS_Subset
    <3>. QED
      BY <3>1, <3>2, <3>3, <3>4, LeastKept
  <2>2. CASE LatestKey(q) # LatestKey(b)
    <3>1. Class(P \cup {b}, q) = Class(P, q)
      BY <2>2 DEF Class
    <3>. QED
      BY <3>1
  <2>. QED
    BY <2>1, <2>2
<1>2. Class(P \cup {b}, b) = Class(P \cup {b}, p)
  BY DEF Class
<1>. QED
  BY <1>1, <1>2 DEF NewestOf

\* The rows as a reader of the published table t sees them.
RowOf(t, f) ==
    [file |-> f, arch |-> Canonical[t[f].arch], channel |-> t[f].channel,
     slot |-> t[f].slot, v |-> t[f].v, at |-> t[f].at]
AllOf(t) == {RowOf(t, f) : f \in {g \in Filenames : t[g] # None}}

LEMMA AllOfPublished ==
    /\ PublishedAll = AllOf(published)
    /\ PublishedAll' = AllOf(published')
BY DEF PublishedAll, AllOf, RowOf

LEMMA NewestOfPublished ==
    /\ PublishedLatestByArch = NewestOf(PublishedAll)
    /\ PublishedLatestByArch' = NewestOf(PublishedAll')
BY DEF PublishedLatestByArch, NewestOf, Class

\* An old rebuild adds one build, older than another of its key.
LEMMA OldRebuildAdds ==
    ASSUME TablesInv, Next, OldRebuild
    PROVE  /\ recipes' = recipes
           /\ \E b \in Builds : \E p \in PublishedAll :
                /\ PublishedAll' = PublishedAll \cup {b}
                /\ LatestKey(b) = LatestKey(p) /\ LexLess(b.v, p.v)
<1>1. PICK f \in Filenames :
        /\ published[f] = None /\ published'[f] # None
        /\ \E p \in PublishedAll :
            /\ <<p.channel, p.slot, p.arch>> =
                   <<published'[f].channel, published'[f].slot,
                     Canonical[published'[f].arch]>>
            /\ LexLess(published'[f].v, p.v)
  BY DEF OldRebuild
<1>2. PICK p \in PublishedAll :
        /\ <<p.channel, p.slot, p.arch>> =
               <<published'[f].channel, published'[f].slot,
                 Canonical[published'[f].arch]>>
        /\ LexLess(published'[f].v, p.v)
  BY <1>1
<1>3. PICK u \in Uploads : Upload(f, u)
  <2>1. published \in [Filenames -> Rows \cup {None}]
    BY DEF TablesInv, TypeOK
  <2>2. \A new \in Sources : ~Sync(new)
    BY <1>1 DEF Sync
  <2>3. \A g \in Filenames : ~Withdraw(g)
    BY <1>1, <2>1 DEF Withdraw
  <2>4. \A g \in Filenames : g # f => \A u \in Uploads : ~Upload(g, u)
    BY <1>1, <2>1 DEF Upload
  <2>. QED
    BY <2>2, <2>3, <2>4 DEF Next
<1>4. /\ recipes' = recipes
      /\ \A g \in Filenames : g # f => published'[g] = published[g]
  BY <1>3 DEF Upload, TablesInv, TypeOK
<1>. DEFINE b == RowOf(published', f)
<1>5. PublishedAll' = PublishedAll \cup {b}
  <2>1. \A g \in Filenames : g # f => RowOf(published', g) = RowOf(published, g)
    BY <1>4 DEF RowOf
  <2>2. AllOf(published') \subseteq AllOf(published) \cup {b}
    BY <1>4, <2>1 DEF AllOf
  <2>3. AllOf(published) \subseteq AllOf(published')
    BY <1>1, <1>4, <2>1 DEF AllOf
  <2>4. b \in AllOf(published')
    BY <1>1 DEF AllOf
  <2>. HIDE DEF b
  <2>. QED
    BY <2>2, <2>3, <2>4, AllOfPublished
<1>6. b \in PublishedAll' /\ TablesInv'
  BY <1>5, TablesNext
<1>7. b \in Builds
  <2>1. published'[f] \in Rows
    BY <1>1, <1>6 DEF TablesInv, TypeOK
  <2>2. Canonical[published'[f].arch] = published'[f].arch
    BY <2>1, ConstantsAssumption DEF Rows
  <2>. QED
    BY <2>1, <2>2 DEF Rows, Builds, RowOf
<1>8. LatestKey(b) = LatestKey(p) /\ LexLess(b.v, p.v)
  BY <1>2 DEF LatestKey, RowOf
<1>. HIDE DEF b
<1>. QED
  BY <1>4, <1>5, <1>7, <1>8

\* What the pages compute, as functions of the tables.
PickOf(latest, r, want) ==
    LET fit == {p \in latest : Compatible(r, p)}
        same == {p \in fit : want # None /\ p.v[2] = want}
        exact == {p \in same : p.arch = r.arch}
        Rank(p) == PickRank(r, p)
    IN IF fit = {} THEN None
       ELSE IF exact # {} THEN Least(exact, ListRank)
       ELSE IF same # {} THEN Least(same, ListRank)
       ELSE Least(fit, Rank)

LEMMA PickOfLatest ==
    ASSUME NEW r, NEW want
    PROVE  /\ PickPublished(r, want) = PickOf(PublishedLatestByArch, r, want)
           /\ PickPublished(r, want)' = PickOf(PublishedLatestByArch', r, want)
BY DEF PickPublished, PickOf, Least

ArchOf(table, want) ==
    LET arches == {r.arch : r \in table}
        Rank(a) == <<ArchRank[a]>>
    IN IF want \in arches THEN want ELSE Least(arches, Rank)

RecipeOf(table, arch) ==
    LET Rank(r) == Newest(r.v) \o <<ChannelRank[r.channel], r.slot>>
    IN Least({r \in table : r.arch = arch}, Rank)

LEMMA DetailOfTables ==
    ASSUME NEW want
    PROVE  /\ SelectedArch(want) = ArchOf(recipes, want)
           /\ SelectedArch(want)' = ArchOf(recipes', want)
           /\ DetailRecipe(want) = RecipeOf(recipes, SelectedArch(want))
           /\ DetailRecipe(want)' = RecipeOf(recipes', SelectedArch(want)')
BY DEF SelectedArch, DetailRecipe, ArchOf, RecipeOf, Least

\* The builds of an architecture that a page sees.
BuildsFor(P, arch) == {p \in P : ArchMatch(arch, p.arch)}
NewestFor(P, arch) ==
    IF BuildsFor(P, arch) = {} THEN None ELSE Least(BuildsFor(P, arch), DetailRank)

LEMMA DetailStateOf ==
    ASSUME NEW want
    PROVE  /\ DetailState(want) =
                DeriveWithEpoch(DetailRecipe(want).v,
                                NewestFor(PublishedAll, SelectedArch(want)))
           /\ DetailState(want)' =
                DeriveWithEpoch(DetailRecipe(want)'.v,
                                NewestFor(PublishedAll', SelectedArch(want)'))
BY DEF DetailState, BuildsFor, NewestFor

LEMMA NewestForKept ==
    ASSUME NEW P \in SUBSET Builds, IsFiniteSet(P),
           \A q1, q2 \in P : q1.file = q2.file => q1 = q2,
           NEW p \in P, NEW b \in Builds,
           LatestKey(b) = LatestKey(p), LexLess(b.v, p.v), NEW arch
    PROVE  NewestFor(P \cup {b}, arch) = NewestFor(P, arch)
<1>1. b.arch = p.arch
  BY DEF LatestKey
<1>2. CASE ArchMatch(arch, p.arch)
  <2>1. BuildsFor(P \cup {b}, arch) = BuildsFor(P, arch) \cup {b}
    BY <1>1, <1>2 DEF BuildsFor
  <2>2. p \in BuildsFor(P, arch) /\ BuildsFor(P, arch) \in SUBSET P
    BY <1>2 DEF BuildsFor
  <2>3. BuildsFor(P, arch) \in SUBSET Builds /\ IsFiniteSet(BuildsFor(P, arch))
    BY <2>2, FS_Subset
  <2>4. Least(BuildsFor(P, arch) \cup {b}, DetailRank) =
            Least(BuildsFor(P, arch), DetailRank)
    BY <2>2, <2>3, LeastKept
  <2>5. BuildsFor(P, arch) \cup {b} # {} /\ BuildsFor(P, arch) # {}
    BY <2>2
  <2>. QED
    BY <2>1, <2>4, <2>5 DEF NewestFor
<1>3. CASE ~ArchMatch(arch, p.arch)
  <2>1. BuildsFor(P \cup {b}, arch) = BuildsFor(P, arch)
    BY <1>1, <1>3 DEF BuildsFor
  <2>. QED
    BY <2>1 DEF NewestFor
<1>. QED
  BY <1>2, <1>3

\* "an old rebuild must not flip it" (web.rs): a build older than one already
\* there for its channel, slot and architecture, published under another file
\* name, changes the state of no recipe on any page.
THEOREM OldRebuildIsHarmless == Spec => OldRebuildKeepsStates
<1>. DEFINE Kept ==
        /\ \A r \in recipes :
            ViewState(r)' = ViewState(r) /\ ApiState(r)' = ApiState(r)
        /\ recipes # {} =>
            \A want \in {r.arch : r \in recipes} \cup {None} :
                DetailState(want)' = DetailState(want)
<1>1. ASSUME TablesInv, Next, OldRebuild PROVE Kept
  <2>1. PICK b \in Builds : \E p \in PublishedAll :
            /\ PublishedAll' = PublishedAll \cup {b}
            /\ LatestKey(b) = LatestKey(p) /\ LexLess(b.v, p.v)
    BY <1>1, OldRebuildAdds
  <2>2. PICK p \in PublishedAll :
            /\ PublishedAll' = PublishedAll \cup {b}
            /\ LatestKey(b) = LatestKey(p) /\ LexLess(b.v, p.v)
    BY <2>1
  <2>3. recipes' = recipes
    BY <1>1, OldRebuildAdds
  <2>4. /\ PublishedAll \in SUBSET Builds /\ IsFiniteSet(PublishedAll)
        /\ \A q1, q2 \in PublishedAll : q1.file = q2.file => q1 = q2
    BY <1>1, PublishedFacts
  <2>5. NewestOf(PublishedAll') = NewestOf(PublishedAll)
    BY <2>2, <2>4, NewestKept
  <2>6. PublishedLatestByArch' = PublishedLatestByArch
    BY <2>5, NewestOfPublished, Zenon
  <2>7. \A r, want : PickPublished(r, want)' = PickPublished(r, want)
    BY <2>6, PickOfLatest, Zenon
  <2>8. ASSUME NEW r
        PROVE  ViewState(r)' = ViewState(r) /\ ApiState(r)' = ApiState(r)
    <3>1. /\ PickPublished(r, None)' = PickPublished(r, None)
          /\ PickPublished(r, r.v[2])' = PickPublished(r, r.v[2])
      BY <2>7
    <3>. QED
      BY <3>1 DEF ViewState, ApiState, DeriveWithEpoch
  <2>9. ASSUME NEW want PROVE DetailState(want)' = DetailState(want)
    <3>1. SelectedArch(want)' = SelectedArch(want)
      BY <2>3, DetailOfTables, Zenon
    <3>2. DetailRecipe(want)' = DetailRecipe(want)
      BY <2>3, <3>1, DetailOfTables, Zenon
    <3>3. NewestFor(PublishedAll', SelectedArch(want)) =
            NewestFor(PublishedAll, SelectedArch(want))
      BY <2>2, <2>4, NewestForKept
    <3>. QED
      BY <3>1, <3>2, <3>3, DetailStateOf, Zenon
  <2>. QED
    BY <2>8, <2>9
<1>2. TablesInv /\ [Next]_vars => [OldRebuild => Kept]_vars
  BY <1>1
<1>. QED
  BY <1>2, TablesInit, TablesNext, PTL DEF Spec, OldRebuildKeepsStates
=============================================================================
