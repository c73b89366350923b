-------------------------- MODULE CrashStore_proofs ---------------------------
(***************************************************************************)
(* The crash store, for every number of crashes, connections, failures and *)
(* daemon starts: ids are never used twice, a payload file is lost only to *)
(* an operation that had chosen its record, groups cover their records,    *)
(* and the record ceilings hold when the ingest thread is idle.            *)
(***************************************************************************)
EXTENDS CrashStore, FiniteSetTheorems, WellFoundedInduction, TLAPS

-----------------------------------------------------------------------------
(* The invariant. *)

Tier == {"aged", "grouped", "trimmed"}

\* The steps of a sweep at which rows have been chosen and not yet dealt with.
Holding == Tier \cup {"evict", "evicted"}

Present(S) == {r \in S : r.payload = "present"}

Mates(S, g) == {r \in S : GroupOf(r) = g}

OneRowPerId(S) == \A r, s \in S : r.id = s.id => r = s

\* No id is used twice, and the generator is past the ids in use.
IdsOK ==
    /\ OneRowPerId(rows)
    /\ work.step # "down" => \A r \in rows : r.id <= lastId

InsertOK ==
    work.step = "insert" => \E row \in work.chosen :
        /\ work.chosen = {row} /\ work.paths = Paths({row})
        /\ row.id = lastId /\ \A r \in rows : r.id # row.id

\* The row a fold has read is still in the index, unless a manager has deleted it.
FoldOK ==
    work.step = "fold" => \E row \in work.chosen :
        /\ work.chosen = {row} /\ work.paths \subseteq {row.id}
        /\ work.paths # {} => row.payload = "absent"
        /\ \A r \in rows : r.id = row.id => r = row

SweepOK ==
    work.step \in Holding =>
        /\ IsFiniteSet(work.chosen) /\ OneRowPerId(work.chosen \cup rows)
        /\ work.step \notin Tier => work.chosen = Present(work.chosen)

RequestOK(t, C) ==
    /\ t = [what |-> t.what, groups |-> t.groups, ids |-> t.ids, paths |-> t.paths]
    /\ t.what \in {"all", "group", "ids"} \/ t = NoRequest
    /\ t.paths \subseteq C

RequestsOK ==
    request = [c \in Client |-> request[c]] /\ \A c \in Client : RequestOK(request[c], condemned)

FilesOK ==
    /\ Paths(rows) \subseteq files \cup condemned
    /\ work.step \in Tier => work.paths \subseteq condemned
    /\ work.step \in {"insert", "fold"} => work.paths \subseteq files \cup condemned

\* A group weighs the payloads of its rows and those of the rows a sweep is about to subtract.
Weighing == Present(rows) \cup (IF work.step \in Holding THEN Present(work.chosen) ELSE {})

GroupsOK ==
    /\ \A r \in rows : GroupOf(r) \in DOMAIN groups
    /\ \A g \in DOMAIN groups :
        /\ Cardinality(Mates(rows, g)) <= groups[g].occurrence
        /\ Cardinality(Mates(Weighing, g)) <= groups[g].bytes

GroupCeiling(S) == \A r \in S : Cardinality(Mates(S, GroupOf(r))) <= MaxPerGroup

\* What a commit of the sweep will leave.
Left == {r \in rows : r.id \notin Ids(work.chosen)}

BeforeGroups == {"down", "age", "aged", "groups", "grouped"}
BeforeTotal  == BeforeGroups \cup {"total", "oldest", "trimmed"}

CeilingsOK ==
    faults = 0 =>
        /\ work.step \notin BeforeGroups => GroupCeiling(rows)
        /\ work.step = "grouped" => GroupCeiling(Left)
        /\ work.step \notin BeforeTotal => Cardinality(rows) <= MaxTotal
        /\ work.step = "oldest" => Cardinality(rows) <= MaxTotal + work.over
        /\ work.step = "trimmed" => Cardinality(Left) <= MaxTotal

WorkOK == InsertOK /\ FoldOK /\ SweepOK

StoreInv ==
    StoreTypeOK /\ IdsOK /\ WorkOK /\ RequestsOK /\ FilesOK /\ GroupsOK /\ CeilingsOK

-----------------------------------------------------------------------------
(* Finite sets of rows. *)

\* A finite set of numbers has a largest one.
LEMMA LargestNumber ==
    ASSUME NEW T, T \subseteq Nat, IsFiniteSet(T), T # {}
    PROVE  Max(T) \in T /\ \A y \in T : y <= Max(T)
<1> DEFINE Above(m) == {t \in T : t > m}
           F == {Above(m) : m \in T}
<1>1. FiniteSubsetsOf(T) = SUBSET T
  BY FS_FiniteSubsetsOfFinite
<1>2. F \subseteq FiniteSubsetsOf(T) /\ F # {}
  <2>1. \A m \in T : Above(m) \in FiniteSubsetsOf(T)
    BY <1>1
  <2>2. \A i \in F : \E m \in T : i = Above(m)
    OBVIOUS
  <2>3. \E i : i \in F
    OBVIOUS
  <2> HIDE DEF F, Above
  <2>4. QED
    BY <2>1, <2>2, <2>3
<1>3. PICK i \in F : \A j \in F : ~(<<j, i>> \in StrictSubsetOrdering(T))
  <2> HIDE DEF F
  <2>1. QED
    BY <1>2, FS_StrictSubsetOrderingWellFounded, WFMin
<1>4. PICK m \in T : i = Above(m)
  OBVIOUS
<1>5. ASSUME NEW y \in T, y > m PROVE FALSE
  <2>1. Above(y) \in F
    OBVIOUS
  <2>2. Above(y) \subseteq Above(m) /\ y \in Above(m) /\ y \notin Above(y)
    <3>1. \A t \in T : t \in Int /\ m \in Int /\ y \in Int
      OBVIOUS
    <3>2. \A t \in T : t > y => t > m
      BY <1>5, <3>1
    <3>3. ~(y > y)
      BY <3>1
    <3>4. QED
      BY <1>5, <3>2, <3>3
  <2>3. <<Above(y), Above(m)>> \in StrictSubsetOrdering(T)
    BY <2>2 DEF StrictSubsetOrdering
  <2>4. QED
    BY <1>3, <1>4, <2>1, <2>3
<1>6. \A y \in T : m >= y
  BY <1>5
<1>7. QED
  BY <1>6 DEF Max

LEMMA LaterIsOrder ==
    ASSUME NEW r \in StoredRow, NEW s \in StoredRow
    PROVE  /\ ~(Later(r, s) /\ Later(s, r)) /\ ~Later(r, r)
           /\ r.id # s.id => Later(r, s) \/ Later(s, r)
           /\ \A q \in StoredRow : Later(r, s) /\ Later(s, q) => Later(r, q)
  BY DEF Later, StoredRow

\* A finite set of rows has an oldest one.
LEMMA OldestRow ==
    ASSUME NEW S, S \subseteq StoredRow, IsFiniteSet(S), S # {}, OneRowPerId(S)
    PROVE  \E m \in S : \A s \in S \ {m} : Later(s, m)
<1> DEFINE Below(m) == {s \in S : Later(m, s)}
           F == {Below(m) : m \in S}
<1>1. FiniteSubsetsOf(S) = SUBSET S
  BY FS_FiniteSubsetsOfFinite
<1>2. F \subseteq FiniteSubsetsOf(S) /\ F # {}
  <2>1. \A m \in S : Below(m) \in FiniteSubsetsOf(S)
    BY <1>1
  <2>2. \A i \in F : \E m \in S : i = Below(m)
    OBVIOUS
  <2>3. \E i : i \in F
    OBVIOUS
  <2> HIDE DEF F, Below
  <2>4. QED
    BY <2>1, <2>2, <2>3
<1>3. PICK i \in F : \A j \in F : ~(<<j, i>> \in StrictSubsetOrdering(S))
  <2> HIDE DEF F
  <2>1. QED
    BY <1>2, FS_StrictSubsetOrderingWellFounded, WFMin
<1>4. PICK m \in S : i = Below(m)
  OBVIOUS
<1>5. ASSUME NEW y \in S, Later(m, y) PROVE FALSE
  <2>1. Below(y) \in F /\ Below(y) \subseteq Below(m) /\ y \in Below(m) /\ y \notin Below(y)
    BY <1>5, LaterIsOrder
  <2>2. <<Below(y), Below(m)>> \in StrictSubsetOrdering(S)
    BY <2>1 DEF StrictSubsetOrdering
  <2>3. QED
    BY <1>3, <1>4, <2>1, <2>2
<1>6. QED
  BY <1>5, LaterIsOrder DEF OneRowPerId

\* A finite set and its parts.
LEMMA Smaller ==
    ASSUME NEW S, IsFiniteSet(S), NEW T, T \subseteq S
    PROVE  IsFiniteSet(T) /\ Cardinality(T) \in Nat /\ Cardinality(S) \in Nat
           /\ Cardinality(T) <= Cardinality(S)
  BY FS_Subset, FS_CardinalityType

LEMMA Grouped ==
    ASSUME NEW r, NEW s
    PROVE  SameGroup(r, s) <=> GroupOf(s) = GroupOf(r)
  BY DEF SameGroup, GroupOf

\* trim_each_group leaves each group at its ceiling.
LEMMA TrimmedGroups ==
    ASSUME NEW S, S \subseteq StoredRow, IsFiniteSet(S), OneRowPerId(S)
    PROVE  GroupCeiling(TrimGroups(S))
<1> SUFFICES ASSUME NEW r \in TrimGroups(S)
             PROVE  Cardinality(Mates(TrimGroups(S), GroupOf(r))) <= MaxPerGroup
  BY DEF GroupCeiling
<1> DEFINE K == Mates(TrimGroups(S), GroupOf(r))
<1>1. K \subseteq S /\ K # {} /\ K \subseteq StoredRow /\ OneRowPerId(K)
  BY DEF Mates, TrimGroups, OneRowPerId
<1>2. IsFiniteSet(K)
  BY <1>1, Smaller
<1>3. PICK m \in K : \A s \in K \ {m} : Later(s, m)
  <2> HIDE DEF K
  <2>1. QED
    BY <1>1, <1>2, OldestRow
<1> DEFINE L == {s \in S : SameGroup(m, s) /\ Later(s, m)}
<1>4. Cardinality(L) < MaxPerGroup
  BY DEF Mates, TrimGroups
<1>5. \A s \in K : GroupOf(s) = GroupOf(m)
  BY DEF Mates
<1>6. K \ {m} \subseteq L
  BY <1>1, <1>3, <1>5, Grouped
<1>7. IsFiniteSet(L)
  BY Smaller
<1> HIDE DEF K, L
<1>8. Cardinality(K \ {m}) <= Cardinality(L) /\ Cardinality(L) \in Nat
  BY <1>6, <1>7, Smaller
<1>9. Cardinality(K) \in Nat /\ Cardinality(K \ {m}) = Cardinality(K) - 1
  BY <1>2, FS_RemoveElement, FS_CardinalityType
<1>10. Cardinality(K) <= MaxPerGroup
  BY <1>4, <1>8, <1>9, RetentionAssumption
<1>11. QED
  BY <1>10 DEF K

\* trim_total takes as many rows as the total was exceeded by, when there still are as many.
LEMMA TrimmedTotal ==
    ASSUME NEW S, S \subseteq StoredRow, IsFiniteSet(S), OneRowPerId(S), NEW n \in Nat,
           Cardinality(S) <= MaxTotal + n
    PROVE  LET C == {r \in S : Cardinality({s \in S : Later(r, s)}) < n}
           IN  Cardinality(S \ C) <= MaxTotal
<1> DEFINE C == {r \in S : Cardinality({s \in S : Later(r, s)}) < n}
           D == S \ C
<1>0. C \subseteq S /\ D \subseteq S /\ MaxTotal \in Nat
  BY RetentionAssumption
<1>1. IsFiniteSet(D) /\ Cardinality(D) \in Nat /\ IsFiniteSet(C) /\ Cardinality(C) \in Nat
      /\ Cardinality(S) \in Nat
  BY <1>0, Smaller
<1>2. CASE D = {}
  <2> HIDE DEF D
  <2>1. Cardinality(D) = 0
    BY <1>2, FS_EmptySet
  <2>2. QED
    BY <1>0, <2>1 DEF D
<1>3. CASE D # {}
  <2>1. D \subseteq StoredRow /\ OneRowPerId(D)
    BY DEF OneRowPerId
  <2>2. PICK m \in D : \A s \in D \ {m} : Later(s, m)
    <3> HIDE DEF D
    <3>1. QED
      BY <1>1, <1>3, <2>1, OldestRow
  <2> DEFINE O == {s \in S : Later(m, s)}
  <2>3. O \subseteq S /\ ~(Cardinality(O) < n)
    OBVIOUS
  <2>4. O \subseteq C
    <3> HIDE DEF C
    <3> SUFFICES ASSUME NEW s \in S, Later(m, s), s \in D PROVE FALSE
      OBVIOUS
    <3>1. s = m \/ Later(s, m)
      BY <2>2
    <3>2. s \in StoredRow /\ m \in StoredRow
      BY <2>1
    <3>3. QED
      BY <3>1, <3>2, LaterIsOrder
  <2> HIDE DEF C, O
  <2>5. Cardinality(O) <= Cardinality(C) /\ Cardinality(O) \in Nat
    BY <1>1, <2>4, Smaller
  <2>6. Cardinality(D) = Cardinality(S) - Cardinality(C)
    <3>1. S \cap C = C
      BY <1>0
    <3>2. Cardinality(D) = Cardinality(S) - Cardinality(S \cap C)
      BY FS_Difference
    <3>3. QED
      BY <3>1, <3>2
  <2> HIDE DEF D
  <2>7. Cardinality(D) <= MaxTotal
    <3>1. n <= Cardinality(C)
      BY <1>1, <2>3, <2>5
    <3>2. QED
      BY <1>0, <1>1, <2>6, <3>1
  <2>8. QED
    BY <2>7 DEF C, D
<1>4. QED
  BY <1>2, <1>3

\* Rows that are rewritten in place stay as many, in all and in each group.
LEMMA Rewritten ==
    ASSUME NEW S, IsFiniteSet(S), NEW f, f = [r \in S |-> f[r]],
           \A r \in S : GroupOf(f[r]) = GroupOf(r)
    PROVE  LET T == {f[r] : r \in S}
           IN  /\ IsFiniteSet(T) /\ Cardinality(T) <= Cardinality(S)
               /\ \A g : Cardinality(Mates(T, g)) <= Cardinality(Mates(S, g))
<1> DEFINE T == {f[r] : r \in S}
<1>1. f \in Surjection(S, T)
  BY DEF Surjection
<1>2. IsFiniteSet(T) /\ Cardinality(T) <= Cardinality(S)
  <2> HIDE DEF T
  <2>1. QED
    BY <1>1, FS_Surjection
<1>3. ASSUME NEW g PROVE Cardinality(Mates(T, g)) <= Cardinality(Mates(S, g))
  <2> DEFINE M == Mates(S, g)
             N == Mates(T, g)
             h == [r \in M |-> f[r]]
  <2>1. h \in Surjection(M, N)
    BY DEF Surjection, Mates
  <2>2. IsFiniteSet(M)
    BY Smaller DEF Mates
  <2> HIDE DEF M, N, h
  <2>3. Cardinality(N) <= Cardinality(M)
    BY <2>1, <2>2, FS_Surjection
  <2>4. QED
    BY <2>3 DEF M, N
<1>4. QED
  BY <1>2, <1>3

LEMMA PathsOfPresent ==
    ASSUME NEW S, IsFiniteSet(S)
    PROVE  /\ Paths(S) = {r.id : r \in Present(S)} /\ IsFiniteSet(Present(S))
           /\ IsFiniteSet(Paths(S)) /\ Cardinality(Paths(S)) <= Cardinality(Present(S))
<1>1. Paths(S) = {r.id : r \in Present(S)}
  BY DEF Paths, Present
<1> DEFINE P == Present(S)
           I == Paths(S)
           f == [r \in P |-> r.id]
<1>2. f \in Surjection(P, I)
  BY <1>1 DEF Surjection
<1>3. IsFiniteSet(P)
  BY Smaller DEF Present
<1> HIDE DEF P, I, f
<1>4. IsFiniteSet(I) /\ Cardinality(I) <= Cardinality(P)
  BY <1>2, <1>3, FS_Surjection
<1>5. QED
  BY <1>1, <1>3, <1>4 DEF P, I

LEMMA MatesOf ==
    ASSUME NEW S, IsFiniteSet(S), NEW T, T \subseteq S, NEW g
    PROVE  /\ Mates(T, g) \subseteq Mates(S, g)
           /\ IsFiniteSet(Mates(S, g)) /\ IsFiniteSet(Mates(T, g))
           /\ Cardinality(Mates(T, g)) \in Nat /\ Cardinality(Mates(S, g)) \in Nat
           /\ Cardinality(Mates(T, g)) <= Cardinality(Mates(S, g))
<1>1. Mates(T, g) \subseteq Mates(S, g) /\ Mates(S, g) \subseteq S
  BY DEF Mates
<1>2. IsFiniteSet(Mates(S, g))
  BY <1>1, Smaller
<1>3. QED
  BY <1>1, <1>2, Smaller

\* A ceiling that holds still holds when rows go.
LEMMA FewerRows ==
    ASSUME NEW S, IsFiniteSet(S), NEW T, T \subseteq S
    PROVE  GroupCeiling(S) => GroupCeiling(T)
<1> SUFFICES ASSUME GroupCeiling(S), NEW r \in T
             PROVE  Cardinality(Mates(T, GroupOf(r))) <= MaxPerGroup
  BY DEF GroupCeiling
<1>1. Cardinality(Mates(S, GroupOf(r))) <= MaxPerGroup
  BY DEF GroupCeiling
<1>2. /\ Cardinality(Mates(T, GroupOf(r))) <= Cardinality(Mates(S, GroupOf(r)))
      /\ Cardinality(Mates(T, GroupOf(r))) \in Nat /\ Cardinality(Mates(S, GroupOf(r))) \in Nat
  BY MatesOf
<1>3. QED
  BY <1>1, <1>2, RetentionAssumption

LEMMA Constants ==
    /\ Span \in Nat \ {0} /\ MaxTotal \in Nat /\ MaxPerGroup \in Nat /\ MaxPayloads \in Nat
    /\ MaxAge \in Nat /\ Times \subseteq Nat /\ MaxIds \in Nat /\ MaxFaults \in Nat
    /\ MaxLives \in Nat
  BY StoreAssumption, RetentionAssumption

LEMMA Tiers ==
    /\ DOMAIN AfterTier = Tier
    /\ AfterTier["aged"] = "groups" /\ AfterTier["grouped"] = "total"
    /\ AfterTier["trimmed"] = "drop"
  BY DEF AfterTier, Tier

\* RecordIdGenerator::next gives a new id.
LEMMA NextIdGrows ==
    ASSUME lastId \in Nat, NEW at \in Nat
    PROVE  NextId(at) \in Nat /\ NextId(at) > lastId
<1>1. CASE at > lastId \div Span
  <2> DEFINE q == lastId \div Span
  <2>1. q \in Nat /\ lastId < (q + 1) * Span
    BY Constants
  <2> HIDE DEF q
  <2>2. (q + 1) * Span <= at * Span
    BY <1>1, <2>1, Constants DEF q
  <2>3. at * Span \in Nat
    BY Constants
  <2>4. QED
    BY <1>1, <2>1, <2>2, <2>3, Constants DEF NextId
<1>2. CASE ~(at > lastId \div Span)
  BY <1>2 DEF NextId
<1>3. QED
  BY <1>1, <1>2

-----------------------------------------------------------------------------
(* What the steps of the store have in common. *)

WorkState == [step : Step, chosen : SUBSET StoredRow, paths : SUBSET Nat, cutoff : Int, over : Nat]

GroupState == [occurrence : Nat, bytes : Nat, last : Nat]

LEMMA Facts ==
    ASSUME StoreInv
    PROVE  /\ StoreTypeOK /\ IdsOK /\ WorkOK /\ InsertOK /\ FoldOK /\ SweepOK /\ RequestsOK
           /\ FilesOK /\ GroupsOK /\ CeilingsOK
           /\ rows \subseteq StoredRow /\ IsFiniteSet(rows) /\ Cardinality(rows) \in Nat
           /\ groups \in [DOMAIN groups -> GroupState]
           /\ work \in WorkState /\ work.chosen \subseteq StoredRow /\ work.paths \subseteq Nat
           /\ work.over \in Nat /\ work.cutoff \in Int /\ work.step \in Step
           /\ IsFiniteSet(Weighing) /\ OneRowPerId(rows)
<1>1. /\ StoreTypeOK /\ IdsOK /\ WorkOK /\ InsertOK /\ FoldOK /\ SweepOK /\ RequestsOK
      /\ FilesOK /\ GroupsOK /\ CeilingsOK
  BY DEF StoreInv, WorkOK
<1>2. /\ rows \subseteq StoredRow /\ IsFiniteSet(rows) /\ work \in WorkState
      /\ groups \in [DOMAIN groups -> GroupState]
  BY <1>1 DEF StoreTypeOK, WorkState, GroupState
<1>3. /\ work.chosen \subseteq StoredRow /\ work.paths \subseteq Nat
      /\ work.over \in Nat /\ work.cutoff \in Int /\ work.step \in Step
  BY <1>2 DEF WorkState
<1>4. Cardinality(rows) \in Nat
  BY <1>2, FS_CardinalityType
<1>5. IsFiniteSet(Weighing)
  <2>1. IsFiniteSet(Present(rows))
    BY <1>2, PathsOfPresent
  <2>2. CASE work.step \in Holding
    <3>1. IsFiniteSet(Present(work.chosen))
      BY <1>1, <2>2, PathsOfPresent DEF SweepOK
    <3>2. QED
      BY <2>1, <2>2, <3>1, FS_Union DEF Weighing
  <2>3. CASE work.step \notin Holding
    <3>1. Weighing = Present(rows)
      BY <2>3 DEF Weighing
    <3>2. QED
      BY <2>1, <3>1
  <2>4. QED
    BY <2>2, <2>3
<1>6. QED
  BY <1>1, <1>2, <1>3, <1>4, <1>5 DEF IdsOK

\* Rows and groups go, or stay as they are.
LEMMA GroupsFewer ==
    ASSUME StoreInv, rows' \subseteq rows, Weighing' \subseteq Weighing,
           DOMAIN groups' \subseteq DOMAIN groups,
           \A g \in DOMAIN groups' : groups'[g] = groups[g],
           \A r \in rows' : GroupOf(r) \in DOMAIN groups'
    PROVE  GroupsOK'
<1>1. \A r \in rows' : GroupOf(r)' = GroupOf(r)
  BY DEF GroupOf
<1> SUFFICES ASSUME NEW g \in DOMAIN groups'
             PROVE  /\ Cardinality(Mates(rows', g)) <= groups'[g].occurrence
                    /\ Cardinality(Mates(Weighing', g)) <= groups'[g].bytes
  BY DEF GroupsOK, GroupOf, Mates
<1>2. /\ groups[g] \in GroupState /\ groups'[g] = groups[g]
      /\ Cardinality(Mates(rows, g)) <= groups[g].occurrence
      /\ Cardinality(Mates(Weighing, g)) <= groups[g].bytes
      /\ IsFiniteSet(rows) /\ IsFiniteSet(Weighing)
  BY Facts DEF GroupsOK
<1>3. groups[g].occurrence \in Nat /\ groups[g].bytes \in Nat
  BY <1>2 DEF GroupState
<1>4. /\ Cardinality(Mates(rows', g)) <= Cardinality(Mates(rows, g))
      /\ Cardinality(Mates(rows', g)) \in Nat /\ Cardinality(Mates(rows, g)) \in Nat
  BY <1>2, MatesOf
<1>5. /\ Cardinality(Mates(Weighing', g)) <= Cardinality(Mates(Weighing, g))
      /\ Cardinality(Mates(Weighing', g)) \in Nat /\ Cardinality(Mates(Weighing, g)) \in Nat
  BY <1>2, MatesOf
<1>6. QED
  BY <1>2, <1>3, <1>4, <1>5

LEMMA FilesKept ==
    ASSUME StoreInv, Paths(rows)' \subseteq Paths(rows), condemned \subseteq condemned',
           files \ files' \subseteq condemned',
           work'.step \in Tier => work'.paths \subseteq condemned',
           work'.step \in {"insert", "fold"} => work'.paths \subseteq files' \cup condemned'
    PROVE  FilesOK'
<1>1. Paths(rows) \subseteq files \cup condemned
  BY Facts DEF FilesOK
<1>2. Paths(rows)' \subseteq files' \cup condemned'
  BY <1>1
<1>3. QED
  BY <1>2 DEF FilesOK, Tier

LEMMA RequestsKept ==
    ASSUME StoreInv, request' = request, condemned \subseteq condemned'
    PROVE  RequestsOK'
  BY Facts DEF RequestsOK, RequestOK

LEMMA PathsFewer == ASSUME NEW S, NEW T, T \subseteq S PROVE Paths(T) \subseteq Paths(S)
  BY DEF Paths

\* The index stays as it is.
LEMMA IndexKept ==
    ASSUME StoreInv, UNCHANGED <<rows, groups>>, StoreTypeOK', WorkOK', RequestsOK', FilesOK',
           CeilingsOK', work'.step # "down" => \A r \in rows : r.id <= lastId',
           Weighing' \subseteq Weighing
    PROVE  StoreInv'
<1>1. IdsOK'
  BY Facts DEF IdsOK, OneRowPerId
<1>2. \A r \in rows : GroupOf(r) \in DOMAIN groups
  BY Facts DEF GroupsOK
<1>3. GroupsOK'
  BY <1>2, GroupsFewer
<1>4. QED
  BY <1>1, <1>3 DEF StoreInv

\* The ceilings between two sweeps and in the second half of one.
LEMMA CeilingsKept ==
    ASSUME StoreInv, rows' = rows, faults' = 0 => faults = 0,
           work.step \notin BeforeTotal, work'.step \notin BeforeTotal
    PROVE  CeilingsOK'
  BY Facts DEF CeilingsOK, BeforeTotal, BeforeGroups, GroupCeiling, Mates, GroupOf

\* A manager deletes rows in the middle of whatever the ingest thread does.
LEMMA CeilingsFewer ==
    ASSUME StoreInv, rows' \subseteq rows, work' = work, faults' = 0 => faults = 0
    PROVE  CeilingsOK'
<1> SUFFICES ASSUME faults' = 0 PROVE CeilingsOK'
  BY DEF CeilingsOK
<1>0. CeilingsOK /\ faults = 0 /\ IsFiniteSet(rows) /\ work.over \in Nat
  BY Facts
<1>1. /\ IsFiniteSet(rows') /\ Cardinality(rows') \in Nat /\ Cardinality(rows) \in Nat
      /\ Cardinality(rows') <= Cardinality(rows)
  BY <1>0, Smaller
<1>2. Left' \subseteq Left /\ Left \subseteq rows
  BY DEF Left, Ids
<1>3. IsFiniteSet(Left)
  BY <1>0, <1>2, Smaller
<1>4. Cardinality(Left') <= Cardinality(Left) /\ Cardinality(Left') \in Nat /\ Cardinality(Left) \in Nat
  BY <1>2, <1>3, Smaller
<1>5. GroupCeiling(rows) => GroupCeiling(rows)'
  <2>1. GroupCeiling(rows') <=> GroupCeiling(rows)'
    BY DEF GroupCeiling, Mates, GroupOf
  <2>2. QED
    BY <1>0, <2>1, FewerRows
<1>6. GroupCeiling(Left) => GroupCeiling(Left)'
  <2>1. GroupCeiling(Left') <=> GroupCeiling(Left)'
    BY DEF GroupCeiling, Mates, GroupOf
  <2>2. QED
    BY <1>2, <1>3, <2>1, FewerRows
<1>7. QED
  BY <1>0, <1>1, <1>4, <1>5, <1>6, Constants DEF CeilingsOK

-----------------------------------------------------------------------------
(* The managers. *)

LEMMA ManagerKeeps ==
    ASSUME StoreInv, UNCHANGED <<work, lastId, serving, inserts, lives>>, rows' \subseteq rows,
           DOMAIN groups' \subseteq DOMAIN groups, groups' = [g \in DOMAIN groups' |-> groups[g]],
           \A r \in rows' : GroupOf(r) \in DOMAIN groups',
           files' \subseteq files, condemned \subseteq condemned', condemned' \subseteq Nat,
           files \ files' \subseteq condemned', faults' \in {faults, faults + 1},
           RequestsOK'
    PROVE  StoreInv'
<1>0. /\ StoreTypeOK /\ IdsOK /\ InsertOK /\ FoldOK /\ SweepOK /\ FilesOK
      /\ IsFiniteSet(rows) /\ groups \in [DOMAIN groups -> GroupState] /\ faults \in Nat
  BY Facts DEF StoreTypeOK
<1>1. StoreTypeOK'
  <2>1. IsFiniteSet(rows') /\ rows' \subseteq StoredRow
    BY <1>0, Smaller DEF StoreTypeOK
  <2>2. groups' \in [DOMAIN groups' -> GroupState]
    BY <1>0
  <2>3. DOMAIN request' = Client
    BY DEF RequestsOK
  <2>4. faults' \in Nat /\ (faults' = 0 => faults = 0)
    BY <1>0
  <2>5. QED
    BY <1>0, <2>1, <2>2, <2>3, <2>4 DEF StoreTypeOK, GroupState
<1>2. IdsOK'
  BY <1>0 DEF IdsOK, OneRowPerId
<1>3. InsertOK' /\ FoldOK'
  BY <1>0 DEF InsertOK, FoldOK, Paths
<1>4. SweepOK'
  BY <1>0 DEF SweepOK, OneRowPerId, Present
<1>5. FilesOK'
  <2>1. Paths(rows)' \subseteq Paths(rows)
    BY DEF Paths
  <2>2. work.step \in Tier => work.paths \subseteq condemned'
    BY <1>0 DEF FilesOK
  <2>3. work.step \in {"insert", "fold"} => work.paths \subseteq files' \cup condemned'
    BY <1>0 DEF FilesOK
  <2>4. QED
    BY <2>1, <2>2, <2>3, FilesKept
<1>6. Weighing' \subseteq Weighing
  BY DEF Weighing, Present
<1>7. GroupsOK'
  BY <1>6, GroupsFewer
<1>8. CeilingsOK'
  BY <1>0, CeilingsFewer
<1>9. QED
  BY <1>1, <1>2, <1>3, <1>4, <1>5, <1>7, <1>8 DEF StoreInv, WorkOK

\* A request of one connection changes.
LEMMA OneRequest ==
    ASSUME StoreInv, NEW c \in Client, NEW t, request' = [request EXCEPT ![c] = t],
           condemned \subseteq condemned', RequestOK(t, condemned')
    PROVE  RequestsOK'
<1>1. request = [d \in Client |-> request[d]] /\ \A d \in Client : RequestOK(request[d], condemned)
  BY Facts DEF RequestsOK
<1>2. request'[c] = t /\ \A d \in Client \ {c} : request'[d] = request[d]
  BY <1>1
<1>3. request' = [d \in Client |-> request'[d]]
  BY <1>1
<1>4. ASSUME NEW d \in Client PROVE RequestOK(request'[d], condemned')
  <2>1. CASE d = c
    BY <1>2, <2>1 DEF RequestOK
  <2>2. CASE d # c
    BY <1>1, <1>2, <2>2 DEF RequestOK
  <2>3. QED
    BY <2>1, <2>2
<1>5. QED
  BY <1>3, <1>4 DEF RequestsOK

LEMMA GroupsAsTheyAre ==
    ASSUME StoreInv, UNCHANGED <<rows, groups>>
    PROVE  /\ rows' \subseteq rows /\ DOMAIN groups' \subseteq DOMAIN groups
           /\ groups' = [g \in DOMAIN groups' |-> groups[g]]
           /\ \A r \in rows' : GroupOf(r) \in DOMAIN groups'
  BY Facts DEF GroupsOK

LEMMA DeleteBeginOK ==
    ASSUME StoreInv, NEW c \in Client, NEW what \in {"all", "group", "ids"}, NEW gs, NEW ids,
           DeleteBegin(c, what, gs, ids)
    PROVE  StoreInv'
<1> DEFINE t == [what |-> what, groups |-> gs, ids |-> ids, paths |-> {}]
           P == Paths(Hit(t))
           u == [what |-> what, groups |-> gs, ids |-> ids, paths |-> P]
<1>1. /\ request' = [request EXCEPT ![c] = [t EXCEPT !.paths = P]]
      /\ condemned' = condemned \cup P
      /\ UNCHANGED <<rows, groups, files, lastId, work, serving, inserts, faults, lives>>
  BY DEF DeleteBegin, index, bounds
<1>2. P \subseteq Nat
  <2>1. Hit(t) \subseteq rows
    BY DEF Hit
  <2>2. rows \subseteq StoredRow
    BY Facts
  <2>3. QED
    BY <2>1, <2>2 DEF Paths, StoredRow
<1> HIDE DEF P
<1>3. [t EXCEPT !.paths = P] = u
  OBVIOUS
<1>4. u.what \in {"all", "group", "ids"} /\ u.paths = P
      /\ u = [what |-> u.what, groups |-> u.groups, ids |-> u.ids, paths |-> u.paths]
  OBVIOUS
<1> HIDE DEF t, u
<1>5. RequestOK(u, condemned')
  BY <1>1, <1>4 DEF RequestOK
<1>6. RequestsOK'
  BY <1>1, <1>3, <1>5, OneRequest
<1>7. condemned' \subseteq Nat
  BY <1>1, <1>2, Facts DEF StoreTypeOK
<1>8. QED
  BY <1>1, <1>6, <1>7, GroupsAsTheyAre, ManagerKeeps

LEMMA DeleteUnlinkOK ==
    ASSUME StoreInv, NEW c \in Client, NEW id, DeleteUnlink(c, id)
    PROVE  StoreInv'
<1> DEFINE t == request[c]
           u == [t EXCEPT !.paths = @ \ {id}]
<1>0. request = [d \in Client |-> request[d]] /\ RequestOK(t, condemned) /\ condemned \subseteq Nat
  BY Facts DEF RequestsOK, StoreTypeOK
<1>1. /\ id \in t.paths /\ files' = files \ {id} /\ request' = [request EXCEPT ![c] = u]
      /\ UNCHANGED <<rows, groups, lastId, work, serving, condemned, inserts, faults, lives>>
  BY <1>0 DEF DeleteUnlink, index, bounds
<1>2. t.paths \subseteq condemned /\ t.what \in {"all", "group", "ids"}
  BY <1>0, <1>1 DEF RequestOK, NoRequest
<1>3. u = [what |-> t.what, groups |-> t.groups, ids |-> t.ids, paths |-> t.paths \ {id}]
  BY <1>0 DEF RequestOK
<1> HIDE DEF u
<1>4. RequestOK(u, condemned')
  BY <1>1, <1>2, <1>3 DEF RequestOK
<1>5. RequestsOK'
  BY <1>1, <1>4, OneRequest
<1>6. QED
  BY <1>0, <1>1, <1>2, <1>5, GroupsAsTheyAre, ManagerKeeps

LEMMA NoRequestOK == RequestOK(NoRequest, condemned')
  BY DEF RequestOK, NoRequest

LEMMA DeleteCommitOK == ASSUME StoreInv, NEW c \in Client, DeleteCommit(c) PROVE StoreInv'
<1> DEFINE t == request[c]
           left == rows \ Hit(t)
<1>0. RequestOK(t, condemned) /\ GroupsOK /\ condemned \subseteq Nat
  BY Facts DEF RequestsOK, StoreTypeOK
<1>1. /\ t # NoRequest /\ rows' = left
      /\ groups' = [g \in (CASE t.what = "all"   -> {}
                             [] t.what = "group" -> DOMAIN groups \ t.groups
                             [] t.what = "ids"   -> DOMAIN groups \cap {GroupOf(r) : r \in left})
                      |-> groups[g]]
      /\ request' = [request EXCEPT ![c] = NoRequest]
      /\ UNCHANGED <<files, lastId, work, serving, condemned, inserts, faults, lives>>
  BY DEF DeleteCommit, index, bounds
<1>2. t.what \in {"all", "group", "ids"}
  BY <1>0, <1>1 DEF RequestOK
<1>3. /\ DOMAIN groups' \subseteq DOMAIN groups /\ groups' = [g \in DOMAIN groups' |-> groups[g]]
      /\ \A r \in rows' : GroupOf(r) \in DOMAIN groups'
  <2>1. CASE t.what = "all"
    <3>1. left = {} /\ groups' = [g \in {} |-> groups[g]]
      BY <1>1, <2>1 DEF Hit
    <3>2. QED
      BY <1>1, <3>1
  <2>2. CASE t.what = "group"
    <3>1. groups' = [g \in DOMAIN groups \ t.groups |-> groups[g]]
      BY <1>1, <2>2
    <3>2. \A r \in left : GroupOf(r) \in DOMAIN groups \ t.groups
      BY <1>0, <2>2 DEF Hit, GroupsOK
    <3>3. QED
      BY <1>1, <3>1, <3>2
  <2>3. CASE t.what = "ids"
    <3>1. groups' = [g \in DOMAIN groups \cap {GroupOf(r) : r \in left} |-> groups[g]]
      BY <1>1, <2>3
    <3>2. \A r \in left : GroupOf(r) \in DOMAIN groups \cap {GroupOf(q) : q \in left}
      BY <1>0 DEF GroupsOK
    <3> HIDE DEF left
    <3>3. QED
      BY <1>1, <3>1, <3>2
  <2>4. QED
    BY <1>2, <2>1, <2>2, <2>3
<1>4. RequestsOK'
  BY <1>1, NoRequestOK, OneRequest
<1>5. QED
  BY <1>0, <1>1, <1>3, <1>4, ManagerKeeps

LEMMA DeleteFailsOK == ASSUME StoreInv, NEW c \in Client, DeleteFails(c) PROVE StoreInv'
<1>1. /\ request' = [request EXCEPT ![c] = NoRequest] /\ faults' = faults + 1
      /\ UNCHANGED <<rows, groups, files, lastId, work, serving, condemned, inserts, lives>>
  BY DEF DeleteFails, Fault, index
<1>2. RequestsOK' /\ condemned \subseteq Nat
  BY <1>1, NoRequestOK, OneRequest, Facts DEF StoreTypeOK
<1>3. QED
  BY <1>1, <1>2, GroupsAsTheyAre, ManagerKeeps

LEMMA DeleteOK == ASSUME StoreInv, NEW c \in Client, Delete(c) PROVE StoreInv'
  BY DeleteBeginOK, DeleteUnlinkOK, DeleteCommitOK, DeleteFailsOK DEF Delete

-----------------------------------------------------------------------------
(* The ingest thread: inserts and folds. *)

LEMMA StepSet ==
    /\ Step = {"down", "idle", "insert", "fold", "age", "groups", "total", "oldest", "drop", "quota",
               "candidates", "evict", "evicted", "prune", "aged", "grouped", "trimmed"}
    /\ Idle \in WorkState /\ Idle.step = "idle"
<1>1. Step = {"down", "idle", "insert", "fold", "age", "groups", "total", "oldest", "drop", "quota",
              "candidates", "evict", "evicted", "prune", "aged", "grouped", "trimmed"}
  BY Tiers DEF Step, Tier
<1>2. QED
  BY <1>1 DEF Idle, Doing, WorkState

\* The ingest thread goes on and leaves the index alone.
LEMMA IngestKeeps ==
    ASSUME StoreInv, UNCHANGED <<rows, groups, request>>, work' \in WorkState,
           work.step # "down", work'.step # "down", files' \subseteq Nat,
           lastId' \in Nat, lastId <= lastId', serving' \in BOOLEAN,
           condemned \subseteq condemned', condemned' \subseteq Nat,
           inserts' \in Nat, faults' \in Nat, lives' \in Nat,
           WorkOK', FilesOK', CeilingsOK', Weighing' \subseteq Weighing
    PROVE  StoreInv'
<1>0. StoreTypeOK /\ IdsOK /\ rows \subseteq StoredRow
  BY Facts
<1>1. StoreTypeOK'
  BY <1>0 DEF StoreTypeOK, WorkState
<1>2. RequestsOK'
  BY RequestsKept
<1>3. \A r \in rows : r.id <= lastId'
  <2>1. \A r \in rows : r.id \in Nat /\ r.id <= lastId /\ lastId \in Nat
    BY <1>0 DEF IdsOK, StoreTypeOK, StoredRow
  <2>2. QED
    BY <2>1
<1>4. QED
  BY <1>1, <1>2, <1>3, IndexKept

LEMMA NothingHeld ==
    ASSUME rows' = rows, work'.step \notin Holding
    PROVE  Weighing' \subseteq Weighing
  BY DEF Weighing, Present

LEMMA NoRows == ASSUME work'.step \notin Holding \cup {"insert", "fold"} PROVE WorkOK'
  BY DEF WorkOK, InsertOK, FoldOK, SweepOK, Holding

LEMMA InsertBeginOK == ASSUME StoreInv, NEW c \in Crash, InsertBegin(c) PROVE StoreInv'
<1> DEFINE id == NextId(c.at)
           row == RowOf(c, id)
           P == Paths({row})
<1>0. /\ StoreTypeOK /\ IdsOK /\ FilesOK /\ rows \subseteq StoredRow /\ work \in WorkState
      /\ c.at \in Nat /\ c.payload \in {"absent", "present"}
  BY Facts, StoreAssumption
<1>1. id \in Nat /\ id > lastId
  BY <1>0, NextIdGrows DEF StoreTypeOK
<1> HIDE DEF id
<1>2. row \in StoredRow /\ row.id = id /\ row.payload = c.payload
  BY <1>0, <1>1 DEF RowOf, StoredRow
<1>3. /\ serving /\ work.step = "idle" /\ lastId' = id /\ inserts' = inserts + 1
      /\ UNCHANGED <<rows, groups, request, serving, condemned, lives>>
  BY <1>2 DEF InsertBegin, index, id
<1>4. \/ /\ files' = files \cup P /\ work' = Doing("insert", {row}, P, 0, 0)
         /\ UNCHANGED faults
      \/ /\ faults' = faults + 1 /\ files' \in {files, files \cup {id}} /\ UNCHANGED work
  BY <1>2 DEF InsertBegin, Fault, id
<1>5. P \subseteq {id}
  BY <1>2 DEF Paths
<1> HIDE DEF row, P
<1>6. files' \subseteq Nat /\ faults' \in Nat /\ (faults' = 0 => faults = 0) /\ inserts' \in Nat
  BY <1>0, <1>1, <1>3, <1>4, <1>5 DEF StoreTypeOK
<1>7. /\ lastId' \in Nat /\ lastId <= lastId' /\ serving' \in BOOLEAN /\ condemned' \subseteq Nat
      /\ lives' \in Nat
  BY <1>0, <1>1, <1>3 DEF StoreTypeOK
<1>8. \A r \in rows : r.id # id
  <2>1. \A r \in rows : r.id \in Nat /\ r.id <= lastId /\ lastId \in Nat
    BY <1>0, <1>3 DEF IdsOK, StoreTypeOK, StoredRow
  <2>2. QED
    BY <1>1, <2>1
<1>9. Paths(rows)' \subseteq Paths(rows)
  BY <1>3 DEF Paths
<1>10. CASE files' = files \cup P /\ work' = Doing("insert", {row}, P, 0, 0)
  <2>1. /\ work' \in WorkState /\ work'.step = "insert" /\ work'.chosen = {row} /\ work'.paths = P
    BY <1>1, <1>2, <1>5, <1>10, StepSet DEF Doing, WorkState
  <2>2. WorkOK'
    BY <1>2, <1>3, <1>8, <2>1 DEF WorkOK, InsertOK, FoldOK, SweepOK, Holding, Tier, P, Paths
  <2>3. FilesOK'
    BY <1>3, <1>9, <1>10, <2>1, FilesKept DEF Tier
  <2>4. CeilingsOK'
    BY <1>3, <1>6, <2>1, CeilingsKept DEF BeforeTotal, BeforeGroups
  <2>5. Weighing' \subseteq Weighing
    BY <1>3, <2>1, NothingHeld DEF Holding, Tier
  <2>6. QED
    BY <1>3, <1>6, <1>7, <2>1, <2>2, <2>3, <2>4, <2>5, IngestKeeps
<1>11. CASE files' \in {files, files \cup {id}} /\ UNCHANGED work
  <2>1. WorkOK'
    BY <1>3, <1>11, NoRows DEF Holding, Tier
  <2>2. FilesOK'
    BY <1>3, <1>9, <1>11, FilesKept DEF Tier
  <2>3. CeilingsOK'
    BY <1>3, <1>6, <1>11, CeilingsKept DEF BeforeTotal, BeforeGroups
  <2>4. Weighing' \subseteq Weighing
    BY <1>3, <1>11, NothingHeld DEF Holding, Tier
  <2>5. QED
    BY <1>0, <1>3, <1>6, <1>7, <1>11, <2>1, <2>2, <2>3, <2>4, IngestKeeps
<1>12. QED
  BY <1>4, <1>10, <1>11

\* An insert or a fold fails: the file it wrote belongs to no row.
LEMMA AbortOK == ASSUME StoreInv, InsertAbort \/ FoldAbort PROVE StoreInv'
<1>0. /\ StoreTypeOK /\ IdsOK /\ FilesOK /\ InsertOK /\ FoldOK /\ rows \subseteq StoredRow
      /\ work \in WorkState
  BY Facts
<1>1. /\ work.step \in {"insert", "fold"} /\ files' = files \ work.paths /\ work' = Idle
      /\ faults' \in {faults, faults + 1}
      /\ UNCHANGED <<rows, groups, lastId, request, serving, condemned, inserts, lives>>
  BY DEF InsertAbort, FoldAbort, Fault, index
<1>2. /\ files' \subseteq Nat /\ faults' \in Nat /\ (faults' = 0 => faults = 0) /\ inserts' \in Nat
      /\ lastId' \in Nat /\ lastId <= lastId' /\ serving' \in BOOLEAN /\ condemned' \subseteq Nat
      /\ lives' \in Nat
  BY <1>0, <1>1 DEF StoreTypeOK
<1>3. work' \in WorkState /\ work'.step = "idle"
  BY <1>1, StepSet
<1>4. Paths(rows) \cap work.paths = {}
  <2>1. CASE work.step = "insert"
    <3>1. PICK row \in work.chosen : work.paths = Paths({row}) /\ \A r \in rows : r.id # row.id
      BY <1>0, <2>1 DEF InsertOK
    <3>2. QED
      BY <3>1 DEF Paths
  <2>2. CASE work.step = "fold"
    <3>1. PICK row \in work.chosen : /\ work.paths \subseteq {row.id}
                                     /\ work.paths # {} => row.payload = "absent"
                                     /\ \A r \in rows : r.id = row.id => r = row
      BY <1>0, <2>2 DEF FoldOK
    <3>2. QED
      BY <3>1 DEF Paths
  <2>3. QED
    BY <1>1, <2>1, <2>2
<1>5. FilesOK'
  BY <1>0, <1>1, <1>3, <1>4 DEF FilesOK, Tier, Paths
<1>6. WorkOK'
  BY <1>3, NoRows DEF Holding, Tier
<1>7. CeilingsOK'
  BY <1>1, <1>2, <1>3, CeilingsKept DEF BeforeTotal, BeforeGroups
<1>8. Weighing' \subseteq Weighing
  BY <1>1, <1>3, NothingHeld DEF Holding, Tier
<1>9. QED
  BY <1>1, <1>2, <1>3, <1>5, <1>6, <1>7, <1>8, IngestKeeps

LEMMA FoldBeginOK ==
    ASSUME StoreInv, NEW row \in rows, NEW c \in Crash, FoldBegin(row, c)
    PROVE  StoreInv'
<1> DEFINE P == IF row.payload = "absent" /\ c.payload = "present" THEN {row.id} ELSE {}
<1>0. /\ StoreTypeOK /\ IdsOK /\ FilesOK /\ rows \subseteq StoredRow /\ work \in WorkState
      /\ row \in StoredRow /\ row.id \in Nat /\ lastId \in Nat
  BY Facts DEF StoreTypeOK, StoredRow
<1>1. /\ work.step = "idle"
      /\ UNCHANGED <<rows, groups, lastId, request, serving, condemned, inserts, lives>>
  BY DEF FoldBegin, index
<1>2. \/ /\ files' = files \cup P /\ work' = Doing("fold", {row}, P, 0, 0) /\ UNCHANGED faults
      \/ /\ faults' = faults + 1 /\ files' \in {files, files \cup P} /\ UNCHANGED work
  BY DEF FoldBegin, Fault
<1>3. P \subseteq {row.id} /\ (P # {} => row.payload = "absent")
  OBVIOUS
<1> HIDE DEF P
<1>4. /\ files' \subseteq Nat /\ faults' \in Nat /\ (faults' = 0 => faults = 0) /\ inserts' \in Nat
      /\ lastId' \in Nat /\ lastId <= lastId' /\ serving' \in BOOLEAN /\ condemned' \subseteq Nat
      /\ lives' \in Nat
  BY <1>0, <1>1, <1>2, <1>3 DEF StoreTypeOK
<1>5. Paths(rows)' \subseteq Paths(rows)
  BY <1>1 DEF Paths
<1>6. CASE files' = files \cup P /\ work' = Doing("fold", {row}, P, 0, 0)
  <2>1. /\ work' \in WorkState /\ work'.step = "fold" /\ work'.chosen = {row} /\ work'.paths = P
    BY <1>0, <1>3, <1>6, StepSet DEF Doing, WorkState
  <2>2. \A r \in rows : r.id = row.id => r = row
    BY <1>0 DEF IdsOK, OneRowPerId
  <2>3. WorkOK'
    BY <1>1, <1>3, <2>1, <2>2 DEF WorkOK, InsertOK, FoldOK, SweepOK, Holding, Tier
  <2>4. FilesOK'
    BY <1>1, <1>5, <1>6, <2>1, FilesKept DEF Tier
  <2>5. CeilingsOK'
    BY <1>1, <1>4, <2>1, CeilingsKept DEF BeforeTotal, BeforeGroups
  <2>6. Weighing' \subseteq Weighing
    BY <1>1, <2>1, NothingHeld DEF Holding, Tier
  <2>7. QED
    BY <1>1, <1>4, <2>1, <2>3, <2>4, <2>5, <2>6, IngestKeeps
<1>7. CASE files' \in {files, files \cup P} /\ UNCHANGED work
  <2>1. WorkOK'
    BY <1>1, <1>7, NoRows DEF Holding, Tier
  <2>2. FilesOK'
    BY <1>1, <1>5, <1>7, FilesKept DEF Tier
  <2>3. CeilingsOK'
    BY <1>1, <1>4, <1>7, CeilingsKept DEF BeforeTotal, BeforeGroups
  <2>4. Weighing' \subseteq Weighing
    BY <1>1, <1>7, NothingHeld DEF Holding, Tier
  <2>5. QED
    BY <1>0, <1>1, <1>4, <1>7, <2>1, <2>2, <2>3, <2>4, IngestKeeps
<1>8. QED
  BY <1>2, <1>6, <1>7

-----------------------------------------------------------------------------
(* The ingest thread: the sweep, while it leaves the index alone. *)

LEMMA SweepKeeps ==
    ASSUME StoreInv, UNCHANGED <<rows, groups, request, lastId, inserts, lives>>,
           work.step # "down", work' \in WorkState, work'.step \notin {"down", "insert", "fold"},
           files' \subseteq files, files \ files' \subseteq condemned',
           condemned \subseteq condemned', condemned' \subseteq Nat, serving' \in BOOLEAN,
           faults' \in {faults, faults + 1}, SweepOK',
           work'.step \in Tier => work'.paths \subseteq condemned',
           CeilingsOK', Weighing' \subseteq Weighing
    PROVE  StoreInv'
<1>0. StoreTypeOK
  BY Facts
<1>1. /\ files' \subseteq Nat /\ faults' \in Nat /\ inserts' \in Nat /\ lastId' \in Nat
      /\ lastId <= lastId' /\ lives' \in Nat
  BY <1>0 DEF StoreTypeOK
<1>2. WorkOK'
  BY DEF WorkOK, InsertOK, FoldOK
<1>3. Paths(rows)' \subseteq Paths(rows)
  BY DEF Paths
<1>4. FilesOK'
  BY <1>3, FilesKept
<1>5. QED
  BY <1>1, <1>2, <1>4, IngestKeeps

LEMMA Ceilings ==
    /\ GroupCeiling(rows)' <=> GroupCeiling(rows')
    /\ GroupCeiling(Left)' <=> GroupCeiling(Left')
    /\ Cardinality(rows)' = Cardinality(rows') /\ Cardinality(Left)' = Cardinality(Left')
  BY DEF GroupCeiling, Mates, GroupOf

\* A tier has read the rows it will delete.
LEMMA CondemnOK ==
    ASSUME StoreInv, NEW S, S \subseteq rows, NEW deleting \in Tier,
           NEW then \in {"groups", "total", "drop"}, Condemn(S, deleting, then),
           work.step # "down", CeilingsOK'
    PROVE  StoreInv'
<1>0. /\ StoreTypeOK /\ IdsOK /\ rows \subseteq StoredRow /\ work \in WorkState
      /\ IsFiniteSet(rows) /\ work.cutoff \in Int
  BY Facts
<1>1. /\ work' = IF S = {} THEN [work EXCEPT !.step = then, !.over = 0]
                 ELSE Doing(deleting, S, Paths(S), work.cutoff, 0)
      /\ condemned' = condemned \cup Paths(S)
      /\ UNCHANGED <<rows, groups, files, lastId, request, serving, inserts, faults, lives>>
  BY DEF Condemn, index, bounds
<1>2. Paths(S) \subseteq Nat
  BY <1>0 DEF Paths, StoredRow
<1>3. /\ condemned \subseteq condemned' /\ condemned' \subseteq Nat /\ serving' \in BOOLEAN
  BY <1>0, <1>1, <1>2 DEF StoreTypeOK
<1>4. CASE S = {}
  <2>1. work' \in WorkState /\ work'.step = then
    BY <1>0, <1>1, <1>4, StepSet DEF WorkState
  <2>2. SweepOK'
    BY <2>1 DEF SweepOK, Holding, Tier
  <2>3. Weighing' \subseteq Weighing
    BY <1>1, <2>1, NothingHeld DEF Holding, Tier
  <2>4. QED
    BY <1>1, <1>3, <2>1, <2>2, <2>3, SweepKeeps DEF Tier
<1>5. CASE S # {}
  <2>1. /\ work' \in WorkState /\ work'.step = deleting /\ work'.chosen = S
        /\ work'.paths = Paths(S)
    BY <1>0, <1>1, <1>2, <1>5, StepSet DEF WorkState, Doing, Tier
  <2>2. IsFiniteSet(S)
    BY <1>0, Smaller
  <2>3. SweepOK'
    BY <1>0, <1>1, <2>1, <2>2 DEF SweepOK, Holding, Tier, OneRowPerId, IdsOK
  <2>4. Weighing' \subseteq Weighing
    BY <1>1, <2>1 DEF Weighing, Present
  <2>5. QED
    BY <1>1, <1>3, <2>1, <2>3, <2>4, SweepKeeps DEF Tier
<1>6. QED
  BY <1>4, <1>5

LEMMA CondemnSteps ==
    ASSUME StoreInv, NEW S, S \subseteq rows, NEW deleting \in Tier,
           NEW then \in {"groups", "total", "drop"}, Condemn(S, deleting, then)
    PROVE  /\ UNCHANGED <<rows, faults>>
           /\ S = {} => work'.step = then
           /\ S # {} => work'.step = deleting /\ work'.chosen = S
  BY Facts DEF Condemn, Doing, WorkState, index, bounds

LEMMA SweepAgeOK == ASSUME StoreInv, SweepAge PROVE StoreInv'
<1> DEFINE S == {r \in rows : r.at < work.cutoff}
<1>1. S \subseteq rows /\ work.step = "age" /\ Condemn(S, "aged", "groups")
  BY DEF SweepAge
<1> HIDE DEF S
<1>2. "aged" \in Tier /\ "groups" \in {"groups", "total", "drop"}
  BY DEF Tier
<1>3. work'.step \in {"aged", "groups"}
  BY <1>1, <1>2, CondemnSteps
<1>4. CeilingsOK'
  BY <1>3 DEF CeilingsOK, BeforeTotal, BeforeGroups
<1>5. QED
  BY <1>1, <1>2, <1>4, CondemnOK

LEMMA SweepGroupsOK == ASSUME StoreInv, SweepGroups PROVE StoreInv'
<1> DEFINE S == rows \ TrimGroups(rows)
<1>0. /\ rows \subseteq StoredRow /\ IsFiniteSet(rows) /\ OneRowPerId(rows)
      /\ TrimGroups(rows) \subseteq rows
  BY Facts DEF TrimGroups
<1>1. S \subseteq rows /\ work.step = "groups" /\ Condemn(S, "grouped", "total")
  BY DEF SweepGroups
<1>2. "grouped" \in Tier /\ "total" \in {"groups", "total", "drop"}
  BY DEF Tier
<1>3. /\ rows' = rows /\ (S = {} => work'.step = "total")
      /\ S # {} => work'.step = "grouped" /\ work'.chosen = S
  <2> HIDE DEF S
  <2>1. QED
    BY <1>1, <1>2, CondemnSteps
<1>4. GroupCeiling(TrimGroups(rows)) /\ IsFiniteSet(TrimGroups(rows))
  BY <1>0, TrimmedGroups, Smaller
<1>5. CeilingsOK'
  <2>1. CASE S = {}
    <3>1. rows' = TrimGroups(rows)
      BY <1>0, <1>3, <2>1
    <3>2. GroupCeiling(rows')
      BY <1>4, <3>1
    <3>3. QED
      BY <1>3, <2>1, <3>2, Ceilings DEF CeilingsOK, BeforeTotal, BeforeGroups
  <2>2. CASE S # {}
    <3>1. Left' \subseteq TrimGroups(rows)
      BY <1>3, <2>2 DEF Left, Ids
    <3>2. GroupCeiling(Left')
      BY <1>4, <3>1, FewerRows
    <3>3. QED
      BY <1>3, <2>2, <3>2, Ceilings DEF CeilingsOK, BeforeTotal, BeforeGroups
  <2>3. QED
    BY <2>1, <2>2
<1> HIDE DEF S
<1>6. QED
  BY <1>1, <1>2, <1>5, CondemnOK

LEMMA SweepTotalOK == ASSUME StoreInv, SweepTotal PROVE StoreInv'
<1> DEFINE S == {r \in rows : Cardinality({s \in rows : Later(r, s)}) < work.over}
<1>0. /\ rows \subseteq StoredRow /\ IsFiniteSet(rows) /\ OneRowPerId(rows) /\ work.over \in Nat
      /\ CeilingsOK
  BY Facts
<1>1. S \subseteq rows /\ work.step = "oldest" /\ Condemn(S, "trimmed", "drop")
  BY DEF SweepTotal
<1>2. "trimmed" \in Tier /\ "drop" \in {"groups", "total", "drop"}
  BY DEF Tier
<1>3. /\ UNCHANGED <<rows, faults>> /\ (S = {} => work'.step = "drop")
      /\ S # {} => work'.step = "trimmed" /\ work'.chosen = S
  <2> HIDE DEF S
  <2>1. QED
    BY <1>1, <1>2, CondemnSteps
<1>4. CeilingsOK'
  <2> SUFFICES ASSUME faults = 0 PROVE CeilingsOK'
    BY <1>3 DEF CeilingsOK
  <2>1. GroupCeiling(rows) /\ Cardinality(rows) <= MaxTotal + work.over
    BY <1>0, <1>1 DEF CeilingsOK, BeforeGroups
  <2>2. Cardinality(rows \ S) <= MaxTotal
    BY <1>0, <2>1, TrimmedTotal
  <2>3. GroupCeiling(rows)'
    BY <1>3, <2>1, Ceilings
  <2>4. CASE S = {}
    <3>1. rows' = rows \ S
      BY <1>3, <2>4
    <3> HIDE DEF S
    <3>2. Cardinality(rows') <= MaxTotal
      BY <2>2, <3>1
    <3>3. QED
      BY <1>3, <2>3, <2>4, <3>2, Ceilings DEF CeilingsOK, BeforeTotal, BeforeGroups
  <2>5. CASE S # {}
    <3> HIDE DEF S
    <3>1. Left' \subseteq rows \ S /\ rows \ S \subseteq rows
      BY <1>3, <2>5 DEF Left, Ids
    <3>2. IsFiniteSet(rows \ S)
      BY <1>0, <3>1, Smaller
    <3>3. /\ Cardinality(Left') <= Cardinality(rows \ S) /\ Cardinality(Left') \in Nat
          /\ Cardinality(rows \ S) \in Nat
      BY <3>1, <3>2, Smaller
    <3>4. Cardinality(Left') <= MaxTotal
      BY <2>2, <3>3, Constants
    <3>5. QED
      BY <1>3, <2>3, <2>5, <3>4, Ceilings DEF CeilingsOK, BeforeTotal, BeforeGroups
  <2>6. QED
    BY <2>4, <2>5
<1> HIDE DEF S
<1>5. QED
  BY <1>1, <1>2, <1>4, CondemnOK

LEMMA CountTotalOK == ASSUME StoreInv, CountTotal PROVE StoreInv'
<1> DEFINE excess == Cardinality(rows) - MaxTotal
<1>0. /\ StoreTypeOK /\ work \in WorkState /\ Cardinality(rows) \in Nat /\ CeilingsOK
  BY Facts
<1>1. /\ work.step = "total"
      /\ work' = IF excess > 0 THEN [work EXCEPT !.step = "oldest", !.over = excess]
                 ELSE [work EXCEPT !.step = "drop"]
      /\ UNCHANGED <<rows, groups, files, lastId, request, serving, condemned, inserts, faults, lives>>
  BY DEF CountTotal, index, bounds
<1>2. excess \in Int /\ Cardinality(rows) = MaxTotal + excess
  BY <1>0, Constants
<1> HIDE DEF excess
<1>3. /\ work' \in WorkState
      /\ excess > 0 => work'.step = "oldest" /\ work'.over = excess
      /\ ~(excess > 0) => work'.step = "drop"
  <2>1. CASE excess > 0
    <3>1. excess \in Nat /\ "oldest" \in Step
      BY <1>2, <2>1, StepSet
    <3>2. QED
      BY <1>0, <1>1, <2>1, <3>1 DEF WorkState
  <2>2. CASE ~(excess > 0)
    <3>1. "drop" \in Step
      BY StepSet
    <3>2. QED
      BY <1>0, <1>1, <2>2, <3>1 DEF WorkState
  <2>3. QED
    BY <2>1, <2>2
<1>4. CeilingsOK'
  <2> SUFFICES ASSUME faults = 0 PROVE CeilingsOK'
    BY <1>1 DEF CeilingsOK
  <2>1. GroupCeiling(rows)'
    BY <1>0, <1>1, Ceilings DEF CeilingsOK, BeforeGroups
  <2>2. CASE excess > 0
    BY <1>1, <1>2, <1>3, <2>1, <2>2, Constants DEF CeilingsOK, BeforeTotal, BeforeGroups
  <2>3. CASE ~(excess > 0)
    <3>1. Cardinality(rows) <= MaxTotal
      BY <1>2, <2>3, Constants
    <3>2. QED
      BY <1>1, <1>3, <2>1, <2>3, <3>1 DEF CeilingsOK, BeforeTotal, BeforeGroups
  <2>4. QED
    BY <2>2, <2>3
<1>5. work'.step \in {"oldest", "drop"}
  BY <1>3
<1>6. SweepOK' /\ Weighing' \subseteq Weighing
  BY <1>1, <1>5, NothingHeld DEF SweepOK, Holding, Tier
<1>7. QED
  BY <1>0, <1>1, <1>3, <1>4, <1>5, <1>6, SweepKeeps DEF StoreTypeOK, Tier

LEMMA SweepUnlinkOK == ASSUME StoreInv, NEW id, SweepUnlink(id) PROVE StoreInv'
<1>0. /\ StoreTypeOK /\ work \in WorkState /\ CeilingsOK /\ SweepOK /\ FilesOK
  BY Facts
<1>1. /\ work.step \in Tier /\ id \in work.paths /\ files' = files \ {id}
      /\ work' = [work EXCEPT !.paths = @ \ {id}]
      /\ UNCHANGED <<rows, groups, lastId, request, serving, condemned, inserts, faults, lives>>
  BY Tiers DEF SweepUnlink, index, bounds
<1>2. /\ work' \in WorkState /\ work'.step = work.step /\ work'.chosen = work.chosen
      /\ work'.paths = work.paths \ {id} /\ work'.over = work.over
  BY <1>0, <1>1 DEF WorkState
<1>3. work.paths \subseteq condemned
  BY <1>0, <1>1 DEF FilesOK
<1>4. SweepOK'
  BY <1>0, <1>1, <1>2 DEF SweepOK, OneRowPerId, Present
<1>5. Left' = Left
  BY <1>1, <1>2 DEF Left, Ids
<1>6. CeilingsOK'
  BY <1>0, <1>1, <1>2, <1>5 DEF CeilingsOK, GroupCeiling, Mates, GroupOf
<1>7. Weighing' \subseteq Weighing
  BY <1>1, <1>2 DEF Weighing, Present
<1>8. work.step \notin {"down", "insert", "fold"}
  BY <1>1 DEF Tier
<1>9. QED
  BY <1>0, <1>1, <1>2, <1>3, <1>4, <1>6, <1>7, <1>8, SweepKeeps DEF StoreTypeOK

LEMMA QuotaOK == ASSUME StoreInv, Quota PROVE StoreInv'
<1> DEFINE total == Cardinality(Paths(rows))
<1>0. /\ StoreTypeOK /\ work \in WorkState /\ IsFiniteSet(rows)
  BY Facts
<1>1. total \in Nat
  BY <1>0, PathsOfPresent, FS_CardinalityType
<1>2. /\ work.step = "quota"
      /\ work' = IF total <= MaxPayloads THEN [work EXCEPT !.step = "prune"]
                 ELSE [work EXCEPT !.step = "candidates", !.over = total - MaxPayloads]
      /\ UNCHANGED <<rows, groups, files, lastId, request, serving, condemned, inserts, faults, lives>>
  BY DEF Quota, index, bounds
<1> HIDE DEF total
<1>3. ~(total <= MaxPayloads) => total - MaxPayloads \in Nat
  BY <1>1, Constants
<1>4. work' \in WorkState /\ work'.step \in {"prune", "candidates"}
  BY <1>0, <1>2, <1>3, StepSet DEF WorkState
<1>5. SweepOK' /\ Weighing' \subseteq Weighing
  BY <1>2, <1>4, NothingHeld DEF SweepOK, Holding, Tier
<1>6. CeilingsOK'
  BY <1>2, <1>4, CeilingsKept DEF BeforeTotal, BeforeGroups
<1>7. QED
  BY <1>0, <1>2, <1>4, <1>5, <1>6, SweepKeeps DEF StoreTypeOK, Tier

LEMMA CandidatesOK == ASSUME StoreInv, Candidates PROVE StoreInv'
<1>0. /\ StoreTypeOK /\ IdsOK /\ work \in WorkState /\ IsFiniteSet(rows) /\ rows \subseteq StoredRow
  BY Facts
<1>1. /\ work.step = "candidates"
      /\ work' = [work EXCEPT !.step = "evict", !.chosen = Present(rows)]
      /\ UNCHANGED <<rows, groups, files, lastId, request, serving, condemned, inserts, faults, lives>>
  BY DEF Candidates, index, bounds, Present
<1>2. Present(rows) \subseteq rows /\ IsFiniteSet(Present(rows))
      /\ Present(Present(rows)) = Present(rows)
  BY <1>0, PathsOfPresent DEF Present
<1>3. work' \in WorkState /\ work'.step = "evict" /\ work'.chosen = Present(rows)
  <2>1. Present(rows) \in SUBSET StoredRow
    BY <1>0, <1>2
  <2>2. QED
    BY <1>0, <1>1, <2>1, StepSet DEF WorkState
<1>4. SweepOK'
  <2>1. OneRowPerId(Present(rows) \cup rows)
    BY <1>0, <1>2 DEF IdsOK, OneRowPerId
  <2>2. OneRowPerId(work.chosen \cup rows)'
    BY <1>1, <1>3, <2>1 DEF OneRowPerId
  <2>3. Present(work.chosen)' = Present(rows)
    BY <1>2, <1>3 DEF Present
  <2>4. QED
    BY <1>2, <1>3, <2>2, <2>3 DEF SweepOK
<1>5. Weighing' \subseteq Weighing
  BY <1>1, <1>3 DEF Weighing, Present
<1>6. CeilingsOK'
  BY <1>1, <1>3, CeilingsKept DEF BeforeTotal, BeforeGroups
<1>7. QED
  BY <1>0, <1>1, <1>3, <1>4, <1>5, <1>6, SweepKeeps DEF StoreTypeOK, Tier

LEMMA EvictUnlinkOK == ASSUME StoreInv, NEW r \in work.chosen, EvictUnlink(r) PROVE StoreInv'
<1>0. /\ StoreTypeOK /\ work \in WorkState /\ SweepOK /\ work.chosen \subseteq StoredRow
  BY Facts
<1>1. /\ work.step = "evict" /\ files' = files \ {r.id} /\ condemned' = condemned \cup {r.id}
      /\ work' = [work EXCEPT !.step = "evicted"]
      /\ UNCHANGED <<rows, groups, lastId, request, serving, inserts, faults, lives>>
  BY DEF EvictUnlink, index, bounds
<1>2. work' \in WorkState /\ work'.step = "evicted" /\ work'.chosen = work.chosen
  BY <1>0, <1>1, StepSet DEF WorkState
<1>3. condemned' \subseteq Nat
  BY <1>0, <1>1 DEF StoreTypeOK, StoredRow
<1>4. SweepOK'
  BY <1>0, <1>1, <1>2 DEF SweepOK, OneRowPerId, Present, Holding, Tier
<1>5. Weighing' \subseteq Weighing
  BY <1>1, <1>2 DEF Weighing, Present, Holding
<1>6. CeilingsOK'
  BY <1>1, <1>2, CeilingsKept DEF BeforeTotal, BeforeGroups
<1>7. QED
  BY <1>0, <1>1, <1>2, <1>3, <1>4, <1>5, <1>6, SweepKeeps DEF StoreTypeOK, Tier

\* The sweep goes on to its end, ends, or fails.
LEMMA EndOK == ASSUME StoreInv, EvictDone \/ SweepEnd \/ SweepFails PROVE StoreInv'
<1>0. /\ StoreTypeOK /\ work \in WorkState /\ work.cutoff \in Int /\ faults \in Nat
  BY Facts DEF StoreTypeOK
<1>1. /\ work.step # "down" /\ work' \in {Idle, Doing("prune", {}, {}, work.cutoff, 0)}
      /\ UNCHANGED <<rows, groups, files, lastId, request, condemned, inserts, lives>>
      /\ serving' \in {serving, TRUE}
      /\ \/ work.step \in {"evict", "prune"} /\ faults' = faults
         \/ faults' = faults + 1
  BY DEF EvictDone, SweepEnd, SweepFails, Fault, index, bounds
<1>2. work' \in WorkState /\ work'.step \in {"idle", "prune"}
  BY <1>0, <1>1, StepSet DEF Doing, WorkState
<1>3. SweepOK' /\ Weighing' \subseteq Weighing
  BY <1>1, <1>2, NothingHeld DEF SweepOK, Holding, Tier
<1>4. CeilingsOK'
  <2>1. CASE work.step \in {"evict", "prune"} /\ faults' = faults
    BY <1>1, <1>2, <2>1, CeilingsKept DEF BeforeTotal, BeforeGroups
  <2>2. CASE faults' = faults + 1
    BY <1>0, <2>2 DEF CeilingsOK
  <2>3. QED
    BY <1>1, <2>1, <2>2
<1>5. serving' \in BOOLEAN /\ faults' \in {faults, faults + 1} /\ condemned' \subseteq Nat
  BY <1>0, <1>1 DEF StoreTypeOK
<1>6. QED
  BY <1>1, <1>2, <1>3, <1>4, <1>5, SweepKeeps DEF Tier

-----------------------------------------------------------------------------
(* The ingest thread: what it commits. *)

LEMMA DropEmptyGroupsOK == ASSUME StoreInv, DropEmptyGroups PROVE StoreInv'
<1> DEFINE kept == {g \in DOMAIN groups : \/ groups[g].last >= work.cutoff
                                          \/ \E r \in rows : GroupOf(r) = g}
<1>0. /\ StoreTypeOK /\ IdsOK /\ GroupsOK /\ work \in WorkState
      /\ groups \in [DOMAIN groups -> GroupState]
  BY Facts
<1>1. /\ work.step = "drop" /\ work' = [work EXCEPT !.step = "quota"]
      /\ groups' = [g \in kept |-> groups[g]]
      /\ UNCHANGED <<rows, files, lastId, request, serving, condemned, inserts, faults, lives>>
  BY DEF DropEmptyGroups, bounds
<1>2. work' \in WorkState /\ work'.step = "quota"
  BY <1>0, <1>1, StepSet DEF WorkState
<1>3. kept \subseteq DOMAIN groups /\ \A r \in rows : GroupOf(r) \in kept
  BY <1>0 DEF GroupsOK
<1> HIDE DEF kept
<1>4. /\ DOMAIN groups' = kept /\ groups' \in [DOMAIN groups' -> GroupState]
      /\ \A g \in kept : groups'[g] = groups[g]
  BY <1>0, <1>1, <1>3
<1>5. Weighing' \subseteq Weighing
  BY <1>1, <1>2, NothingHeld DEF Holding, Tier
<1>6. GroupsOK'
  BY <1>1, <1>3, <1>4, <1>5, GroupsFewer
<1>7. StoreTypeOK'
  BY <1>0, <1>1, <1>2, <1>4 DEF StoreTypeOK, WorkState, GroupState
<1>8. IdsOK' /\ WorkOK' /\ RequestsOK'
  BY <1>0, <1>1, <1>2, NoRows, RequestsKept DEF IdsOK, OneRowPerId, Holding, Tier
<1>9. Paths(rows)' \subseteq Paths(rows)
  BY <1>1 DEF Paths
<1>10. FilesOK'
  BY <1>1, <1>2, <1>9, FilesKept DEF Tier
<1>11. CeilingsOK'
  BY <1>1, <1>2, CeilingsKept DEF BeforeTotal, BeforeGroups
<1>12. QED
  BY <1>6, <1>7, <1>8, <1>10, <1>11 DEF StoreInv

\* The groups are told of rows that were weighed and are no longer.
LEMMA WeighedLess ==
    ASSUME StoreInv, NEW X, X \subseteq Weighing, groups' = Weighed(X, -1),
           IsFiniteSet(rows'), \A g : Cardinality(Mates(rows', g)) <= Cardinality(Mates(rows, g)),
           \A r \in rows' : GroupOf(r) \in DOMAIN groups, Weighing' \subseteq Weighing \ X
    PROVE  GroupsOK' /\ groups' \in [DOMAIN groups' -> GroupState]
<1>0. /\ groups \in [DOMAIN groups -> GroupState] /\ IsFiniteSet(Weighing) /\ GroupsOK
      /\ IsFiniteSet(rows)
  BY Facts
<1>1. /\ DOMAIN groups' = DOMAIN groups
      /\ \A g \in DOMAIN groups :
            groups'[g] = [groups[g] EXCEPT !.bytes = @ + (-1) * Cardinality(Mates(X, g))]
  BY DEF Weighed, Mates
<1>2. ASSUME NEW g \in DOMAIN groups
      PROVE  /\ groups'[g] \in GroupState
             /\ Cardinality(Mates(rows', g)) <= groups'[g].occurrence
             /\ Cardinality(Mates(Weighing', g)) <= groups'[g].bytes
  <2> DEFINE M == Mates(Weighing, g)
             N == Mates(X, g)
             n == Cardinality(N)
  <2>1. /\ groups[g] \in GroupState /\ Cardinality(Mates(rows, g)) <= groups[g].occurrence
        /\ Cardinality(M) <= groups[g].bytes
    BY <1>0 DEF GroupsOK
  <2>2. /\ IsFiniteSet(M) /\ N \subseteq M /\ n \in Nat /\ Cardinality(M) \in Nat
        /\ n <= Cardinality(M)
    BY <1>0, MatesOf
  <2>3. Mates(Weighing', g) \subseteq M \ N
    BY DEF Mates
  <2> HIDE DEF M, N
  <2>4. Cardinality(M \ N) = Cardinality(M) - n
    <3>1. M \cap N = N
      BY <2>2
    <3>2. Cardinality(M \ N) = Cardinality(M) - Cardinality(M \cap N)
      BY <2>2, FS_Difference
    <3>3. QED
      BY <3>1, <3>2
  <2>5. IsFiniteSet(M \ N)
    BY <2>2, Smaller
  <2>6. /\ Cardinality(Mates(Weighing', g)) <= Cardinality(M \ N)
        /\ Cardinality(Mates(Weighing', g)) \in Nat
    BY <2>3, <2>5, Smaller
  <2>7. groups'[g] = [groups[g] EXCEPT !.bytes = @ + (-1) * n]
    BY <1>1 DEF N
  <2> HIDE DEF n
  <2>8. /\ groups[g].bytes \in Nat /\ groups[g].occurrence \in Nat
        /\ groups'[g].occurrence = groups[g].occurrence
        /\ groups'[g].bytes = groups[g].bytes - n
    BY <2>1, <2>2, <2>7 DEF GroupState
  <2>9. groups[g].bytes - n \in Nat
    BY <2>1, <2>2, <2>8
  <2>10. groups'[g] \in GroupState
    BY <2>1, <2>7, <2>2, <2>9 DEF GroupState
  <2>11. /\ Cardinality(Mates(rows, g)) \in Nat /\ Cardinality(Mates(rows', g)) \in Nat
         /\ Cardinality(Mates(rows', g)) <= Cardinality(Mates(rows, g))
    BY <1>0, MatesOf
  <2>12. QED
    BY <2>1, <2>2, <2>4, <2>6, <2>8, <2>10, <2>11
<1>3. groups' \in [DOMAIN groups' -> GroupState]
  <2>1. groups' = [g \in DOMAIN groups' |-> groups'[g]]
    BY DEF Weighed
  <2>2. QED
    BY <1>1, <1>2, <2>1
<1>4. GroupsOK'
  BY <1>1, <1>2 DEF GroupsOK, Mates, GroupOf
<1>5. QED
  BY <1>3, <1>4

LEMMA SweepCommitOK == ASSUME StoreInv, SweepCommit PROVE StoreInv'
<1> DEFINE X == Present(work.chosen)
           next == AfterTier[work.step]
<1>0. /\ StoreTypeOK /\ IdsOK /\ GroupsOK /\ work \in WorkState /\ IsFiniteSet(rows)
      /\ rows \subseteq StoredRow /\ CeilingsOK /\ work.cutoff \in Int
  BY Facts
<1>1. /\ work.step \in Tier /\ rows' = Left /\ groups' = Weighed(X, -1)
      /\ work' = Doing(next, {}, {}, work.cutoff, 0)
      /\ UNCHANGED <<files, lastId, request, serving, condemned, inserts, faults, lives>>
  BY Tiers DEF SweepCommit, Left, Present, bounds
<1>2. /\ next \in {"groups", "total", "drop"}
      /\ next = "total" => work.step = "grouped"
      /\ next = "drop" => work.step = "trimmed"
  BY <1>1, Tiers DEF Tier
<1> HIDE DEF next
<1>3. work' \in WorkState /\ work'.step = next
  BY <1>0, <1>1, <1>2, StepSet DEF Doing, WorkState
<1>4. Left \subseteq rows /\ IsFiniteSet(Left)
  BY <1>0, Smaller DEF Left
<1>5. X \subseteq Weighing
  BY <1>1 DEF Weighing, Holding
<1>6. Weighing' \subseteq Weighing \ X
  <2>1. Weighing' = Present(Left)
    BY <1>1, <1>2, <1>3 DEF Weighing, Holding, Tier, Present
  <2>2. QED
    BY <2>1 DEF Present, Left, Ids, Weighing
<1> HIDE DEF X
<1>7. \A g : Cardinality(Mates(rows', g)) <= Cardinality(Mates(rows, g))
  BY <1>0, <1>1, <1>4, MatesOf
<1>8. \A r \in rows' : GroupOf(r) \in DOMAIN groups
  BY <1>0, <1>1, <1>4 DEF GroupsOK
<1>9. GroupsOK' /\ groups' \in [DOMAIN groups' -> GroupState]
  BY <1>1, <1>4, <1>5, <1>6, <1>7, <1>8, WeighedLess
<1>10. StoreTypeOK'
  <2>1. rows' \subseteq StoredRow
    BY <1>0, <1>1, <1>4
  <2>2. QED
    BY <1>0, <1>1, <1>3, <1>4, <1>9, <2>1 DEF StoreTypeOK, WorkState, GroupState
<1>11. IdsOK'
  <2>1. work.step # "down"
    BY <1>1 DEF Tier
  <2>2. QED
    BY <1>0, <1>1, <1>4, <2>1 DEF IdsOK, OneRowPerId
<1>12. WorkOK' /\ RequestsOK'
  BY <1>1, <1>2, <1>3, NoRows, RequestsKept DEF Holding, Tier
<1>13. FilesOK'
  <2>1. Paths(rows)' \subseteq Paths(rows)
    BY <1>1, <1>4 DEF Paths
  <2>2. QED
    BY <1>1, <1>2, <1>3, <2>1, FilesKept DEF Tier
<1>14. CeilingsOK'
  <2> SUFFICES ASSUME faults = 0 PROVE CeilingsOK'
    BY <1>1 DEF CeilingsOK
  <2>1. CASE next = "groups"
    BY <1>3, <2>1 DEF CeilingsOK, BeforeTotal, BeforeGroups
  <2>2. CASE next = "total"
    <3>1. work.step = "grouped"
      BY <1>2, <2>2
    <3>2. GroupCeiling(Left)
      BY <1>0, <3>1 DEF CeilingsOK
    <3>3. GroupCeiling(rows)'
      BY <1>1, <3>2, Ceilings
    <3>4. QED
      BY <1>3, <2>2, <3>3 DEF CeilingsOK, BeforeTotal, BeforeGroups
  <2>3. CASE next = "drop"
    <3>1. work.step = "trimmed"
      BY <1>2, <2>3
    <3>2. GroupCeiling(rows) /\ Cardinality(Left) <= MaxTotal
      BY <1>0, <3>1 DEF CeilingsOK, BeforeGroups
    <3>3. GroupCeiling(Left)
      BY <1>0, <1>4, <3>2, FewerRows
    <3>4. GroupCeiling(rows)' /\ Cardinality(rows') <= MaxTotal
      BY <1>1, <3>2, <3>3, Ceilings
    <3>5. QED
      BY <1>3, <2>3, <3>4 DEF CeilingsOK, BeforeTotal, BeforeGroups
  <2>4. QED
    BY <1>2, <2>1, <2>2, <2>3
<1>15. QED
  BY <1>9, <1>10, <1>11, <1>12, <1>13, <1>14 DEF StoreInv

\* The rows of the index are rewritten in place, outside the first half of a sweep.
LEMMA RewrittenRows ==
    ASSUME StoreInv, NEW f, f = [q \in rows |-> f[q]], rows' = {f[q] : q \in rows},
           \A q \in rows : /\ f[q] \in StoredRow /\ f[q].id = q.id
                           /\ GroupOf(f[q]) = GroupOf(q),
           work.step \notin BeforeTotal, work'.step \notin BeforeTotal,
           UNCHANGED <<faults, lastId>>
    PROVE  /\ rows' \subseteq StoredRow /\ IsFiniteSet(rows') /\ IdsOK' /\ CeilingsOK'
           /\ \A g : Cardinality(Mates(rows', g)) <= Cardinality(Mates(rows, g))
           /\ \A r \in rows' : GroupOf(r) \in DOMAIN groups
<1>0. IsFiniteSet(rows) /\ IdsOK /\ GroupsOK /\ CeilingsOK /\ Cardinality(rows) \in Nat
  BY Facts
<1>1. /\ IsFiniteSet(rows') /\ Cardinality(rows') <= Cardinality(rows)
      /\ \A g : Cardinality(Mates(rows', g)) <= Cardinality(Mates(rows, g))
  BY <1>0, Rewritten
<1>2. rows' \subseteq StoredRow /\ \A r \in rows' : GroupOf(r) \in DOMAIN groups
  BY <1>0 DEF GroupsOK
<1>3. IdsOK'
  <2>1. OneRowPerId(rows)'
    BY <1>0 DEF IdsOK, OneRowPerId
  <2>2. work.step # "down"
    BY DEF BeforeTotal, BeforeGroups
  <2>3. QED
    BY <1>0, <2>1, <2>2 DEF IdsOK
<1>4. CeilingsOK'
  <2> SUFFICES ASSUME faults = 0 PROVE CeilingsOK'
    BY DEF CeilingsOK
  <2>1. GroupCeiling(rows) /\ Cardinality(rows) <= MaxTotal
    BY <1>0 DEF CeilingsOK, BeforeTotal, BeforeGroups
  <2>2. Cardinality(rows') <= MaxTotal
    <3>1. Cardinality(rows') \in Nat
      BY <1>1, FS_CardinalityType
    <3>2. QED
      BY <1>0, <1>1, <2>1, <3>1, Constants
  <2>3. GroupCeiling(rows')
    <3> SUFFICES ASSUME NEW q \in rows
                 PROVE  Cardinality(Mates(rows', GroupOf(f[q]))) <= MaxPerGroup
      BY DEF GroupCeiling
    <3>1. Cardinality(Mates(rows, GroupOf(q))) <= MaxPerGroup /\ GroupOf(f[q]) = GroupOf(q)
      BY <2>1 DEF GroupCeiling
    <3>2. /\ Cardinality(Mates(rows', GroupOf(q))) <= Cardinality(Mates(rows, GroupOf(q)))
          /\ Cardinality(Mates(rows', GroupOf(q))) \in Nat
          /\ Cardinality(Mates(rows, GroupOf(q))) \in Nat
      BY <1>0, <1>1, MatesOf
    <3>3. QED
      BY <3>1, <3>2, Constants
  <2>4. QED
    BY <2>2, <2>3, Ceilings DEF CeilingsOK, BeforeTotal, BeforeGroups
<1>5. QED
  BY <1>1, <1>2, <1>3, <1>4


LEMMA EvictCommitOK == ASSUME StoreInv, NEW r \in work.chosen, EvictCommit(r) PROVE StoreInv'
<1> DEFINE f == [q \in rows |-> IF q.id = r.id THEN [q EXCEPT !.payload = "evicted"] ELSE q]
           C == work.chosen
<1>0. /\ StoreTypeOK /\ GroupsOK /\ work \in WorkState /\ rows \subseteq StoredRow
      /\ C \subseteq StoredRow /\ work.over \in Nat /\ SweepOK
  BY Facts
<1>1. /\ work.step = "evicted" /\ work.over > 0
      /\ rows' = {IF q.id = r.id THEN [q EXCEPT !.payload = "evicted"] ELSE q : q \in rows}
      /\ groups' = Weighed({r}, -1)
      /\ work' = [work EXCEPT !.step = "evict", !.chosen = @ \ {r}, !.over = @ - 1]
      /\ UNCHANGED <<files, lastId, request, serving, condemned, inserts, faults, lives>>
  BY DEF EvictCommit, Evicting, bounds
<1>2. f = [q \in rows |-> f[q]] /\ rows' = {f[q] : q \in rows}
  BY <1>1
<1>3. ASSUME NEW q \in rows
      PROVE  /\ f[q] \in StoredRow /\ f[q].id = q.id /\ GroupOf(f[q]) = GroupOf(q)
             /\ f[q].payload = "present" => f[q] = q /\ q.id # r.id
             /\ q.id # r.id => f[q] = q
             /\ q.id = r.id => f[q].payload = "evicted"
  <2>1. q \in StoredRow
    BY <1>0
  <2>2. CASE q.id = r.id
    BY <2>1, <2>2 DEF StoredRow, GroupOf
  <2>3. CASE q.id # r.id
    BY <2>1, <2>3
  <2>4. QED
    BY <2>2, <2>3
<1> HIDE DEF f
<1>4. /\ work' \in WorkState /\ work'.step = "evict" /\ work'.chosen = C \ {r}
  <2>1. work.over - 1 \in Nat
    BY <1>0, <1>1
  <2>2. QED
    BY <1>0, <1>1, <2>1, StepSet DEF WorkState
<1>5. /\ rows' \subseteq StoredRow /\ IsFiniteSet(rows') /\ IdsOK' /\ CeilingsOK'
      /\ \A g : Cardinality(Mates(rows', g)) <= Cardinality(Mates(rows, g))
      /\ \A s \in rows' : GroupOf(s) \in DOMAIN groups
  <2>1. work.step \notin BeforeTotal /\ work'.step \notin BeforeTotal
    BY <1>1, <1>4 DEF BeforeTotal, BeforeGroups
  <2>2. QED
    BY <1>1, <1>2, <1>3, <2>1, RewrittenRows
<1>6. IsFiniteSet(C) /\ OneRowPerId(C \cup rows) /\ C = Present(C)
  BY <1>0, <1>1 DEF SweepOK, Holding, Tier
<1>7. Present(rows') \subseteq Present(rows) \ {r} /\ Present(rows)' = Present(rows')
  <2>1. ASSUME NEW s \in rows', s.payload = "present" PROVE s \in rows /\ s # r
    <3>1. PICK q \in rows : s = f[q]
      BY <1>2
    <3>2. QED
      BY <1>3, <2>1, <3>1
  <2>2. QED
    BY <2>1 DEF Present
<1>8. Present(C \ {r}) \subseteq Present(C) \ {r} /\ Present(C \ {r}) = C \ {r}
  BY <1>6 DEF Present
<1>9. {r} \subseteq Weighing /\ Weighing = Present(rows) \cup Present(C)
  BY <1>1, <1>6 DEF Weighing, Holding
<1>10. Weighing' \subseteq Weighing \ {r}
  <2>1. Weighing' = Present(rows') \cup Present(C \ {r})
    BY <1>4, <1>7 DEF Weighing, Holding, Present
  <2>2. QED
    BY <1>7, <1>8, <1>9, <2>1
<1>11. GroupsOK' /\ groups' \in [DOMAIN groups' -> GroupState]
  BY <1>1, <1>5, <1>9, <1>10, WeighedLess
<1>12. StoreTypeOK'
  BY <1>0, <1>1, <1>4, <1>5, <1>11 DEF StoreTypeOK, WorkState, GroupState
<1>13. SweepOK'
  <2>1. IsFiniteSet(C \ {r})
    BY <1>6, Smaller
  <2>2. OneRowPerId((C \ {r}) \cup rows')
    <3>1. \A s \in C \ {r} : s.id # r.id
      BY <1>6 DEF OneRowPerId
    <3>2. \A s \in C \ {r}, t \in rows' : s.id = t.id => s = t
      <4> SUFFICES ASSUME NEW s \in C \ {r}, NEW q \in rows, s.id = f[q].id PROVE s = f[q]
        BY <1>2
      <4>1. f[q].id = q.id /\ (q.id # r.id => f[q] = q)
        BY <1>3
      <4>2. s = q
        BY <1>6, <4>1 DEF OneRowPerId
      <4>3. QED
        BY <3>1, <4>1, <4>2
    <3>3. \A s, t \in C \ {r} : s.id = t.id => s = t
      BY <1>6 DEF OneRowPerId
    <3>4. \A s, t \in rows' : s.id = t.id => s = t
      BY <1>5 DEF IdsOK, OneRowPerId
    <3>5. QED
      BY <3>2, <3>3, <3>4 DEF OneRowPerId
  <2>3. OneRowPerId(work.chosen \cup rows)'
    BY <1>4, <2>2 DEF OneRowPerId
  <2>4. Present(work.chosen)' = C \ {r}
    BY <1>4, <1>8 DEF Present
  <2>5. QED
    BY <1>4, <2>1, <2>3, <2>4 DEF SweepOK
<1>14. WorkOK' /\ RequestsOK'
  BY <1>1, <1>4, <1>13, RequestsKept DEF WorkOK, InsertOK, FoldOK
<1>15. FilesOK'
  <2>1. Paths(rows)' \subseteq Paths(rows)
    BY <1>7 DEF Paths, Present
  <2>2. QED
    BY <1>1, <1>4, <2>1, FilesKept DEF Tier
<1>16. QED
  BY <1>5, <1>11, <1>12, <1>14, <1>15 DEF StoreInv

LEMMA FoldCommitOK == ASSUME StoreInv, FoldCommit PROVE StoreInv'
<1> DEFINE P == work.paths
           f == [q \in rows |-> IF q.id \in P THEN [q EXCEPT !.payload = "present"] ELSE q]
           A == {r \in work.chosen : r.id \in P}
           S == Present(rows) \cup A
<1>0. /\ StoreTypeOK /\ GroupsOK /\ FilesOK /\ FoldOK /\ rows \subseteq StoredRow
      /\ IsFiniteSet(rows) /\ OneRowPerId(rows) /\ groups \in [DOMAIN groups -> GroupState]
  BY Facts
<1>1. /\ work.step = "fold" /\ Ids(work.chosen) \subseteq Ids(rows)
      /\ rows' = {IF q.id \in P THEN [q EXCEPT !.payload = "present"] ELSE q : q \in rows}
      /\ groups' = Weighed(A, 1) /\ work' = Idle
      /\ UNCHANGED <<files, lastId, request, serving, condemned, inserts, faults, lives>>
  BY DEF FoldCommit, bounds
<1>2. PICK row \in work.chosen :
        /\ work.chosen = {row} /\ P \subseteq {row.id} /\ \A r \in rows : r.id = row.id => r = row
  BY <1>0, <1>1 DEF FoldOK
<1>3. row \in rows
  BY <1>1, <1>2 DEF Ids
<1>4. f = [q \in rows |-> f[q]] /\ rows' = {f[q] : q \in rows}
  BY <1>1
<1>5. ASSUME NEW q \in rows
      PROVE  /\ f[q] \in StoredRow /\ f[q].id = q.id /\ GroupOf(f[q]) = GroupOf(q)
             /\ f[q].payload = "present" => q.payload = "present" \/ q.id \in P
  <2>1. q \in StoredRow
    BY <1>0
  <2>2. CASE q.id \in P
    BY <2>1, <2>2 DEF StoredRow, GroupOf
  <2>3. CASE q.id \notin P
    BY <2>1, <2>3
  <2>4. QED
    BY <2>2, <2>3
<1> HIDE DEF f
<1>6. A \subseteq rows /\ S \subseteq rows
  BY <1>2, <1>3 DEF Present
<1>7. \A q \in rows : q.id \in P => q \in A
  BY <1>2
<1>8. work' \in WorkState /\ work'.step = "idle"
  BY <1>1, StepSet
<1>9. /\ rows' \subseteq StoredRow /\ IsFiniteSet(rows') /\ IdsOK' /\ CeilingsOK'
      /\ \A g : Cardinality(Mates(rows', g)) <= Cardinality(Mates(rows, g))
      /\ \A s \in rows' : GroupOf(s) \in DOMAIN groups
  <2>1. work.step \notin BeforeTotal /\ work'.step \notin BeforeTotal
    BY <1>1, <1>8 DEF BeforeTotal, BeforeGroups
  <2>2. QED
    BY <1>1, <1>4, <1>5, <2>1, RewrittenRows
<1> DEFINE h == [q \in S |-> f[q]]
           T == {h[q] : q \in S}
<1>10. Weighing = Present(rows) /\ Weighing' = Present(rows')
  BY <1>1, <1>8 DEF Weighing, Present, Holding, Tier
<1>11. Present(rows') \subseteq T
  <2> SUFFICES ASSUME NEW q \in rows, f[q].payload = "present" PROVE f[q] \in T
    BY <1>4 DEF Present
  <2>1. q \in S
    BY <1>5, <1>7 DEF Present
  <2>2. QED
    BY <2>1
<1>12. IsFiniteSet(S) /\ IsFiniteSet(A) /\ IsFiniteSet(Present(rows))
  BY <1>0, <1>6, Smaller, PathsOfPresent
<1>13. /\ h = [q \in S |-> h[q]]
       /\ \A q \in S : GroupOf(h[q]) = GroupOf(q)
  BY <1>5, <1>6
<1>14. IsFiniteSet(T) /\ \A g : Cardinality(Mates(T, g)) <= Cardinality(Mates(S, g))
  <2> HIDE DEF h, S
  <2>1. QED
    BY <1>12, <1>13, Rewritten
<1> HIDE DEF T, h
<1>15. /\ DOMAIN groups' = DOMAIN groups
       /\ groups' = [g \in DOMAIN groups' |-> groups'[g]]
       /\ \A g \in DOMAIN groups :
            groups'[g] = [groups[g] EXCEPT !.bytes = @ + 1 * Cardinality(Mates(A, g))]
  BY <1>1 DEF Weighed, Mates
<1> HIDE DEF A
<1>16. ASSUME NEW g \in DOMAIN groups
       PROVE  /\ groups'[g] \in GroupState
              /\ Cardinality(Mates(rows', g)) <= groups'[g].occurrence
              /\ Cardinality(Mates(Weighing', g)) <= groups'[g].bytes
  <2> DEFINE M == Mates(Present(rows), g)
             N == Mates(A, g)
             n == Cardinality(N)
  <2>1. /\ groups[g] \in GroupState /\ Cardinality(Mates(rows, g)) <= groups[g].occurrence
        /\ Cardinality(M) <= groups[g].bytes
    BY <1>0, <1>10 DEF GroupsOK
  <2>2. /\ IsFiniteSet(M) /\ IsFiniteSet(N) /\ n \in Nat /\ Cardinality(M) \in Nat
    BY <1>12, MatesOf
  <2>3. Mates(S, g) = M \cup N
    BY DEF Mates
  <2>4. /\ Cardinality(Mates(Weighing', g)) <= Cardinality(Mates(T, g))
        /\ Cardinality(Mates(Weighing', g)) \in Nat /\ Cardinality(Mates(T, g)) \in Nat
    BY <1>10, <1>11, <1>14, MatesOf
  <2> HIDE DEF M, N
  <2>5. Cardinality(M \cup N) <= Cardinality(M) + n /\ Cardinality(M \cup N) \in Nat
    <3>1. Cardinality(M \cup N) = Cardinality(M) + n - Cardinality(M \cap N)
      BY <2>2, FS_Union
    <3>2. IsFiniteSet(M \cap N) /\ IsFiniteSet(M \cup N)
      BY <2>2, Smaller, FS_Union
    <3>3. Cardinality(M \cap N) \in Nat /\ Cardinality(M \cup N) \in Nat
      BY <3>2, FS_CardinalityType
    <3>4. QED
      BY <2>2, <3>1, <3>3
  <2>6. groups'[g] = [groups[g] EXCEPT !.bytes = @ + 1 * n]
    BY <1>15 DEF N
  <2> HIDE DEF n
  <2>7. /\ groups[g].bytes \in Nat /\ groups[g].occurrence \in Nat
        /\ groups'[g].occurrence = groups[g].occurrence
        /\ groups'[g].bytes = groups[g].bytes + n
    BY <2>1, <2>2, <2>6 DEF GroupState
  <2>8. groups'[g] \in GroupState
    BY <2>1, <2>2, <2>6 DEF GroupState
  <2>9. /\ Cardinality(Mates(rows, g)) \in Nat /\ Cardinality(Mates(rows', g)) \in Nat
        /\ Cardinality(Mates(rows', g)) <= Cardinality(Mates(rows, g))
    BY <1>0, <1>9, MatesOf
  <2>10. Cardinality(Mates(T, g)) <= Cardinality(M \cup N)
    BY <1>14, <2>3
  <2>11. Cardinality(Mates(Weighing', g)) <= groups'[g].bytes
    BY <2>1, <2>2, <2>4, <2>5, <2>7, <2>10
  <2>12. Cardinality(Mates(rows', g)) <= groups'[g].occurrence
    BY <2>1, <2>7, <2>9
  <2>13. QED
    BY <2>8, <2>11, <2>12
<1>17. groups' \in [DOMAIN groups' -> GroupState]
  BY <1>15, <1>16
<1>18. GroupsOK'
  BY <1>9, <1>15, <1>16 DEF GroupsOK, Mates, GroupOf
<1>19. StoreTypeOK'
  BY <1>0, <1>1, <1>8, <1>9, <1>17 DEF StoreTypeOK, WorkState, GroupState
<1>20. WorkOK' /\ RequestsOK'
  BY <1>1, <1>8, NoRows, RequestsKept DEF Holding, Tier
<1>21. FilesOK'
  <2>1. Paths(rows') \subseteq Paths(rows) \cup P
    <3> SUFFICES ASSUME NEW q \in rows, f[q].payload = "present"
                 PROVE  f[q].id \in Paths(rows) \cup P
      BY <1>4 DEF Paths
    <3>1. QED
      BY <1>5 DEF Paths
  <2>2. Paths(rows) \cup P \subseteq files \cup condemned
    BY <1>0, <1>1 DEF FilesOK
  <2>3. Paths(rows)' = Paths(rows')
    BY DEF Paths
  <2>4. Paths(rows)' \subseteq files' \cup condemned'
    BY <1>1, <2>1, <2>2, <2>3
  <2>5. QED
    BY <1>8, <2>4 DEF FilesOK, Tier
<1>22. QED
  BY <1>9, <1>18, <1>19, <1>20, <1>21 DEF StoreInv

\* What crash_group says of a group before the upsert, and that it covers the rows there are.
LEMMA BeforeUpsert ==
    ASSUME StoreInv, work.step \notin Holding, NEW row \in StoredRow
    PROVE  LET g   == GroupOf(row)
               old == IF g \in DOMAIN groups THEN groups[g]
                      ELSE [occurrence |-> 0, bytes |-> 0, last |-> row.at]
           IN  /\ old \in GroupState
               /\ Cardinality(Mates(rows, g)) <= old.occurrence
               /\ Cardinality(Mates(Present(rows), g)) <= old.bytes
<1> DEFINE g   == GroupOf(row)
           old == IF g \in DOMAIN groups THEN groups[g]
                  ELSE [occurrence |-> 0, bytes |-> 0, last |-> row.at]
<1>0. GroupsOK /\ groups \in [DOMAIN groups -> GroupState] /\ Weighing = Present(rows)
  BY Facts DEF Weighing
<1>1. CASE g \in DOMAIN groups
  <2>1. old = groups[g]
    BY <1>1
  <2>2. QED
    BY <1>0, <1>1, <2>1 DEF GroupsOK
<1>2. CASE g \notin DOMAIN groups
  <2>1. old = [occurrence |-> 0, bytes |-> 0, last |-> row.at]
    BY <1>2
  <2>2. old \in GroupState /\ old.occurrence = 0 /\ old.bytes = 0
    BY <2>1 DEF GroupState, StoredRow
  <2>3. Mates(rows, g) = {} /\ Mates(Present(rows), g) = {}
    BY <1>0, <1>2 DEF GroupsOK, Mates, Present
  <2>4. Cardinality(Mates(rows, g)) = 0 /\ Cardinality(Mates(Present(rows), g)) = 0
    BY <2>3, FS_EmptySet
  <2>5. QED
    BY <2>2, <2>4
<1>3. QED
  BY <1>1, <1>2

LEMMA InsertCommitOK == ASSUME StoreInv, NEW now \in Times, InsertCommit(now) PROVE StoreInv'
<1>0. /\ StoreTypeOK /\ IdsOK /\ GroupsOK /\ FilesOK /\ InsertOK /\ rows \subseteq StoredRow
      /\ IsFiniteSet(rows) /\ OneRowPerId(rows) /\ groups \in [DOMAIN groups -> GroupState]
      /\ work.chosen \subseteq StoredRow
  BY Facts
<1>1. /\ work.step = "insert" /\ \A r \in work.chosen : groups' = Upsert(r)
      /\ rows' = rows \cup work.chosen /\ work' = SweepFrom(now)
      /\ UNCHANGED <<files, lastId, request, serving, condemned, inserts, faults, lives>>
  BY DEF InsertCommit, bounds
<1>2. PICK row \in work.chosen :
        /\ work.chosen = {row} /\ work.paths = Paths({row}) /\ row.id = lastId
        /\ \A r \in rows : r.id # row.id
  BY <1>0, <1>1 DEF InsertOK
<1>3. row \in StoredRow /\ row \notin rows /\ rows' = rows \cup {row} /\ groups' = Upsert(row)
  BY <1>0, <1>1, <1>2
<1>4. work' \in WorkState /\ work'.step = "age"
  <2>1. now - MaxAge \in Int
    BY Constants
  <2>2. QED
    BY <1>1, <2>1, StepSet DEF SweepFrom, Doing, WorkState
<1>5. rows' \subseteq StoredRow /\ IsFiniteSet(rows')
  BY <1>0, <1>3, FS_AddElement
<1>6. IdsOK'
  <2>1. \A r \in rows : r.id <= lastId
    BY <1>0, <1>1 DEF IdsOK
  <2>2. row.id <= lastId
    BY <1>0, <1>2 DEF StoreTypeOK
  <2>3. OneRowPerId(rows)'
    BY <1>0, <1>2, <1>3 DEF OneRowPerId
  <2>4. QED
    BY <1>1, <1>3, <2>1, <2>2, <2>3 DEF IdsOK
<1> DEFINE g   == GroupOf(row)
           old == IF g \in DOMAIN groups THEN groups[g]
                  ELSE [occurrence |-> 0, bytes |-> 0, last |-> row.at]
           n   == Cardinality(Paths({row}))
           new == [occurrence |-> old.occurrence + 1, bytes |-> old.bytes + n,
                   last |-> IF row.at > old.last THEN row.at ELSE old.last]
<1>7. /\ old \in GroupState /\ Cardinality(Mates(rows, g)) <= old.occurrence
      /\ Cardinality(Mates(Present(rows), g)) <= old.bytes
  BY <1>1, <1>3, BeforeUpsert DEF Holding, Tier
<1>8. /\ groups' = [h \in DOMAIN groups \cup {g} |-> IF h = g THEN new ELSE groups[h]]
  BY <1>3 DEF Upsert
<1> HIDE DEF old, g
<1>9. n \in Nat /\ Cardinality(Present({row})) = n /\ IsFiniteSet(Present({row}))
  <2>1. CASE row.payload = "present"
    <3>1. Paths({row}) = {row.id} /\ Present({row}) = {row}
      BY <2>1 DEF Paths, Present
    <3>2. IsFiniteSet({row}) /\ Cardinality({row}) = 1 /\ Cardinality({row.id}) = 1
      BY FS_Singleton
    <3>3. QED
      BY <3>1, <3>2
  <2>2. CASE row.payload # "present"
    <3>1. Paths({row}) = {} /\ Present({row}) = {}
      BY <2>2 DEF Paths, Present
    <3>2. QED
      BY <3>1, FS_EmptySet
  <2>3. QED
    BY <2>1, <2>2
<1> HIDE DEF n
<1>10. /\ new \in GroupState /\ new.occurrence = old.occurrence + 1 /\ new.bytes = old.bytes + n
       /\ old.occurrence \in Nat /\ old.bytes \in Nat
  <2>1. old.occurrence \in Nat /\ old.bytes \in Nat /\ old.last \in Nat /\ row.at \in Nat
    BY <1>3, <1>7 DEF GroupState, StoredRow
  <2>2. QED
    BY <1>9, <2>1 DEF GroupState
<1> HIDE DEF new
<1>11. /\ DOMAIN groups' = DOMAIN groups \cup {g} /\ groups'[g] = new
       /\ \A h \in DOMAIN groups \ {g} : groups'[h] = groups[h]
       /\ groups' \in [DOMAIN groups' -> GroupState]
  BY <1>0, <1>8, <1>10
<1>12. Weighing = Present(rows) /\ Weighing' = Present(rows) \cup Present({row})
  BY <1>1, <1>3, <1>4 DEF Weighing, Present, Holding, Tier
<1>13. Cardinality(Mates(rows', g)) <= new.occurrence
  <2>1. Mates(rows', g) = Mates(rows, g) \cup {row} /\ row \notin Mates(rows, g)
    BY <1>3 DEF Mates, g
  <2>2. IsFiniteSet(Mates(rows, g)) /\ Cardinality(Mates(rows, g)) \in Nat
    BY <1>0, MatesOf
  <2>3. Cardinality(Mates(rows, g) \cup {row}) = Cardinality(Mates(rows, g)) + 1
    BY <2>1, <2>2, FS_AddElement
  <2>4. QED
    BY <1>7, <1>10, <2>1, <2>2, <2>3
<1>14. Cardinality(Mates(Weighing', g)) <= new.bytes
  <2> DEFINE M == Mates(Present(rows), g)
             N == Present({row})
  <2>1. Mates(Weighing', g) = M \cup N
    BY <1>12 DEF Mates, Present, g
  <2>2. IsFiniteSet(M) /\ Cardinality(M) \in Nat
    BY <1>0, PathsOfPresent, MatesOf
  <2>3. IsFiniteSet(N) /\ Cardinality(N) = n
    BY <1>9
  <2>4. Cardinality(M) <= old.bytes
    BY <1>7
  <2> HIDE DEF M, N
  <2>5. IsFiniteSet(M \cap N) /\ Cardinality(M \cap N) \in Nat
    BY <2>2, Smaller, FS_CardinalityType
  <2>6. Cardinality(M \cup N) = Cardinality(M) + n - Cardinality(M \cap N)
    BY <2>2, <2>3, FS_Union
  <2>7. QED
    BY <1>9, <1>10, <2>1, <2>2, <2>4, <2>5, <2>6
<1>15. ASSUME NEW h \in DOMAIN groups \ {g}
       PROVE  /\ Cardinality(Mates(rows', h)) <= groups'[h].occurrence
              /\ Cardinality(Mates(Weighing', h)) <= groups'[h].bytes
  <2>1. Mates(rows', h) = Mates(rows, h)
    BY <1>3 DEF Mates, g
  <2>2. Mates(Weighing', h) = Mates(Weighing, h)
    BY <1>12 DEF Mates, Present, g
  <2>3. QED
    BY <1>0, <1>11, <2>1, <2>2 DEF GroupsOK
<1>16. GroupsOK'
  <2>1. \A r \in rows' : GroupOf(r) \in DOMAIN groups'
    BY <1>0, <1>3, <1>11 DEF GroupsOK, g
  <2>2. QED
    BY <1>11, <1>13, <1>14, <1>15, <2>1 DEF GroupsOK, Mates, GroupOf
<1>17. StoreTypeOK'
  BY <1>0, <1>1, <1>4, <1>5, <1>11 DEF StoreTypeOK, WorkState, GroupState
<1>18. WorkOK' /\ RequestsOK'
  BY <1>1, <1>4, NoRows, RequestsKept DEF Holding, Tier
<1>19. FilesOK'
  <2>1. Paths(rows)' = Paths(rows) \cup Paths({row})
    BY <1>3 DEF Paths
  <2>2. Paths(rows) \subseteq files \cup condemned /\ Paths({row}) \subseteq files \cup condemned
    BY <1>0, <1>1, <1>2 DEF FilesOK
  <2>3. Paths(rows)' \subseteq files' \cup condemned'
    BY <1>1, <2>1, <2>2
  <2>4. QED
    BY <1>4, <2>3 DEF FilesOK, Tier
<1>20. CeilingsOK'
  BY <1>4 DEF CeilingsOK, BeforeTotal, BeforeGroups
<1>21. QED
  BY <1>6, <1>16, <1>17, <1>18, <1>19, <1>20 DEF StoreInv

-----------------------------------------------------------------------------
(* The life of the process. *)

LEMMA DieOK == ASSUME StoreInv, Die PROVE StoreInv'
<1>0. StoreTypeOK /\ rows \subseteq StoredRow
  BY Facts
<1>1. /\ work' = [Idle EXCEPT !.step = "down"] /\ request' = [c \in Client |-> NoRequest]
      /\ lastId' = 0 /\ serving' = FALSE
      /\ UNCHANGED <<rows, groups, files, condemned, inserts, faults, lives>>
  BY DEF Die, index, bounds
<1>2. work' \in WorkState /\ work'.step = "down"
  BY <1>1, StepSet DEF WorkState
<1>3. StoreTypeOK'
  BY <1>0, <1>1, <1>2 DEF StoreTypeOK, WorkState
<1>4. WorkOK'
  BY <1>2, NoRows DEF Holding, Tier
<1>5. RequestsOK'
  <2>1. \A c \in Client : request'[c] = NoRequest
    BY <1>1
  <2>2. request' = [c \in Client |-> request'[c]]
    BY <1>1
  <2>3. QED
    BY <2>1, <2>2, NoRequestOK DEF RequestsOK, RequestOK
<1>6. FilesOK'
  <2>1. Paths(rows)' \subseteq Paths(rows)
    BY <1>1 DEF Paths
  <2>2. QED
    BY <1>1, <1>2, <2>1, FilesKept DEF Tier
<1>7. CeilingsOK'
  BY <1>2 DEF CeilingsOK, BeforeTotal, BeforeGroups
<1>8. Weighing' \subseteq Weighing
  BY <1>1, <1>2, NothingHeld DEF Holding, Tier
<1>9. QED
  BY <1>1, <1>2, <1>3, <1>4, <1>5, <1>6, <1>7, <1>8, IndexKept

\* resume_ids finds the largest id of the index.
LEMMA Resumed ==
    ASSUME NEW S, S \subseteq StoredRow, IsFiniteSet(S)
    PROVE  ResumeIds(S) \in Nat /\ \A r \in S : r.id <= ResumeIds(S)
<1> DEFINE I == Ids(S)
           f == [r \in S |-> r.id]
<1>1. CASE S = {}
  BY <1>1 DEF ResumeIds
<1>2. CASE S # {}
  <2>1. f \in Surjection(S, I)
    BY DEF Surjection, Ids
  <2>2. I \subseteq Nat /\ I # {} /\ \A r \in S : r.id \in I
    BY <1>2 DEF Ids, StoredRow
  <2> HIDE DEF I, f
  <2>3. IsFiniteSet(I)
    BY <2>1, FS_Surjection
  <2>4. Max(I) \in I /\ \A y \in I : y <= Max(I)
    BY <2>2, <2>3, LargestNumber
  <2>5. ResumeIds(S) = Max(I)
    BY <1>2 DEF ResumeIds, I
  <2>6. QED
    BY <2>2, <2>4, <2>5
<1>3. QED
  BY <1>1, <1>2

LEMMA OpenOK == ASSUME StoreInv, NEW now \in Times, Open(now) PROVE StoreInv'
<1>0. StoreTypeOK /\ rows \subseteq StoredRow /\ IsFiniteSet(rows) /\ FilesOK
  BY Facts
<1>1. /\ lastId' = ResumeIds(rows) /\ work' = SweepFrom(now)
      /\ serving' = FALSE /\ lives' = lives + 1
      /\ UNCHANGED <<rows, groups, request, condemned, inserts>>
  BY DEF Open, index
<1>2. /\ files' \subseteq files /\ files \cap Paths(rows) \subseteq files'
      /\ faults' \in {faults, faults + 1}
  BY DEF Open, RemoveOrphans, Fault
<1>3. work' \in WorkState /\ work'.step = "age"
  <2>1. now - MaxAge \in Int
    BY Constants
  <2>2. QED
    BY <1>1, <2>1, StepSet DEF SweepFrom, Doing, WorkState
<1>4. lastId' \in Nat /\ \A r \in rows : r.id <= lastId'
  BY <1>0, <1>1, Resumed
<1>5. StoreTypeOK'
  <2>1. files' \subseteq Nat /\ faults' \in Nat /\ lives' \in Nat
    BY <1>0, <1>1, <1>2 DEF StoreTypeOK
  <2>2. serving' \in BOOLEAN
    BY <1>1
  <2>3. QED
    BY <1>0, <1>1, <1>3, <1>4, <2>1, <2>2 DEF StoreTypeOK, WorkState
<1>6. WorkOK' /\ RequestsOK'
  BY <1>1, <1>3, NoRows, RequestsKept DEF Holding, Tier
<1>7. FilesOK'
  <2>1. Paths(rows)' = Paths(rows)
    BY <1>1 DEF Paths
  <2>2. Paths(rows)' \subseteq files' \cup condemned'
    BY <1>0, <1>1, <1>2, <2>1 DEF FilesOK
  <2>3. QED
    BY <1>3, <2>2 DEF FilesOK, Tier
<1>8. CeilingsOK'
  BY <1>3 DEF CeilingsOK, BeforeTotal, BeforeGroups
<1>9. Weighing' \subseteq Weighing
  BY <1>1, <1>3, NothingHeld DEF Holding, Tier
<1>10. QED
  BY <1>1, <1>4, <1>5, <1>6, <1>7, <1>8, <1>9, IndexKept

-----------------------------------------------------------------------------
(* The specification. *)

LEMMA InitOK == StoreInit => StoreInv
<1> SUFFICES ASSUME StoreInit PROVE StoreInv
  OBVIOUS
<1>1. /\ rows = {} /\ groups = [g \in {} |-> 0] /\ files = {} /\ lastId = 0 /\ work = Idle
      /\ request = [c \in Client |-> NoRequest] /\ serving = TRUE /\ condemned = {}
      /\ inserts = 0 /\ faults = 0 /\ lives = 1
  BY DEF StoreInit
<1>2. work \in WorkState /\ work.step = "idle"
  BY <1>1, StepSet
<1>3. IsFiniteSet(rows) /\ Cardinality(rows) = 0
  BY <1>1, FS_EmptySet
<1>4. DOMAIN groups = {} /\ groups \in [DOMAIN groups -> GroupState]
  BY <1>1
<1>5. StoreTypeOK
  BY <1>1, <1>2, <1>3, <1>4 DEF StoreTypeOK, WorkState, GroupState
<1>6. IdsOK /\ GroupsOK
  BY <1>1, <1>4 DEF IdsOK, OneRowPerId, GroupsOK
<1>7. WorkOK
  BY <1>2 DEF WorkOK, InsertOK, FoldOK, SweepOK, Holding, Tier
<1>8. RequestsOK
  <2>1. RequestOK(NoRequest, condemned)
    BY DEF RequestOK, NoRequest
  <2>2. QED
    BY <1>1, <2>1 DEF RequestsOK
<1>9. FilesOK
  BY <1>1, <1>2 DEF FilesOK, Paths, Tier, Idle, Doing
<1>10. CeilingsOK
  BY <1>1, <1>2, <1>3, Constants DEF CeilingsOK, GroupCeiling, BeforeTotal, BeforeGroups
<1>11. QED
  BY <1>5, <1>6, <1>7, <1>8, <1>9, <1>10 DEF StoreInv

LEMMA SweepStepOK == ASSUME StoreInv, Sweep PROVE StoreInv'
  BY SweepAgeOK, SweepGroupsOK, CountTotalOK, SweepTotalOK, SweepCommitOK, SweepUnlinkOK,
     DropEmptyGroupsOK, QuotaOK, CandidatesOK, EvictUnlinkOK, EvictCommitOK, EndOK
  DEF Sweep

LEMMA StutterOK == ASSUME StoreInv, UNCHANGED storeVars PROVE StoreInv'
<1>1. UNCHANGED <<rows, groups, files, lastId, work, request, serving, condemned, inserts, faults, lives>>
  BY DEF storeVars, index, bounds
<1>2. RequestsOK' /\ condemned \subseteq Nat
  BY <1>1, RequestsKept, Facts DEF StoreTypeOK
<1>3. QED
  BY <1>1, <1>2, GroupsAsTheyAre, ManagerKeeps

LEMMA StoreStep == ASSUME StoreInv, [StoreNext]_storeVars PROVE StoreInv'
  BY InsertBeginOK, InsertCommitOK, OpenOK, AbortOK, FoldBeginOK, FoldCommitOK, SweepStepOK,
     DeleteOK, DieOK, StutterOK
  DEF StoreNext

\* The invariant the store's theorems rest on: one row per id with the generator past them all,
\* what the ingest thread and each connection hold between two steps, where the payload files
\* are, and what the groups and the ceilings are worth in the middle of a sweep.
THEOREM StoreInvariance == StoreSpec => []StoreInv
  BY InitOK, StoreStep, PTL DEF StoreSpec

\* The index, the directory and the threads keep their types; the counts of a group and the
\* number of rows a sweep has left to evict never fall below zero.
THEOREM StoreTypes == StoreSpec => []StoreTypeOK
<1>1. StoreInv => StoreTypeOK
  BY DEF StoreInv
<1>2. QED
  BY <1>1, StoreInvariance, PTL

\* next_id never hands out an id that is in use, over any number of restarts.
THEOREM FreshIds == StoreSpec => []IdsAreFresh
<1>1. ASSUME StoreInv PROVE IdsAreFresh
  <2>1. IdsOK /\ InsertOK
    BY <1>1, Facts
  <2>2. QED
    BY <2>1 DEF IdsOK, InsertOK, IdsAreFresh, Ids
<1>2. QED
  BY <1>1, StoreInvariance, PTL

\* A payload file is unlinked only by a sweep or a deletion that had chosen its record: neither
\* the clean-up of a failed insert or fold nor remove_orphans takes one.
THEOREM PayloadsAreSafe == StoreSpec => []LostPayloadWasChosen
<1>1. ASSUME StoreInv PROVE LostPayloadWasChosen
  BY <1>1, Facts DEF FilesOK, LostPayloadWasChosen
<1>2. QED
  BY <1>1, StoreInvariance, PTL

\* An idle ingest thread leaves the record ceilings kept, also after a crash in mid-sweep.
THEOREM CeilingsAreKept == StoreSpec => []CeilingsHold
<1>1. ASSUME StoreInv PROVE CeilingsHold
  <2> SUFFICES ASSUME work.step = "idle", faults = 0
               PROVE  /\ Cardinality(rows) <= MaxTotal
                      /\ \A r \in rows : Cardinality({s \in rows : SameGroup(r, s)}) <= MaxPerGroup
    BY DEF CeilingsHold
  <2>1. Cardinality(rows) <= MaxTotal /\ GroupCeiling(rows)
    BY <1>1, Facts DEF CeilingsOK, BeforeTotal, BeforeGroups
  <2>2. \A r \in rows : {s \in rows : SameGroup(r, s)} = Mates(rows, GroupOf(r))
    BY Grouped DEF Mates
  <2>3. QED
    BY <2>1, <2>2 DEF GroupCeiling
<1>2. QED
  BY <1>1, StoreInvariance, PTL

\* Every record's group exists, counts it and weighs its payload, however deletions fall
\* between the steps of a sweep or a fold: payload_bytes may be too high, never too low.
THEOREM GroupsCover == StoreSpec => []GroupsCoverRows
<1>1. ASSUME StoreInv PROVE GroupsCoverRows
  <2>0. GroupsOK /\ IsFiniteSet(rows) /\ IsFiniteSet(Weighing) /\ groups \in [DOMAIN groups -> GroupState]
    BY <1>1, Facts
  <2> SUFFICES ASSUME NEW r \in rows
               PROVE  LET mates == {s \in rows : SameGroup(r, s)}
                      IN  /\ GroupOf(r) \in DOMAIN groups
                          /\ groups[GroupOf(r)].occurrence >= Cardinality(mates)
                          /\ groups[GroupOf(r)].bytes >= Cardinality(Paths(mates))
    BY DEF GroupsCoverRows
  <2> DEFINE g == GroupOf(r)
             M == Mates(rows, g)
  <2>1. {s \in rows : SameGroup(r, s)} = M
    BY Grouped DEF Mates
  <2>2. g \in DOMAIN groups
    BY <2>0 DEF GroupsOK
  <2>3. Cardinality(M) <= groups[g].occurrence /\ Cardinality(Mates(Weighing, g)) <= groups[g].bytes
    BY <2>0, <2>2 DEF GroupsOK
  <2>4. groups[g].occurrence \in Nat /\ groups[g].bytes \in Nat
    BY <2>0, <2>2 DEF GroupState
  <2>5. IsFiniteSet(M) /\ Cardinality(M) \in Nat
    BY <2>0, MatesOf
  <2>6. Present(M) \subseteq Mates(Weighing, g)
    BY DEF Present, Mates, Weighing
  <2>7. IsFiniteSet(Mates(Weighing, g))
    BY <2>0, MatesOf
  <2> HIDE DEF M
  <2>8. /\ Cardinality(Present(M)) <= Cardinality(Mates(Weighing, g))
        /\ Cardinality(Present(M)) \in Nat /\ Cardinality(Mates(Weighing, g)) \in Nat
    BY <2>6, <2>7, Smaller
  <2>9. Cardinality(Paths(M)) <= Cardinality(Present(M)) /\ Cardinality(Paths(M)) \in Nat
    BY <2>5, PathsOfPresent, FS_CardinalityType
  <2>10. groups[g].occurrence >= Cardinality(M) /\ groups[g].bytes >= Cardinality(Paths(M))
    BY <2>3, <2>4, <2>5, <2>8, <2>9
  <2>11. QED
    BY <2>1, <2>2, <2>10
<1>2. QED
  BY <1>1, StoreInvariance, PTL

=============================================================================
