---------------------------- MODULE Paging_proofs -----------------------------
(***************************************************************************)
(* Scrolling, for every number of groups, records, times, filters and page *)
(* sizes: whatever is recorded and deleted between two pages, no row that  *)
(* was left alone is shown twice, out of order, or not at all.             *)
(***************************************************************************)
EXTENDS Paging, FiniteSetTheorems, WellFoundedInduction, TLAPS

-----------------------------------------------------------------------------
(* The invariant. *)

Cursor == [sort : SortKey, anchor : Nat, tiebreak : Nat]

GroupRow == [first : Nat, last : Nat, occurrence : Nat]

\* The index: one row per id, each below the next one.
IndexOK ==
    /\ groups \in [DOMAIN groups -> GroupRow] /\ DOMAIN groups \subseteq Group
    /\ IsFiniteSet(DOMAIN groups)
    /\ records \subseteq [id : Nat, group : Group, at : Nat] /\ IsFiniteSet(records)
    /\ issued \in Nat
    /\ \A r \in records : r.id <= issued
    /\ \A r, s \in records : r.id = s.id => r = s

ShapeOK ==
    /\ scroll = [sort |-> scroll.sort, of |-> scroll.of, cursor |-> scroll.cursor,
                 got |-> scroll.got, done |-> scroll.done]
    /\ scroll.sort \in SortKey /\ scroll.cursor \in Cursor \cup {NoCursor}
    /\ scroll.got \in Seq(Nat) /\ scroll.done \in BOOLEAN

\* The order in which the rows listed so far were taken.
Key == IF scroll.cursor = NoCursor THEN scroll.sort ELSE scroll.cursor.sort

\* The rows that match, and their place in that order.
Matching == Rows(Key, scroll.of)
Place    == [x \in Matching |-> Column(Key, x)]

\* Those that nobody touched.
Alone == Matching \ touched

CursorOK ==
    IF scroll.cursor = NoCursor
    THEN scroll.done \/ scroll.got = <<>>
    ELSE /\ ~scroll.done /\ scroll.got # <<>>
         /\ scroll.cursor.sort = "record" <=> scroll.sort = "record"

Reached(k, cursor, a, x) ==
    \/ x = cursor.tiebreak /\ a = cursor.anchor
    \/ Before(k, a, x, cursor.anchor, cursor.tiebreak)

Behind(k, cursor, a, x) == Before(k, cursor.anchor, cursor.tiebreak, a, x)

\* The cursor separates what was listed from what was not.
SplitOK ==
    /\ Listed \ touched \subseteq Matching
    /\ scroll.done => Alone \subseteq Listed
    /\ scroll.cursor # NoCursor => \A x \in Alone :
        IF x \in Listed THEN Reached(Key, scroll.cursor, Place[x], x)
        ELSE Behind(Key, scroll.cursor, Place[x], x)

OrderOK ==
    \A i, j \in 1..Len(scroll.got) :
        LET x == scroll.got[i]  y == scroll.got[j] IN
        i < j /\ x \notin touched /\ y \notin touched => Before(Key, Place[x], x, Place[y], y)

PgInv == IndexOK /\ ShapeOK /\ CursorOK /\ SplitOK /\ OrderOK

-----------------------------------------------------------------------------
(* The order. *)

LEMMA BeforeIsOrder ==
    ASSUME NEW k, NEW a \in Nat, NEW x \in Nat, NEW b \in Nat, NEW y \in Nat
    PROVE  /\ x # y => Before(k, a, x, b, y) \/ Before(k, b, y, a, x)
           /\ \A c, z \in Nat : Before(k, a, x, b, y) /\ Before(k, b, y, c, z) => Before(k, a, x, c, z)
  BY DEF Before, IsDescending

\* An id names one record.
LEMMA OneRecord ==
    ASSUME NEW R, \A r, s \in R : r.id = s.id => r = s, NEW r \in R
    PROVE  (CHOOSE q \in R : q.id = r.id) = r
  OBVIOUS

LEMMA Shapes ==
    ASSUME PgInv
    PROVE  /\ IndexOK /\ ShapeOK /\ CursorOK /\ SplitOK /\ OrderOK
           /\ Key \in SortKey /\ Matching \subseteq Nat /\ IsFiniteSet(Matching)
           /\ Place \in [Matching -> Nat]
<1>1. IndexOK /\ ShapeOK /\ CursorOK /\ SplitOK /\ OrderOK
  BY DEF PgInv
<1>2. Key \in SortKey
  BY <1>1 DEF ShapeOK, Key, Cursor
<1>3. CASE Key = "record"
  <2> DEFINE R == {r \in records : r.group = scroll.of}
             f == [r \in R |-> r.id]
  <2>1. Matching = {r.id : r \in R}
    BY <1>3 DEF Matching, Rows
  <2>2. f \in Surjection(R, Matching)
    BY <2>1 DEF Surjection
  <2>3. IsFiniteSet(R)
    BY <1>1, FS_Subset DEF IndexOK
  <2>4. Matching \subseteq Nat
    BY <1>1, <2>1 DEF IndexOK
  <2>5. ASSUME NEW r \in R PROVE Column(Key, r.id) = r.at /\ r.at \in Nat
    <3>1. (CHOOSE q \in records : q.id = r.id) = r
      BY <1>1, OneRecord DEF IndexOK
    <3>2. QED
      BY <1>1, <1>3, <3>1 DEF Column, IndexOK
  <2>6. Place \in [Matching -> Nat]
    BY <2>1, <2>5 DEF Place
  <2> HIDE DEF R, f
  <2>7. IsFiniteSet(Matching)
    BY <2>2, <2>3, FS_Surjection
  <2>8. QED
    BY <1>1, <1>2, <2>4, <2>6, <2>7
<1>4. CASE Key # "record"
  <2>1. Matching \subseteq DOMAIN groups
    BY <1>4 DEF Matching, Rows
  <2>2. IsFiniteSet(Matching)
    BY <1>1, <2>1, FS_Subset DEF IndexOK
  <2>3. \A x \in DOMAIN groups : x \in Nat /\ groups[x] \in GroupRow /\ Traits[x].pkg \in Nat
    BY <1>1, PagingAssumption DEF IndexOK
  <2>4. \A x \in DOMAIN groups : Column(Key, x) \in Nat
    BY <1>2, <1>4, <2>3 DEF Column, GroupRow, SortKey
  <2>5. QED
    BY <1>1, <1>2, <2>1, <2>2, <2>3, <2>4 DEF Place
<1>5. QED
  BY <1>3, <1>4

-----------------------------------------------------------------------------
(* The index changes around a client. *)

LEMMA OutsideOK ==
    ASSUME PgInv, IndexOK', scroll' = scroll,
           \/ scroll.got = <<>> /\ ~scroll.done
           \/ /\ touched \subseteq touched'
              /\ \A x : x \notin touched' => (x \in Matching <=> x \in Matching')
              /\ \A x \in Matching : x \notin touched' => Place[x] = Place'[x]
    PROVE  PgInv'
<1>0. ShapeOK /\ CursorOK /\ SplitOK /\ OrderOK /\ Key' = Key /\ Listed' = Listed
  BY Shapes DEF Key, Listed
<1>1. ShapeOK' /\ CursorOK'
  BY <1>0 DEF ShapeOK, CursorOK, Cursor
<1>2. CASE scroll.got = <<>> /\ ~scroll.done
  <2>1. scroll.cursor = NoCursor /\ Listed = {}
    BY <1>0, <1>2 DEF CursorOK, Listed, Range
  <2>2. SplitOK' /\ OrderOK'
    BY <1>0, <1>2, <2>1 DEF SplitOK, OrderOK
  <2>3. QED
    BY <1>1, <2>2 DEF PgInv
<1>3. CASE /\ touched \subseteq touched'
           /\ \A x : x \notin touched' => (x \in Matching <=> x \in Matching')
           /\ \A x \in Matching : x \notin touched' => Place[x] = Place'[x]
  <2>1. \A x \in Listed : x \notin touched' => x \in Alone
    BY <1>0, <1>3 DEF SplitOK, Alone
  <2>2. \A x \in Alone' : x \in Alone /\ Place'[x] = Place[x]
    BY <1>3 DEF Alone
  <2>3. SplitOK'
    BY <1>0, <1>3, <2>1, <2>2 DEF SplitOK, Alone, Reached, Behind, Before, IsDescending
  <2>4. OrderOK'
    <3> SUFFICES ASSUME NEW i \in 1..Len(scroll.got), NEW j \in 1..Len(scroll.got), i < j,
                        scroll.got[i] \notin touched', scroll.got[j] \notin touched'
                 PROVE  Before(Key, Place'[scroll.got[i]], scroll.got[i],
                               Place'[scroll.got[j]], scroll.got[j])
      BY <1>0 DEF OrderOK, Before, IsDescending
    <3>1. scroll.got[i] \in Listed /\ scroll.got[j] \in Listed
      BY <1>0 DEF Listed, Range, ShapeOK
    <3>2. /\ Place'[scroll.got[i]] = Place[scroll.got[i]]
          /\ Place'[scroll.got[j]] = Place[scroll.got[j]]
      BY <1>3, <2>1, <3>1 DEF Alone
    <3>3. QED
      BY <1>0, <1>3, <3>2 DEF OrderOK
  <2>5. QED
    BY <1>1, <2>3, <2>4 DEF PgInv
<1>4. QED
  BY <1>2, <1>3

\* What a record or a deletion leaves alone keeps its place in the list.
LEMMA RecordsOutside ==
    ASSUME PgInv, IndexOK', scroll' = scroll, Key = "record", touched \subseteq touched',
           \A r \in records \cup records' : r.id \notin touched' => (r \in records <=> r \in records')
    PROVE  PgInv'
<1>0. IndexOK /\ Key' = Key
  BY Shapes DEF Key
<1>1. /\ Matching = {r.id : r \in {x \in records : x.group = scroll.of}}
      /\ Matching' = {r.id : r \in {x \in records' : x.group = scroll.of}}
  BY <1>0 DEF Matching, Rows
<1>2. \A x : x \notin touched' => (x \in Matching <=> x \in Matching')
  BY <1>1
<1>3. ASSUME NEW x \in Matching, x \notin touched'
      PROVE  Place[x] = Place'[x]
  <2>1. PICK r \in records : r.id = x
    BY <1>1
  <2>2. r \in records' /\ x \in Matching'
    BY <1>2, <1>3, <2>1
  <2>3. (CHOOSE q \in records : q.id = x) = r
    BY <1>0, <2>1, OneRecord DEF IndexOK
  <2>4. (CHOOSE q \in records' : q.id = x) = r
    BY <2>1, <2>2, OneRecord DEF IndexOK
  <2>5. Place[x] = Column(Key, x) /\ Place'[x] = Column(Key, x)'
    BY <1>0, <1>3, <2>2 DEF Place
  <2>6. QED
    BY <1>0, <2>3, <2>4, <2>5 DEF Column
<1>4. QED
  BY <1>2, <1>3, OutsideOK

LEMMA GroupsOutside ==
    ASSUME PgInv, IndexOK', scroll' = scroll, Key # "record", touched \subseteq touched',
           \A x : x \notin touched' => (x \in DOMAIN groups <=> x \in DOMAIN groups'),
           \A x \in DOMAIN groups : x \notin touched' => groups[x] = groups'[x]
    PROVE  PgInv'
<1>0. Key \in SortKey /\ Key' = Key
  BY Shapes DEF Key
<1>1. /\ Matching = {g \in DOMAIN groups : Within(scroll.of, g)}
      /\ Matching' = {g \in DOMAIN groups' : Within(scroll.of, g)'}
  BY <1>0 DEF Matching, Rows
<1>2. \A x \in DOMAIN groups : x \notin touched' => (Within(scroll.of, x) <=> Within(scroll.of, x)')
  BY DEF Within
<1>3. \A x : x \notin touched' => (x \in Matching <=> x \in Matching')
  BY <1>1, <1>2
<1>4. ASSUME NEW x \in Matching, x \notin touched'
      PROVE  Place[x] = Place'[x]
  <2>1. x \in DOMAIN groups /\ x \in Matching'
    BY <1>1, <1>3, <1>4
  <2>2. Place[x] = Column(Key, x) /\ Place'[x] = Column(Key, x)'
    BY <1>0, <1>4, <2>1 DEF Place
  <2>3. groups[x] = groups'[x]
    BY <1>4, <2>1
  <2>4. QED
    BY <1>0, <2>2, <2>3 DEF Column, SortKey
<1>5. QED
  BY <1>3, <1>4, OutsideOK

LEMMA SortOfKey ==
    ASSUME PgInv
    PROVE  Key = "record" <=> scroll.sort = "record"
  BY Shapes DEF CursorOK, Key

LEMMA ExtremesOfTwo ==
    ASSUME NEW a \in Nat, NEW b \in Nat
    PROVE  Min({a, b}) \in Nat /\ Max({a, b}) \in Nat
<1>1. CASE a <= b
  <2>1. Min({a, b}) \in {a, b} /\ Max({a, b}) \in {a, b}
    BY <1>1 DEF Min, Max
  <2>2. QED
    BY <2>1
<1>2. CASE b <= a
  <2>1. Min({a, b}) \in {a, b} /\ Max({a, b}) \in {a, b}
    BY <1>2 DEF Min, Max
  <2>2. QED
    BY <2>1
<1>3. QED
  BY <1>1, <1>2

LEMMA RecordOK ==
    ASSUME PgInv, NEW g \in Group, NEW t \in Time, Record(g, t)
    PROVE  PgInv'
<1> DEFINE new == [id |-> issued + 1, group |-> g, at |-> t]
<1>0. /\ IndexOK /\ t \in Nat /\ issued' = issued + 1 /\ records' = records \cup {new}
      /\ scroll' = scroll
  BY Shapes, PagingAssumption DEF Record
<1>1. DOMAIN groups' = DOMAIN groups \cup {g}
  BY DEF Record
<1>2. \A x \in DOMAIN groups : x # g => groups'[x] = groups[x]
  BY DEF Record
<1>3. groups'[g] \in GroupRow
  <2>1. CASE g \notin DOMAIN groups
    BY <1>0, <2>1 DEF Record, GroupRow
  <2>2. CASE g \in DOMAIN groups
    <3>1. groups[g] \in GroupRow
      BY <1>0, <2>2 DEF IndexOK
    <3>2. groups[g].first \in Nat /\ groups[g].last \in Nat /\ groups[g].occurrence + 1 \in Nat
      BY <3>1 DEF GroupRow
    <3>3. Min({groups[g].first, t}) \in Nat
      BY <1>0, <3>2, ExtremesOfTwo
    <3>4. Max({groups[g].last, t}) \in Nat
      BY <1>0, <3>2, ExtremesOfTwo
    <3>5. groups'[g] = [first |-> Min({groups[g].first, t}), last |-> Max({groups[g].last, t}),
                        occurrence |-> groups[g].occurrence + 1]
      BY <2>2 DEF Record
    <3>6. QED
      BY <3>2, <3>3, <3>4, <3>5 DEF GroupRow
  <2>3. QED
    BY <2>1, <2>2
<1>4. groups' \in [DOMAIN groups' -> GroupRow] /\ DOMAIN groups' \subseteq Group
  <2>1. groups' = [x \in DOMAIN groups' |-> groups'[x]]
    BY DEF Record
  <2>2. \A x \in DOMAIN groups' : groups'[x] \in GroupRow
    BY <1>0, <1>1, <1>2, <1>3 DEF IndexOK
  <2>3. QED
    BY <1>0, <1>1, <2>1, <2>2 DEF IndexOK
<1>5. IsFiniteSet(DOMAIN groups') /\ IsFiniteSet(records')
  <2>1. IsFiniteSet(DOMAIN groups) /\ IsFiniteSet(records)
    BY <1>0 DEF IndexOK
  <2>2. IsFiniteSet(DOMAIN groups \cup {g})
    BY <2>1, FS_AddElement
  <2>3. IsFiniteSet(records \cup {new})
    BY <2>1, FS_AddElement
  <2>4. QED
    BY <1>0, <1>1, <2>2, <2>3
<1>6. new \in [id : Nat, group : Group, at : Nat]
  BY <1>0 DEF IndexOK
<1>7. records' \subseteq [id : Nat, group : Group, at : Nat] /\ issued' \in Nat
  BY <1>0, <1>6 DEF IndexOK
<1>8. \A r \in records' : r.id <= issued'
  BY <1>0 DEF IndexOK
<1>9. \A r, s \in records' : r.id = s.id => r = s
  BY <1>0 DEF IndexOK
<1>10. IndexOK'
  BY <1>4, <1>5, <1>7, <1>8, <1>9 DEF IndexOK
<1>11. CASE scroll.got = <<>> /\ ~scroll.done
  BY <1>0, <1>10, <1>11, OutsideOK
<1>12. CASE ~(scroll.got = <<>> /\ ~scroll.done)
  <2>1. CASE scroll.sort = "record"
    <3>1. touched' = touched \cup {issued + 1}
      BY <1>12, <2>1 DEF Record, Touch
    <3>2. \A r \in records \cup records' : r.id \notin touched' => (r \in records <=> r \in records')
      BY <1>0, <3>1
    <3>3. QED
      BY <1>0, <1>10, <2>1, <3>1, <3>2, SortOfKey, RecordsOutside
  <2>2. CASE scroll.sort # "record"
    <3>1. touched' = touched \cup {g}
      BY <1>12, <2>2 DEF Record, Touch
    <3>2. \A x : x \notin touched' => (x \in DOMAIN groups <=> x \in DOMAIN groups')
      BY <1>1, <3>1
    <3>3. \A x \in DOMAIN groups : x \notin touched' => groups[x] = groups'[x]
      BY <1>2, <3>1
    <3>4. QED
      BY <1>0, <1>10, <2>2, <3>1, <3>2, <3>3, SortOfKey, GroupsOutside
  <2>3. QED
    BY <2>1, <2>2
<1>13. QED
  BY <1>11, <1>12

LEMMA EraseOK ==
    ASSUME PgInv, NEW gone \in SUBSET records, Erase(gone)
    PROVE  PgInv'
<1> DEFINE kept == DOMAIN groups \cap {r.group : r \in records'}
<1>0. /\ IndexOK /\ issued' = issued /\ records' = {r \in records : r \notin gone}
      /\ scroll' = scroll
  BY Shapes DEF Erase
<1>1. groups' = [x \in kept |-> groups[x]]
  BY <1>0 DEF Erase, Restrict
<1>2. kept \subseteq DOMAIN groups
  OBVIOUS
<1> HIDE DEF kept
<1>3. IsFiniteSet(kept) /\ IsFiniteSet(records')
  BY <1>0, <1>2, FS_Subset DEF IndexOK
<1>4. groups' \in [kept -> GroupRow] /\ DOMAIN groups' = kept
  BY <1>0, <1>1, <1>2 DEF IndexOK
<1>5. IndexOK'
  BY <1>0, <1>2, <1>3, <1>4 DEF IndexOK
<1>6. CASE scroll.got = <<>> /\ ~scroll.done
  BY <1>0, <1>5, <1>6, OutsideOK
<1>7. CASE ~(scroll.got = <<>> /\ ~scroll.done)
  <2>1. CASE scroll.sort = "record"
    <3>1. touched' = touched \cup {r.id : r \in gone}
      BY <1>7, <2>1 DEF Erase, Touch
    <3>2. \A r \in records \cup records' : r.id \notin touched' => (r \in records <=> r \in records')
      BY <1>0, <3>1
    <3>3. QED
      BY <1>0, <1>5, <2>1, <3>1, <3>2, SortOfKey, RecordsOutside
  <2>2. CASE scroll.sort # "record"
    <3>1. touched' = touched \cup (DOMAIN groups \ kept)
      BY <1>0, <1>7, <2>2 DEF Erase, Touch, kept
    <3>2. \A x : x \notin touched' => (x \in DOMAIN groups <=> x \in DOMAIN groups')
      BY <1>2, <1>4, <3>1
    <3>3. \A x \in DOMAIN groups : x \notin touched' => groups[x] = groups'[x]
      BY <1>1, <3>1
    <3>4. QED
      BY <1>0, <1>5, <2>2, <3>1, <3>2, <3>3, SortOfKey, GroupsOutside
  <2>3. QED
    BY <2>1, <2>2
<1>8. QED
  BY <1>6, <1>7

-----------------------------------------------------------------------------
(* A page. *)

\* The rows of a page come first in the order, and its cursor is the last of
\* them: it separates them from the rows that are left.
LEMMA PageSplits ==
    ASSUME NEW sort \in SortKey, NEW ids, ids \subseteq Nat, IsFiniteSet(ids),
           \A x \in ids : Column(sort, x) \in Nat,
           NEW rows \in Ordered(sort, ids), NEW n \in Nat,
           NEW page, page = PageOf(sort, rows, n)
    PROVE  /\ page.items \in Seq(ids)
           /\ \A i, j \in 1..Len(page.items) : i < j =>
                Before(sort, Column(sort, page.items[i]), page.items[i],
                             Column(sort, page.items[j]), page.items[j])
           /\ \/ page.next = NoCursor /\ Range(page.items) = ids
              \/ /\ page.next \in Cursor /\ page.next # NoCursor /\ page.next.sort = sort
                 /\ page.items # <<>> /\ page.next.tiebreak \in ids
                 /\ page.next.anchor = Column(sort, page.next.tiebreak)
                 /\ \A x \in ids :
                      IF x \in Range(page.items) THEN Reached(sort, page.next, Column(sort, x), x)
                      ELSE Behind(sort, page.next, Column(sort, x), x)
<1> DEFINE m == EffectiveLimit(n)
<1>1. m \in Nat /\ m >= 1
  BY PagingAssumption DEF EffectiveLimit
<1>2. Cardinality(ids) \in Nat
  BY FS_CardinalityType
<1>3. /\ rows \in Seq(ids) /\ Len(rows) = Cardinality(ids) /\ Range(rows) = ids
      /\ \A i, j \in 1..Len(rows) : i < j =>
            Before(sort, Column(sort, rows[i]), rows[i], Column(sort, rows[j]), rows[j])
  <2>1. /\ rows \in [1..Cardinality(ids) -> ids] /\ Range(rows) = ids
        /\ \A i, j \in DOMAIN rows : i < j =>
             Before(sort, Column(sort, rows[i]), rows[i], Column(sort, rows[j]), rows[j])
    BY DEF Ordered
  <2>2. rows \in Seq(ids) /\ Len(rows) = Cardinality(ids)
    BY <1>2, <2>1
  <2>3. QED
    BY <2>1, <2>2
<1> HIDE DEF m
<1>4. CASE Len(rows) <= m
  <2>1. page = [items |-> rows, next |-> NoCursor]
    BY <1>1, <1>3, <1>4 DEF PageOf, m
  <2>2. page.items = rows /\ page.next = NoCursor
    BY <2>1
  <2>3. QED
    BY <1>3, <2>2
<1>5. CASE Len(rows) > m
  <2> DEFINE cut  == SubSeq(rows, 1, m)
             last == rows[m]
  <2>1. cut \in Seq(ids) /\ Len(cut) = m /\ \A i \in 1..m : cut[i] = rows[i]
    BY <1>1, <1>3, <1>5
  <2>2. last \in ids /\ Last(cut) = last /\ cut # <<>>
    BY <1>1, <1>3, <1>5, <2>1 DEF Last
  <2>3. page = [items |-> cut, next |-> CursorAfter(sort, last)]
    BY <1>1, <1>3, <1>5, <2>2 DEF PageOf, m
  <2> HIDE DEF cut
  <2>4. page.items = cut /\ page.next = CursorAfter(sort, last)
    BY <2>3
  <2>5. /\ page.next = [sort |-> sort, anchor |-> Column(sort, last), tiebreak |-> last]
        /\ page.next \in Cursor /\ page.next # NoCursor
    <3>1. page.next = [sort |-> sort, anchor |-> Column(sort, last), tiebreak |-> last]
      BY <2>4 DEF CursorAfter
    <3>2. last \in Nat /\ Column(sort, last) \in Nat
      BY <2>2
    <3>3. page.next \in Cursor
      BY <3>1, <3>2 DEF Cursor
    <3>4. NoCursor \notin Cursor
      BY PagingAssumption DEF Cursor
    <3>5. QED
      BY <3>1, <3>3, <3>4
  <2>6. ASSUME NEW x \in ids
        PROVE  IF x \in Range(cut) THEN Reached(sort, page.next, Column(sort, x), x)
               ELSE Behind(sort, page.next, Column(sort, x), x)
    <3>1. PICK i \in 1..Len(rows) : rows[i] = x
      BY <1>3 DEF Range
    <3>2. CASE i < m
      <4>1. i \in 1..Len(cut) /\ cut[i] = x
        BY <1>1, <2>1, <3>1, <3>2
      <4>2. x \in Range(cut)
        BY <2>1, <4>1 DEF Range
      <4>3. Before(sort, Column(sort, x), x, Column(sort, last), last)
        BY <1>1, <1>3, <1>5, <3>1, <3>2
      <4>4. QED
        BY <2>5, <4>2, <4>3 DEF Reached
    <3>3. CASE i = m
      <4>1. x = last /\ x \in Range(cut)
        BY <1>1, <2>1, <3>1, <3>3 DEF Range
      <4>2. QED
        BY <2>5, <4>1 DEF Reached
    <3>4. CASE i > m
      <4>1. Before(sort, Column(sort, last), last, Column(sort, x), x)
        BY <1>1, <1>3, <1>5, <3>1, <3>4
      <4>2. x \notin Range(cut)
        <5> SUFFICES ASSUME NEW j \in 1..m, rows[j] = x PROVE FALSE
          BY <2>1 DEF Range
        <5>1. Before(sort, Column(sort, x), x, Column(sort, x), x)
          BY <1>1, <1>3, <1>5, <3>1, <3>4
        <5>2. x \in Nat /\ Column(sort, x) \in Nat
          OBVIOUS
        <5>3. QED
          BY <5>1, <5>2 DEF Before
      <4>3. QED
        BY <2>5, <4>1, <4>2 DEF Behind
    <3>5. QED
      BY <1>1, <1>3, <3>2, <3>3, <3>4
  <2>7. \A i, j \in 1..Len(cut) : i < j =>
            Before(sort, Column(sort, cut[i]), cut[i], Column(sort, cut[j]), cut[j])
    BY <1>1, <1>3, <1>5, <2>1
  <2> HIDE DEF last
  <2>8. QED
    BY <2>1, <2>2, <2>4, <2>5, <2>6, <2>7
<1>6. QED
  BY <1>1, <1>3, <1>4, <1>5

LEMMA Concatenated ==
    ASSUME NEW S, NEW s \in Seq(S), NEW t \in Seq(S)
    PROVE  /\ s \o t \in Seq(S) /\ Len(s \o t) = Len(s) + Len(t)
           /\ \A i \in 1..Len(s) : (s \o t)[i] = s[i]
           /\ \A i \in 1..Len(s \o t) : i > Len(s) =>
                i - Len(s) \in 1..Len(t) /\ (s \o t)[i] = t[i - Len(s)]
           /\ Range(s \o t) = Range(s) \cup Range(t)
<1>1. /\ s \o t \in Seq(S) /\ Len(s \o t) = Len(s) + Len(t)
      /\ \A i \in 1..Len(s) : (s \o t)[i] = s[i]
      /\ \A i \in 1..Len(s \o t) : i > Len(s) =>
                i - Len(s) \in 1..Len(t) /\ (s \o t)[i] = t[i - Len(s)]
  OBVIOUS
<1>2. /\ Range(s) = {s[i] : i \in 1..Len(s)} /\ Range(t) = {t[i] : i \in 1..Len(t)}
      /\ Range(s \o t) = {(s \o t)[i] : i \in 1..Len(s \o t)}
  BY <1>1 DEF Range
<1>3. Range(s \o t) \subseteq Range(s) \cup Range(t)
  BY <1>1, <1>2
<1>4. Range(s) \subseteq Range(s \o t)
  BY <1>1, <1>2
<1>5. ASSUME NEW i \in 1..Len(t) PROVE t[i] \in Range(s \o t)
  <2>1. i + Len(s) \in 1..Len(s \o t) /\ (s \o t)[i + Len(s)] = t[i]
    OBVIOUS
  <2>2. QED
    BY <1>2, <2>1
<1>6. Range(t) \subseteq Range(s \o t)
  BY <1>2, <1>5
<1>7. Range(s \o t) = Range(s) \cup Range(t)
  BY <1>3, <1>4, <1>6
<1>8. QED
  BY <1>1, <1>7

LEMMA NextPageOK ==
    ASSUME PgInv, NEW n \in Limit, NextPage(n)
    PROVE  PgInv'
<1>0. /\ IndexOK /\ ShapeOK /\ CursorOK /\ SplitOK /\ OrderOK
      /\ Key \in SortKey /\ Matching \subseteq Nat /\ IsFiniteSet(Matching)
      /\ Place \in [Matching -> Nat]
      /\ ~scroll.done /\ UNCHANGED <<groups, records, issued>>
  BY Shapes DEF NextPage
<1>1. IndexOK'
  BY <1>0 DEF IndexOK
<1>2. CASE ~ValidFor(scroll.cursor, scroll.sort)
  <2>1. scroll' = Fresh(scroll.sort, scroll.of) /\ touched' = {}
    BY <1>2 DEF NextPage
  <2>2. /\ scroll'.sort = scroll.sort /\ scroll'.cursor = NoCursor /\ scroll'.got = <<>>
        /\ ~scroll'.done /\ scroll'.of = scroll.of
    BY <2>1 DEF Fresh
  <2>3. Listed' = {}
    BY <2>2 DEF Listed, Range
  <2>4. ShapeOK' /\ CursorOK'
    BY <1>0, <2>1, <2>2 DEF ShapeOK, CursorOK, Fresh
  <2>5. SplitOK' /\ OrderOK'
    BY <2>2, <2>3 DEF SplitOK, OrderOK
  <2>6. QED
    BY <1>1, <2>4, <2>5 DEF PgInv
<1>3. CASE ValidFor(scroll.cursor, scroll.sort)
  <2> DEFINE sort == scroll.sort
             old  == scroll.cursor
             ids  == {x \in Rows(sort, scroll.of) : CursorPredicate(old, x)}
  <2>1. PICK rows \in Ordered(sort, ids) :
            scroll' = [scroll EXCEPT !.got = @ \o PageOf(sort, rows, n).items,
                                     !.cursor = PageOf(sort, rows, n).next,
                                     !.done = PageOf(sort, rows, n).next = NoCursor]
    BY <1>3 DEF NextPage
  <2> DEFINE page == PageOf(sort, rows, n)
  <2>2. touched' = touched
    BY <1>3 DEF NextPage
  <2>3. sort = Key /\ sort \in SortKey /\ Rows(sort, scroll.of) = Matching
    BY <1>0, <1>3 DEF ValidFor, Key, Matching
  <2>4. \A x \in Matching : Column(sort, x) = Place[x] /\ Place[x] \in Nat
    BY <1>0, <2>3 DEF Place
  <2>5. /\ ids \subseteq Matching
        /\ \A x \in Matching : x \in ids <=> (old = NoCursor \/ Behind(sort, old, Place[x], x))
    BY <1>3, <2>3, <2>4 DEF CursorPredicate, Behind, ValidFor
  <2> HIDE DEF ids
  <2>6. ids \subseteq Nat /\ IsFiniteSet(ids) /\ n \in Nat /\ \A x \in ids : Column(sort, x) \in Nat
    BY <1>0, <2>4, <2>5, FS_Subset, PagingAssumption
  <2> HIDE DEF page
  <2>7. /\ page.items \in Seq(ids)
        /\ \A i, j \in 1..Len(page.items) : i < j =>
                Before(sort, Column(sort, page.items[i]), page.items[i],
                             Column(sort, page.items[j]), page.items[j])
        /\ \/ page.next = NoCursor /\ Range(page.items) = ids
           \/ /\ page.next \in Cursor /\ page.next # NoCursor /\ page.next.sort = sort
              /\ page.items # <<>> /\ page.next.tiebreak \in ids
              /\ page.next.anchor = Column(sort, page.next.tiebreak)
              /\ \A x \in ids :
                      IF x \in Range(page.items) THEN Reached(sort, page.next, Column(sort, x), x)
                      ELSE Behind(sort, page.next, Column(sort, x), x)
    BY <2>3, <2>6, PageSplits DEF page
  <2>8. /\ scroll'.sort = sort /\ scroll'.of = scroll.of /\ scroll'.cursor = page.next
        /\ scroll'.got = scroll.got \o page.items /\ scroll'.done = (page.next = NoCursor)
        /\ scroll' = [sort |-> scroll'.sort, of |-> scroll'.of, cursor |-> scroll'.cursor,
                      got |-> scroll'.got, done |-> scroll'.done]
    BY <1>0, <2>1 DEF ShapeOK, page
  <2>9. page.items \in Seq(Nat) /\ Range(page.items) \subseteq ids
    BY <2>6, <2>7 DEF Range
  <2>10. /\ scroll'.got \in Seq(Nat) /\ Len(scroll'.got) = Len(scroll.got) + Len(page.items)
         /\ \A i \in 1..Len(scroll.got) : scroll'.got[i] = scroll.got[i]
         /\ \A i \in 1..Len(scroll'.got) : i > Len(scroll.got) =>
                /\ i - Len(scroll.got) \in 1..Len(page.items)
                /\ scroll'.got[i] = page.items[i - Len(scroll.got)]
         /\ Range(scroll'.got) = Range(scroll.got) \cup Range(page.items)
    BY <1>0, <2>8, <2>9, Concatenated DEF ShapeOK
  <2>11. Listed' = Listed \cup Range(page.items)
    BY <2>10 DEF Listed
  <2>12. ShapeOK'
    BY <2>3, <2>7, <2>8, <2>10 DEF ShapeOK
  <2>13. CursorOK'
    <3>1. CASE page.next = NoCursor
      BY <2>8, <3>1 DEF CursorOK
    <3>2. CASE page.next # NoCursor
      <4>1. page.items # <<>> /\ page.next.sort = sort
        BY <2>7, <3>2
      <4>2. scroll'.got # <<>>
        BY <1>0, <2>8, <2>9, <4>1 DEF ShapeOK
      <4>3. QED
        BY <2>8, <3>2, <4>1, <4>2 DEF CursorOK
    <3>3. QED
      BY <3>1, <3>2
  <2>14. Key' = Key /\ Matching' = Matching /\ Place' = Place /\ Alone' = Alone
    <3>1. Key' = Key
      BY <2>3, <2>7, <2>8 DEF Key
    <3>2. Matching' = Matching
      <4>1. groups' = groups /\ records' = records /\ scroll'.of = scroll.of
        BY <1>0, <2>8
      <4>2. QED
        BY <3>1, <4>1 DEF Matching, Rows, Within
    <3>3. Place' = Place
      BY <1>0, <3>1, <3>2 DEF Place, Column
    <3>4. QED
      BY <2>2, <3>1, <3>2, <3>3 DEF Alone
  \* What was listed before the page comes before every row of the page.
  <2>15. ASSUME NEW x \in Listed, x \notin touched, NEW y \in ids
         PROVE  x \in Matching /\ old # NoCursor /\ Before(sort, Place[x], x, Place[y], y)
    <3>1. x \in Alone
      BY <1>0, <2>15 DEF SplitOK, Alone
    <3>2. old # NoCursor
      BY <1>0 DEF CursorOK, Listed, Range
    <3>3. Reached(sort, old, Place[x], x) /\ Behind(sort, old, Place[y], y)
      BY <1>0, <2>3, <2>5, <3>1, <3>2 DEF SplitOK
    <3>4. /\ x \in Nat /\ y \in Nat /\ Place[x] \in Nat /\ Place[y] \in Nat
          /\ old.anchor \in Nat /\ old.tiebreak \in Nat
      BY <1>0, <2>5, <3>1, <3>2 DEF Alone, ShapeOK, Cursor
    <3>5. Before(sort, Place[x], x, Place[y], y)
      BY <3>3, <3>4 DEF Reached, Behind, Before
    <3>6. QED
      BY <3>1, <3>2, <3>5 DEF Alone
  <2>16. \A x \in Alone : x \in Listed \/ x \in ids
    BY <1>0, <2>3, <2>5 DEF SplitOK, Alone
  <2>17. SplitOK'
    <3>1. (Listed \ touched)' \subseteq Matching'
      BY <1>0, <2>2, <2>5, <2>9, <2>11, <2>14 DEF SplitOK
    <3>2. scroll'.done => Alone' \subseteq Listed'
      BY <2>7, <2>8, <2>11, <2>14, <2>16
    <3>3. ASSUME NEW x \in Alone, page.next # NoCursor
          PROVE  IF x \in Listed' THEN Reached(sort, page.next, Place[x], x)
                 ELSE Behind(sort, page.next, Place[x], x)
      <4>1. CASE x \in ids
        <5>1. Column(sort, x) = Place[x]
          BY <2>4, <2>5, <4>1
        <5>2. IF x \in Range(page.items) THEN Reached(sort, page.next, Place[x], x)
              ELSE Behind(sort, page.next, Place[x], x)
          BY <2>7, <3>3, <4>1, <5>1
        <5>3. x \notin Listed
          <6> SUFFICES ASSUME x \in Listed PROVE FALSE
            OBVIOUS
          <6>1. Before(sort, Place[x], x, Place[x], x)
            BY <2>15, <3>3, <4>1 DEF Alone
          <6>2. x \in Nat /\ Place[x] \in Nat
            BY <1>0, <3>3 DEF Alone
          <6>3. QED
            BY <6>1, <6>2 DEF Before
        <5>4. QED
          BY <2>11, <5>2, <5>3
      <4>2. CASE x \notin ids
        <5>1. x \in Listed /\ x \in Listed' /\ x \notin touched
          BY <2>11, <2>16, <3>3, <4>2 DEF Alone
        <5>2. page.next.tiebreak \in ids /\ page.next.anchor = Place[page.next.tiebreak]
          BY <2>4, <2>5, <2>7, <3>3
        <5>3. Before(sort, Place[x], x, page.next.anchor, page.next.tiebreak)
          BY <2>15, <5>1, <5>2
        <5>4. QED
          BY <5>1, <5>3 DEF Reached
      <4>3. QED
        BY <4>1, <4>2
    <3>4. scroll'.cursor # NoCursor => \A x \in Alone' :
            IF x \in Listed' THEN Reached(Key', scroll'.cursor, Place'[x], x)
            ELSE Behind(Key', scroll'.cursor, Place'[x], x)
      BY <2>3, <2>8, <2>14, <3>3
    <3>5. QED
      BY <3>1, <3>2, <3>4 DEF SplitOK, Reached, Behind, Before, IsDescending
  <2>18. OrderOK'
    <3> SUFFICES ASSUME NEW i \in 1..Len(scroll'.got), NEW j \in 1..Len(scroll'.got), i < j,
                        scroll'.got[i] \notin touched, scroll'.got[j] \notin touched
                 PROVE  Before(sort, Place[scroll'.got[i]], scroll'.got[i],
                                     Place[scroll'.got[j]], scroll'.got[j])
      BY <2>2, <2>3, <2>14 DEF OrderOK, Before, IsDescending
    <3>0. Len(scroll.got) \in Nat /\ Len(page.items) \in Nat
      BY <1>0, <2>9 DEF ShapeOK
    <3>1. CASE j <= Len(scroll.got)
      <4>1. i \in 1..Len(scroll.got) /\ j \in 1..Len(scroll.got)
        BY <2>10, <3>0, <3>1
      <4>2. scroll'.got[i] = scroll.got[i] /\ scroll'.got[j] = scroll.got[j]
        BY <2>10, <4>1
      <4>3. QED
        BY <1>0, <2>3, <4>1, <4>2 DEF OrderOK
    <3>2. CASE i <= Len(scroll.got) /\ j > Len(scroll.got)
      <4>1. scroll'.got[i] \in Listed
        <5>1. i \in 1..Len(scroll.got)
          BY <3>0, <3>2
        <5>2. scroll'.got[i] = scroll.got[i]
          BY <2>10, <5>1
        <5>3. QED
          BY <1>0, <5>1, <5>2 DEF Listed, Range, ShapeOK
      <4>2. scroll'.got[j] \in ids
        <5>1. /\ j - Len(scroll.got) \in 1..Len(page.items)
              /\ scroll'.got[j] = page.items[j - Len(scroll.got)]
          BY <2>10, <3>2
        <5>2. QED
          BY <2>7, <5>1
      <4>3. QED
        BY <2>15, <4>1, <4>2
    <3>3. CASE i > Len(scroll.got)
      <4> DEFINE p == i - Len(scroll.got)
                 q == j - Len(scroll.got)
      <4>1. /\ p \in 1..Len(page.items) /\ scroll'.got[i] = page.items[p]
            /\ q \in 1..Len(page.items) /\ scroll'.got[j] = page.items[q]
        <5>1. p \in 1..Len(page.items) /\ scroll'.got[i] = page.items[p]
          BY <2>10, <3>3
        <5>2. j > Len(scroll.got)
          BY <3>0, <3>3
        <5>3. q \in 1..Len(page.items) /\ scroll'.got[j] = page.items[q]
          BY <2>10, <5>2
        <5>4. QED
          BY <5>1, <5>3
      <4>2. p < q
        BY <2>10, <3>0, <3>3
      <4> HIDE DEF p, q
      <4>3. page.items[p] \in ids /\ page.items[q] \in ids
        BY <2>7, <4>1
      <4>4. /\ Column(sort, page.items[p]) = Place[page.items[p]]
            /\ Column(sort, page.items[q]) = Place[page.items[q]]
        BY <2>4, <2>5, <4>3
      <4>5. QED
        BY <2>7, <4>1, <4>2, <4>4
    <3>4. QED
      BY <2>10, <3>0, <3>1, <3>2, <3>3
  <2>19. QED
    BY <1>1, <2>12, <2>13, <2>17, <2>18 DEF PgInv
<1>4. QED
  BY <1>2, <1>3

LEMMA ChangeSortOK ==
    ASSUME PgInv, NEW sort \in SortKey, ChangeSort(sort)
    PROVE  PgInv'
<1>0. /\ IndexOK /\ ShapeOK /\ CursorOK /\ SplitOK /\ OrderOK
      /\ scroll.cursor # NoCursor /\ scroll.sort # "record" /\ sort # "record"
      /\ UNCHANGED <<groups, records, touched, issued>>
  BY Shapes DEF ChangeSort
<1>1. scroll' = [sort |-> sort, of |-> scroll.of, cursor |-> scroll.cursor,
                 got |-> scroll.got, done |-> scroll.done]
  BY <1>0 DEF ChangeSort, ShapeOK
<1>2. /\ scroll'.sort = sort /\ scroll'.of = scroll.of /\ scroll'.cursor = scroll.cursor
      /\ scroll'.got = scroll.got /\ scroll'.done = scroll.done
  BY <1>1
<1>3. IndexOK' /\ ShapeOK'
  BY <1>0, <1>1, <1>2 DEF IndexOK, ShapeOK
<1>4. CursorOK'
  BY <1>0, <1>2 DEF CursorOK
<1>5. Key' = Key /\ Listed' = Listed
  BY <1>0, <1>2 DEF Key, Listed
<1>6. Matching' = Matching
  BY <1>0, <1>2, <1>5 DEF Matching, Rows, Within
<1>7. Place' = Place /\ Alone' = Alone
  BY <1>0, <1>5, <1>6 DEF Place, Column, Alone
<1>8. SplitOK' /\ OrderOK'
  BY <1>0, <1>2, <1>5, <1>6, <1>7 DEF SplitOK, OrderOK, Reached, Behind, Before, IsDescending
<1>9. QED
  BY <1>3, <1>4, <1>8 DEF PgInv

-----------------------------------------------------------------------------
LEMMA PgInitOK == PgInit => PgInv
<1> SUFFICES ASSUME PgInit PROVE PgInv
  OBVIOUS
<1>1. /\ groups = [g \in {} |-> {}] /\ DOMAIN groups = {} /\ records = {} /\ touched = {}
      /\ issued = 0
  BY DEF PgInit
<1>2. IndexOK
  BY <1>1, FS_EmptySet DEF IndexOK
<1>3. PICK sort, of : sort \in SortKey /\ scroll = Fresh(sort, of)
  BY DEF PgInit, SortKey
<1>4. /\ scroll.sort = sort /\ scroll.cursor = NoCursor /\ scroll.got = <<>>
      /\ scroll.done = FALSE /\ scroll.of = of
  BY <1>3 DEF Fresh
<1>5. Listed = {}
  BY <1>4 DEF Listed, Range
<1>6. ShapeOK
  BY <1>3, <1>4 DEF ShapeOK, Fresh
<1>7. CursorOK /\ SplitOK /\ OrderOK
  BY <1>4, <1>5 DEF CursorOK, SplitOK, OrderOK
<1>8. QED
  BY <1>2, <1>6, <1>7 DEF PgInv

LEMMA PgStepOK == PgInv /\ [PgNext]_pgVars => PgInv'
<1> SUFFICES ASSUME PgInv, [PgNext]_pgVars PROVE PgInv'
  OBVIOUS
<1>1. CASE \E n \in Limit : NextPage(n)
  BY <1>1, NextPageOK
<1>2. CASE \E sort \in SortKey : ChangeSort(sort)
  BY <1>2, ChangeSortOK
<1>3. CASE \E g \in Group, t \in Time : Record(g, t)
  BY <1>3, RecordOK
<1>4. CASE \E g \in DOMAIN groups : DeleteGroup(g)
  <2>1. PICK g \in DOMAIN groups : Erase({r \in records : r.group = g})
    BY <1>4 DEF DeleteGroup
  <2>2. {r \in records : r.group = g} \in SUBSET records
    OBVIOUS
  <2>3. QED
    BY <2>1, <2>2, EraseOK
<1>5. CASE \E r \in records : DeleteRecord(r)
  <2>1. PICK r \in records : Erase({r})
    BY <1>5 DEF DeleteRecord
  <2>2. {r} \in SUBSET records
    OBVIOUS
  <2>3. QED
    BY <2>1, <2>2, EraseOK
<1>6. CASE UNCHANGED pgVars
  <2>1. UNCHANGED <<groups, records, scroll, touched, issued>>
    BY <1>6 DEF pgVars
  <2>2. IndexOK' /\ Key' = Key
    BY <2>1, Shapes DEF IndexOK, Key
  <2>3. Matching' = Matching
    BY <2>1, <2>2 DEF Matching, Rows, Within
  <2>4. Place' = Place
    BY <2>1, <2>2, <2>3 DEF Place, Column
  <2>5. QED
    BY <2>1, <2>2, <2>3, <2>4, OutsideOK
<1>7. QED
  BY <1>1, <1>2, <1>3, <1>4, <1>5, <1>6 DEF PgNext

(***************************************************************************)
(* The cursor of a client always separates the rows it has been shown from *)
(* the rows it has not, among those nobody touched, in the order the pages *)
(* were taken in (list_groups, list_records, insert_rows and delete).      *)
(***************************************************************************)
THEOREM PagingInvariance == PgSpec => []PgInv
<1>1. PgInit => PgInv
  BY PgInitOK
<1>2. PgInv /\ [PgNext]_pgVars => PgInv'
  BY PgStepOK
<1>3. QED
  BY <1>1, <1>2, PTL DEF PgSpec

(***************************************************************************)
(* Scrolling to the end shows every matching row that nobody touched, for  *)
(* any number of rows that tie in the sort column and any page size        *)
(* (list_groups and list_records).                                         *)
(***************************************************************************)
THEOREM ScrollsComplete == PgSpec => []ScrollIsComplete
<1>1. PgInv => ScrollIsComplete
  BY Shapes DEF ScrollIsComplete, SplitOK, CursorOK, Alone, Matching, Key
<1>2. QED
  BY <1>1, PagingInvariance, PTL

(***************************************************************************)
(* Rows nobody touched are shown in order, and so none of them twice       *)
(* (the keyset predicate of sql.rs and the ORDER BY it must agree with).   *)
(***************************************************************************)
THEOREM ScrollsOrdered == PgSpec => []ScrollIsOrdered
<1>1. ASSUME PgInv PROVE ScrollIsOrdered
  <2>1. ShapeOK /\ SplitOK /\ OrderOK
    BY <1>1, Shapes
  <2> SUFFICES ASSUME ValidFor(scroll.cursor, scroll.sort),
                      NEW i \in 1..Len(scroll.got), NEW j \in 1..Len(scroll.got), i < j,
                      {scroll.got[i], scroll.got[j]} \cap touched = {}
               PROVE  Before(scroll.sort, Column(scroll.sort, scroll.got[i]), scroll.got[i],
                             Column(scroll.sort, scroll.got[j]), scroll.got[j])
    BY Zenon DEF ScrollIsOrdered
  <2>2. Key = scroll.sort
    BY DEF Key, ValidFor
  <2>3. scroll.got[i] \in Listed \ touched /\ scroll.got[j] \in Listed \ touched
    BY <2>1 DEF Listed, Range, ShapeOK
  <2>4. scroll.got[i] \in Matching /\ scroll.got[j] \in Matching
    BY <2>1, <2>3 DEF SplitOK
  <2>5. /\ Place[scroll.got[i]] = Column(scroll.sort, scroll.got[i])
        /\ Place[scroll.got[j]] = Column(scroll.sort, scroll.got[j])
    BY <2>2, <2>4 DEF Place
  <2>6. QED
    BY <2>1, <2>2, <2>5 DEF OrderOK
<1>2. QED
  BY <1>1, PagingInvariance, PTL

-----------------------------------------------------------------------------
(* Sums. *)

LEMMA FirstOf ==
    ASSUME NEW T, T \subseteq Nat, T # {}
    PROVE  \E x \in T : \A y \in T : x <= y
<1> DEFINE N == Nat
           R == OpToRel(<, Nat)
<1>1. IsWellFoundedOn(R, N) /\ T \subseteq N
  BY NatLessThanWellFounded
<1>2. R = {p \in Nat \X Nat : p[1] < p[2]}
  BY DEF OpToRel
<1> HIDE DEF R, N
<1>3. PICK x \in T : \A y \in T : ~(<<y, x>> \in R)
  BY <1>1, WFMin
<1>4. ASSUME NEW y \in T PROVE x <= y
  <2>1. x \in Nat /\ y \in Nat
    OBVIOUS
  <2>2. ~(y < x)
    BY <1>2, <1>3, <2>1
  <2>3. QED
    BY <2>1, <2>2
<1>5. QED
  BY <1>4

\* A finite set of numbers has a largest one.
LEMMA LargestNumber ==
    ASSUME NEW T, T \subseteq Nat, IsFiniteSet(T), T # {}
    PROVE  Max(T) \in T /\ \A y \in T : y <= Max(T)
<1> DEFINE Above(m) == {t \in T : t > m}
           F == {Above(m) : m \in T}
<1>1. FiniteSubsetsOf(T) = SUBSET T
  BY FS_FiniteSubsetsOfFinite
<1>2. F \subseteq FiniteSubsetsOf(T) /\ F # {}
  <2>1. \A m \in T : Above(m) \in FiniteSubsetsOf(T)
    BY <1>1
  <2>2. \A i \in F : \E m \in T : i = Above(m)
    OBVIOUS
  <2>3. \E i : i \in F
    OBVIOUS
  <2> HIDE DEF F, Above
  <2>4. QED
    BY <2>1, <2>2, <2>3
<1>3. PICK i \in F : \A j \in F : ~(<<j, i>> \in StrictSubsetOrdering(T))
  <2> HIDE DEF F
  <2>1. QED
    BY <1>2, FS_StrictSubsetOrderingWellFounded, WFMin
<1>4. PICK m \in T : i = Above(m)
  OBVIOUS
<1>5. ASSUME NEW y \in T, y > m PROVE FALSE
  <2>1. Above(y) \in F
    OBVIOUS
  <2>2. Above(y) \subseteq Above(m) /\ y \in Above(m) /\ y \notin Above(y)
    <3>1. \A t \in T : t \in Int /\ m \in Int /\ y \in Int
      OBVIOUS
    <3>2. \A t \in T : t > y => t > m
      BY <1>5, <3>1
    <3>3. ~(y > y)
      BY <3>1
    <3>4. QED
      BY <1>5, <3>2, <3>3
  <2>3. <<Above(y), Above(m)>> \in StrictSubsetOrdering(T)
    BY <2>2 DEF StrictSubsetOrdering
  <2>4. QED
    BY <1>3, <1>4, <2>1, <2>3
<1>6. \A y \in T : m >= y
  BY <1>5
<1>7. QED
  BY <1>6 DEF Max

\* The sum of f over s, from the sum over s without one of its elements.
SumStep(f, g, s) ==
    IF s = {} THEN 0 ELSE LET x == CHOOSE x \in s : TRUE IN f[x] + g[s \ {x}]

LEMMA SumStepOf ==
    ASSUME NEW f, NEW s, s # {}
    PROVE  \E x \in s : \A h : SumStep(f, h, s) = f[x] + h[s \ {x}]
<1> DEFINE x == CHOOSE x \in s : TRUE
<1>1. x \in s
  OBVIOUS
<1>2. \A h : SumStep(f, h, s) = f[x] + h[s \ {x}]
  BY DEF SumStep
<1> HIDE DEF x
<1>3. QED
  BY <1>1, <1>2

\* The recursion by which a sum is defined has a solution.
LEMMA SumDefined ==
    ASSUME NEW D, IsFiniteSet(D), NEW f
    PROVE  \E g : g = [s \in SUBSET D |-> SumStep(f, g, s)]
<1> DEFINE Layer(n) == {s \in SUBSET D : Cardinality(s) <= n}
           Defined(n) == \E g : g = [s \in Layer(n) |-> SumStep(f, g, s)]
           Bad == {n \in Nat : ~Defined(n)}
<1>1. \A s \in SUBSET D : IsFiniteSet(s) /\ Cardinality(s) \in Nat
  BY FS_Subset, FS_CardinalityType
<1>2. Defined(0)
  <2> DEFINE g == [s \in Layer(0) |-> 0]
  <2>1. ASSUME NEW s \in Layer(0) PROVE s = {}
    <3>1. IsFiniteSet(s) /\ Cardinality(s) = 0
      BY <1>1
    <3>2. QED
      BY <3>1, FS_EmptySet
  <2>2. \A s \in Layer(0) : SumStep(f, g, s) = 0
    BY <2>1 DEF SumStep
  <2>3. g = [s \in Layer(0) |-> SumStep(f, g, s)]
    BY <2>2
  <2>4. QED
    BY <2>3
<1>3. ASSUME NEW n \in Nat, Defined(n)
      PROVE  Defined(n + 1)
  <2>1. PICK g : g = [s \in Layer(n) |-> SumStep(f, g, s)]
    BY <1>3
  <2> DEFINE h == [s \in Layer(n + 1) |-> IF s \in Layer(n) THEN g[s] ELSE SumStep(f, g, s)]
  <2>2. Layer(n) \subseteq Layer(n + 1)
    BY <1>1
  <2>3. ASSUME NEW s \in Layer(n + 1)
        PROVE  SumStep(f, h, s) = SumStep(f, g, s)
    <3>1. CASE s = {}
      BY <3>1 DEF SumStep
    <3>2. CASE s # {}
      <4>1. PICK x \in s : \A k : SumStep(f, k, s) = f[x] + k[s \ {x}]
        BY <3>2, SumStepOf
      <4>2. s \in SUBSET D /\ Cardinality(s) <= n + 1 /\ s \ {x} \in SUBSET D
        OBVIOUS
      <4>3. Cardinality(s \ {x}) = Cardinality(s) - 1
        BY <1>1, <4>1, <4>2, FS_RemoveElement
      <4>4. s \ {x} \in Layer(n)
        BY <1>1, <4>2, <4>3
      <4>5. h[s \ {x}] = g[s \ {x}]
        BY <2>2, <4>4
      <4> HIDE DEF h, Layer
      <4>6. QED
        BY <4>1, <4>5
    <3>3. QED
      BY <3>1, <3>2
  <2>4. \A s \in Layer(n) : g[s] = SumStep(f, g, s)
    BY <2>1
  <2>5. \A s \in Layer(n + 1) : h[s] = SumStep(f, h, s)
    BY <2>3, <2>4
  <2>6. h = [s \in Layer(n + 1) |-> h[s]]
    OBVIOUS
  <2> HIDE DEF h, Layer
  <2>7. h = [s \in Layer(n + 1) |-> SumStep(f, h, s)]
    BY <2>5, <2>6
  <2>8. QED
    BY <2>7
<1> HIDE DEF Defined
<1>4. Bad = {}
  <2> SUFFICES ASSUME Bad # {} PROVE FALSE
    OBVIOUS
  <2>1. PICK m \in Bad : \A y \in Bad : m <= y
    <3>1. Bad \subseteq Nat
      OBVIOUS
    <3> HIDE DEF Bad
    <3>2. QED
      BY <3>1, FirstOf
  <2>2. m # 0 /\ m \in Nat
    BY <1>2
  <2>3. m - 1 \in Nat /\ m - 1 \notin Bad /\ (m - 1) + 1 = m
    BY <2>1, <2>2
  <2>4. Defined(m - 1)
    BY <2>3
  <2>5. Defined((m - 1) + 1)
    BY <1>3, <2>3, <2>4
  <2>6. QED
    BY <2>1, <2>3, <2>5
<1>5. Cardinality(D) \in Nat
  BY FS_CardinalityType
<1>6. Defined(Cardinality(D))
  BY <1>4, <1>5
<1>7. Layer(Cardinality(D)) = SUBSET D
  BY FS_Subset
<1>8. QED
  BY <1>6, <1>7 DEF Defined

LEMMA SumSolved ==
    ASSUME NEW f, IsFiniteSet(DOMAIN f)
    PROVE  \E g : /\ g = [s \in SUBSET DOMAIN f |-> SumStep(f, g, s)]
                  /\ SumFunction(f) = g[DOMAIN f]
<1> DEFINE d == CHOOSE g : g = [s \in SUBSET DOMAIN f |-> SumStep(f, g, s)]
<1>1. d = [s \in SUBSET DOMAIN f |-> SumStep(f, d, s)]
  BY SumDefined
<1>2. SumFunction(f) = d[DOMAIN f]
  BY DEF SumFunction, SumFunctionOnSet, FoldFunctionOnSet, MapThenFoldSet, SumStep
<1> HIDE DEF d
<1>3. QED
  BY <1>1, <1>2

\* A count h of the subsets of D grows with an element by what f gives it, or
\* by no more.
GrowsBy(h, f, D) == \A s \in SUBSET D : \A x \in s : h[s] = f[x] + h[s \ {x}]
GrowsAtMost(h, f, D) == \A s \in SUBSET D : \A x \in s : h[s] <= f[x] + h[s \ {x}]

\* A quantity that grows with a set by at most what the sum does is at most the
\* sum; one that grows by as much is the sum.
LEMMA SumCompared ==
    ASSUME NEW f, NEW D, IsFiniteSet(D), f \in [D -> Nat], NEW h \in [SUBSET D -> Nat], h[{}] = 0,
           GrowsAtMost(h, f, D)
    PROVE  /\ SumFunction(f) \in Nat /\ h[D] <= SumFunction(f)
           /\ GrowsBy(h, f, D) => SumFunction(f) = h[D]
<1> USE DEF GrowsAtMost, GrowsBy
<1> DEFINE Equal == GrowsBy(h, f, D)
<1>1. DOMAIN f = D
  OBVIOUS
<1>2. PICK g : g = [s \in SUBSET D |-> SumStep(f, g, s)] /\ SumFunction(f) = g[D]
  BY <1>1, SumSolved
<1> DEFINE Right(s) == g[s] \in Nat /\ h[s] <= g[s] /\ (Equal => g[s] = h[s])
           Bad == {n \in Nat : \E s \in SUBSET D : Cardinality(s) = n /\ ~Right(s)}
<1>3. Right({})
  <2>1. g[{}] = 0
    BY <1>2 DEF SumStep
  <2>2. QED
    BY <2>1
<1>4. ASSUME NEW s \in SUBSET D, s # {}, \A x \in s : Right(s \ {x})
      PROVE  Right(s)
  <2>1. g[s] = SumStep(f, g, s)
    BY <1>2
  <2>2. PICK x \in s : \A k : SumStep(f, k, s) = f[x] + k[s \ {x}]
    <3>1. s # {}
      BY <1>4
    <3>2. QED
      BY ONLY <3>1, SumStepOf
  <2>3. g[s] = f[x] + g[s \ {x}] /\ f[x] \in Nat
    BY <2>1, <2>2
  <2>4. Right(s \ {x})
    BY <1>4
  <2>5. h[s] <= f[x] + h[s \ {x}] /\ h[s] \in Nat /\ h[s \ {x}] \in Nat
    OBVIOUS
  <2>6. Equal => h[s] = f[x] + h[s \ {x}]
    OBVIOUS
  <2> DEFINE a == g[s \ {x}]  b == h[s \ {x}]  c == f[x]  u == g[s]  v == h[s]
  <2>7. /\ a \in Nat /\ b \in Nat /\ c \in Nat /\ v \in Nat /\ u = c + a /\ v <= c + b /\ b <= a
        /\ Equal => v = c + b /\ a = b
    BY <2>3, <2>4, <2>5, <2>6
  <2> HIDE DEF a, b, c, u, v, Equal
  <2>8. u \in Nat /\ v <= u /\ (Equal => u = v)
    BY <2>7
  <2>9. QED
    BY <2>8 DEF u, v
<1>5. \A s \in SUBSET D : IsFiniteSet(s) /\ Cardinality(s) \in Nat
  BY FS_Subset, FS_CardinalityType
<1> HIDE DEF Right
<1>6. Bad = {}
  <2> SUFFICES ASSUME Bad # {} PROVE FALSE
    OBVIOUS
  <2>1. PICK m \in Bad : \A y \in Bad : m <= y
    <3>1. Bad \subseteq Nat
      OBVIOUS
    <3> HIDE DEF Bad
    <3>2. QED
      BY <3>1, FirstOf
  <2>2. PICK s \in SUBSET D : Cardinality(s) = m /\ ~Right(s)
    OBVIOUS
  <2>3. s # {}
    BY <1>3, <2>2
  <2>4. ASSUME NEW x \in s PROVE Right(s \ {x})
    <3>1. Cardinality(s \ {x}) = m - 1 /\ s \ {x} \in SUBSET D
      BY <1>5, <2>2, FS_RemoveElement
    <3>2. m - 1 \in Nat /\ m \in Nat
      BY <1>5, <3>1
    <3>3. m - 1 \notin Bad
      BY <2>1, <3>2
    <3>4. QED
      BY <3>1, <3>2, <3>3
  <2>5. QED
    BY <1>4, <2>2, <2>3, <2>4
<1>7. Right(D)
  BY <1>5, <1>6
<1>8. QED
  BY <1>2, <1>7 DEF Right

ClassOf(A, c, i) == {a \in A : c[a] = i}

\* Elements counted class by class, and class by class at most.
LEMMA ByClass ==
    ASSUME NEW A, IsFiniteSet(A), NEW D, IsFiniteSet(D), NEW c \in [A -> D], NEW f \in [D -> Nat]
    PROVE  /\ (\A i \in D : f[i] = Cardinality(ClassOf(A, c, i)))
                => SumFunction(f) = Cardinality(A)
           /\ (\A i \in D : f[i] >= Cardinality(ClassOf(A, c, i)))
                => SumFunction(f) \in Nat /\ SumFunction(f) >= Cardinality(A)
<1> DEFINE Of(s) == {a \in A : c[a] \in s}
           h == [s \in SUBSET D |-> Cardinality(Of(s))]
<1>1. IsFiniteSet(D)
  OBVIOUS
<1>2. \A s : IsFiniteSet(Of(s)) /\ Cardinality(Of(s)) \in Nat
  BY FS_Subset, FS_CardinalityType
<1>3. h \in [SUBSET D -> Nat]
  BY <1>2
<1>4. h[{}] = 0
  <2>1. Of({}) = {}
    OBVIOUS
  <2>2. QED
    BY <2>1, FS_EmptySet
<1>5. ASSUME NEW s \in SUBSET D, NEW x \in s
      PROVE  h[s] = Cardinality(Of({x})) + h[s \ {x}]
  <2>1. Of(s) = Of({x}) \cup Of(s \ {x}) /\ Of({x}) \cap Of(s \ {x}) = {}
    OBVIOUS
  <2> HIDE DEF Of
  <2>2. Cardinality(Of(s)) = Cardinality(Of({x})) + Cardinality(Of(s \ {x})) - 0
    <3> DEFINE P == Of({x})
               Q == Of(s \ {x})
    <3>1. IsFiniteSet(P) /\ IsFiniteSet(Q) /\ P \cap Q = {} /\ Of(s) = P \cup Q
      BY <1>2, <2>1
    <3> HIDE DEF P, Q
    <3>2. Cardinality(P \cup Q) = Cardinality(P) + Cardinality(Q) - Cardinality(P \cap Q)
      BY <3>1, FS_Union
    <3>3. Cardinality(P \cap Q) = 0
      BY <3>1, FS_EmptySet
    <3>4. QED
      BY <3>1, <3>2, <3>3 DEF P, Q
  <2>3. QED
    BY <1>2, <2>2
<1>6. h[D] = Cardinality(A)
  <2>1. Of(D) = A
    OBVIOUS
  <2>2. QED
    BY <2>1
<1>7. \A i : Of({i}) = ClassOf(A, c, i)
  BY DEF ClassOf
<1>8. f \in [D -> Nat] /\ \A i \in D : f[i] \in Nat
  OBVIOUS
<1> HIDE DEF h, Of
<1>9. ASSUME \A i \in D : f[i] >= Cardinality(Of({i}))
      PROVE  /\ SumFunction(f) \in Nat /\ SumFunction(f) >= h[D]
             /\ (\A i \in D : f[i] = Cardinality(Of({i}))) => SumFunction(f) = h[D]
  <2>1. ASSUME NEW s \in SUBSET D, NEW x \in s
        PROVE  h[s] <= f[x] + h[s \ {x}]
    <3>1. h[s] \in Nat /\ h[s \ {x}] \in Nat /\ f[x] \in Nat /\ f[x] >= Cardinality(Of({x}))
          /\ Cardinality(Of({x})) \in Nat
      BY <1>2, <1>3, <1>8, <1>9
    <3>2. h[s] = Cardinality(Of({x})) + h[s \ {x}]
      BY <1>5
    <3> DEFINE u == h[s]
               v == h[s \ {x}]
               y == f[x]
               z == Cardinality(Of({x}))
    <3>3. u \in Nat /\ v \in Nat /\ y \in Nat /\ z \in Nat /\ y >= z /\ u = z + v
      BY ONLY <3>1, <3>2
    <3> HIDE DEF u, v, y, z
    <3>4. u <= y + v
      BY ONLY <3>3
    <3>5. QED
      BY ONLY <3>4 DEF u, v, y
  <2>2. /\ SumFunction(f) \in Nat /\ h[D] <= SumFunction(f)
        /\ GrowsBy(h, f, D) => SumFunction(f) = h[D]
    <3>1. GrowsAtMost(h, f, D)
      BY <2>1 DEF GrowsAtMost
    <3>2. QED
      BY <1>1, <1>3, <1>4, <1>8, <3>1, SumCompared
  <2>3. (\A i \in D : f[i] = Cardinality(Of({i})))
            => GrowsBy(h, f, D)
    <3> SUFFICES ASSUME \A i \in D : f[i] = Cardinality(Of({i})), NEW s \in SUBSET D, NEW x \in s
                 PROVE  h[s] = f[x] + h[s \ {x}]
      BY DEF GrowsBy
    <3>1. h[s] = Cardinality(Of({x})) + h[s \ {x}]
      BY <1>5
    <3>2. f[x] = Cardinality(Of({x}))
      OBVIOUS
    <3>3. QED
      BY ONLY <3>1, <3>2
  <2>4. h[D] \in Nat
    BY <1>3
  <2>5. QED
    BY <2>2, <2>3, <2>4
<1>10. ASSUME \A i \in D : f[i] = Cardinality(Of({i}))
       PROVE  \A i \in D : f[i] >= Cardinality(Of({i}))
  BY <1>2, <1>8, <1>10
<1>11. QED
  BY <1>6, <1>7, <1>9, <1>10

LEMMA CountedByClass ==
    ASSUME NEW A, IsFiniteSet(A), NEW D, IsFiniteSet(D), NEW c \in [A -> D], NEW f \in [D -> Nat],
           \A i \in D : f[i] = Cardinality(ClassOf(A, c, i))
    PROVE  SumFunction(f) = Cardinality(A)
  BY ByClass

LEMMA CoveredByClass ==
    ASSUME NEW A, IsFiniteSet(A), NEW D, IsFiniteSet(D), NEW c \in [A -> D], NEW f \in [D -> Nat],
           \A i \in D : f[i] >= Cardinality(ClassOf(A, c, i))
    PROVE  SumFunction(f) \in Nat /\ SumFunction(f) >= Cardinality(A)
  BY ByClass

-----------------------------------------------------------------------------
(* Buckets. *)

LEMMA Quotient ==
    ASSUME NEW x \in Nat, NEW w \in Nat \ {0}
    PROVE  /\ x \div w \in Nat /\ (x \div w) * w \in Nat
           /\ (x \div w) * w <= x /\ x < (x \div w) * w + w
<1>1. x \div w \in Nat
  BY SMT
<1>2. (x \div w) * w <= x
  BY SMT
<1>3. x < (x \div w) * w + w
  BY SMT
<1>4. (x \div w) * w \in Nat
  BY <1>1, SMT
<1>5. QED
  BY <1>1, <1>2, <1>3, <1>4

LEMMA MultiplesApart ==
    ASSUME NEW i \in Nat, NEW j \in Nat, NEW w \in Nat \ {0}, i < j
    PROVE  i * w \in Nat /\ j * w \in Nat /\ i * w + w <= j * w
<1>1. PICK d \in Nat : j = i + 1 + d
  <2>1. j - (i + 1) \in Nat /\ j = i + 1 + (j - (i + 1))
    OBVIOUS
  <2>2. QED
    BY <2>1
<1>2. (i + 1 + d) * w = i * w + w + d * w
  BY SMT
<1>3. i * w \in Nat /\ d * w \in Nat
  BY SMT
<1>4. QED
  BY <1>1, <1>2, <1>3

\* A time is in the bucket of its own index alone.
LEMMA InBucket ==
    ASSUME NEW m \in Nat, NEW t \in Nat, m <= t, NEW w \in Nat \ {0}, NEW i \in Nat
    PROVE  (t - m) \div w = i <=> t >= m + i * w /\ t < m + i * w + w
<1> DEFINE q == (t - m) \div w
           x == t - m
           a == q * w
           b == i * w
<1>0. x \in Nat
  OBVIOUS
<1>1. q \in Nat /\ a \in Nat /\ a <= x /\ x < a + w
  BY <1>0, Quotient
<1>2. b \in Nat
  BY SMT
<1>3. q < i => a + w <= b
  BY <1>1, MultiplesApart
<1>4. i < q => b + w <= a
  BY <1>1, MultiplesApart
<1>5. q = i => a = b
  OBVIOUS
<1>6. t = m + x
  OBVIOUS
<1> HIDE DEF q, x, a, b
<1>7. q = i <=> x >= b /\ x < b + w
  BY <1>0, <1>1, <1>2, <1>3, <1>4, <1>5
<1>8. q = i <=> t >= m + b /\ t < m + b + w
  BY <1>0, <1>2, <1>6, <1>7
<1>9. QED
  BY <1>8 DEF q, b


-----------------------------------------------------------------------------
(* The counts of the index. *)

OfGroup(g) == {r \in records : r.group = g}

\* Every record has its group, and a group counts no fewer crashes than it has
\* records: retention and deletion take records and leave the count.
CountOK ==
    /\ \A r \in records : r.group \in DOMAIN groups
    /\ \A g \in DOMAIN groups : groups[g].occurrence >= Cardinality(OfGroup(g))

LEMMA CountRecordOK ==
    ASSUME IndexOK, CountOK, NEW g \in Group, NEW t \in Time, Record(g, t)
    PROVE  CountOK'
<1> DEFINE new == [id |-> issued + 1, group |-> g, at |-> t]
<1>1. records' = records \cup {new} /\ DOMAIN groups' = DOMAIN groups \cup {g}
  BY DEF Record
<1>2. IsFiniteSet(records) /\ \A x : IsFiniteSet(OfGroup(x)) /\ Cardinality(OfGroup(x)) \in Nat
  BY FS_Subset, FS_CardinalityType DEF IndexOK, OfGroup
<1>3. \A r \in records' : r.group \in DOMAIN groups'
  BY <1>1 DEF CountOK
<1>4. ASSUME NEW x \in DOMAIN groups', x # g
      PROVE  groups'[x].occurrence >= Cardinality(OfGroup(x)')
  <2>1. OfGroup(x)' = OfGroup(x)
    BY <1>1, <1>4 DEF OfGroup
  <2>2. x \in DOMAIN groups /\ groups'[x] = groups[x]
    BY <1>1, <1>4 DEF Record
  <2>3. QED
    BY <2>1, <2>2 DEF CountOK
<1>5. groups'[g].occurrence >= Cardinality(OfGroup(g)')
  <2>1. OfGroup(g)' = OfGroup(g) \cup {new}
    BY <1>1 DEF OfGroup
  <2>2. new \notin OfGroup(g)
    BY DEF OfGroup, IndexOK
  <2> HIDE DEF new
  <2>3. Cardinality(OfGroup(g)') = Cardinality(OfGroup(g)) + 1
    BY <1>2, <2>1, <2>2, FS_AddElement
  <2>4. CASE g \notin DOMAIN groups
    <3>1. OfGroup(g) = {}
      BY <2>4 DEF OfGroup, CountOK
    <3>2. Cardinality(OfGroup(g)) = 0
      BY <3>1, FS_EmptySet
    <3>3. groups'[g].occurrence = 1
      BY <2>4 DEF Record
    <3>4. QED
      BY <2>3, <3>2, <3>3
  <2>5. CASE g \in DOMAIN groups
    <3>1. groups'[g].occurrence = groups[g].occurrence + 1
      BY <2>5 DEF Record
    <3>2. groups[g].occurrence \in Nat /\ groups[g].occurrence >= Cardinality(OfGroup(g))
      BY <2>5 DEF IndexOK, GroupRow, CountOK
    <3>3. QED
      BY <1>2, <2>3, <3>1, <3>2
  <2>6. QED
    BY <2>4, <2>5
<1>6. QED
  BY <1>3, <1>4, <1>5 DEF CountOK

LEMMA CountEraseOK ==
    ASSUME IndexOK, CountOK, NEW gone, Erase(gone)
    PROVE  CountOK'
<1> DEFINE kept == DOMAIN groups \cap {r.group : r \in records'}
<1>1. records' \subseteq records
  BY DEF Erase
<1>2. groups' = [x \in kept |-> groups[x]]
  BY DEF Erase, Restrict
<1>3. \A r \in records' : r.group \in kept
  BY <1>1 DEF CountOK
<1>4. kept \subseteq DOMAIN groups
  OBVIOUS
<1> HIDE DEF kept
<1>5. ASSUME NEW x \in kept PROVE groups'[x].occurrence >= Cardinality(OfGroup(x)')
  <2>1. OfGroup(x)' \subseteq OfGroup(x) /\ IsFiniteSet(OfGroup(x))
    BY <1>1, FS_Subset DEF OfGroup, IndexOK
  <2>2. /\ Cardinality(OfGroup(x)') <= Cardinality(OfGroup(x))
        /\ Cardinality(OfGroup(x)') \in Nat /\ Cardinality(OfGroup(x)) \in Nat
    BY <2>1, FS_Subset, FS_CardinalityType
  <2>3. groups'[x] = groups[x] /\ groups[x].occurrence >= Cardinality(OfGroup(x))
    BY <1>2, <1>4 DEF CountOK
  <2>4. groups[x].occurrence \in Nat
    BY <1>4 DEF IndexOK, GroupRow
  <2>5. QED
    BY <2>2, <2>3, <2>4
<1>6. QED
  BY <1>2, <1>3, <1>5 DEF CountOK

(***************************************************************************)
(* A group counts at least the records it has, and every record has its    *)
(* group, whatever was recorded and deleted (insert_rows and delete).      *)
(***************************************************************************)
THEOREM CountInvariance == PgSpec => []CountOK
<1>1. PgInit => CountOK
  BY DEF PgInit, CountOK
<1>2. IndexOK /\ CountOK /\ [PgNext]_pgVars => CountOK'
  <2> SUFFICES ASSUME IndexOK, CountOK, [PgNext]_pgVars PROVE CountOK'
    OBVIOUS
  <2>1. CASE UNCHANGED <<groups, records>>
    BY <2>1 DEF CountOK, OfGroup
  <2>2. CASE \E n \in Limit : NextPage(n)
    BY <2>1, <2>2 DEF NextPage
  <2>3. CASE \E sort \in SortKey : ChangeSort(sort)
    BY <2>1, <2>3 DEF ChangeSort
  <2>4. CASE \E g \in Group, t \in Time : Record(g, t)
    BY <2>4, CountRecordOK
  <2>5. CASE \E g \in DOMAIN groups : DeleteGroup(g)
    BY <2>5, CountEraseOK DEF DeleteGroup
  <2>6. CASE \E r \in records : DeleteRecord(r)
    BY <2>6, CountEraseOK DEF DeleteRecord
  <2>7. QED
    BY <2>1, <2>2, <2>3, <2>4, <2>5, <2>6 DEF PgNext, pgVars
<1>3. PgInv => IndexOK
  BY DEF PgInv
<1>4. QED
  BY <1>1, <1>2, <1>3, PagingInvariance, PTL DEF PgSpec

-----------------------------------------------------------------------------
(* The statistics page. *)

Bucket(all, m, w, i) ==
    [from |-> m + i * w, count |-> Cardinality({r \in all : (r.at - m) \div w = i})]

BucketsOf(all, m, w) == {Bucket(all, m, w, i) : i \in {(r.at - m) \div w : r \in all}}

\* The buckets part the records.
LEMMA BucketsPart ==
    ASSUME NEW all, IsFiniteSet(all), \A r \in all : r.at \in Nat,
           NEW m \in Nat, \A r \in all : m <= r.at, NEW w \in Nat \ {0},
           NEW trend, trend = BucketsOf(all, m, w)
    PROVE  /\ SumFunction([b \in trend |-> b.count]) = Cardinality(all)
           /\ \A b \in trend :
                b.count = Cardinality({r \in all : r.at >= b.from /\ r.at < b.from + w})
<1> DEFINE q(r) == (r.at - m) \div w
           c == [r \in all |-> Bucket(all, m, w, q(r))]
           f == [b \in trend |-> b.count]
           Held(i) == {r \in all : q(r) = i}
<1>1. \A r \in all : q(r) \in Nat
  <2>1. \A r \in all : r.at - m \in Nat
    OBVIOUS
  <2>2. QED
    BY <2>1, Quotient
<1>2. \A b \in trend : \E r \in all : b = Bucket(all, m, w, q(r))
  BY DEF BucketsOf
<1>3. \A r \in all : Bucket(all, m, w, q(r)) \in trend
  BY DEF BucketsOf
<1>4. \A i : Bucket(all, m, w, i).count = Cardinality(Held(i)) /\ Bucket(all, m, w, i).from = m + i * w
  BY DEF Bucket
<1>5. \A i : IsFiniteSet(Held(i)) /\ Cardinality(Held(i)) \in Nat
  BY FS_Subset, FS_CardinalityType
<1>6. \A i \in Nat, r \in all : r \in Held(i) <=> r.at >= m + i * w /\ r.at < m + i * w + w
  BY InBucket
<1>7. \A i, j \in Nat : Bucket(all, m, w, i) = Bucket(all, m, w, j) => i = j
  <2> SUFFICES ASSUME NEW i \in Nat, NEW j \in Nat, Bucket(all, m, w, i) = Bucket(all, m, w, j), i < j
               PROVE  FALSE
    <3>1. \A i, j \in Nat : i = j \/ i < j \/ j < i
      OBVIOUS
    <3>2. QED
      BY <3>1
  <2> DEFINE x == i * w
             y == j * w
  <2>1. m + x = m + y
    BY <1>4
  <2>2. x \in Nat /\ y \in Nat /\ x + w <= y
    BY MultiplesApart
  <2> HIDE DEF x, y
  <2>3. QED
    BY <2>1, <2>2
<1>8. c \in [all -> trend] /\ \A r \in all : c[r] = Bucket(all, m, w, q(r))
  BY <1>3
<1>9. IsFiniteSet(trend)
  <2>1. c \in Surjection(all, trend)
    BY <1>2, <1>8 DEF Surjection
  <2> HIDE DEF c
  <2>2. QED
    BY <2>1, FS_Surjection
<1> HIDE DEF c, q
<1>10. ASSUME NEW b \in trend PROVE b.count \in Nat
  <2>1. PICK s \in all : b = Bucket(all, m, w, q(s))
    BY <1>2
  <2> HIDE DEF Held
  <2>2. b.count = Cardinality(Held(q(s)))
    BY <1>4, <2>1
  <2>3. QED
    BY <1>5, <2>2
<1>11. f \in [trend -> Nat] /\ \A b \in trend : f[b] = b.count
  BY <1>10
<1>12. \A b \in trend : f[b] = Cardinality(ClassOf(all, c, b))
  <2> SUFFICES ASSUME NEW b \in trend PROVE f[b] = Cardinality(ClassOf(all, c, b))
    OBVIOUS
  <2>1. PICK s \in all : b = Bucket(all, m, w, q(s))
    BY <1>2
  <2>2. ClassOf(all, c, b) = Held(q(s))
    BY <1>1, <1>7, <1>8, <2>1 DEF ClassOf
  <2> HIDE DEF Held, f
  <2>3. QED
    BY <1>4, <1>11, <2>1, <2>2
<1>13. ASSUME NEW b \in trend
       PROVE  b.count = Cardinality({r \in all : r.at >= b.from /\ r.at < b.from + w})
  <2>1. PICK s \in all : b = Bucket(all, m, w, q(s))
    BY <1>2
  <2>2. b.count = Cardinality(Held(q(s))) /\ b.from = m + q(s) * w /\ q(s) \in Nat
    BY <1>1, <1>4, <2>1
  <2>3. Held(q(s)) \subseteq all
    OBVIOUS
  <2> HIDE DEF Held
  <2>4. Held(q(s)) = {r \in all : r.at >= b.from /\ r.at < b.from + w}
    BY <1>6, <2>2, <2>3
  <2>5. QED
    BY <2>2, <2>4
<1> HIDE DEF f
<1>14. SumFunction(f) = Cardinality(all)
  <2>1. c \in [all -> trend] /\ f \in [trend -> Nat] /\ IsFiniteSet(all)
    BY <1>8, <1>11
  <2>2. QED
    BY <1>9, <1>12, <2>1, CountedByClass
<1>15. QED
  BY <1>13, <1>14 DEF f

LEMMA LargerOfTwo ==
    ASSUME NEW a \in Nat, NEW b \in Nat
    PROVE  Max({a, b}) \in Nat /\ Max({a, b}) >= b
<1>1. CASE a <= b
  <2>1. Max({a, b}) = b
    BY <1>1 DEF Max
  <2>2. QED
    BY <2>1
<1>2. CASE b <= a
  <2>1. Max({a, b}) = a
    BY <1>2 DEF Max
  <2>2. QED
    BY <1>2, <2>1
<1>3. QED
  BY <1>1, <1>2

LEMMA StatsOK ==
    ASSUME IndexOK, CountOK
    PROVE  StatsAgree
<1> SUFFICES ASSUME NEW from \in Bound, NEW to \in Bound, NEW width \in Width,
                    InWindow(from, to) # {}
             PROVE  LET all   == InWindow(from, to)
                        trend == Trend(from, to, width)
                        w     == TrendWidth(from, to, width)
                        kinds == ByKind(from, to)
                    IN  /\ SumFunction([b \in trend |-> b.count]) = Cardinality(all)
                        /\ SumFunction(kinds) = Cardinality(all)
                        /\ \A b \in trend :
                            b.count = Cardinality({r \in all : r.at >= b.from /\ r.at < b.from + w})
  BY Zenon DEF StatsAgree
<1> DEFINE all   == InWindow(from, to)
           times == {r.at : r \in all}
           m     == Min(times)
           w     == TrendWidth(from, to, width)
<1>1. all \subseteq records /\ IsFiniteSet(all) /\ \A r \in all : r.at \in Nat
  BY FS_Subset DEF InWindow, IndexOK
<1>2. times \subseteq Nat /\ times # {} /\ \A r \in all : r.at \in times
  BY <1>1
<1>3. IsFiniteSet(times)
  <2> DEFINE g == [r \in all |-> r.at]
  <2>1. g \in Surjection(all, times)
    BY DEF Surjection
  <2> HIDE DEF g, times, all
  <2>2. QED
    BY <1>1, <2>1, FS_Surjection
<1>4. m \in times /\ \A y \in times : m <= y
  <2> HIDE DEF times
  <2>1. \E x \in times : \A y \in times : x <= y
    BY <1>2, FirstOf
  <2>2. QED
    BY <2>1 DEF Min
<1>5. m \in Nat /\ \A r \in all : m <= r.at
  <2> HIDE DEF times, m, all
  <2>1. QED
    BY <1>2, <1>4
<1>6. w \in Nat \ {0}
  <2>1. CASE width > 0
    BY <2>1, PagingAssumption DEF TrendWidth
  <2>2. CASE ~(width > 0)
    <3> DEFINE big  == Max(times)
               span == Max({big - m, 1})
    <3>1. w = Max({span \div Buckets, 1})
      BY <2>2 DEF TrendWidth
    <3> HIDE DEF w, times, m, all
    <3>2. big \in Nat /\ m <= big
      BY <1>2, <1>3, <1>4, LargestNumber
    <3> HIDE DEF big
    <3>3. big - m \in Nat /\ 1 \in Nat
      BY <1>5, <3>2
    <3>4. span \in Nat
      BY <3>3, LargerOfTwo
    <3> HIDE DEF span
    <3>5. span \div Buckets \in Nat
      BY <3>4, PagingAssumption, Quotient
    <3>6. Max({span \div Buckets, 1}) \in Nat /\ Max({span \div Buckets, 1}) >= 1
      BY <3>5, LargerOfTwo
    <3>7. QED
      BY <3>1, <3>6
  <2>3. QED
    BY <2>1, <2>2
<1>7. Trend(from, to, width) = BucketsOf(all, m, w)
  BY Zenon DEF Trend, Bucket, BucketsOf
<1>8. SumFunction(ByKind(from, to)) = Cardinality(all)
  <2> DEFINE kind == [r \in all |-> Traits[r.group].kind]
             D == {Traits[r.group].kind : r \in all}
             f == [k \in D |-> Cardinality({r \in all : Traits[r.group].kind = k})]
  <2>1. {r \in all : r.group \in DOMAIN groups} = all
    BY <1>1 DEF CountOK
  <2>2. ByKind(from, to) = f
    BY <2>1, Zenon DEF ByKind
  <2>3. kind \in [all -> D] /\ kind \in Surjection(all, D)
    BY DEF Surjection
  <2> HIDE DEF all
  <2>4. IsFiniteSet(D)
    <3> HIDE DEF kind, D
    <3>1. QED
      BY <1>1, <2>3, FS_Surjection
  <2>5. \A k : {r \in all : Traits[r.group].kind = k} = ClassOf(all, kind, k)
    BY DEF ClassOf
  <2>6. \A k : Cardinality(ClassOf(all, kind, k)) \in Nat
    BY <1>1, FS_Subset, FS_CardinalityType DEF ClassOf
  <2>7. f \in [D -> Nat] /\ \A k \in D : f[k] = Cardinality(ClassOf(all, kind, k))
    BY <2>5, <2>6
  <2> HIDE DEF kind, D, f
  <2>8. SumFunction(f) = Cardinality(all)
    BY <1>1, <2>3, <2>4, <2>7, CountedByClass
  <2>9. QED
    BY <2>2, <2>8
<1> HIDE DEF all, times, m, w
<1> DEFINE trend == Trend(from, to, width)
<1> HIDE DEF trend
<1>9. /\ SumFunction([b \in trend |-> b.count]) = Cardinality(all)
      /\ \A b \in trend :
            b.count = Cardinality({r \in all : r.at >= b.from /\ r.at < b.from + w})
  <2>1. trend = BucketsOf(all, m, w)
    BY <1>7 DEF trend
  <2>2. QED
    BY <1>1, <1>5, <1>6, <2>1, BucketsPart
<1>10. QED
  BY <1>8, <1>9, Zenon DEF all, w, trend

-----------------------------------------------------------------------------
(* The apps screen. *)

LEMMA AppsOK ==
    ASSUME IndexOK, CountOK
    PROVE  AppsAgree
<1> SUFFICES ASSUME NEW apps \in BOOLEAN, NEW processes \in BOOLEAN, NEW n \in Limit,
                    NEW rows \in PackageRollups(apps, processes, n)
             PROVE  LET every  == [packages |-> {}, kinds |-> {}, users |-> {}, from |-> {}, to |-> {},
                                   apps |-> apps, processes |-> processes, main |-> FALSE,
                                   handled |-> FALSE, query |-> {}]
                        shown  == {g \in DOMAIN groups : Within(every, g)}
                        ranked == {g \in shown : \E r \in rows :
                                        r.pkg = Traits[g].pkg /\ r.user = Traits[g].user}
                    IN  /\ SumFunction([r \in rows |-> r.groups]) = Cardinality(ranked)
                        /\ SumFunction([r \in rows |-> r.occurrence])
                                >= Cardinality({r \in records : r.group \in ranked})
                        /\ \A g \in shown \ ranked :
                            /\ Cardinality(rows) = RollupLimit(n)
                            /\ \A r \in rows : r.last >= groups[g].last
  BY Zenon DEF AppsAgree
<1> DEFINE every  == [packages |-> {}, kinds |-> {}, users |-> {}, from |-> {}, to |-> {},
                      apps |-> apps, processes |-> processes, main |-> FALSE,
                      handled |-> FALSE, query |-> {}]
           shown  == {g \in DOMAIN groups : Within(every, g)}
           ranked == {g \in shown : \E r \in rows :
                            r.pkg = Traits[g].pkg /\ r.user = Traits[g].user}
           all   == Rollups(apps, processes)
           G     == RolledUp(apps, processes)
           of(g) == {h \in G : Traits[h].pkg = Traits[g].pkg /\ Traits[h].user = Traits[g].user}
           occurrence(g) == [h \in of(g) |-> groups[h].occurrence]
           times(g) == {groups[h].last : h \in of(g)}
           row(g) == [pkg |-> Traits[g].pkg, user |-> Traits[g].user, groups |-> Cardinality(of(g)),
                      occurrence |-> SumFunction(occurrence(g)), last |-> Max(times(g)),
                      system |-> \E h \in of(g) : Traits[h].system,
                      installed |-> \A h \in of(g) : Traits[h].installed]
           R     == {r \in records : r.group \in ranked}
<1>1. shown = G
  <2>1. \A g \in DOMAIN groups : Within(every, g) <=>
            /\ apps \/ ~(Traits[g].system /\ Traits[g].installed)
            /\ processes \/ Traits[g].installed
    BY DEF Within
  <2> HIDE DEF every
  <2>2. QED
    BY <2>1 DEF RolledUp
<1>2. all = {row(g) : g \in G}
  BY Zenon DEF Rollups
<1>3. G \subseteq DOMAIN groups /\ IsFiniteSet(G)
  BY FS_Subset DEF RolledUp, IndexOK
<1>4. \A g \in G : g \in of(g) /\ of(g) \subseteq G /\ IsFiniteSet(of(g)) /\ Cardinality(of(g)) \in Nat
  BY <1>3, FS_Subset, FS_CardinalityType
<1>5. \A g, h \in G : row(g) = row(h) <=> h \in of(g)
  <2> SUFFICES ASSUME NEW g \in G, NEW h \in G PROVE row(g) = row(h) <=> h \in of(g)
    OBVIOUS
  <2>1. row(g).pkg = Traits[g].pkg /\ row(h).pkg = Traits[h].pkg
    OBVIOUS
  <2>2. row(g).user = Traits[g].user /\ row(h).user = Traits[h].user
    OBVIOUS
  <2>3. h \in of(g) => of(g) = of(h)
    OBVIOUS
  <2>4. h \in of(g) => row(g) = row(h)
    <3> HAVE h \in of(g)
    <3>1. of(g) = of(h) /\ Traits[g].pkg = Traits[h].pkg /\ Traits[g].user = Traits[h].user
      BY <2>3
    <3> HIDE DEF of
    <3>2. QED
      BY <3>1
  <2>5. row(g) = row(h) => Traits[g].pkg = Traits[h].pkg /\ Traits[g].user = Traits[h].user
    <3> HIDE DEF row
    <3>1. QED
      BY <2>1, <2>2
  <2> HIDE DEF row
  <2>6. QED
    BY <2>4, <2>5
<1>6. \A g \in G : /\ row(g).groups = Cardinality(of(g)) /\ row(g).last = Max(times(g))
                   /\ row(g).occurrence = SumFunction(occurrence(g))
                   /\ row(g).pkg = Traits[g].pkg /\ row(g).user = Traits[g].user
  OBVIOUS
<1> HIDE DEF row
\* The rows on the screen are those of the groups ranked.
<1>7. /\ rows \subseteq all /\ Cardinality(rows) = Min({RollupLimit(n), Cardinality(all)})
      /\ \A r \in rows, left \in all \ rows : r.last >= left.last
  BY DEF PackageRollups
<1> HIDE DEF all, every, shown
<1>8. ranked \subseteq G /\ \A g \in G : g \in ranked <=> row(g) \in rows
  <2>1. ASSUME NEW g \in G, NEW r \in rows, r.pkg = Traits[g].pkg, r.user = Traits[g].user
        PROVE  row(g) \in rows
    <3>1. PICK h \in G : r = row(h)
      BY <1>2, <1>7
    <3>2. h \in of(g)
      BY <1>6, <2>1, <3>1
    <3>3. QED
      BY <1>5, <3>1, <3>2
  <2>2. QED
    BY <1>1, <1>6, <2>1
<1>9. IsFiniteSet(all) /\ IsFiniteSet(rows)
  <2> DEFINE f == [g \in G |-> row(g)]
  <2>1. f \in Surjection(G, all)
    BY <1>2 DEF Surjection
  <2> HIDE DEF f
  <2>2. IsFiniteSet(all)
    BY <1>3, <2>1, FS_Surjection
  <2>3. QED
    BY <1>7, <2>2, FS_Subset
<1> HIDE DEF ranked
<1>10. IsFiniteSet(ranked)
  BY <1>3, <1>8, FS_Subset
<1>11. R \subseteq records /\ IsFiniteSet(R) /\ \A r \in R : r.group \in ranked /\ r.group \in G
  BY <1>8, FS_Subset DEF IndexOK
<1> HIDE DEF R
<1>12. ASSUME NEW g \in G
       PROVE  /\ row(g).occurrence \in Nat
              /\ row(g).occurrence >= Cardinality({r \in R : row(r.group) = row(g)})
  <2> DEFINE A == {r \in R : row(r.group) = row(g)}
             c == [r \in A |-> r.group]
             f == occurrence(g)
             D == of(g)
  <2>1. A \subseteq R /\ IsFiniteSet(A)
    BY <1>11, FS_Subset
  <2>2. \A r \in A : r.group \in D
    BY <1>5, <1>11
  <2>3. c \in [A -> D] /\ \A r \in A : c[r] = r.group
    BY <2>2
  <2>4. D \subseteq DOMAIN groups /\ IsFiniteSet(D)
    BY <1>3, <1>4
  <2>5. \A h \in D : groups[h].occurrence \in Nat /\ groups[h].occurrence >= Cardinality(OfGroup(h))
    BY <2>4 DEF IndexOK, GroupRow, CountOK
  <2>6. f \in [D -> Nat] /\ \A h \in D : f[h] = groups[h].occurrence
    BY <2>5
  <2> HIDE DEF A, c, f, D
  <2>7. \A h \in D : f[h] >= Cardinality(ClassOf(A, c, h))
    <3> SUFFICES ASSUME NEW h \in D PROVE f[h] >= Cardinality(ClassOf(A, c, h))
      OBVIOUS
    <3> DEFINE P == ClassOf(A, c, h)
    <3>1. P \subseteq OfGroup(h)
      BY <1>11, <2>1, <2>3 DEF OfGroup, ClassOf
    <3>2. IsFiniteSet(OfGroup(h))
      BY FS_Subset DEF IndexOK, OfGroup
    <3> HIDE DEF P
    <3>3. /\ Cardinality(P) <= Cardinality(OfGroup(h))
          /\ Cardinality(P) \in Nat /\ Cardinality(OfGroup(h)) \in Nat
      BY <3>1, <3>2, FS_Subset, FS_CardinalityType
    <3>4. f[h] \in Nat /\ f[h] >= Cardinality(OfGroup(h))
      BY <2>5, <2>6
    <3>5. f[h] >= Cardinality(P)
      BY <3>3, <3>4
    <3>6. QED
      BY <3>5 DEF P
  <2>8. SumFunction(f) \in Nat /\ SumFunction(f) >= Cardinality(A)
    BY <2>1, <2>3, <2>4, <2>6, <2>7, CoveredByClass
  <2>9. QED
    BY <1>6, <2>8 DEF A, f
<1> DEFINE rg == [g \in ranked |-> row(g)]
           rr == [r \in R |-> row(r.group)]
<1>13. rg \in [ranked -> rows] /\ \A g \in ranked : rg[g] = row(g)
  BY <1>8
<1>14. rr \in [R -> rows] /\ \A r \in R : rr[r] = row(r.group)
  BY <1>8, <1>11
<1>15. \A x \in rows : \E g \in G : x = row(g) /\ g \in ranked
  BY <1>2, <1>7, <1>8
<1> HIDE DEF rg, rr, G
<1>16. SumFunction([r \in rows |-> r.groups]) = Cardinality(ranked)
  <2> DEFINE f == [r \in rows |-> r.groups]
  <2>1. \A x \in rows : x.groups \in Nat /\ x.groups = Cardinality(ClassOf(ranked, rg, x))
    <3> SUFFICES ASSUME NEW x \in rows
                 PROVE  x.groups \in Nat /\ x.groups = Cardinality(ClassOf(ranked, rg, x))
      OBVIOUS
    <3>1. PICK g \in G : x = row(g) /\ g \in ranked
      BY <1>15
    <3>2. of(g) = ClassOf(ranked, rg, x)
      <4>1. ASSUME NEW h \in of(g) PROVE h \in ClassOf(ranked, rg, x)
        <5>1. h \in G /\ row(h) = row(g)
          BY <1>4, <1>5, <4>1
        <5>2. h \in ranked
          BY <1>8, <3>1, <5>1
        <5>3. QED
          BY <1>13, <3>1, <5>1, <5>2 DEF ClassOf
      <4>2. ASSUME NEW h \in ClassOf(ranked, rg, x) PROVE h \in of(g)
        <5>1. h \in ranked /\ rg[h] = x
          BY <4>2 DEF ClassOf
        <5>2. QED
          BY <1>5, <1>8, <1>13, <3>1, <5>1
      <4> HIDE DEF of
      <4>3. QED
        BY <4>1, <4>2
    <3> HIDE DEF of
    <3>3. QED
      BY <1>4, <1>6, <3>1, <3>2
  <2>2. f \in [rows -> Nat] /\ \A x \in rows : f[x] = Cardinality(ClassOf(ranked, rg, x))
    BY <2>1
  <2> HIDE DEF f
  <2>3. SumFunction(f) = Cardinality(ranked)
    BY <1>9, <1>10, <1>13, <2>2, CountedByClass
  <2>4. QED
    BY <2>3 DEF f
<1>17. SumFunction([r \in rows |-> r.occurrence]) >= Cardinality(R)
  <2> DEFINE f == [r \in rows |-> r.occurrence]
  <2>1. \A x \in rows : x.occurrence \in Nat /\ x.occurrence >= Cardinality(ClassOf(R, rr, x))
    <3> SUFFICES ASSUME NEW x \in rows
                 PROVE  x.occurrence \in Nat /\ x.occurrence >= Cardinality(ClassOf(R, rr, x))
      OBVIOUS
    <3>1. PICK g \in G : x = row(g)
      BY <1>15
    <3>2. ClassOf(R, rr, x) = {r \in R : row(r.group) = row(g)}
      BY <1>14, <3>1 DEF ClassOf
    <3>3. QED
      BY <1>12, <3>1, <3>2
  <2>2. f \in [rows -> Nat] /\ \A x \in rows : f[x] >= Cardinality(ClassOf(R, rr, x))
    BY <2>1
  <2> HIDE DEF f
  <2>3. SumFunction(f) >= Cardinality(R)
    BY <1>9, <1>11, <1>14, <2>2, CoveredByClass
  <2>4. QED
    BY <2>3 DEF f
\* What is left out of a full screen is not newer than what is on it.
<1>18. ASSUME NEW g \in G, g \notin ranked
       PROVE  Cardinality(rows) = RollupLimit(n) /\ \A r \in rows : r.last >= groups[g].last
  <2>1. row(g) \in all \ rows
    BY <1>2, <1>8, <1>18
  <2>2. Cardinality(rows) = RollupLimit(n)
    <3>1. /\ Cardinality(all) \in Nat /\ Cardinality(rows) \in Nat
          /\ Cardinality(rows) # Cardinality(all)
      BY <1>7, <1>9, <2>1, FS_Subset, FS_CardinalityType
    <3>2. RollupLimit(n) \in Nat
      BY PagingAssumption DEF RollupLimit
    <3>3. PICK a \in Nat, b \in Nat : a = RollupLimit(n) /\ b = Cardinality(all)
      BY <3>1, <3>2
    <3>4. Min({a, b}) \in {a, b}
      <4>1. CASE a <= b
        BY <4>1 DEF Min
      <4>2. CASE b <= a
        BY <4>2 DEF Min
      <4>3. QED
        BY <4>1, <4>2
    <3>5. QED
      BY <1>7, <3>1, <3>3, <3>4
  <2>3. row(g).last \in Nat /\ row(g).last >= groups[g].last /\ groups[g].last \in Nat
    <3>1. of(g) \subseteq DOMAIN groups /\ \A h \in of(g) : groups[h].last \in Nat
      BY <1>3, <1>4 DEF IndexOK, GroupRow
    <3>2. times(g) \subseteq Nat /\ groups[g].last \in times(g)
      BY <1>4, <3>1
    <3>3. IsFiniteSet(times(g))
      <4> DEFINE f == [h \in of(g) |-> groups[h].last]
      <4>1. f \in Surjection(of(g), times(g))
        BY DEF Surjection
      <4> HIDE DEF f, times, of
      <4>2. QED
        BY <1>4, <4>1, FS_Surjection
    <3> HIDE DEF times
    <3>4. Max(times(g)) \in times(g) /\ groups[g].last <= Max(times(g))
      BY <3>2, <3>3, LargestNumber
    <3>5. QED
      BY <1>6, <3>2, <3>4
  <2>4. ASSUME NEW r \in rows PROVE r.last >= groups[g].last
    <3>1. r.last >= row(g).last
      BY <1>7, <2>1
    <3>2. r.last \in Nat
      <4>1. PICK h \in G : r = row(h)
        BY <1>15
      <4>2. of(h) \subseteq DOMAIN groups /\ \A k \in of(h) : groups[k].last \in Nat
        BY <1>3, <1>4 DEF IndexOK, GroupRow
      <4>3. times(h) \subseteq Nat /\ times(h) # {}
        BY <1>4, <4>2
      <4>4. IsFiniteSet(times(h))
        <5> DEFINE f == [k \in of(h) |-> groups[k].last]
        <5>1. f \in Surjection(of(h), times(h))
          BY DEF Surjection
        <5> HIDE DEF f, times, of
        <5>2. QED
          BY <1>4, <5>1, FS_Surjection
      <4> HIDE DEF times
      <4>5. Max(times(h)) \in times(h)
        BY <4>3, <4>4, LargestNumber
      <4>6. QED
        BY <1>6, <4>1, <4>3, <4>5
    <3>3. QED
      BY <2>3, <3>1, <3>2
  <2>5. QED
    BY <2>2, <2>4
<1>19. \A g \in shown \ ranked : /\ Cardinality(rows) = RollupLimit(n)
                                 /\ \A r \in rows : r.last >= groups[g].last
  BY <1>1, <1>18
<1>20. QED
  BY <1>16, <1>17, <1>19, Zenon DEF every, shown, ranked, R

(***************************************************************************)
(* The figures of the statistics page agree with each other, for any       *)
(* number of groups and records, windows and bucket widths: the total, the *)
(* kinds and the buckets of the trend (Store::stats, Store::trend).        *)
(***************************************************************************)
THEOREM StatisticsAgree == PgSpec => []StatsAgree
<1>1. PgInv /\ CountOK => StatsAgree
  BY StatsOK DEF PgInv
<1>2. QED
  BY <1>1, PagingInvariance, CountInvariance, PTL

(***************************************************************************)
(* The apps screen agrees with the crash list, for any number of packages, *)
(* users and groups, every limit and every way SQLite may order equal      *)
(* rows: what is ranked is counted in full, and what the limit cuts off is *)
(* no newer than anything on the screen (Store::package_rollups).          *)
(***************************************************************************)
THEOREM ScreensAgree == PgSpec => []AppsAgree
<1>1. PgInv /\ CountOK => AppsAgree
  BY AppsOK DEF PgInv
<1>2. QED
  BY <1>1, PagingInvariance, CountInvariance, PTL
=============================================================================
