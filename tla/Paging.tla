------------------------------- MODULE Paging --------------------------------
(***************************************************************************)
(* The lists of the manager: pages of groups and of the records of a       *)
(* group, taken from the index while crashes are recorded and deleted, and *)
(* the counts of the statistics page.                                      *)
(*                                                                         *)
(* A page resumes behind a cursor: the value of the sort column and the id *)
(* of the last row of the page before it.  The index is one SQLite         *)
(* connection behind a lock, so one page is one step.  Ids, package names  *)
(* and times are numbers, ordered as SQLite orders them.                   *)
(***************************************************************************)
EXTENDS Integers, Sequences, FiniteSets, SequencesExt, FiniteSetsExt, Functions

CONSTANTS
    Group,         \* group ids
    Traits,        \* of each group: [pkg, kind, user, system, installed, main, handled, says]
    Filter,        \* filters a client asks with
    Time,          \* times of crashes
    Limit,         \* page sizes a client asks for, 0 for the default
    DefaultLimit, MaxLimit,
    Buckets,       \* DEFAULT_TREND_BUCKETS
    Width,         \* bucket widths a client asks for, 0 for the default
    Bound,         \* ends of the windows a client asks statistics of
    MaxRecords,    \* bound: crashes recorded
    NoCursor       \* no cursor

SortKey == {"last_seen", "first_seen", "occurrence", "package", "record"}

ASSUME PagingAssumption ==
    /\ Group \subseteq Nat /\ Time \subseteq Nat /\ Limit \subseteq Nat /\ Width \subseteq Nat
    /\ Bound \subseteq Nat /\ \A g \in Group : Traits[g].pkg \in Nat
    /\ NoCursor \notin [sort : SortKey, anchor : Nat, tiebreak : Nat]
    /\ MaxLimit \in Nat /\ DefaultLimit \in 1..MaxLimit /\ Buckets \in Nat \ {0}

VARIABLES
    groups,   \* crash_group: first, last, occurrence of the ids it has
    records,  \* crash_record: [id, group, at]
    scroll,   \* what a client has asked for and got
    touched,  \* rows inserted, changed or deleted since its first page
    issued    \* records so far

pgVars == <<groups, records, scroll, touched, issued>>

-----------------------------------------------------------------------------
(***************************************************************************)
(* CrashFilter and its predicates.  An empty list restricts nothing.       *)
(***************************************************************************)
ValidFilter(f) == f.from # {} /\ f.to # {} => Min(f.from) <= Min(f.to)

Within(f, g) ==
    /\ f.packages # {} => Traits[g].pkg \in f.packages
    /\ f.kinds # {} => Traits[g].kind \in f.kinds
    /\ f.users # {} => Traits[g].user \in f.users
    /\ \A t \in f.from : groups[g].last >= t
    /\ \A t \in f.to : groups[g].first < t
    /\ f.apps \/ ~(Traits[g].system /\ Traits[g].installed)
    /\ f.processes \/ Traits[g].installed
    /\ f.main => Traits[g].main
    /\ f.handled => Traits[g].handled
    /\ f.query \subseteq Traits[g].says

-----------------------------------------------------------------------------
(***************************************************************************)
(* Sorting and cursors.                                                    *)
(***************************************************************************)
IsDescending(sort) == sort # "package"

\* group_sort_column; the records of a group are sorted by their time.
Column(sort, x) ==
    CASE sort = "last_seen"  -> groups[x].last
      [] sort = "first_seen" -> groups[x].first
      [] sort = "occurrence" -> groups[x].occurrence
      [] sort = "package"    -> Traits[x].pkg
      [] sort = "record"     -> (CHOOSE r \in records : r.id = x).at

\* ORDER BY column, id; and the predicate of a cursor.
Before(sort, a, i, b, j) ==
    IF IsDescending(sort) THEN a > b \/ (a = b /\ i > j) ELSE a < b \/ (a = b /\ i < j)

\* The rows ids in that order: there is one such sequence.
Ordered(sort, ids) ==
    {s \in [1..Cardinality(ids) -> ids] :
        /\ Range(s) = ids
        /\ \A i, j \in DOMAIN s :
            i < j => Before(sort, Column(sort, s[i]), s[i], Column(sort, s[j]), s[j])}

CursorAfter(sort, x) == [sort |-> sort, anchor |-> Column(sort, x), tiebreak |-> x]

\* Mutant of CursorPredicate: rows that share the anchor are not told apart.
CursorWithoutTiebreak(cursor, x) ==
    cursor # NoCursor =>
        IF IsDescending(cursor.sort) THEN Column(cursor.sort, x) < cursor.anchor
        ELSE Column(cursor.sort, x) > cursor.anchor

\* Mutant of CursorPredicate: the row the cursor was taken from comes again.
CursorInclusive(cursor, x) ==
    cursor # NoCursor =>
        \/ Before(cursor.sort, cursor.anchor, cursor.tiebreak, Column(cursor.sort, x), x)
        \/ cursor.tiebreak = x

CursorPredicate(cursor, x) ==
    cursor # NoCursor =>
        Before(cursor.sort, cursor.anchor, cursor.tiebreak, Column(cursor.sort, x), x)

ValidFor(cursor, sort) == cursor # NoCursor => cursor.sort = sort

EffectiveLimit(n) == IF n = 0 THEN DefaultLimit ELSE IF n > MaxLimit THEN MaxLimit ELSE n

\* The first page of the rows.  One row more than the page is read, to know
\* whether there is another page.
PageOf(sort, rows, n) ==
    LET more == Len(rows) > EffectiveLimit(n)
        page == IF more THEN SubSeq(rows, 1, EffectiveLimit(n)) ELSE rows
    IN  [items |-> page, next |-> IF more THEN CursorAfter(sort, Last(page)) ELSE NoCursor]

-----------------------------------------------------------------------------
(***************************************************************************)
(* A client that scrolls.  `of` is a filter for groups, a group for its    *)
(* records.                                                                *)
(***************************************************************************)
Fresh(sort, of) ==
    [sort |-> sort, of |-> of, cursor |-> NoCursor, got |-> <<>>, done |-> FALSE]

Rows(sort, of) ==
    IF sort = "record" THEN {r.id : r \in {x \in records : x.group = of}}
    ELSE {g \in DOMAIN groups : Within(of, g)}

\* list_groups, list_records.  A cursor of another query is refused, and the
\* client starts over.
NextPage(n) ==
    LET ids == {x \in Rows(scroll.sort, scroll.of) : CursorPredicate(scroll.cursor, x)} IN
    /\ ~scroll.done
    /\ \/ /\ ValidFor(scroll.cursor, scroll.sort)
          /\ \E rows \in Ordered(scroll.sort, ids) :
                LET page == PageOf(scroll.sort, rows, n)
                IN  scroll' = [scroll EXCEPT !.got = @ \o page.items, !.cursor = page.next,
                                             !.done = page.next = NoCursor]
          /\ touched' = touched
       \/ /\ ~ValidFor(scroll.cursor, scroll.sort)
          /\ scroll' = Fresh(scroll.sort, scroll.of) /\ touched' = {}
    /\ UNCHANGED <<groups, records, issued>>

\* The user picks another order and the page that is asked for still carries
\* the cursor of the old one.
ChangeSort(sort) ==
    /\ scroll.cursor # NoCursor /\ scroll.sort # "record"
    /\ sort \notin {scroll.sort, "record"}
    /\ scroll' = [scroll EXCEPT !.sort = sort]
    /\ UNCHANGED <<groups, records, touched, issued>>

-----------------------------------------------------------------------------
(***************************************************************************)
(* What happens to the index meanwhile.                                    *)
(***************************************************************************)
Touch(rows) == touched' = IF scroll.got = <<>> /\ ~scroll.done THEN {} ELSE touched \cup rows

\* insert_rows
Record(g, t) ==
    LET id == issued + 1 IN
    /\ issued < MaxRecords /\ issued' = id
    /\ records' = records \cup {[id |-> id, group |-> g, at |-> t]}
    /\ groups' = [x \in DOMAIN groups \cup {g} |->
                    IF x # g THEN groups[x]
                    ELSE IF g \notin DOMAIN groups THEN [first |-> t, last |-> t, occurrence |-> 1]
                    ELSE [first |-> Min({groups[g].first, t}), last |-> Max({groups[g].last, t}),
                          occurrence |-> groups[g].occurrence + 1]]
    /\ Touch(IF scroll.sort = "record" THEN {id} ELSE {g})
    /\ UNCHANGED scroll

\* delete: a group, or ids and the groups that are left without a record.
Erase(gone) ==
    LET left == {r \in records : r \notin gone}
        kept == DOMAIN groups \cap {r.group : r \in left} IN
    /\ gone # {}
    /\ records' = left
    /\ groups' = Restrict(groups, kept)
    /\ Touch(IF scroll.sort = "record" THEN {r.id : r \in gone} ELSE DOMAIN groups \ kept)
    /\ UNCHANGED <<scroll, issued>>

DeleteGroup(g) == Erase({r \in records : r.group = g})

DeleteRecord(r) == Erase({r})

PgInit ==
    /\ groups = [g \in {} |-> {}] /\ records = {} /\ touched = {} /\ issued = 0
    /\ \/ \E sort \in SortKey \ {"record"}, f \in Filter : ValidFilter(f) /\ scroll = Fresh(sort, f)
       \/ \E g \in Group : scroll = Fresh("record", g)

PgNext ==
    \/ \E n \in Limit : NextPage(n)
    \/ \E sort \in SortKey : ChangeSort(sort)
    \/ \E g \in Group, t \in Time : Record(g, t)
    \/ \E g \in DOMAIN groups : DeleteGroup(g)
    \/ \E r \in records : DeleteRecord(r)

PgSpec == PgInit /\ [][PgNext]_pgVars

-----------------------------------------------------------------------------
(***************************************************************************)
(* stats: how many records there are in [from, to), in all, by kind and    *)
(* in the buckets of the trend.                                            *)
(***************************************************************************)
InWindow(from, to) == {r \in records : r.at >= from /\ r.at < to}

ByKind(from, to) ==
    LET joined == {r \in InWindow(from, to) : r.group \in DOMAIN groups}
    IN  [k \in {Traits[r.group].kind : r \in joined} |->
            Cardinality({r \in joined : Traits[r.group].kind = k})]

TrendWidth(from, to, width) ==
    LET times == {r.at : r \in InWindow(from, to)}
        span == Max({Max(times) - Min(times), 1})
    IN  IF width > 0 THEN width ELSE Max({span \div Buckets, 1})

\* Mutant of Trend: buckets are counted from the start of the window.
TrendFromWindow(from, to, width) ==
    LET times == {r.at : r \in InWindow(from, to)}
        w     == TrendWidth(from, to, width)
        index(r) == (r.at - from) \div w
    IN  {[from |-> Min(times) + i * w,
          count |-> Cardinality({r \in InWindow(from, to) : index(r) = i})] :
            i \in {index(r) : r \in InWindow(from, to)}}

Trend(from, to, width) ==
    LET times == {r.at : r \in InWindow(from, to)}
        w     == TrendWidth(from, to, width)
        index(r) == (r.at - Min(times)) \div w
    IN  {[from |-> Min(times) + i * w,
          count |-> Cardinality({r \in InWindow(from, to) : index(r) = i})] :
            i \in {index(r) : r \in InWindow(from, to)}}

-----------------------------------------------------------------------------
(***************************************************************************)
(* package_rollups: one row of the apps screen for each package and user   *)
(* with a crash the two switches let through, newest crash first, and no   *)
(* more of them than the client asks for.                                  *)
(***************************************************************************)
RolledUp(apps, processes) ==
    {g \in DOMAIN groups :
        /\ apps \/ ~(Traits[g].system /\ Traits[g].installed)
        /\ processes \/ Traits[g].installed}

Rollups(apps, processes) ==
    LET of(g) == {h \in RolledUp(apps, processes) :
                    Traits[h].pkg = Traits[g].pkg /\ Traits[h].user = Traits[g].user}
    IN  {[pkg |-> Traits[g].pkg, user |-> Traits[g].user, groups |-> Cardinality(of(g)),
          occurrence |-> SumFunction([h \in of(g) |-> groups[h].occurrence]),
          last |-> Max({groups[h].last : h \in of(g)}),
          system |-> \E h \in of(g) : Traits[h].system,
          installed |-> \A h \in of(g) : Traits[h].installed] : g \in RolledUp(apps, processes)}

RollupLimit(n) == IF n = 0 \/ n > MaxLimit THEN MaxLimit ELSE n

\* Mutant of PackageRollups: the limit is applied before the rows are sorted.
UnsortedRollups(apps, processes, n) ==
    LET all == Rollups(apps, processes)
    IN  {rows \in SUBSET all : Cardinality(rows) = Min({RollupLimit(n), Cardinality(all)})}

\* The answers to one query: rows with the same newest crash come in any order.
PackageRollups(apps, processes, n) ==
    LET all == Rollups(apps, processes)
    IN  {rows \in SUBSET all :
            /\ Cardinality(rows) = Min({RollupLimit(n), Cardinality(all)})
            /\ \A r \in rows, left \in all \ rows : r.last >= left.last}

-----------------------------------------------------------------------------
Listed == Range(scroll.got)

(***************************************************************************)
(* Scrolling to the end shows everything: a row that matches the query and *)
(* that nobody touched since the first page is on one of the pages,        *)
(* whatever was recorded or deleted around it and however many rows share  *)
(* its place in the order (list_groups and list_records).                  *)
(***************************************************************************)
ScrollIsComplete ==
    scroll.done => Rows(scroll.sort, scroll.of) \ touched \subseteq Listed

(***************************************************************************)
(* No row is shown twice, and rows are in order, unless the row was        *)
(* touched between the two pages.                                          *)
(***************************************************************************)
ScrollIsOrdered ==
    ValidFor(scroll.cursor, scroll.sort) =>
        \A i, j \in 1..Len(scroll.got) :
            LET x == scroll.got[i]  y == scroll.got[j] IN
            i < j /\ {x, y} \cap touched = {} =>
                Before(scroll.sort, Column(scroll.sort, x), x, Column(scroll.sort, y), y)

(***************************************************************************)
(* The three counts of the statistics page agree for every window and      *)
(* bucket width, and the buckets are disjoint: each holds the records of   *)
(* its own stretch of time (Store::stats and Store::trend).                *)
(***************************************************************************)
StatsAgree ==
    \A from, to \in Bound, width \in Width :
        LET all   == InWindow(from, to)
            trend == Trend(from, to, width)
            w     == TrendWidth(from, to, width)
            kinds == ByKind(from, to)
        IN  all # {} =>
            /\ SumFunction([b \in trend |-> b.count]) = Cardinality(all)
            /\ SumFunction(kinds) = Cardinality(all)
            /\ \A b \in trend :
                b.count = Cardinality({r \in all : r.at >= b.from /\ r.at < b.from + w})

(***************************************************************************)
(* The apps screen and the crash list agree, whatever limit the client     *)
(* gives: the rows of the apps screen account for each group of their      *)
(* packages that the list shows under the same two switches exactly once,  *)
(* their crash counts cover every record that is left of them, and a group *)
(* of the list is missing only from a full screen on which everything is   *)
(* at least as new (Store::package_rollups against sql::group_filter).     *)
(***************************************************************************)
AppsAgree ==
    \A apps, processes \in BOOLEAN, n \in Limit :
    \A rows \in PackageRollups(apps, processes, n) :
        LET every  == [packages |-> {}, kinds |-> {}, users |-> {}, from |-> {}, to |-> {},
                       apps |-> apps, processes |-> processes, main |-> FALSE,
                       handled |-> FALSE, query |-> {}]
            shown  == {g \in DOMAIN groups : Within(every, g)}
            ranked == {g \in shown : \E r \in rows :
                            r.pkg = Traits[g].pkg /\ r.user = Traits[g].user}
        IN  /\ SumFunction([r \in rows |-> r.groups]) = Cardinality(ranked)
            /\ SumFunction([r \in rows |-> r.occurrence])
                    >= Cardinality({r \in records : r.group \in ranked})
            /\ \A g \in shown \ ranked :
                /\ Cardinality(rows) = RollupLimit(n)
                /\ \A r \in rows : r.last >= groups[g].last

=============================================================================
