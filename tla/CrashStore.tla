----------------------------- MODULE CrashStore ------------------------------
(***************************************************************************)
(* The crash store of src/crates/cch_store/src: an SQLite index (rows,     *)
(* groups) beside a directory of payload files, one file per record id.    *)
(* The index is updated in transactions, the directory is not, and the     *)
(* connection lock is released between the steps of an operation.  This    *)
(* module keeps those steps apart.                                         *)
(*                                                                         *)
(* The ingest thread inserts, folds and sweeps; each manager connection    *)
(* deletes on a thread of its own; the daemon may die between two steps.   *)
(* Which records are inserted or folded is IngestLoop's business, as are   *)
(* the source keys written with them: here any crash of a given set may    *)
(* arrive, and may be folded into any record of its group.                 *)
(*                                                                         *)
(* Every payload file weighs one byte, as in Retention.  payload_path is   *)
(* not NULL exactly when payload is "present" (which stands for Truncated  *)
(* too), and names the file of the record's id.                            *)
(***************************************************************************)
EXTENDS Retention, FiniteSetsExt

CONSTANTS
    Crash,      \* what may be ingested: [kind, process, user, at, payload]
    Client,     \* connections of the manager
    Span,       \* ids of one millisecond: 2^SEQUENCE_BITS
    Times,      \* what the clock may read when a sweep starts
    MaxIds,     \* bound on inserts
    MaxFaults,  \* bound on failures of the file system or of SQLite
    MaxLives    \* bound on daemon starts

ASSUME StoreAssumption ==
    /\ \A c \in Crash : c.at \in Nat /\ c.payload \in {"absent", "present"}
    /\ Span \in Nat \ {0} /\ MaxIds < Span
    /\ Times \subseteq Nat /\ MaxIds \in Nat /\ MaxFaults \in Nat /\ MaxLives \in Nat

VARIABLES
    rows,       \* crash_record
    groups,     \* crash_group: occurrence, payload_bytes, last_seen_ms
    files,      \* the ids that have a payload file
    lastId,     \* RecordIdGenerator: last_ms and sequence, as one number
    work,       \* what the ingest thread is in the middle of
    request,    \* what each manager connection is in the middle of
    serving,    \* the start-up sweep is over: servers and collectors run
    condemned,  \* history: the ids whose payload some operation set out to unlink
    inserts,    \* inserts begun
    faults,     \* failed calls
    lives       \* daemon starts

index     == <<rows, groups>>
bounds    == <<inserts, faults, lives>>
storeVars == <<index, files, lastId, work, request, serving, condemned, bounds>>

-----------------------------------------------------------------------------
GroupOf(r) == <<r.kind, r.process, r.user>>

Ids(S) == {r.id : r \in S}

\* The payload files the rows of S point at.
Paths(S) == {r.id : r \in {q \in S : q.payload = "present"}}

\* RecordIdGenerator::next: the clock never runs backwards in ids.
NextId(at) == IF at > lastId \div Span THEN at * Span ELSE lastId + 1

\* What an operation holds between two steps: the rows it read, the files it
\* still has to unlink (or wrote, and unlinks if it fails), the age cutoff of
\* the sweep and by how much a ceiling was exceeded when it looked.
Doing(step, chosen, paths, cutoff, over) ==
    [step |-> step, chosen |-> chosen, paths |-> paths, cutoff |-> cutoff, over |-> over]

Idle == Doing("idle", {}, {}, 0, 0)

\* The cutoff of a sweep that starts at time now.
SweepFrom(now) == Doing("age", {}, {}, now - MaxAge, 0)

NoRequest == [what |-> "none", groups |-> {}, ids |-> {}, paths |-> {}]

\* Fault: some call of the operation returned an error.
Fault == faults < MaxFaults /\ faults' = faults + 1

-----------------------------------------------------------------------------
(* insert_with_sources                                                     *)

RowOf(c, id) ==
    [id |-> id, kind |-> c.kind, process |-> c.process, user |-> c.user,
     at |-> c.at, payload |-> c.payload]

\* next_id, then the payload is written.
InsertBegin(c) ==
    LET row == RowOf(c, NextId(c.at))
    IN  /\ serving /\ work.step = "idle" /\ inserts < MaxIds
        /\ lastId' = row.id /\ inserts' = inserts + 1
        /\ \/ /\ files' = files \cup Paths({row})
              /\ work' = Doing("insert", {row}, Paths({row}), 0, 0)
              /\ UNCHANGED faults
           \/ /\ Fault /\ c.payload = "present"          \* perhaps half written
              /\ files' \in {files, files \cup {row.id}}
              /\ UNCHANGED work
        /\ UNCHANGED <<index, request, serving, condemned, lives>>

\* The upsert of crash_group.
Upsert(r) ==
    LET g   == GroupOf(r)
        old == IF g \in DOMAIN groups THEN groups[g]
               ELSE [occurrence |-> 0, bytes |-> 0, last |-> r.at]
        new == [occurrence |-> old.occurrence + 1,
                bytes |-> old.bytes + Cardinality(Paths({r})),
                last |-> IF r.at > old.last THEN r.at ELSE old.last]
    IN  [h \in DOMAIN groups \cup {g} |-> IF h = g THEN new ELSE groups[h]]

\* insert_rows commits; ingest_with_sources then sweeps.
InsertCommit(now) ==
    /\ work.step = "insert" /\ Ids(work.chosen) \cap Ids(rows) = {}
    /\ \A r \in work.chosen : groups' = Upsert(r)
    /\ rows' = rows \cup work.chosen
    /\ work' = SweepFrom(now)
    /\ UNCHANGED <<files, lastId, request, serving, condemned, bounds>>

\* insert_rows fails, as it does on a primary key that is taken: the file goes.
InsertAbort ==
    /\ work.step = "insert"
    /\ \/ Fault
       \/ Ids(work.chosen) \cap Ids(rows) # {} /\ UNCHANGED faults
    /\ files' = files \ work.paths /\ work' = Idle
    /\ UNCHANGED <<index, lastId, request, serving, condemned, inserts, lives>>

-----------------------------------------------------------------------------
(* fold_into_record                                                        *)

\* companion_record has read the row; the payload is written if it had none.
FoldBegin(row, c) ==
    LET adopts == row.payload = "absent" /\ c.payload = "present"
        paths  == IF adopts THEN {row.id} ELSE {}
    IN  /\ serving /\ work.step = "idle" /\ GroupOf(row) = GroupOf(c)
        /\ \/ /\ files' = files \cup paths
              /\ work' = Doing("fold", {row}, paths, 0, 0)
              /\ UNCHANGED faults
           \/ /\ Fault /\ adopts
              /\ files' \in {files, files \cup paths}
              /\ UNCHANGED work
        /\ UNCHANGED <<index, lastId, request, serving, condemned, inserts, lives>>

\* Mutant: the group does not learn of the adopted payload.
Unweighed(S, n) == groups

\* The payload_bytes of the groups of S grow by n for each row.
Weighed(S, n) ==
    [g \in DOMAIN groups |->
        [groups[g] EXCEPT !.bytes = @ + n * Cardinality({r \in S : GroupOf(r) = g})]]

\* fold_rows commits.  No sweep follows.
FoldCommit ==
    LET adopted == {r \in work.chosen : r.id \in work.paths}
    IN  /\ work.step = "fold" /\ Ids(work.chosen) \subseteq Ids(rows)
        /\ rows' = {IF r.id \in work.paths THEN [r EXCEPT !.payload = "present"] ELSE r : r \in rows}
        /\ groups' = Weighed(adopted, 1)
        /\ work' = Idle
        /\ UNCHANGED <<files, lastId, request, serving, condemned, bounds>>

\* Mutant: the clean-up unlinks the record's file whether or not this fold wrote it.
FoldAbortUnlinks ==
    /\ work.step = "fold"
    /\ \/ Fault
       \/ ~(Ids(work.chosen) \subseteq Ids(rows)) /\ UNCHANGED faults
    /\ files' = files \ Ids(work.chosen) /\ work' = Idle
    /\ UNCHANGED <<index, lastId, request, serving, condemned, inserts, lives>>

\* fold_rows fails, as it does when the row was deleted meanwhile.
FoldAbort ==
    /\ work.step = "fold"
    /\ \/ Fault
       \/ ~(Ids(work.chosen) \subseteq Ids(rows)) /\ UNCHANGED faults
    /\ files' = files \ work.paths /\ work' = Idle
    /\ UNCHANGED <<index, lastId, request, serving, condemned, inserts, lives>>

-----------------------------------------------------------------------------
(* sweep.  Each tier reads under the lock, unlinks without it, and takes   *)
(* it again to commit.                                                     *)

\* delete_records_where has read the rows of S, to go on with step then.
Condemn(S, deleting, then) ==
    /\ work' = IF S = {} THEN [work EXCEPT !.step = then, !.over = 0]
               ELSE Doing(deleting, S, Paths(S), work.cutoff, 0)
    /\ condemned' = condemned \cup Paths(S)
    /\ UNCHANGED <<index, files, lastId, request, serving, bounds>>

SweepAge ==
    /\ work.step = "age"
    /\ Condemn({r \in rows : r.at < work.cutoff}, "aged", "groups")

SweepGroups ==
    /\ work.step = "groups" /\ Condemn(rows \ TrimGroups(rows), "grouped", "total")

\* trim_total counts under one lock and selects under another.
CountTotal ==
    /\ work.step = "total"
    /\ LET excess == Cardinality(rows) - MaxTotal
       IN  work' = IF excess > 0 THEN [work EXCEPT !.step = "oldest", !.over = excess]
                   ELSE [work EXCEPT !.step = "drop"]
    /\ UNCHANGED <<index, files, lastId, request, serving, condemned, bounds>>

SweepTotal ==
    /\ work.step = "oldest"
    /\ Condemn({r \in rows : Cardinality({s \in rows : Later(r, s)}) < work.over},
               "trimmed", "drop")

AfterTier == [aged |-> "groups", grouped |-> "total", trimmed |-> "drop"]

SweepUnlink(id) ==
    /\ work.step \in DOMAIN AfterTier /\ id \in work.paths
    /\ files' = files \ {id}
    /\ work' = [work EXCEPT !.paths = @ \ {id}]
    /\ UNCHANGED <<index, lastId, request, serving, condemned, bounds>>

\* The rows go, and the groups they were read with are told; the floor of
\* MAX(0, ...) is never needed (GroupsCoverRows).
SweepCommit ==
    /\ work.step \in DOMAIN AfterTier /\ work.paths = {}
    /\ rows' = {r \in rows : r.id \notin Ids(work.chosen)}
    /\ groups' = Weighed({r \in work.chosen : r.payload = "present"}, -1)
    /\ work' = Doing(AfterTier[work.step], {}, {}, work.cutoff, 0)
    /\ UNCHANGED <<files, lastId, request, serving, condemned, bounds>>

\* drop_empty_groups_before
DropEmptyGroups ==
    /\ work.step = "drop"
    /\ LET kept == {g \in DOMAIN groups : \/ groups[g].last >= work.cutoff
                                          \/ \E r \in rows : GroupOf(r) = g}
       IN  groups' = [g \in kept |-> groups[g]]
    /\ work' = [work EXCEPT !.step = "quota"]
    /\ UNCHANGED <<rows, files, lastId, request, serving, condemned, bounds>>

\* Mutant: no early return when the payloads fit.
QuotaUnguarded ==
    /\ work.step = "quota"
    /\ work' = [work EXCEPT !.step = "candidates", !.over = Cardinality(Paths(rows)) - MaxPayloads]
    /\ UNCHANGED <<index, files, lastId, request, serving, condemned, bounds>>

\* evict_payloads: the total, and below the candidates, each under its own lock.
Quota ==
    /\ work.step = "quota"
    /\ LET total == Cardinality(Paths(rows))
       IN  work' = IF total <= MaxPayloads THEN [work EXCEPT !.step = "prune"]
                   ELSE [work EXCEPT !.step = "candidates", !.over = total - MaxPayloads]
    /\ UNCHANGED <<index, files, lastId, request, serving, condemned, bounds>>

Candidates ==
    /\ work.step = "candidates"
    /\ work' = [work EXCEPT !.step = "evict", !.chosen = {r \in rows : r.payload = "present"}]
    /\ UNCHANGED <<index, files, lastId, request, serving, condemned, bounds>>

\* The oldest candidate, while the quota is exceeded.
Evicting(r) ==
    /\ work.over > 0 /\ r \in work.chosen
    /\ \A s \in work.chosen : s = r \/ Later(s, r)

EvictUnlink(r) ==
    /\ work.step = "evict" /\ Evicting(r)
    /\ files' = files \ {r.id} /\ condemned' = condemned \cup {r.id}
    /\ work' = [work EXCEPT !.step = "evicted"]
    /\ UNCHANGED <<index, lastId, request, serving, bounds>>

EvictCommit(r) ==
    /\ work.step = "evicted" /\ Evicting(r)
    /\ rows' = {IF q.id = r.id THEN [q EXCEPT !.payload = "evicted"] ELSE q : q \in rows}
    /\ groups' = Weighed({r}, -1)
    /\ work' = [work EXCEPT !.step = "evict", !.chosen = @ \ {r}, !.over = @ - 1]
    /\ UNCHANGED <<files, lastId, request, serving, condemned, bounds>>

EvictDone ==
    /\ work.step = "evict" /\ (work.over = 0 \/ work.chosen = {})
    /\ work' = Doing("prune", {}, {}, work.cutoff, 0)
    /\ UNCHANGED <<index, files, lastId, request, serving, condemned, bounds>>

\* prune_ingested_sources (the keys are in IngestLoop) ends the sweep, and the
\* first one of a process lets the servers and collectors start.
SweepEnd ==
    /\ work.step = "prune" /\ work' = Idle /\ serving' = TRUE
    /\ UNCHANGED <<index, files, lastId, request, condemned, bounds>>

\* An error ends a sweep wherever it is; nobody hears of it.
SweepFails ==
    /\ work.step \notin {"down", "idle", "insert", "fold"}
    /\ Fault /\ work' = Idle /\ serving' = TRUE
    /\ UNCHANGED <<index, files, lastId, request, condemned, inserts, lives>>

Sweep ==
    \/ SweepAge \/ SweepGroups \/ CountTotal \/ SweepTotal \/ SweepCommit
    \/ \E id \in work.paths : SweepUnlink(id)
    \/ DropEmptyGroups \/ Quota \/ Candidates \/ EvictDone
    \/ \E r \in work.chosen : EvictUnlink(r) \/ EvictCommit(r)
    \/ SweepEnd \/ SweepFails

-----------------------------------------------------------------------------
(* delete, on the thread of a connection                                   *)

Hit(t) ==
    {r \in rows : \/ t.what = "all"
                  \/ t.what = "group" /\ GroupOf(r) \in t.groups
                  \/ t.what = "ids" /\ r.id \in t.ids}

\* payload_paths_for.  An empty list of ids returns at once.
DeleteBegin(c, what, gs, ids) ==
    LET t == [what |-> what, groups |-> gs, ids |-> ids, paths |-> {}]
    IN  /\ serving /\ request[c] = NoRequest
        /\ request' = [request EXCEPT ![c] = [t EXCEPT !.paths = Paths(Hit(t))]]
        /\ condemned' = condemned \cup Paths(Hit(t))
        /\ UNCHANGED <<index, files, lastId, work, serving, bounds>>

DeleteUnlink(c, id) ==
    /\ id \in request[c].paths
    /\ files' = files \ {id}
    /\ request' = [request EXCEPT ![c].paths = @ \ {id}]
    /\ UNCHANGED <<index, lastId, work, serving, condemned, bounds>>

\* The transaction looks at the rows again.
DeleteCommit(c) ==
    LET t    == request[c]
        left == rows \ Hit(t)
        kept == CASE t.what = "all"   -> {}
                  [] t.what = "group" -> DOMAIN groups \ t.groups
                  [] t.what = "ids"   -> DOMAIN groups \cap {GroupOf(r) : r \in left}
    IN  /\ t # NoRequest /\ t.paths = {}
        /\ rows' = left /\ groups' = [g \in kept |-> groups[g]]
        /\ request' = [request EXCEPT ![c] = NoRequest]
        /\ UNCHANGED <<files, lastId, work, serving, condemned, bounds>>

DeleteFails(c) ==
    /\ request[c] # NoRequest /\ Fault
    /\ request' = [request EXCEPT ![c] = NoRequest]
    /\ UNCHANGED <<index, files, lastId, work, serving, condemned, inserts, lives>>

Delete(c) ==
    \/ DeleteBegin(c, "all", {}, {})
    \/ \E g \in DOMAIN groups : DeleteBegin(c, "group", {g}, {})
    \/ \E ids \in (SUBSET Ids(rows)) \ {{}} : DeleteBegin(c, "ids", {}, ids)
    \/ \E id \in request[c].paths : DeleteUnlink(c, id)
    \/ DeleteCommit(c) \/ DeleteFails(c)

-----------------------------------------------------------------------------
(* The life of the process                                                 *)

Die ==
    /\ work.step # "down" /\ lives < MaxLives
    /\ work' = [Idle EXCEPT !.step = "down"]
    /\ request' = [c \in Client |-> NoRequest]
    /\ lastId' = 0 /\ serving' = FALSE
    /\ UNCHANGED <<index, files, condemned, bounds>>

\* Mutant: the generator restarts at zero.
ResumeNothing(S) == 0

\* resume_ids: MAX(id)
ResumeIds(S) == IF S = {} THEN 0 ELSE Max(Ids(S))

\* Mutant: the start-up sweep is left out.
OpenIdle(now) ==
    /\ work.step = "down"
    /\ lastId' = ResumeIds(rows) /\ files' = files \cap Paths(rows)
    /\ work' = Idle /\ serving' = TRUE /\ lives' = lives + 1
    /\ UNCHANGED <<index, request, condemned, inserts, faults>>

\* remove_orphans unlinks what no row points at; a file it cannot remove stays.
RemoveOrphans(referenced) ==
    \/ files' = files \cap referenced /\ UNCHANGED faults
    \/ Fault /\ files' \in {(files \cap referenced) \cup S : S \in SUBSET files}

\* Store::open: ids resume, orphans go; main then has reclaim_storage sweep.
Open(now) ==
    /\ work.step = "down"
    /\ lastId' = ResumeIds(rows)
    /\ RemoveOrphans(Paths(rows))
    /\ work' = SweepFrom(now) /\ serving' = FALSE /\ lives' = lives + 1
    /\ UNCHANGED <<index, request, condemned, inserts>>

StoreInit ==
    /\ rows = {} /\ groups = [g \in {} |-> 0] /\ files = {} /\ lastId = 0
    /\ work = Idle /\ request = [c \in Client |-> NoRequest] /\ serving = TRUE
    /\ condemned = {} /\ inserts = 0 /\ faults = 0 /\ lives = 1

StoreNext ==
    \/ \E c \in Crash : InsertBegin(c)
    \/ \E now \in Times : InsertCommit(now) \/ Open(now)
    \/ InsertAbort
    \/ \E r \in rows, c \in Crash : FoldBegin(r, c)
    \/ FoldCommit \/ FoldAbort
    \/ Sweep
    \/ \E c \in Client : Delete(c)
    \/ Die

StoreSpec == StoreInit /\ [][StoreNext]_storeVars

-----------------------------------------------------------------------------
(* Properties                                                              *)

StoredRow ==
    [id : Nat, kind : {c.kind : c \in Crash}, process : {c.process : c \in Crash},
     user : {c.user : c \in Crash}, at : Nat, payload : {"absent", "present", "evicted"}]

Step ==
    {"down", "idle", "insert", "fold", "age", "groups", "total", "oldest", "drop", "quota",
     "candidates", "evict", "evicted", "prune"} \cup DOMAIN AfterTier

\* The index, the directory and what the threads hold; the counts are unsigned
\* in the code (over_by is a u64).
StoreTypeOK ==
    /\ rows \subseteq StoredRow /\ IsFiniteSet(rows)
    /\ groups \in [DOMAIN groups -> [occurrence : Nat, bytes : Nat, last : Nat]]
    /\ files \subseteq Nat /\ lastId \in Nat
    /\ work \in [step : Step, chosen : SUBSET StoredRow, paths : SUBSET Nat,
                 cutoff : Int, over : Nat]
    /\ DOMAIN request = Client
    /\ serving \in BOOLEAN /\ condemned \subseteq Nat
    /\ inserts \in Nat /\ faults \in Nat /\ lives \in Nat

\* The id an insert is about to use is free, and so is every id the generator
\* will hand out after it: whatever the records' own timestamps, and however
\* often the daemon restarts on an index that retention or a manager has
\* thinned out (resume_ids, RecordIdGenerator).  A taken id fails on the
\* primary key, and the clean-up then unlinks the other record's payload.
IdsAreFresh ==
    /\ work.step = "insert" => Ids(work.chosen) \cap Ids(rows) = {}
    /\ work.step # "down" => \A r \in rows : r.id <= lastId

\* A record loses its payload file only to a sweep or a deletion that had
\* chosen that record, and it is no other operation's clean-up that unlinks it:
\* not a failed insert's, not a failed fold's, not remove_orphans'.
LostPayloadWasChosen ==
    \A id \in Paths(rows) \ files : id \in condemned

\* Whenever the ingest thread is idle the record ceilings hold, also after a
\* crash between an insert and its sweep (reclaim_storage), as long as no
\* sweep has failed.
CeilingsHold ==
    work.step = "idle" /\ faults = 0 =>
        /\ Cardinality(rows) <= MaxTotal
        /\ \A r \in rows : Cardinality({s \in rows : SameGroup(r, s)}) <= MaxPerGroup

\* Every record has its group, which counts it and weighs its payload: sweeps
\* and folds that run into a manager's deletion may leave payload_bytes too
\* high, never too low, so MAX(0, ...) never hides a miscount.
GroupsCoverRows ==
    \A r \in rows :
        LET mates == {s \in rows : SameGroup(r, s)}
        IN  /\ GroupOf(r) \in DOMAIN groups
            /\ groups[GroupOf(r)].occurrence >= Cardinality(mates)
            /\ groups[GroupOf(r)].bytes >= Cardinality(Paths(mates))

=============================================================================
