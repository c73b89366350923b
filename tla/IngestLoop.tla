----------------------------- MODULE IngestLoop ------------------------------
(***************************************************************************)
(* The ct-ingest thread (collectors.rs: spawn_ingest_loop,                 *)
(* persist_completed, mark_source_keys), the core it hands records to      *)
(* (core.rs: ingest_with_sources) and the part of the crash index that     *)
(* ingestion reads and writes (store/write.rs).                            *)
(*                                                                         *)
(* Any fragment may arrive at any moment, in any order and more than once; *)
(* the store may refuse any write; the daemon may die between any two      *)
(* steps.  What the collectors really send is IngestPipeline's business.   *)
(*                                                                         *)
(* Records also leave the index: the retention sweep that ends an insert,  *)
(* and the deletions a manager asks for on another thread.                 *)
(*                                                                         *)
(* A row stands for a crash_record joined with its crash_group.  Its field *)
(* evidence is not a column: it names the fragments the row was built from *)
(* or that were folded into it, and no action reads it.  What an insert    *)
(* announces (EventBus, notification) changes nothing here.                *)
(***************************************************************************)
EXTENDS CrashMerger, Retention, Sequences

CONSTANTS
    Excluded,        \* <<kind, process, self_handled>> the configuration leaves out
    Horizon,         \* bound on the clock: watermarks are 0 .. Horizon
    MaxCompletions,  \* bound on next_completion_id
    MaxRows,         \* bound on inserts
    MaxFaults,       \* bound on refused store writes
    MaxLives         \* bound on daemon starts

ASSUME LoopAssumption ==
    /\ Excluded \subseteq Kind \X Process \X BOOLEAN
    /\ Horizon \in Nat /\ MaxCompletions \in Nat /\ MaxRows \in Nat
    /\ MaxFaults \in Nat /\ MaxLives \in Nat

VARIABLES
    phase,          \* "receive", "persist", "final" (the round after drain), "stopped"
    confirmations,  \* pending_confirmations
    rows,           \* the crash index
    stored,         \* history: what the n-th insert recorded, and the source of ids
    marked,         \* ingested_source
    faults,         \* writes the store refused
    lives           \* daemon starts

loopVars == <<mergerVars, phase, confirmations, rows, stored, marked, faults, lives>>

-----------------------------------------------------------------------------
(* ingest_with_sources                                                     *)

\* The configuration does not record this occurrence.
IsExcluded(m) == <<m.kind, m.process, m.selfHandled>> \in Excluded

\* Mutant: only the same millisecond is a companion.
NoCompanionWindow(kind) == 0

\* companion_window_ms: only a crash that ends its process may be folded
\* across the whole merge window.
CompanionWindow(kind) == IF kind \in {"Java", "Native"} THEN Window ELSE 0

\* The WHERE clause of companion_record.
IsCompanion(row, m) ==
    /\ m.pid # 0 /\ row.pid = m.pid
    /\ row.process = m.process /\ row.kind = m.kind /\ row.user = m.user
    /\ Dist(row.at, m.at) <= CompanionWindow(m.kind)
    /\ row.at = m.at \/ row.sources \cap m.sources = {}

\* Its ORDER BY ... LIMIT 1.
Companions(m) ==
    LET near == {r \in rows : IsCompanion(r, m)}
    IN  {r \in near : \A q \in near : Dist(r.at, m.at) <= Dist(q.at, m.at)}

\* insert_rows
RowOf(m, id) ==
    [id |-> id, kind |-> m.kind, process |-> m.process, user |-> m.user, pid |-> m.pid,
     at |-> m.at, sources |-> m.sources, payload |-> m.payload, evidence |-> m.keys]

\* What the row is a record of.
Identity(m) == [kind |-> m.kind, process |-> m.process, user |-> m.user, pid |-> m.pid]

\* Mutant: a fold also restores a payload that was evicted.
FoldRestoring(row, m) ==
    [id |-> row.id, kind |-> row.kind, process |-> row.process, user |-> row.user,
     pid |-> row.pid, at |-> row.at, sources |-> row.sources \cup m.sources,
     payload |-> IF row.payload # "present" THEN m.payload ELSE row.payload,
     evidence |-> row.evidence \cup m.keys]

\* fold_rows: the payload is adopted only when the row never had one.
FoldInto(row, m) ==
    [id |-> row.id, kind |-> row.kind, process |-> row.process, user |-> row.user,
     pid |-> row.pid, at |-> row.at, sources |-> row.sources \cup m.sources,
     payload |-> IF row.payload = "absent" THEN m.payload ELSE row.payload,
     evidence |-> row.evidence \cup m.keys]

-----------------------------------------------------------------------------
(* One round of the thread: receive or time out, persist, confirm.         *)

\* Room for the worst case under the bounds: every pending occurrence and the
\* one about to arrive become a completion and a row.
Room ==
    /\ nextId + Cardinality(pending) <= MaxCompletions
    /\ Len(stored) + Cardinality(pending) < MaxRows

Receive(f) ==
    /\ phase = "receive" /\ Room
    /\ Ingest(f)
    /\ phase' = "persist"
    /\ UNCHANGED <<confirmations, rows, stored, marked, faults, lives>>

Timeout(now) ==
    /\ phase = "receive"
    /\ FlushBefore(now)
    /\ phase' = "persist"
    /\ UNCHANGED <<confirmations, rows, stored, marked, faults, lives>>

\* The stop flag: drain, then one last persist_completed.
Stop ==
    /\ phase = "receive"
    /\ Drain
    /\ phase' = "final"
    /\ UNCHANGED <<confirmations, rows, stored, marked, faults, lives>>

\* persist_completed walks the records in the order of happened_at_ms.
Due(m) ==
    /\ phase \in {"persist", "final"}
    /\ m \in completed /\ \A q \in completed : m.at <= q.at

\* Ok(_): the merger learns that the record is safe.
Accept(m) ==
    /\ completed' = completed \ {m}
    /\ ConfirmPersisted(m.id)
    /\ UNCHANGED <<pending, nextId, phase, confirmations, faults, lives>>

PersistExcluded(m) ==
    /\ Due(m) /\ IsExcluded(m)
    /\ marked' = marked \cup m.keys
    /\ UNCHANGED <<rows, stored>>
    /\ Accept(m)

\* fold_into_record.  (A manager that deletes the row after the lookup makes
\* the read-back fail, and the whole fold with it: PersistRefused.)
PersistFolded(m) ==
    /\ Due(m) /\ ~IsExcluded(m)
    /\ \E r \in Companions(m) : rows' = (rows \ {r}) \cup {FoldInto(r, m)}
    /\ marked' = marked \cup m.keys
    /\ UNCHANGED stored
    /\ Accept(m)

\* insert_with_sources, and the sweep at time now, which may get through none,
\* some or all of its tiers without the insert being reported as failed.
PersistInserted(m, now) ==
    /\ Due(m) /\ ~IsExcluded(m) /\ Companions(m) = {}
    /\ stored' = Append(stored, Identity(m))
    /\ \E tiers \in 0 .. 4 :
          /\ rows' = Swept(rows \cup {RowOf(m, Len(stored) + 1)}, now, tiers)
          /\ \E expired \in SUBSET {f \in marked : MayExpire(f, now)} :
                /\ tiers < 4 => expired = {}
                /\ marked' = (marked \cup m.keys) \ expired
    /\ Accept(m)

\* Err(_): rows and keys share a transaction, but the keys of an excluded
\* record are marked one by one and an error may leave some of them marked.
PersistRefused(m) ==
    /\ Due(m) /\ faults < MaxFaults
    /\ \E done \in SUBSET m.keys :
          /\ done # {} => IsExcluded(m) /\ done # m.keys
          /\ marked' = marked \cup done
    /\ completed' = completed \ {m}
    /\ RejectCompletion(m.id)
    /\ faults' = faults + 1
    /\ UNCHANGED <<pending, nextId, phase, confirmations, rows, stored, lives>>

\* The end of persist_completed: late evidence of stored occurrences is
\* marked; what the store refuses to mark is retried in the next round.
Confirm ==
    /\ phase \in {"persist", "final"} /\ completed = {}
    /\ LET keys == confirmations \cup {s[2] : s \in ConfirmedSuppressed}
       IN  \E failed \in SUBSET keys :
             /\ failed # {} => faults < MaxFaults
             /\ faults' = IF failed = {} THEN faults ELSE faults + 1
             /\ marked' = marked \cup (keys \ failed)
             /\ confirmations' = failed
    /\ suppressed' = suppressed \ ConfirmedSuppressed
    /\ phase' = IF phase = "final" THEN "stopped" ELSE "receive"
    /\ UNCHANGED <<pending, recent, nextId, completed, rows, stored, lives>>

\* DeleteRecords, on the thread of a manager's connection: some ids, a group or
\* everything.  The merger is not told.
DeleteRecords(S) ==
    /\ S # {} /\ rows' = rows \ S
    /\ UNCHANGED <<mergerVars, phase, confirmations, stored, marked, faults, lives>>

\* What the process held in memory is gone; the next one begins afresh.
Forget ==
    /\ pending' = {} /\ recent' = {} /\ suppressed' = {}
    /\ nextId' = 1 /\ completed' = {} /\ confirmations' = {}

\* The process dies, at any point: only the index survives.
Crash ==
    /\ phase # "stopped"
    /\ Forget
    /\ phase' = "stopped"
    /\ UNCHANGED <<rows, stored, marked, faults, lives>>

\* spawn_ingest_loop: the next daemon's thread starts with a new merger.
Start ==
    /\ phase = "stopped" /\ lives < MaxLives
    /\ Forget
    /\ phase' = "receive" /\ lives' = lives + 1
    /\ UNCHANGED <<rows, stored, marked, faults>>

Init ==
    /\ MergerInit
    /\ phase = "receive" /\ confirmations = {}
    /\ rows = {} /\ stored = <<>> /\ marked = {} /\ faults = 0 /\ lives = 1

Next ==
    \/ \E f \in Fragment : Receive(f)
    \/ \E now \in 0 .. Horizon : Timeout(now)
    \/ Stop
    \/ \E m \in completed :
          \/ PersistExcluded(m) \/ PersistFolded(m) \/ PersistRefused(m)
          \/ \E now \in 0 .. Horizon : PersistInserted(m, now)
    \/ Confirm
    \/ \E S \in SUBSET rows : DeleteRecords(S)
    \/ Crash
    \/ Start

Spec == Init /\ [][Next]_loopVars

-----------------------------------------------------------------------------
(* Types.                                                                  *)

Occurrence ==
    [kind : Kind, kindQ : Quality, process : Process, user : Nat \cup {None},
     userQ : Quality, pid : Nat, first : Nat, last : Nat, payload : PayloadState,
     payloadQ : Quality, sources : SUBSET Source, keys : SUBSET Fragment,
     file : AnrFile \cup {None}]

RecentOccurrence ==
    [id : Nat, persisted : BOOLEAN, kind : Kind, process : Process,
     user : Nat \cup {None}, pid : Nat, first : Nat, sources : SUBSET Source,
     file : AnrFile \cup {None}]

MergedCrash ==
    [id : Nat, keys : SUBSET Fragment, kind : Kind, process : Process, user : Nat,
     pid : Nat, at : Nat, sources : SUBSET Source, payload : PayloadState,
     selfHandled : BOOLEAN]

Row ==
    [id : Nat, kind : Kind, process : Process, user : Nat, pid : Nat, at : Nat,
     sources : SUBSET Source, payload : PayloadState \cup {"evicted"},
     evidence : SUBSET Fragment]

StoredCrash == [kind : Kind, process : Process, user : Nat, pid : Nat]

\* The state of the thread, of the merger it owns and of the index.
TypeOK ==
    /\ pending \subseteq Occurrence /\ IsFiniteSet(pending)
    /\ recent \subseteq RecentOccurrence
    /\ suppressed \subseteq Nat \X Fragment
    /\ nextId \in Nat
    /\ completed \subseteq MergedCrash
    /\ phase \in {"receive", "persist", "final", "stopped"}
    /\ confirmations \subseteq Fragment
    /\ rows \subseteq Row
    /\ stored \in Seq(StoredCrash)
    /\ marked \subseteq Fragment
    /\ faults \in Nat /\ lives \in Nat

-----------------------------------------------------------------------------
(* Safety.                                                                 *)

\* Two fragments that may describe one process of one user: no two known pids
\* and no two known users differ.
Compatible(f, g) ==
    /\ f.pid = 0 \/ g.pid = 0 \/ f.pid = g.pid
    /\ f.user = None \/ g.user = None \/ f.user = g.user

\* However fragments of unknown pid or unknown user are chained together by
\* Pending::merge and by fold_into_record, one stored record never mixes the
\* evidence of two processes or of two Android users (occurrence_identity_matches).
RowsNeverMixIdentities ==
    \A r \in rows : \A f, g \in r.evidence :
        f.process = g.process /\ f.kind = g.kind /\ Compatible(f, g)

\* Pending::matches never lets two fragments of one source share a pending
\* occurrence, except the appends to one ANR dump.
OneFragmentPerSource ==
    \A p \in pending : \A f, g \in p.keys :
        f # g /\ f.source = g.source =>
            f.source = "ANR_FILE" /\ f.file # None /\ f.file = g.file

\* It is a record of the process, kind, pid and user the fragment names.
Covers(record, f) ==
    /\ record.kind = f.kind /\ record.process = f.process
    /\ record.pid = 0 \/ f.pid = 0 \/ record.pid = f.pid
    /\ record.user = 0 \/ f.user = None \/ record.user = f.user

\* The configuration may leave out an occurrence this fragment belongs to.
MayBeExcluded(f) == \E handled \in BOOLEAN : <<f.kind, f.process, handled>> \in Excluded

\* A source key is in ingested_source only if a record that covers the
\* evidence was put in the index, or the configuration excluded it: no
\* interleaving of late evidence, refused writes, deletions and daemon deaths
\* acknowledges a crash that was never stored (insert_with_sources,
\* take_confirmed_suppressed_source_keys).
AcknowledgedIsRecorded ==
    \A f \in marked : MayBeExcluded(f) \/ \E i \in DOMAIN stored : Covers(stored[i], f)

\* Between rounds no absorbed key is left waiting and every remembered
\* completion is known to be stored: persist_completed settles each record
\* before it takes the confirmed keys, so no key is stranded in the merger.
SuppressionSettles ==
    phase = "receive" => suppressed = {} /\ \A r \in recent : r.persisted

\* The evidence the thread is responsible for.
Held ==
    (UNION {p.keys : p \in pending}) \cup (UNION {m.keys : m \in completed})
        \cup {s[2] : s \in suppressed} \cup confirmations

\* While the daemon lives, evidence leaves the thread's hands only by being
\* marked, or in a round in which the store refused a write.
NoSilentDrop ==
    [][\A f \in Held : \/ f \in Held' \cup marked \cup marked'
                       \/ faults' # faults
                       \/ "stopped" \in {phase, phase'}]_loopVars

\* A sweep takes the oldest: whatever mix of tiers an insert's sweep got
\* through, it removes no record, and evicts no payload, of a crash newer than
\* one of the same group that keeps its record, or its payload (sweep,
\* trim_each_group, trim_total, evict_payloads).  Deletions only shrink rows.
SweepTakesOldest ==
    [][\A r \in rows, s \in rows' :
          stored' # stored /\ SameGroup(r, s) /\ Later(r, s) =>
              \E q \in rows' : /\ q.id = r.id
                               /\ s.payload = "present" => q.payload = r.payload]_loopVars

\* Late evidence folded into a record whose payload the quota reclaimed never
\* brings the payload back, or the quota would be undone one fold at a time
\* (fold_rows, evict_payloads); nor does a record lose a payload otherwise.
EvictionIsFinal ==
    [][\A r \in rows, s \in rows' :
          r.id = s.id /\ r.payload # "absent" => s.payload \in {r.payload, "evicted"}]_loopVars

-----------------------------------------------------------------------------
(* What the code says of itself and does not keep.                         *)

\* completion_delay_ms: "the paired log or file supplies the useful payload".
\* A record assembled from evidence that carries a payload has one.
PairedLogSuppliesPayload ==
    \A m \in completed : (\E f \in m.keys : f.payload = "present") => m.payload = "present"

=============================================================================
