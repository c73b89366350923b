----------------------------- MODULE CrashMerger -----------------------------
(***************************************************************************)
(* The correlator of src/crates/cch_merge/src/lib.rs.  Collectors describe *)
(* one crash from several places (the ActivityManager event, the crash log *)
(* buffer, a DropBox entry, a tombstone, an ANR dump); CrashMerger joins   *)
(* the fragments that describe the same occurrence into one record.        *)
(*                                                                         *)
(* A fragment stands for a CrashFragment together with its source_key: the *)
(* key is the durable identity of one log entry or one version of one      *)
(* file, so two reads of the same evidence are the same fragment.  A       *)
(* fragment keeps the fields the merger decides on.  Of the payload it     *)
(* keeps whether there is one; of the texts, versions and flags (all       *)
(* ranked by the same rule as user) it keeps nothing.                      *)
(*                                                                         *)
(* The Vecs of the code are sets here: their order only breaks ties        *)
(* between equally near matches, and the model takes any of those.         *)
(***************************************************************************)
EXTENDS Integers, FiniteSets

CONSTANTS
    Fragment,        \* the evidence that can reach the merger
    Process,         \* process names
    AnrFile,         \* paths of ANR dumps (source_instance)
    None,            \* the absent user, file or payload
    Window,          \* window_ms
    Skew,            \* MAX_SOURCE_SKEW_MS, not above Window
    Settle           \* RICH_SOURCE_SETTLE_WINDOW_MS

Source == {"EVENTS", "CRASH_BUFFER", "DROPBOX", "TOMBSTONE", "ANR_FILE"}
Kind   == {"Java", "Native", "Anr", "Wtf"}

\* EvidenceQuality, in its derived order.
Text       == 0
Structured == 1
Artifact   == 2
Protobuf   == 3
Quality    == Text .. Protobuf

\* FragmentPayload: none, or a body inline or in a file.
PayloadState == {"absent", "present"}

ASSUME NoneAssumption == None \notin Nat \cup AnrFile \cup Fragment

ASSUME TimeAssumption ==
    /\ Window \in Nat \ {0}
    /\ Skew \in Nat /\ Skew <= Window
    /\ Settle \in Nat \ {0} /\ Settle <= Window

\* Every fragment has the fields of the type (and may carry more, for the
\* environment's use); log readers and artefact readers name one source.
ASSUME FragmentAssumption ==
    \A f \in Fragment :
        /\ f.source \in Source /\ f.quality \in Quality /\ f.kind \in Kind
        /\ f.process \in Process /\ f.user \in Nat \cup {None}
        /\ f.pid \in Nat /\ f.at \in Nat /\ f.payload \in PayloadState
        /\ f.file \in AnrFile \cup {None}

VARIABLES
    pending,     \* occurrences still waiting for evidence
    recent,      \* occurrences completed within the last Window
    suppressed,  \* <<completion_id, key>>: late evidence a completion absorbed
    nextId,      \* next_completion_id
    completed    \* what ingest, flush_before and drain returned, not yet persisted

mergerVars == <<pending, recent, suppressed, nextId, completed>>

-----------------------------------------------------------------------------
(* Matching.                                                               *)

Dist(a, b) == IF a >= b THEN a - b ELSE b - a

\* Mutant: an unknown pid joins whatever the user.
MatchesAnyUser(lpid, luser, rpid, ruser) ==
    IF lpid # 0 /\ rpid # 0
    THEN lpid = rpid /\ (luser = None \/ ruser = None \/ luser = ruser)
    ELSE TRUE

\* occurrence_identity_matches: two known pids decide, and a known user may
\* veto; otherwise only two known users can vouch for the match.
IdentityMatches(lpid, luser, rpid, ruser) ==
    IF lpid # 0 /\ rpid # 0
    THEN lpid = rpid /\ (luser = None \/ ruser = None \/ luser = ruser)
    ELSE luser # None /\ luser = ruser

\* Mutant: any ANR dump passes for another append to this one.
AnyAnrFile(o, f) ==
    o.kind = "Anr" /\ f.source = "ANR_FILE" /\ "ANR_FILE" \in o.sources

\* Android appends to one ANR dump and closes it after each append.
RepeatedAnrFile(o, f) ==
    /\ o.kind = "Anr" /\ f.source = "ANR_FILE" /\ "ANR_FILE" \in o.sources
    /\ o.file # None /\ o.file = f.file

\* A DropBox entry trailing an occurrence that already has its ANR dump.
TrailingAnrCompanion(r, f) ==
    r.kind = "Anr" /\ "ANR_FILE" \in r.sources /\ f.source = "DROPBOX"

SameOccurrence(o, f, skew) ==
    /\ IdentityMatches(o.pid, o.user, f.pid, f.user)
    /\ o.process = f.process
    /\ o.kind = f.kind
    /\ Dist(o.first, f.at) <= skew

\* Pending::matches
PendingMatches(p, f) ==
    LET repeated == RepeatedAnrFile(p, f) /\ f.kind = "Anr"
    IN  /\ f.source \notin p.sources \/ repeated
        /\ SameOccurrence(p, f, IF repeated THEN Window ELSE Skew)

\* Recent::matches
RecentMatches(r, f) ==
    LET repeated == RepeatedAnrFile(r, f)
    IN  /\ f.source \notin r.sources \/ repeated
        /\ SameOccurrence(r, f, IF repeated \/ TrailingAnrCompanion(r, f)
                                THEN Window ELSE Skew)

\* min_by_key on |first_ms - happened_at_ms|
Nearest(S, f) ==
    {o \in S : \A q \in S : Dist(o.first, f.at) <= Dist(q.first, f.at)}

-----------------------------------------------------------------------------
(* One occurrence being assembled.                                         *)

\* Pending::new
NewPending(f) ==
    [kind |-> f.kind, kindQ |-> f.quality, process |-> f.process,
     user |-> f.user, userQ |-> f.quality, pid |-> f.pid,
     first |-> f.at, last |-> f.at,
     payload |-> f.payload, payloadQ |-> f.quality,
     sources |-> {f.source}, keys |-> {f},
     file |-> IF f.source = "ANR_FILE" THEN f.file ELSE None]

\* Ranked::replace accepts evidence of at least the quality it holds.
Outranks(q, held) == q >= held

\* Pending::merge.  The payload is offered when the pending occurrence has
\* none or a worse one, and Ranked::replace then applies its own test.
MergeInto(p, f) ==
    LET takesUser    == f.user # None /\ (p.user = None \/ Outranks(f.quality, p.userQ))
        takesPayload == /\ f.payload = "present"
                        /\ p.payload = "absent" \/ Outranks(f.quality, p.payloadQ)
                        /\ Outranks(f.quality, p.payloadQ)
    IN  [kind     |-> p.kind,
         kindQ    |-> IF Outranks(f.quality, p.kindQ) THEN f.quality ELSE p.kindQ,
         process  |-> p.process,
         user     |-> IF takesUser THEN f.user ELSE p.user,
         userQ    |-> IF takesUser THEN f.quality ELSE p.userQ,
         pid      |-> IF p.pid = 0 THEN f.pid ELSE p.pid,
         first    |-> IF f.at < p.first THEN f.at ELSE p.first,
         last     |-> IF f.at > p.last THEN f.at ELSE p.last,
         payload  |-> IF takesPayload THEN f.payload ELSE p.payload,
         payloadQ |-> IF takesPayload THEN f.quality ELSE p.payloadQ,
         sources  |-> p.sources \cup {f.source},
         keys     |-> p.keys \cup {f},
         file     |-> IF f.source = "ANR_FILE" /\ p.file = None
                      THEN f.file ELSE p.file]

\* Pending::completion_delay_ms: how long waiting can still improve the record.
CompletionDelay(p) ==
    CASE \/ p.kind = "Java" /\ {"EVENTS", "CRASH_BUFFER"} \subseteq p.sources
         \/ /\ p.kind = "Native" /\ {"EVENTS", "TOMBSTONE"} \subseteq p.sources
            /\ p.kindQ = Protobuf
         \/ p.kind = "Anr" /\ {"EVENTS", "ANR_FILE"} \subseteq p.sources
         \/ p.kind = "Wtf" /\ {"EVENTS", "DROPBOX"} \cap p.sources # {}
            -> 0
      [] OTHER ->
            IF /\ p.user # None
               /\ \/ p.kind = "Native" /\ "TOMBSTONE" \in p.sources
                  \/ p.kind # "Wtf" /\ "DROPBOX" \in p.sources
            THEN Settle ELSE Window

\* Mutant: the unknown user has no default.
FinishUnknownUser(p, id) ==
    [id |-> id, keys |-> p.keys, kind |-> p.kind, process |-> p.process,
     user |-> p.user, pid |-> p.pid, at |-> p.first, sources |-> p.sources,
     payload |-> p.payload, selfHandled |-> FALSE]

\* Pending::finish: the record handed to the store, with its source keys.
Finish(p, id) ==
    [id |-> id, keys |-> p.keys, kind |-> p.kind, process |-> p.process,
     user |-> IF p.user = None THEN 0 ELSE p.user, pid |-> p.pid,
     at |-> p.first, sources |-> p.sources, payload |-> p.payload,
     selfHandled |-> /\ p.kind = "Java" /\ "CRASH_BUFFER" \in p.sources
                     /\ "EVENTS" \notin p.sources]

\* Recent::from_pending
RecentOf(p, id) ==
    [id |-> id, persisted |-> FALSE, kind |-> p.kind, process |-> p.process,
     user |-> p.user, pid |-> p.pid, first |-> p.first,
     sources |-> p.sources, file |-> p.file]

-----------------------------------------------------------------------------
(* The operations of CrashMerger.                                          *)

Overdue(watermark) ==
    {p \in pending : p.last + CompletionDelay(p) < watermark}

Unexpired(watermark) ==
    {r \in recent : r.first + Window >= watermark}

\* The completion ids handed to the occurrences of S, from nextId on, in some
\* order (the order of the Vec after earlier swap_removes).
Numberings(S) ==
    {n \in [S -> nextId .. nextId + Cardinality(S) - 1] :
        \A p, q \in S : n[p] = n[q] => p = q}

\* CrashMerger::new
MergerInit ==
    /\ pending = {} /\ recent = {} /\ suppressed = {}
    /\ nextId = 1 /\ completed = {}

\* flush_before
FlushBefore(watermark) ==
    LET out == Overdue(watermark)
    IN  \E n \in Numberings(out) :
          /\ pending' = pending \ out
          /\ recent' = Unexpired(watermark) \cup {RecentOf(p, n[p]) : p \in out}
          /\ completed' = completed \cup {Finish(p, n[p]) : p \in out}
          /\ nextId' = nextId + Cardinality(out)
          /\ UNCHANGED suppressed

\* ingest, after its own flush_before(f.at) finished the occurrences out with
\* the numbers n and left rest pending: the fragment joins or opens p, which
\* is finished at once when no more evidence is worth waiting for.
Joined(p, rest, kept, out, n) ==
    LET done == CompletionDelay(p) = 0
        id   == nextId + Cardinality(out)
    IN  /\ pending' = IF done THEN rest ELSE rest \cup {p}
        /\ recent' = IF done THEN kept \cup {RecentOf(p, id)} ELSE kept
        /\ completed' = completed \cup {Finish(q, n[q]) : q \in out}
                          \cup (IF done THEN {Finish(p, id)} ELSE {})
        /\ nextId' = IF done THEN id + 1 ELSE id
        /\ UNCHANGED suppressed

\* ingest, when the fragment adds nothing to the pending occurrences.
Absorbed(newSuppressed, rest, kept, out, n) ==
    /\ pending' = rest
    /\ recent' = kept
    /\ completed' = completed \cup {Finish(q, n[q]) : q \in out}
    /\ nextId' = nextId + Cardinality(out)
    /\ suppressed' = suppressed \cup newSuppressed

\* ingest
Ingest(f) ==
    LET out  == Overdue(f.at)
        rest == pending \ out
        open == {p \in rest : PendingMatches(p, f)}
    IN  \E n \in Numberings(out) :
        LET kept == Unexpired(f.at) \cup {RecentOf(p, n[p]) : p \in out}
            late == {r \in kept : RecentMatches(r, f)}
        IN  \/ /\ \E p \in rest : f \in p.keys
               /\ Absorbed({}, rest, kept, out, n)
            \/ /\ \A p \in rest : f \notin p.keys
               /\ \/ \E p \in Nearest(open, f) :
                        Joined(MergeInto(p, f), rest \ {p}, kept, out, n)
                  \/ /\ open = {}
                     /\ \E r \in Nearest(late, f) :
                            Absorbed({<<r.id, f>>}, rest, kept, out, n)
                  \/ /\ open = {} /\ late = {}
                     /\ Joined(NewPending(f), rest, kept, out, n)

\* Mutant: the stop forgets what is pending.
DrainNothing == pending' = {} /\ UNCHANGED <<recent, suppressed, nextId, completed>>

\* drain, at an orderly stop: finishes everything, and remembers nothing.
Drain ==
    \E n \in Numberings(pending) :
        /\ pending' = {}
        /\ completed' = completed \cup {Finish(p, n[p]) : p \in pending}
        /\ nextId' = nextId + Cardinality(pending)
        /\ UNCHANGED <<recent, suppressed>>

\* Mutant: the merger is not told.
ConfirmNothing(id) == UNCHANGED <<recent, suppressed>>

\* confirm_persisted
ConfirmPersisted(id) ==
    /\ recent' = {IF r.id = id THEN [r EXCEPT !.persisted = TRUE] ELSE r : r \in recent}
    /\ UNCHANGED suppressed

\* Mutant: a refused record passes for a stored one.
RejectAsConfirm(id) == ConfirmPersisted(id)

\* reject_completion
RejectCompletion(id) ==
    /\ recent' = {r \in recent : r.id # id}
    /\ suppressed' = {s \in suppressed : s[1] # id}

\* take_confirmed_suppressed_source_keys: the late evidence whose occurrence
\* the store holds by now, which leaves the list.
ConfirmedSuppressed ==
    {s \in suppressed : \E r \in recent : r.id = s[1] /\ r.persisted}

=============================================================================
