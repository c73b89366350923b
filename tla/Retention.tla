------------------------------ MODULE Retention ------------------------------
(***************************************************************************)
(* The retention ceilings of src/crates/cch_store/src/retention.rs, as     *)
(* operators on a set of rows.  A row has the fields id, at, payload,      *)
(* kind, process and user.                                                 *)
(*                                                                         *)
(* Stack frames are abstracted, so a group is a process, a user and a      *)
(* kind; every stored payload takes one unit of the byte quota.            *)
(***************************************************************************)
EXTENDS Integers, FiniteSets

CONSTANTS
    MaxAge,       \* retention_days
    MaxPerGroup,  \* max_records_per_group
    MaxTotal,     \* max_records_total
    MaxPayloads,  \* max_payload_bytes_total
    LogKeyAge     \* LOG_SOURCE_KEY_TTL_MS

ASSUME RetentionAssumption ==
    /\ MaxAge \in Nat /\ MaxPerGroup \in Nat /\ MaxTotal \in Nat
    /\ MaxPayloads \in Nat /\ LogKeyAge \in Nat

\* ORDER BY happened_at_ms, id: r is later than s.
Later(r, s) == r.at > s.at \/ (r.at = s.at /\ r.id > s.id)

SameGroup(r, s) == r.kind = s.kind /\ r.process = s.process /\ r.user = s.user

\* Tier 1: happened_at_ms < cutoff
WithinAge(S, now) == {r \in S : r.at >= now - MaxAge}

\* Mutant: the sort is the wrong way round.
TrimNewest(S) ==
    {r \in S : Cardinality({s \in S : SameGroup(r, s) /\ Later(r, s)}) < MaxPerGroup}

\* Tier 2: trim_each_group
TrimGroups(S) ==
    {r \in S : Cardinality({s \in S : SameGroup(r, s) /\ Later(s, r)}) < MaxPerGroup}

\* Tier 3: trim_total
TrimTotal(S) == {r \in S : Cardinality({s \in S : Later(s, r)}) < MaxTotal}

\* Tier 4: evict_payloads, oldest first, leaves the row.
Evicted(S, r) ==
    /\ r.payload = "present"
    /\ Cardinality({s \in S : s.payload = "present" /\ Later(s, r)}) >= MaxPayloads

EvictPayloads(S) ==
    {IF Evicted(S, r) THEN [r EXCEPT !.payload = "evicted"] ELSE r : r \in S}

\* sweep runs the tiers in this order, each in a transaction of its own; an
\* error ends it after any of them.
Swept(S, now, tiers) ==
    LET aged    == IF tiers >= 1 THEN WithinAge(S, now) ELSE S
        grouped == IF tiers >= 2 THEN TrimGroups(aged) ELSE aged
        counted == IF tiers >= 3 THEN TrimTotal(grouped) ELSE grouped
    IN  IF tiers >= 4 THEN EvictPayloads(counted) ELSE counted

\* Tier 5: prune_ingested_sources.  A key is stored no earlier than its
\* evidence was written, so only keys of old evidence can have expired.
MayExpire(f, now) ==
    f.at < now - (IF f.source \in {"EVENTS", "CRASH_BUFFER"} THEN LogKeyAge ELSE MaxAge)

=============================================================================
