---------------------------- MODULE Ingest_proofs ----------------------------
(***************************************************************************)
(* The safety of the ingest thread, for every set of fragments, every      *)
(* window, skew and settling time, and every configuration; and of the     *)
(* collectors around it, for every set of evidence: what they do is one of *)
(* the things the ingest thread is safe against, and they never send what  *)
(* they wrote off as history.                                              *)
(***************************************************************************)
EXTENDS IngestPipeline, TLAPS, FiniteSetTheorems, WellFoundedInduction

-----------------------------------------------------------------------------
(* The loop: its inductive invariant.                                      *)

\* The fields of an occurrence, a merged record or a row against the evidence
\* it was built from.
Describes(o, evidence) ==
    \A f \in evidence :
        /\ f.kind = o.kind /\ f.process = o.process
        /\ f.pid = 0 \/ f.pid = o.pid
        /\ f.user = None \/ f.user = o.user

\* Two fragments of one source in one occurrence are appends to its ANR dump.
SingleSources(p) ==
    /\ \A f \in p.keys : f.source \in p.sources
    /\ p.file # None => "ANR_FILE" \in p.sources
    /\ \A f \in p.keys : f.source = "ANR_FILE" => f.file = p.file
    /\ \A f, g \in p.keys :
          f # g /\ f.source = g.source =>
              f.source = "ANR_FILE" /\ f.file # None /\ f.file = g.file

SameRecord(m, r) ==
    m.kind = r.kind /\ m.process = r.process /\ m.pid = r.pid /\ m.user = UserOf(r)

PendingOK(P) ==
    /\ P \subseteq Occurrence /\ IsFiniteSet(P)
    /\ \A p \in P : Describes(p, p.keys) /\ SingleSources(p) /\ CompletionDelay(p) # 0

\* A row describes its evidence, and is what its insert recorded.
RowsOK ==
    \A r \in rows :
        /\ Describes(r, r.evidence)
        /\ r.id \in DOMAIN stored /\ stored[r.id] = Identity(r)

\* The configuration left it out, or it was put in the index.
Settled(r) ==
    \/ MayBeExcluded(r)
    \/ \E i \in DOMAIN stored : SameRecord(stored[i], r)

\* The unpersisted completions C and the remembered ones R, numbered below k:
\* ids are unique, the two sets agree on them, and what is remembered is on
\* its way to the index or there.
CompletionsOK(C, R, k) ==
    /\ C \subseteq MergedCrash /\ R \subseteq RecentOccurrence /\ k \in Nat
    /\ \A m \in C : m.id < k /\ Describes(m, m.keys)
    /\ \A r \in R : r.id < k
    /\ \A m, n \in C : m.id = n.id => m = n
    /\ \A r, s \in R : r.id = s.id => r = s
    /\ \A m \in C, r \in R : m.id = r.id => SameRecord(m, r)
    /\ \A r \in R : \/ r.persisted /\ Settled(r)
                    \/ ~r.persisted /\ \E m \in C : m.id = r.id

\* The completion a late fragment was absorbed into is about its occurrence.
Absorbs(r, f) ==
    /\ r.kind = f.kind /\ r.process = f.process
    /\ r.pid = 0 \/ f.pid = 0 \/ r.pid = f.pid
    /\ r.user = None \/ f.user = None \/ r.user = f.user

SuppressedOK ==
    \A s \in suppressed : \E r \in recent : r.id = s[1] /\ Absorbs(r, s[2])

Acknowledged(f) == MayBeExcluded(f) \/ \E i \in DOMAIN stored : Covers(stored[i], f)

AcknowledgedOK ==
    \A f \in marked \cup confirmations : Acknowledged(f)

PhaseOK ==
    phase = "receive" => completed = {} /\ suppressed = {}

IndInv ==
    /\ TypeOK /\ PendingOK(pending) /\ RowsOK
    /\ CompletionsOK(completed, recent, nextId)
    /\ SuppressedOK /\ AcknowledgedOK /\ PhaseOK

-----------------------------------------------------------------------------
(* The operators of the merger.                                            *)

\* A new occurrence has the right type and describes its one fragment.
LEMMA NewPendingOK ==
    ASSUME NEW f \in Fragment
    PROVE  /\ NewPending(f) \in Occurrence
           /\ NewPending(f).keys = {f}
           /\ Describes(NewPending(f), {f})
           /\ SingleSources(NewPending(f))
<1>1. /\ f.source \in Source /\ f.quality \in Quality /\ f.kind \in Kind
      /\ f.process \in Process /\ f.user \in Nat \cup {None}
      /\ f.pid \in Nat /\ f.at \in Nat /\ f.payload \in PayloadState
      /\ f.file \in AnrFile \cup {None}
  BY FragmentAssumption
<1>2. NewPending(f) \in Occurrence
  BY <1>1 DEF NewPending, Occurrence
<1>3. QED
  BY <1>1, <1>2 DEF NewPending, Describes, SingleSources

\* Merging a matching fragment keeps the type, the description and the rule
\* of one fragment per source.
LEMMA MergeIntoOK ==
    ASSUME NEW f \in Fragment, NEW p \in Occurrence,
           PendingMatches(p, f), Describes(p, p.keys), SingleSources(p)
    PROVE  /\ MergeInto(p, f) \in Occurrence
           /\ MergeInto(p, f).keys = p.keys \cup {f}
           /\ Describes(MergeInto(p, f), p.keys \cup {f})
           /\ SingleSources(MergeInto(p, f))
<1> DEFINE q == MergeInto(p, f)
<1>1. /\ f.source \in Source /\ f.quality \in Quality /\ f.kind \in Kind
      /\ f.process \in Process /\ f.user \in Nat \cup {None}
      /\ f.pid \in Nat /\ f.at \in Nat /\ f.payload \in PayloadState
      /\ f.file \in AnrFile \cup {None}
  BY FragmentAssumption
<1>2. /\ q.kind = p.kind /\ q.process = p.process
      /\ q.pid = IF p.pid = 0 THEN f.pid ELSE p.pid
      /\ q.user \in {p.user, f.user} /\ (q.user = p.user \/ f.user # None)
      /\ (p.user = None => q.user = f.user)
      /\ q.sources = p.sources \cup {f.source} /\ q.keys = p.keys \cup {f}
      /\ q.file = IF f.source = "ANR_FILE" /\ p.file = None THEN f.file ELSE p.file
  BY <1>1 DEF MergeInto, Occurrence
<1>3. q \in Occurrence
  BY <1>1 DEF MergeInto, Occurrence, Outranks, Quality, Text, Protobuf
<1>4. /\ IdentityMatches(p.pid, p.user, f.pid, f.user)
      /\ p.process = f.process /\ p.kind = f.kind
      /\ f.source \notin p.sources \/ RepeatedAnrFile(p, f)
  BY DEF PendingMatches, SameOccurrence
<1>5. Describes(q, p.keys \cup {f})
  BY <1>1, <1>2, <1>4 DEF Describes, IdentityMatches, Occurrence
<1>6. SingleSources(q)
  <2>1. \A g \in q.keys : g.source \in q.sources
    BY <1>2 DEF SingleSources
  <2>2. q.file # None => "ANR_FILE" \in q.sources
    BY <1>2 DEF SingleSources
  <2>3. ASSUME NEW g \in p.keys, g.source = f.source
        PROVE  /\ f.source = "ANR_FILE" /\ f.file # None
               /\ g.file = f.file /\ p.file = f.file
    BY <1>4, <2>3 DEF SingleSources, RepeatedAnrFile
  <2>4. ASSUME f.source = "ANR_FILE" PROVE f.file = q.file
    BY <1>2, <1>4, <2>4 DEF SingleSources, RepeatedAnrFile
  <2>5. ASSUME NEW g \in p.keys, g.source = "ANR_FILE" PROVE g.file = q.file
    BY <1>2, <2>3, <2>5 DEF SingleSources
  <2>6. \A g \in q.keys : g.source = "ANR_FILE" => g.file = q.file
    BY <1>2, <2>4, <2>5
  <2>7. \A g, h \in q.keys :
            g # h /\ g.source = h.source =>
                g.source = "ANR_FILE" /\ g.file # None /\ g.file = h.file
    BY <1>2, <2>3 DEF SingleSources
  <2>8. QED
    BY <2>1, <2>2, <2>6, <2>7 DEF SingleSources
<1>7. QED
  BY <1>2, <1>3, <1>5, <1>6

\* Finishing an occurrence and remembering it agree on what was recorded.
LEMMA FinishOK ==
    ASSUME NEW p \in Occurrence, NEW id \in Nat, Describes(p, p.keys)
    PROVE  /\ Finish(p, id) \in MergedCrash /\ RecentOf(p, id) \in RecentOccurrence
           /\ Finish(p, id).id = id /\ RecentOf(p, id).id = id
           /\ ~RecentOf(p, id).persisted
           /\ Describes(Finish(p, id), Finish(p, id).keys)
           /\ Finish(p, id).keys = p.keys
           /\ SameRecord(Finish(p, id), RecentOf(p, id))
<1>1. Finish(p, id) \in MergedCrash /\ RecentOf(p, id) \in RecentOccurrence
  BY DEF Finish, RecentOf, MergedCrash, RecentOccurrence, Occurrence
<1>2. /\ Finish(p, id).id = id /\ RecentOf(p, id).id = id
      /\ ~RecentOf(p, id).persisted /\ Finish(p, id).keys = p.keys
      /\ SameRecord(Finish(p, id), RecentOf(p, id))
  BY DEF Finish, RecentOf, SameRecord, UserOf
<1>3. Describes(Finish(p, id), p.keys)
  BY DEF Describes, Finish
<1>4. QED
  BY <1>1, <1>2, <1>3

\* The numbers handed out from nextId on are new and distinct.
LEMMA NumberingOK ==
    ASSUME nextId \in Nat, NEW S, IsFiniteSet(S), NEW n \in Numberings(S)
    PROVE  /\ Cardinality(S) \in Nat
           /\ \A p \in S : n[p] \in Nat /\ nextId <= n[p] /\ n[p] < nextId + Cardinality(S)
           /\ \A p, q \in S : n[p] = n[q] => p = q
<1>1. Cardinality(S) \in Nat
  BY FS_CardinalityType
<1>2. QED
  BY <1>1 DEF Numberings

\* Finishing some of the pending occurrences keeps the books.
LEMMA FinishBatch ==
    ASSUME CompletionsOK(completed, recent, nextId), PendingOK(pending),
           NEW S \in SUBSET pending, NEW K \in SUBSET recent, NEW n \in Numberings(S)
    PROVE  CompletionsOK(completed \cup {Finish(p, n[p]) : p \in S},
                         K \cup {RecentOf(p, n[p]) : p \in S},
                         nextId + Cardinality(S))
<1> DEFINE C == completed \cup {Finish(p, n[p]) : p \in S}
           R == K \cup {RecentOf(p, n[p]) : p \in S}
           k == nextId + Cardinality(S)
<1>1. nextId \in Nat /\ IsFiniteSet(S) /\ S \subseteq Occurrence
  BY FS_Subset DEF CompletionsOK, PendingOK
<1>2. /\ k \in Nat /\ nextId <= k
      /\ \A p \in S : n[p] \in Nat /\ nextId <= n[p] /\ n[p] < k
      /\ \A p, q \in S : n[p] = n[q] => p = q
  BY <1>1, NumberingOK
<1>3. \A p \in S : /\ Finish(p, n[p]) \in MergedCrash /\ RecentOf(p, n[p]) \in RecentOccurrence
                   /\ Finish(p, n[p]).id = n[p] /\ RecentOf(p, n[p]).id = n[p]
                   /\ ~RecentOf(p, n[p]).persisted
                   /\ Describes(Finish(p, n[p]), Finish(p, n[p]).keys)
                   /\ SameRecord(Finish(p, n[p]), RecentOf(p, n[p]))
  BY <1>1, <1>2, FinishOK DEF PendingOK
<1>4. /\ \A m \in completed : m.id \in Nat /\ m.id < nextId
      /\ \A r \in recent : r.id \in Nat /\ r.id < nextId
  BY DEF CompletionsOK, MergedCrash, RecentOccurrence
<1> HIDE DEF k
<1>5. C \subseteq MergedCrash /\ R \subseteq RecentOccurrence
  BY <1>3 DEF CompletionsOK
<1>6. \A m \in C : m.id < k /\ Describes(m, m.keys)
  BY <1>1, <1>2, <1>3, <1>4 DEF CompletionsOK
<1>7. \A r \in R : r.id < k
  BY <1>1, <1>2, <1>3, <1>4
<1>8. \A m, q \in C : m.id = q.id => m = q
  BY <1>1, <1>2, <1>3, <1>4 DEF CompletionsOK
<1>9. \A r, s \in R : r.id = s.id => r = s
  BY <1>1, <1>2, <1>3, <1>4 DEF CompletionsOK
<1>10. \A m \in C, r \in R : m.id = r.id => SameRecord(m, r)
  BY <1>1, <1>2, <1>3, <1>4 DEF CompletionsOK
<1>11. \A r \in R : \/ r.persisted /\ Settled(r)
                    \/ ~r.persisted /\ \E m \in C : m.id = r.id
  BY <1>3 DEF CompletionsOK
<1>12. CompletionsOK(C, R, k)
  BY <1>2, <1>5, <1>6, <1>7, <1>8, <1>9, <1>10, <1>11 DEF CompletionsOK
<1>13. QED
  BY <1>12 DEF k

\* So does finishing one more occurrence under the next number.
LEMMA FinishOne ==
    ASSUME NEW C, NEW R, NEW k, CompletionsOK(C, R, k),
           NEW p \in Occurrence, Describes(p, p.keys)
    PROVE  CompletionsOK(C \cup {Finish(p, k)}, R \cup {RecentOf(p, k)}, k + 1)
<1> DEFINE m0 == Finish(p, k)
           r0 == RecentOf(p, k)
<1>1. k \in Nat
  BY DEF CompletionsOK
<1>2. /\ m0 \in MergedCrash /\ r0 \in RecentOccurrence
      /\ m0.id = k /\ r0.id = k /\ ~r0.persisted
      /\ Describes(m0, m0.keys) /\ SameRecord(m0, r0)
  BY <1>1, FinishOK
<1>3. /\ \A m \in C : m.id \in Nat /\ m.id < k
      /\ \A r \in R : r.id \in Nat /\ r.id < k
  BY DEF CompletionsOK, MergedCrash, RecentOccurrence
<1> HIDE DEF m0, r0
<1>4. CompletionsOK(C \cup {m0}, R \cup {r0}, k + 1)
  <2>1. C \cup {m0} \subseteq MergedCrash /\ R \cup {r0} \subseteq RecentOccurrence /\ k + 1 \in Nat
    BY <1>1, <1>2 DEF CompletionsOK
  <2>2. /\ \A m \in C \cup {m0} : m.id < k + 1 /\ Describes(m, m.keys)
        /\ \A r \in R \cup {r0} : r.id < k + 1
    BY <1>1, <1>2, <1>3 DEF CompletionsOK
  <2>3. /\ \A m, q \in C \cup {m0} : m.id = q.id => m = q
        /\ \A r, s \in R \cup {r0} : r.id = s.id => r = s
    BY <1>1, <1>2, <1>3 DEF CompletionsOK
  <2>4. \A m \in C \cup {m0}, r \in R \cup {r0} : m.id = r.id => SameRecord(m, r)
    BY <1>1, <1>2, <1>3 DEF CompletionsOK
  <2>5. \A r \in R \cup {r0} : \/ r.persisted /\ Settled(r)
                               \/ ~r.persisted /\ \E m \in C \cup {m0} : m.id = r.id
    BY <1>2 DEF CompletionsOK
  <2>6. QED
    BY <2>1, <2>2, <2>3, <2>4, <2>5 DEF CompletionsOK
<1>5. QED
  BY <1>4 DEF m0, r0

-----------------------------------------------------------------------------
(* The inductive step, one lemma per group of actions.                     *)

\* A step of the merger between rounds: what it must leave behind.
LEMMA MergerStep ==
    ASSUME IndInv, phase = "receive", phase' \in {"persist", "final"},
           UNCHANGED <<confirmations, rows, stored, marked, faults, lives>>,
           PendingOK(pending'), CompletionsOK(completed', recent', nextId'),
           suppressed' \subseteq Nat \X Fragment,
           \A s \in suppressed' : \E r \in recent' : r.id = s[1] /\ Absorbs(r, s[2])
    PROVE  IndInv'
<1>1. TypeOK'
  BY DEF IndInv, TypeOK, PendingOK, CompletionsOK
<1>2. PendingOK(pending)' /\ RowsOK'
  BY DEF IndInv, RowsOK, PendingOK, Describes, SingleSources, CompletionDelay
<1>3. CompletionsOK(completed, recent, nextId)'
  BY DEF CompletionsOK, Settled, SameRecord, Describes, MayBeExcluded, UserOf
<1>4. SuppressedOK'
  BY DEF SuppressedOK, Absorbs
<1>5. AcknowledgedOK' /\ PhaseOK'
  BY DEF IndInv, AcknowledgedOK, Acknowledged, MayBeExcluded, Covers, PhaseOK
<1>6. QED
  BY <1>1, <1>2, <1>3, <1>4, <1>5 DEF IndInv

\* Taking occurrences away keeps the pending set in order, and so does adding
\* one that is well formed and incomplete.
LEMMA PendingSubset ==
    ASSUME NEW P, PendingOK(P), NEW Q \in SUBSET P
    PROVE  PendingOK(Q)
  BY FS_Subset DEF PendingOK

LEMMA PendingAdd ==
    ASSUME NEW P, PendingOK(P), NEW p \in Occurrence,
           Describes(p, p.keys), SingleSources(p), CompletionDelay(p) # 0
    PROVE  PendingOK(P \cup {p})
  BY FS_AddElement DEF PendingOK

\* A fragment joins an occurrence, new or old.
LEMMA JoinedOK ==
    ASSUME IndInv, phase = "receive", phase' = "persist",
           UNCHANGED <<confirmations, rows, stored, marked, faults, lives>>,
           NEW p \in Occurrence, Describes(p, p.keys), SingleSources(p),
           NEW out \in SUBSET pending, NEW rest \in SUBSET pending,
           NEW K \in SUBSET recent, NEW n \in Numberings(out),
           Joined(p, rest, K \cup {RecentOf(q, n[q]) : q \in out}, out, n)
    PROVE  IndInv'
<1> DEFINE C == completed \cup {Finish(q, n[q]) : q \in out}
           R == K \cup {RecentOf(q, n[q]) : q \in out}
           k == nextId + Cardinality(out)
<1>1. CompletionsOK(C, R, k)
  BY FinishBatch DEF IndInv
<1>2. suppressed' = {}
  BY DEF IndInv, PhaseOK, Joined
<1>3. PendingOK(rest)
  BY PendingSubset DEF IndInv
<1>4. CASE CompletionDelay(p) = 0
  <2>1. CompletionsOK(C \cup {Finish(p, k)}, R \cup {RecentOf(p, k)}, k + 1)
    BY <1>1, FinishOne
  <2>2. /\ pending' = rest /\ recent' = R \cup {RecentOf(p, k)}
        /\ completed' = C \cup {Finish(p, k)} /\ nextId' = k + 1
    BY <1>4 DEF Joined
  <2>3. QED
    BY <1>2, <1>3, <2>1, <2>2, MergerStep
<1>5. CASE CompletionDelay(p) # 0
  <2>1. PendingOK(rest \cup {p})
    BY <1>3, <1>5, PendingAdd
  <2>2. pending' = rest \cup {p} /\ recent' = R /\ completed' = C /\ nextId' = k
    BY <1>5 DEF Joined
  <2>3. QED
    BY <1>1, <1>2, <2>1, <2>2, MergerStep
<1>6. QED
  BY <1>4, <1>5

\* A fragment of a pending occurrence again, or of a remembered one.
LEMMA AbsorbedOK ==
    ASSUME IndInv, phase = "receive", phase' = "persist",
           UNCHANGED <<confirmations, rows, stored, marked, faults, lives>>,
           NEW out \in SUBSET pending, NEW rest \in SUBSET pending,
           NEW K \in SUBSET recent, NEW n \in Numberings(out),
           NEW kept, kept = K \cup {RecentOf(q, n[q]) : q \in out},
           NEW S \in SUBSET (Nat \X Fragment),
           \A s \in S : \E r \in kept : r.id = s[1] /\ Absorbs(r, s[2]),
           Absorbed(S, rest, kept, out, n)
    PROVE  IndInv'
<1>1. CompletionsOK(completed', recent', nextId')
  BY FinishBatch DEF IndInv, Absorbed
<1>2. suppressed' = S
  BY DEF IndInv, PhaseOK, Absorbed
<1>3. PendingOK(pending')
  BY PendingSubset DEF IndInv, Absorbed
<1>4. \A s \in suppressed' : \E r \in recent' : r.id = s[1] /\ Absorbs(r, s[2])
  BY <1>2 DEF Absorbed
<1>5. QED
  BY <1>1, <1>2, <1>3, <1>4, MergerStep

LEMMA ReceiveOK ==
    ASSUME IndInv, NEW f \in Fragment, Receive(f)
    PROVE  IndInv'
<1> DEFINE out  == Overdue(f.at)
           rest == pending \ out
           open == {p \in rest : PendingMatches(p, f)}
           K    == Unexpired(f.at)
<1>1. /\ phase = "receive" /\ phase' = "persist"
      /\ UNCHANGED <<confirmations, rows, stored, marked, faults, lives>>
  BY DEF Receive
<1>2. out \in SUBSET pending /\ rest \in SUBSET pending /\ K \in SUBSET recent
  BY DEF Overdue, Unexpired
<1>3. PICK n \in Numberings(out) :
        LET kept == K \cup {RecentOf(p, n[p]) : p \in out}
            late == {r \in kept : RecentMatches(r, f)}
        IN  \/ Absorbed({}, rest, kept, out, n)
            \/ \E p \in Nearest(open, f) :
                  Joined(MergeInto(p, f), rest \ {p}, kept, out, n)
            \/ \E r \in Nearest(late, f) :
                  Absorbed({<<r.id, f>>}, rest, kept, out, n)
            \/ Joined(NewPending(f), rest, kept, out, n)
  BY DEF Receive, Ingest
<1> DEFINE kept == K \cup {RecentOf(p, n[p]) : p \in out}
           late == {r \in kept : RecentMatches(r, f)}
<1> HIDE DEF out, rest, K
<1>4. CASE Absorbed({}, rest, kept, out, n)
  <2>1. \A s \in {} : \E r \in kept : r.id = s[1] /\ Absorbs(r, s[2])
    OBVIOUS
  <2>2. {} \in SUBSET (Nat \X Fragment)
    OBVIOUS
  <2>3. kept = K \cup {RecentOf(q, n[q]) : q \in out}
    OBVIOUS
  <2> HIDE DEF kept
  <2>4. QED
    BY <1>1, <1>2, <1>4, <2>1, <2>2, <2>3, AbsorbedOK
<1>5. ASSUME NEW p \in Nearest(open, f), Joined(MergeInto(p, f), rest \ {p}, kept, out, n)
      PROVE  IndInv'
  <2>1. /\ p \in Occurrence /\ PendingMatches(p, f)
        /\ Describes(p, p.keys) /\ SingleSources(p)
    BY <1>2 DEF Nearest, IndInv, PendingOK
  <2>2. /\ MergeInto(p, f) \in Occurrence /\ SingleSources(MergeInto(p, f))
        /\ Describes(MergeInto(p, f), MergeInto(p, f).keys)
    BY <2>1, MergeIntoOK
  <2>3. rest \ {p} \in SUBSET pending
    BY <1>2
  <2>4. QED
    BY <1>1, <1>2, <1>5, <2>2, <2>3, JoinedOK
<1>6. ASSUME NEW r \in Nearest(late, f), Absorbed({<<r.id, f>>}, rest, kept, out, n)
      PROVE  IndInv'
  <2>1. r \in kept /\ RecentMatches(r, f)
    BY DEF Nearest
  <2>2. kept \subseteq RecentOccurrence
    <3>1. CompletionsOK(completed \cup {Finish(p, n[p]) : p \in out}, kept,
                        nextId + Cardinality(out))
      BY <1>2, FinishBatch DEF IndInv
    <3>2. QED
      BY <3>1 DEF CompletionsOK
  <2>3. Absorbs(r, f)
    BY <2>1 DEF RecentMatches, SameOccurrence, IdentityMatches, Absorbs
  <2> DEFINE S == {<<r.id, f>>}
  <2>4. S \in SUBSET (Nat \X Fragment)
    BY <2>1, <2>2 DEF RecentOccurrence
  <2>5. \A s \in S : \E q \in kept : q.id = s[1] /\ Absorbs(q, s[2])
    BY <2>1, <2>3
  <2>6. kept = K \cup {RecentOf(q, n[q]) : q \in out}
    OBVIOUS
  <2>7. Absorbed(S, rest, kept, out, n)
    BY <1>6
  <2> HIDE DEF kept, S
  <2>8. QED
    BY <1>1, <1>2, <2>4, <2>5, <2>6, <2>7, AbsorbedOK
<1>7. CASE Joined(NewPending(f), rest, kept, out, n)
  <2>1. /\ NewPending(f) \in Occurrence /\ SingleSources(NewPending(f))
        /\ Describes(NewPending(f), NewPending(f).keys)
    BY NewPendingOK
  <2>2. QED
    BY <1>1, <1>2, <1>7, <2>1, JoinedOK
<1>8. QED
  BY <1>3, <1>4, <1>5, <1>6, <1>7

LEMMA TimeoutOK ==
    ASSUME IndInv, NEW clock \in 0 .. Horizon, Timeout(clock)
    PROVE  IndInv'
<1> DEFINE out == Overdue(clock)
<1>1. /\ phase = "receive" /\ phase' = "persist"
      /\ UNCHANGED <<confirmations, rows, stored, marked, faults, lives>>
      /\ suppressed' = {}
  BY DEF Timeout, FlushBefore, IndInv, PhaseOK
<1>2. out \in SUBSET pending /\ Unexpired(clock) \in SUBSET recent
  BY DEF Overdue, Unexpired
<1>3. PICK n \in Numberings(out) :
        /\ pending' = pending \ out
        /\ recent' = Unexpired(clock) \cup {RecentOf(p, n[p]) : p \in out}
        /\ completed' = completed \cup {Finish(p, n[p]) : p \in out}
        /\ nextId' = nextId + Cardinality(out)
  BY DEF Timeout, FlushBefore
<1> HIDE DEF out
<1>4. CompletionsOK(completed', recent', nextId')
  BY <1>2, <1>3, FinishBatch DEF IndInv
<1>5. PendingOK(pending')
  BY <1>3, PendingSubset DEF IndInv
<1>6. QED
  BY <1>1, <1>4, <1>5, MergerStep

\* The drained occurrences are finished and not remembered.
LEMMA StopOK ==
    ASSUME IndInv, Stop
    PROVE  IndInv'
<1>1. /\ phase = "receive" /\ phase' = "final" /\ pending' = {} /\ recent' = recent
      /\ UNCHANGED <<confirmations, rows, stored, marked, faults, lives>>
      /\ suppressed' = {}
  BY DEF Stop, Drain, IndInv, PhaseOK
<1>2. PICK n \in Numberings(pending) :
        /\ completed' = completed \cup {Finish(p, n[p]) : p \in pending}
        /\ nextId' = nextId + Cardinality(pending)
  BY DEF Stop, Drain
<1> DEFINE extra == {RecentOf(p, n[p]) : p \in pending}
<1>3. CompletionsOK(completed', recent \cup extra, nextId')
  BY <1>2, FinishBatch DEF IndInv
<1>4. CompletionsOK(completed', recent', nextId')
  <2> HIDE DEF extra
  <2> QED BY <1>1, <1>3 DEF CompletionsOK
<1>5. PendingOK(pending')
  BY <1>1, PendingSubset DEF IndInv
<1>6. QED
  BY <1>1, <1>4, <1>5, MergerStep

\* What was inserted stays in the history.
StoredGrows ==
    /\ stored' \in Seq(StoredCrash)
    /\ \A i \in DOMAIN stored : i \in DOMAIN stored' /\ stored'[i] = stored[i]

\* A record the core accepted: the keys are acknowledged because the record
\* is in the index now, or because the configuration left it out.
LEMMA AcceptOK ==
    ASSUME IndInv, NEW m \in completed, phase \in {"persist", "final"}, Accept(m),
           rows' \subseteq Row, StoredGrows, RowsOK', marked' \subseteq marked \cup m.keys,
           \/ IsExcluded(m)
           \/ \E i \in DOMAIN stored' : stored'[i] = Identity(m)
    PROVE  IndInv'
<1>1. /\ completed' = completed \ {m}
      /\ recent' = {IF r.id = m.id THEN [r EXCEPT !.persisted = TRUE] ELSE r : r \in recent}
      /\ UNCHANGED <<suppressed, pending, nextId, phase, confirmations, faults, lives>>
  BY DEF Accept, ConfirmPersisted
<1>2. m \in MergedCrash /\ Describes(m, m.keys) /\ recent \subseteq RecentOccurrence
  BY DEF IndInv, CompletionsOK
<1> DEFINE upd(r) == IF r.id = m.id THEN [r EXCEPT !.persisted = TRUE] ELSE r
<1>3. \A r \in recent :
         /\ upd(r) \in RecentOccurrence /\ upd(r).id = r.id /\ upd(r).kind = r.kind
         /\ upd(r).process = r.process /\ upd(r).user = r.user /\ upd(r).pid = r.pid
         /\ r.id = m.id => upd(r).persisted
         /\ r.id # m.id => upd(r) = r
  BY <1>2 DEF RecentOccurrence
<1>4. recent' = {upd(r) : r \in recent}
  BY <1>1
<1> HIDE DEF upd
<1>5. \A f \in m.keys : Acknowledged(f)'
  BY <1>2 DEF Acknowledged, MayBeExcluded, Covers, Describes, IsExcluded, Identity, MergedCrash
<1>6. \A f \in marked \cup confirmations : Acknowledged(f)'
  <2> SUFFICES ASSUME NEW f \in marked \cup confirmations PROVE Acknowledged(f)'
    OBVIOUS
  <2>1. CASE MayBeExcluded(f)
    BY <2>1 DEF Acknowledged, MayBeExcluded
  <2>2. CASE \E i \in DOMAIN stored : Covers(stored[i], f)
    <3>1. PICK i \in DOMAIN stored : Covers(stored[i], f)
      BY <2>2
    <3>2. i \in DOMAIN stored' /\ Covers(stored'[i], f)
      BY <3>1 DEF StoredGrows, Covers
    <3>3. QED
      BY <3>2 DEF Acknowledged, Covers
  <2>3. QED
    BY <2>1, <2>2 DEF IndInv, AcknowledgedOK, Acknowledged
<1>7. AcknowledgedOK'
  BY <1>1, <1>5, <1>6 DEF AcknowledgedOK
<1>8. SuppressedOK'
  <2> SUFFICES ASSUME NEW s \in suppressed
               PROVE  \E q \in recent' : q.id = s[1] /\ Absorbs(q, s[2])
    BY <1>1 DEF SuppressedOK, Absorbs
  <2>1. PICK r \in recent : r.id = s[1] /\ Absorbs(r, s[2])
    BY DEF IndInv, SuppressedOK
  <2>2. upd(r) \in recent' /\ upd(r).id = s[1] /\ Absorbs(upd(r), s[2])
    BY <1>3, <1>4, <2>1 DEF Absorbs
  <2>3. QED
    BY <2>2
<1>9. \A r : Settled(r) => Settled(r)'
  BY DEF Settled, MayBeExcluded, SameRecord, UserOf, StoredGrows
<1>10. \A r \in recent' : r.id = m.id => Settled(r)'
  <2> SUFFICES ASSUME NEW r \in recent, r.id = m.id PROVE Settled(upd(r))'
    BY <1>3, <1>4 DEF Settled, MayBeExcluded, SameRecord, UserOf
  <2>1. /\ upd(r).kind = m.kind /\ upd(r).process = m.process /\ upd(r).pid = m.pid
        /\ m.user = UserOf(upd(r)) /\ m.selfHandled \in BOOLEAN
    BY <1>2, <1>3 DEF IndInv, CompletionsOK, SameRecord, UserOf, MergedCrash
  <2>2. CASE IsExcluded(m)
    BY <2>1, <2>2 DEF IsExcluded, Settled, MayBeExcluded
  <2>3. CASE \E i \in DOMAIN stored' : stored'[i] = Identity(m)
    BY <2>1, <2>3 DEF Settled, SameRecord, UserOf, Identity
  <2>4. QED
    BY <2>2, <2>3
<1>11. CompletionsOK(completed, recent, nextId)'
  <2>1. /\ completed' \subseteq MergedCrash /\ recent' \subseteq RecentOccurrence /\ nextId' \in Nat
        /\ \A q \in completed' : q.id < nextId' /\ Describes(q, q.keys)
        /\ \A r \in recent' : r.id < nextId'
    BY <1>1, <1>3, <1>4 DEF IndInv, CompletionsOK
  <2>2. /\ \A q, n \in completed' : q.id = n.id => q = n
        /\ \A r, s \in recent' : r.id = s.id => r = s
    BY <1>1, <1>3, <1>4 DEF IndInv, CompletionsOK
  <2>3. \A q \in completed', r \in recent' : q.id = r.id => SameRecord(q, r)
    BY <1>1, <1>3, <1>4 DEF IndInv, CompletionsOK, SameRecord, UserOf
  <2>4. \A r \in recent' : \/ r.persisted /\ Settled(r)'
                           \/ ~r.persisted /\ \E q \in completed' : q.id = r.id
    BY <1>1, <1>3, <1>4, <1>9, <1>10 DEF IndInv, CompletionsOK
  <2>5. QED
    BY <2>1, <2>2, <2>3, <2>4 DEF CompletionsOK, Describes, SameRecord, UserOf
<1>12. TypeOK'
  <2>1. m.keys \subseteq Fragment
    BY <1>2 DEF MergedCrash
  <2>2. QED
    BY <1>1, <1>11, <2>1 DEF IndInv, TypeOK, CompletionsOK, StoredGrows
<1>13. PendingOK(pending)' /\ PhaseOK'
  BY <1>1 DEF IndInv, PendingOK, PhaseOK, Describes, SingleSources, CompletionDelay
<1>14. QED
  BY <1>7, <1>8, <1>11, <1>12, <1>13 DEF IndInv

LEMMA PersistExcludedOK ==
    ASSUME IndInv, NEW m \in completed, PersistExcluded(m)
    PROVE  IndInv'
<1>1. /\ phase \in {"persist", "final"} /\ IsExcluded(m) /\ Accept(m)
      /\ rows' = rows /\ stored' = stored /\ marked' = marked \cup m.keys
  BY DEF PersistExcluded, Due
<1>2. rows' \subseteq Row /\ StoredGrows /\ RowsOK'
  BY <1>1 DEF IndInv, TypeOK, StoredGrows, RowsOK, Describes, Identity
<1>3. QED
  BY <1>1, <1>2, AcceptOK

\* Folding adds evidence to a row of the same process, pid, kind and user.
LEMMA PersistFoldedOK ==
    ASSUME IndInv, NEW m \in completed, PersistFolded(m)
    PROVE  IndInv'
<1>1. /\ phase \in {"persist", "final"} /\ Accept(m) /\ marked' = marked \cup m.keys
      /\ stored' = stored
  BY DEF PersistFolded, Due
<1>2. PICK r \in Companions(m) : rows' = (rows \ {r}) \cup {FoldInto(r, m)}
  BY DEF PersistFolded
<1>3. /\ r \in rows /\ r.kind = m.kind /\ r.process = m.process
      /\ r.pid = m.pid /\ r.user = m.user
  BY DEF Companions, IsCompanion
<1>4. r \in Row /\ m \in MergedCrash
  BY <1>3 DEF IndInv, TypeOK
<1> DEFINE row == FoldInto(r, m)
<1>5. /\ row \in Row /\ row.kind = m.kind /\ row.process = m.process /\ row.id = r.id
      /\ row.pid = m.pid /\ row.user = m.user /\ row.evidence = r.evidence \cup m.keys
  BY <1>3, <1>4 DEF FoldInto, Row, MergedCrash
<1> HIDE DEF row
<1>6. rows' \subseteq Row /\ StoredGrows
  BY <1>1, <1>2, <1>5 DEF IndInv, TypeOK, StoredGrows, row
<1>7. Describes(row, row.evidence)
  BY <1>3, <1>5 DEF IndInv, RowsOK, CompletionsOK, Describes
<1>8. /\ r.id \in DOMAIN stored' /\ stored'[r.id] = Identity(m)
      /\ Identity(row) = Identity(m)
  BY <1>1, <1>3, <1>5 DEF IndInv, RowsOK, Identity
<1>9. \A q \in rows' : q \in rows \/ q = row
  BY <1>2 DEF row
<1>10. RowsOK'
  <2>1. \A q \in rows : /\ Describes(q, q.evidence)'
                       /\ q.id \in DOMAIN stored' /\ stored'[q.id] = Identity(q)
    BY <1>1 DEF IndInv, RowsOK, Describes
  <2>2. /\ Describes(row, row.evidence)'
        /\ row.id \in DOMAIN stored' /\ stored'[row.id] = Identity(row)
    BY <1>5, <1>7, <1>8 DEF Describes
  <2>3. QED
    BY <1>9, <2>1, <2>2 DEF RowsOK, Identity
<1>11. QED
  BY <1>1, <1>6, <1>8, <1>10, AcceptOK

\* However far a sweep gets, what it leaves are rows it was given, at most
\* without their payload.
LEMMA SweptOK ==
    ASSUME NEW S \in SUBSET Row, NEW clock, NEW tiers
    PROVE  \A q \in Swept(S, clock, tiers) :
              /\ q \in Row
              /\ \E r \in S :
                    /\ q.id = r.id /\ q.kind = r.kind /\ q.process = r.process
                    /\ q.user = r.user /\ q.pid = r.pid /\ q.evidence = r.evidence
<1> DEFINE aged    == IF tiers >= 1 THEN WithinAge(S, clock) ELSE S
           grouped == IF tiers >= 2 THEN TrimGroups(aged) ELSE aged
           counted == IF tiers >= 3 THEN TrimTotal(grouped) ELSE grouped
<1>1. aged \subseteq S
  BY DEF WithinAge
<1>2. grouped \subseteq aged
  <2> HIDE DEF aged
  <2> QED BY DEF TrimGroups
<1>3. counted \subseteq grouped
  <2> HIDE DEF grouped
  <2> QED BY DEF TrimTotal
<1>4. Swept(S, clock, tiers) = IF tiers >= 4 THEN EvictPayloads(counted) ELSE counted
  BY DEF Swept
<1> HIDE DEF aged, grouped, counted
<1>5. \A r \in S : LET q == [r EXCEPT !.payload = "evicted"]
                  IN  /\ q \in Row /\ q.id = r.id /\ q.kind = r.kind /\ q.process = r.process
                      /\ q.user = r.user /\ q.pid = r.pid /\ q.evidence = r.evidence
  BY DEF Row
<1>6. \A q \in EvictPayloads(counted) :
         \E r \in counted : q = r \/ q = [r EXCEPT !.payload = "evicted"]
  BY DEF EvictPayloads
<1>7. \A q \in Swept(S, clock, tiers) :
         \E r \in S : q = r \/ q = [r EXCEPT !.payload = "evicted"]
  <2>1. CASE tiers >= 4
    BY <1>1, <1>2, <1>3, <1>4, <1>6, <2>1
  <2>2. CASE ~(tiers >= 4)
    BY <1>1, <1>2, <1>3, <1>4, <2>2
  <2>3. QED
    BY <2>1, <2>2
<1>8. QED
  <2> TAKE q \in Swept(S, clock, tiers)
  <2>1. PICK r \in S : q = r \/ q = [r EXCEPT !.payload = "evicted"]
    BY <1>7
  <2>2. QED
    BY <1>5, <2>1

LEMMA PersistInsertedOK ==
    ASSUME IndInv, NEW m \in completed, NEW clock, PersistInserted(m, clock)
    PROVE  IndInv'
<1>1. /\ phase \in {"persist", "final"} /\ Accept(m) /\ marked' \subseteq marked \cup m.keys
      /\ stored' = Append(stored, Identity(m))
  BY DEF PersistInserted, Due
<1> DEFINE id  == Len(stored) + 1
           row == RowOf(m, id)
<1>2. PICK tiers \in 0 .. 4 : rows' = Swept(rows \cup {row}, clock, tiers)
  BY DEF PersistInserted
<1>3. /\ stored \in Seq(StoredCrash) /\ rows \subseteq Row
      /\ m \in MergedCrash /\ Describes(m, m.keys) /\ Identity(m) \in StoredCrash
  BY DEF IndInv, TypeOK, CompletionsOK, Identity, StoredCrash, MergedCrash
<1>4. /\ row \in Row /\ row.kind = m.kind /\ row.process = m.process /\ row.id = id
      /\ row.pid = m.pid /\ row.user = m.user /\ row.evidence = m.keys
  BY <1>3 DEF RowOf, Row, MergedCrash
<1> HIDE DEF row
<1>5. StoredGrows /\ id \in DOMAIN stored' /\ stored'[id] = Identity(m)
  BY <1>1, <1>3 DEF StoredGrows
<1>6. \A r \in rows \cup {row} :
         /\ Describes(r, r.evidence)
         /\ r.id \in DOMAIN stored' /\ stored'[r.id] = Identity(r)
  <2>1. /\ Describes(row, row.evidence)
        /\ row.id \in DOMAIN stored' /\ stored'[row.id] = Identity(row)
    BY <1>3, <1>4, <1>5 DEF Describes, Identity
  <2>2. ASSUME NEW r \in rows
        PROVE  /\ Describes(r, r.evidence)
               /\ r.id \in DOMAIN stored' /\ stored'[r.id] = Identity(r)
    BY <1>5 DEF IndInv, RowsOK, StoredGrows
  <2>3. QED
    BY <2>1, <2>2
<1>7. \A q \in rows' :
         /\ q \in Row
         /\ \E r \in rows \cup {row} :
               /\ q.id = r.id /\ q.kind = r.kind /\ q.process = r.process
               /\ q.user = r.user /\ q.pid = r.pid /\ q.evidence = r.evidence
  BY <1>2, <1>3, <1>4, SweptOK
<1>8. rows' \subseteq Row /\ RowsOK'
  BY <1>6, <1>7 DEF RowsOK, Describes, Identity
<1>9. QED
  BY <1>1, <1>5, <1>8, AcceptOK

\* A deletion takes rows away and nothing else.
LEMMA DeleteOK ==
    ASSUME IndInv, NEW S \in SUBSET rows, DeleteRecords(S)
    PROVE  IndInv'
<1>1. /\ rows' \subseteq rows
      /\ UNCHANGED <<pending, recent, suppressed, nextId, completed, phase, confirmations,
                     stored, marked, faults, lives>>
  BY DEF DeleteRecords, mergerVars
<1>2. TypeOK'
  BY <1>1 DEF IndInv, TypeOK
<1>3. PendingOK(pending)' /\ RowsOK'
  BY <1>1 DEF IndInv, PendingOK, RowsOK, Describes, Identity, SingleSources, CompletionDelay
<1>4. CompletionsOK(completed, recent, nextId)'
  BY <1>1 DEF IndInv, CompletionsOK, Describes, SameRecord, UserOf, Settled, MayBeExcluded
<1>5. SuppressedOK' /\ AcknowledgedOK' /\ PhaseOK'
  BY <1>1 DEF IndInv, SuppressedOK, Absorbs, AcknowledgedOK, PhaseOK, Acknowledged,
              MayBeExcluded, Covers
<1>6. QED
  BY <1>2, <1>3, <1>4, <1>5 DEF IndInv

\* A refused record takes with it everything the merger remembered of it.
LEMMA PersistRefusedOK ==
    ASSUME IndInv, NEW m \in completed, PersistRefused(m)
    PROVE  IndInv'
<1>1. /\ completed' = completed \ {m}
      /\ recent' = {r \in recent : r.id # m.id}
      /\ suppressed' = {s \in suppressed : s[1] # m.id}
      /\ phase \in {"persist", "final"} /\ faults' = faults + 1
      /\ UNCHANGED <<pending, nextId, phase, confirmations, rows, stored, lives>>
  BY DEF PersistRefused, RejectCompletion, Due
<1>2. PICK done \in SUBSET m.keys : /\ done # {} => IsExcluded(m)
                                    /\ marked' = marked \cup done
  BY DEF PersistRefused
<1>3. m \in MergedCrash /\ Describes(m, m.keys)
  BY DEF IndInv, CompletionsOK
<1>4. AcknowledgedOK'
  <2>1. \A f \in done : MayBeExcluded(f)
    BY <1>2, <1>3 DEF Describes, IsExcluded, MayBeExcluded, MergedCrash
  <2>2. QED
    BY <1>1, <1>2, <2>1 DEF IndInv, AcknowledgedOK, Acknowledged, MayBeExcluded, Covers
<1>5. CompletionsOK(completed, recent, nextId)'
  BY <1>1 DEF IndInv, CompletionsOK, Describes, SameRecord, UserOf, Settled, MayBeExcluded
<1>6. SuppressedOK'
  BY <1>1 DEF IndInv, SuppressedOK, Absorbs
<1>7. TypeOK'
  BY <1>1, <1>2, <1>3 DEF IndInv, TypeOK, MergedCrash
<1>8. PendingOK(pending)' /\ RowsOK' /\ PhaseOK'
  BY <1>1 DEF IndInv, PendingOK, RowsOK, PhaseOK, Describes, SingleSources, CompletionDelay
<1>9. QED
  BY <1>4, <1>5, <1>6, <1>7, <1>8 DEF IndInv

\* Late evidence is acknowledged on the strength of its completion's record.
LEMMA ConfirmOK ==
    ASSUME IndInv, Confirm
    PROVE  IndInv'
<1> DEFINE keys == confirmations \cup {s[2] : s \in ConfirmedSuppressed}
<1>1. PICK failed \in SUBSET keys :
        /\ faults' = (IF failed = {} THEN faults ELSE faults + 1)
        /\ marked' = marked \cup (keys \ failed) /\ confirmations' = failed
  BY DEF Confirm
<1>2. /\ phase \in {"persist", "final"} /\ completed = {}
      /\ suppressed' = suppressed \ ConfirmedSuppressed
      /\ phase' \in {"receive", "stopped"}
      /\ UNCHANGED <<pending, recent, nextId, completed, rows, stored, lives>>
  BY DEF Confirm
<1>3. \A s \in suppressed : s \in ConfirmedSuppressed /\ Acknowledged(s[2])
  <2> SUFFICES ASSUME NEW s \in suppressed
               PROVE  s \in ConfirmedSuppressed /\ Acknowledged(s[2])
    OBVIOUS
  <2>1. PICK r \in recent : r.id = s[1] /\ Absorbs(r, s[2])
    BY DEF IndInv, SuppressedOK
  <2>2. r.persisted /\ Settled(r)
    BY <1>2 DEF IndInv, CompletionsOK
  <2>3. Acknowledged(s[2])
    BY <2>1, <2>2 DEF Absorbs, Settled, SameRecord, UserOf, Acknowledged, MayBeExcluded, Covers
  <2>4. QED
    BY <2>1, <2>2, <2>3 DEF ConfirmedSuppressed
<1>4. keys \subseteq Fragment /\ \A f \in keys : Acknowledged(f)
  BY <1>3 DEF IndInv, TypeOK, AcknowledgedOK, ConfirmedSuppressed
<1>5. suppressed' = {}
  BY <1>2, <1>3
<1> HIDE DEF keys
<1>6. AcknowledgedOK'
  <2>1. \A f : Acknowledged(f) => Acknowledged(f)'
    BY <1>2 DEF Acknowledged, MayBeExcluded, Covers
  <2>2. marked' \cup confirmations' \subseteq marked \cup keys
    BY <1>1
  <2>3. QED
    BY <1>4, <2>1, <2>2 DEF IndInv, AcknowledgedOK
<1>7. TypeOK'
  BY <1>1, <1>2, <1>4, <1>5 DEF IndInv, TypeOK
<1>8. /\ CompletionsOK(completed, recent, nextId)' /\ PendingOK(pending)' /\ RowsOK'
      /\ SuppressedOK' /\ PhaseOK'
  <2>1. CompletionsOK(completed, recent, nextId)'
    BY <1>2 DEF IndInv, CompletionsOK, Describes, SameRecord, UserOf, Settled, MayBeExcluded
  <2>2. PendingOK(pending)'
    BY <1>2 DEF IndInv, PendingOK, Describes, SingleSources, CompletionDelay
  <2>3. RowsOK'
    BY <1>2 DEF IndInv, RowsOK, Describes
  <2>4. SuppressedOK' /\ PhaseOK'
    BY <1>2, <1>5 DEF SuppressedOK, PhaseOK
  <2>5. QED
    BY <2>1, <2>2, <2>3, <2>4
<1>9. QED
  BY <1>6, <1>7, <1>8 DEF IndInv

\* A death or a start: only the index is left, and it was in order.
LEMMA ForgetOK ==
    ASSUME IndInv, Forget, UNCHANGED <<rows, stored, marked, faults>>,
           phase' \in {"receive", "stopped"}, lives' \in Nat
    PROVE  IndInv'
<1>1. IsFiniteSet({})
  BY FS_EmptySet
<1>2. TypeOK'
  BY <1>1 DEF IndInv, TypeOK, Forget
<1>3. PendingOK(pending)' /\ RowsOK' /\ CompletionsOK(completed, recent, nextId)'
  BY <1>1 DEF IndInv, Forget, PendingOK, RowsOK, CompletionsOK, Describes
<1>4. SuppressedOK' /\ PhaseOK'
  BY DEF Forget, SuppressedOK, PhaseOK
<1>5. AcknowledgedOK'
  <2>1. \A f : Acknowledged(f) => Acknowledged(f)'
    BY DEF Acknowledged, MayBeExcluded, Covers
  <2>2. marked' \cup confirmations' \subseteq marked \cup confirmations
    BY DEF Forget
  <2>3. QED
    BY <2>1, <2>2 DEF IndInv, AcknowledgedOK
<1>6. QED
  BY <1>2, <1>3, <1>4, <1>5 DEF IndInv

LEMMA InitOK ==
    ASSUME Init
    PROVE  IndInv
<1>1. IsFiniteSet({}) /\ <<>> \in Seq(StoredCrash)
  BY FS_EmptySet
<1>2. TypeOK
  BY <1>1 DEF Init, MergerInit, TypeOK
<1>3. PendingOK(pending) /\ RowsOK /\ CompletionsOK(completed, recent, nextId)
  BY <1>1 DEF Init, MergerInit, PendingOK, RowsOK, CompletionsOK
<1>4. SuppressedOK /\ AcknowledgedOK /\ PhaseOK
  BY DEF Init, MergerInit, SuppressedOK, AcknowledgedOK, PhaseOK
<1>5. QED
  BY <1>2, <1>3, <1>4 DEF IndInv

LEMMA StutterOK ==
    ASSUME IndInv, UNCHANGED loopVars
    PROVE  IndInv'
<1>1. TypeOK'
  BY DEF IndInv, TypeOK, loopVars, mergerVars
<1>2. PendingOK(pending)' /\ RowsOK'
  BY DEF IndInv, loopVars, mergerVars, PendingOK, RowsOK, Describes, SingleSources, CompletionDelay
<1>3. CompletionsOK(completed, recent, nextId)'
  BY DEF IndInv, loopVars, mergerVars, CompletionsOK, Describes, SameRecord, UserOf, Settled,
         MayBeExcluded
<1>4. SuppressedOK' /\ AcknowledgedOK' /\ PhaseOK'
  BY DEF IndInv, loopVars, mergerVars, SuppressedOK, Absorbs, AcknowledgedOK, PhaseOK,
         Acknowledged, MayBeExcluded, Covers
<1>5. QED
  BY <1>1, <1>2, <1>3, <1>4 DEF IndInv

-----------------------------------------------------------------------------
(* Evidence never leaves the thread unnoticed.                             *)

\* Where a key the thread holds may be.
LEMMA HeldIff ==
    ASSUME NEW g
    PROVE  g \in Held <=> \/ \E p \in pending : g \in p.keys
                          \/ \E m \in completed : g \in m.keys
                          \/ \E s \in suppressed : g = s[2]
                          \/ g \in confirmations
<1> DEFINE A == {p.keys : p \in pending}
           B == {m.keys : m \in completed}
           D == {s[2] : s \in suppressed}
<1>1. (\E S \in A : g \in S) <=> (\E p \in pending : g \in p.keys)
  OBVIOUS
<1>2. (\E S \in B : g \in S) <=> (\E m \in completed : g \in m.keys)
  OBVIOUS
<1>3. g \in D <=> (\E s \in suppressed : g = s[2])
  OBVIOUS
<1>4. Held = (UNION A) \cup (UNION B) \cup D \cup confirmations
  BY DEF Held
<1> HIDE DEF A, B, D
<1>5. g \in Held <=> \/ \E S \in A : g \in S
                     \/ \E S \in B : g \in S
                     \/ g \in D \/ g \in confirmations
  BY <1>4
<1>6. QED
  BY <1>1, <1>2, <1>3, <1>5

LEMMA HeldIffNext ==
    ASSUME NEW g
    PROVE  g \in Held' <=> \/ \E p \in pending' : g \in p.keys
                           \/ \E m \in completed' : g \in m.keys
                           \/ \E s \in suppressed' : g = s[2]
                           \/ g \in confirmations'
<1> DEFINE A == {p.keys : p \in pending'}
           B == {m.keys : m \in completed'}
           D == {s[2] : s \in suppressed'}
<1>1. (\E S \in A : g \in S) <=> (\E p \in pending' : g \in p.keys)
  OBVIOUS
<1>2. (\E S \in B : g \in S) <=> (\E m \in completed' : g \in m.keys)
  OBVIOUS
<1>3. g \in D <=> (\E s \in suppressed' : g = s[2])
  OBVIOUS
<1>4. Held' = (UNION A) \cup (UNION B) \cup D \cup confirmations'
  BY DEF Held
<1> HIDE DEF A, B, D
<1>5. g \in Held' <=> \/ \E S \in A : g \in S
                      \/ \E S \in B : g \in S
                      \/ g \in D \/ g \in confirmations'
  BY <1>4
<1>6. QED
  BY <1>1, <1>2, <1>3, <1>5

\* The merger's own steps: the occurrences of out are finished, those of rest
\* stay or are replaced by one that has their keys.
LEMMA MergerKeeps ==
    ASSUME NEW g \in Held, NEW out, NEW n,
           completed \cup {Finish(q, n[q]) : q \in out} \subseteq completed',
           \A p \in pending \ out : \/ \E q \in pending' : p.keys \subseteq q.keys
                                    \/ \E m \in completed' : p.keys \subseteq m.keys,
           suppressed \subseteq suppressed', confirmations' = confirmations
    PROVE  g \in Held'
<1>1. \A q, id : Finish(q, id).keys = q.keys
  BY DEF Finish
<1>2. \A p \in out : Finish(p, n[p]) \in completed'
  OBVIOUS
<1>3. CASE \E p \in pending : g \in p.keys
  <2>1. PICK p \in pending : g \in p.keys
    BY <1>3
  <2>2. CASE p \in out
    BY <1>1, <1>2, <2>1, <2>2, HeldIffNext
  <2>3. CASE p \notin out
    BY <2>1, <2>3, HeldIffNext
  <2>4. QED
    BY <2>2, <2>3
<1>4. CASE \E m \in completed : g \in m.keys
  BY <1>4, HeldIffNext
<1>5. CASE (\E s \in suppressed : g = s[2]) \/ g \in confirmations
  BY <1>5, HeldIffNext
<1>6. QED
  BY <1>3, <1>4, <1>5, HeldIff

LEMMA ReceiveKeeps ==
    ASSUME NEW f \in Fragment, Receive(f), NEW g \in Held
    PROVE  g \in Held'
<1> DEFINE out  == Overdue(f.at)
           rest == pending \ out
<1>1. PICK n \in Numberings(out) :
        LET kept == Unexpired(f.at) \cup {RecentOf(p, n[p]) : p \in out}
            late == {r \in kept : RecentMatches(r, f)}
        IN  \/ Absorbed({}, rest, kept, out, n)
            \/ \E p \in Nearest({q \in rest : PendingMatches(q, f)}, f) :
                  Joined(MergeInto(p, f), rest \ {p}, kept, out, n)
            \/ \E r \in Nearest(late, f) :
                  Absorbed({<<r.id, f>>}, rest, kept, out, n)
            \/ Joined(NewPending(f), rest, kept, out, n)
  BY DEF Receive, Ingest
<1> HIDE DEF out
<1>2. confirmations' = confirmations
  BY DEF Receive
<1>3. ASSUME NEW kept, NEW S, Absorbed(S, rest, kept, out, n) PROVE g \in Held'
  <2>1. /\ completed' = completed \cup {Finish(q, n[q]) : q \in out}
        /\ pending' = rest /\ suppressed \subseteq suppressed'
    BY <1>3 DEF Absorbed
  <2>2. QED
    BY <1>2, <2>1, MergerKeeps
<1>4. ASSUME NEW kept, NEW p0, NEW P \in SUBSET rest,
             \A q \in rest \ P : q.keys \subseteq p0.keys,
             Joined(p0, P, kept, out, n)
      PROVE  g \in Held'
  <2>1. /\ completed \cup {Finish(q, n[q]) : q \in out} \subseteq completed'
        /\ P \subseteq pending' /\ suppressed' = suppressed
        /\ p0 \in pending' \/ \E id : Finish(p0, id) \in completed'
    BY <1>4 DEF Joined
  <2>2. \A q, id : Finish(q, id).keys = q.keys
    BY DEF Finish
  <2>3. \A p \in pending \ out : \/ \E q \in pending' : p.keys \subseteq q.keys
                                 \/ \E m \in completed' : p.keys \subseteq m.keys
    BY <1>4, <2>1, <2>2
  <2>4. QED
    BY <1>2, <2>1, <2>3, MergerKeeps
<1>5. ASSUME NEW kept, NEW p \in rest, Joined(MergeInto(p, f), rest \ {p}, kept, out, n)
      PROVE  g \in Held'
  <2>1. \A q \in rest \ (rest \ {p}) : q.keys \subseteq MergeInto(p, f).keys
    BY DEF MergeInto
  <2>2. QED
    BY <1>4, <1>5, <2>1
<1>6. ASSUME NEW kept, Joined(NewPending(f), rest, kept, out, n)
      PROVE  g \in Held'
  BY <1>4, <1>6
<1>7. \A P : Nearest(P, f) \subseteq P
  BY DEF Nearest
<1>8. QED
  BY <1>1, <1>3, <1>5, <1>6, <1>7

LEMMA FlushKeeps ==
    ASSUME (\E clock \in 0 .. Horizon : Timeout(clock)) \/ Stop, NEW g \in Held
    PROVE  g \in Held'
<1>1. ASSUME NEW out, NEW n, pending' = pending \ out,
             completed' = completed \cup {Finish(p, n[p]) : p \in out},
             UNCHANGED <<suppressed, confirmations>>
      PROVE  g \in Held'
  BY <1>1, MergerKeeps
<1>2. ASSUME NEW clock \in 0 .. Horizon, Timeout(clock) PROVE g \in Held'
  BY <1>1, <1>2 DEF Timeout, FlushBefore
<1>3. ASSUME Stop PROVE g \in Held'
  BY <1>1, <1>3 DEF Stop, Drain
<1>4. QED
  BY <1>2, <1>3

\* The persisting steps: keys of an accepted record are marked, and what could
\* not be marked stays in pending_confirmations.
LEMMA PersistKeeps ==
    ASSUME IndInv, NEW g \in Held, NEW m \in completed,
           \/ PersistExcluded(m) \/ PersistFolded(m) \/ PersistRefused(m)
           \/ \E clock \in 0 .. Horizon : PersistInserted(m, clock)
    PROVE  g \in Held' \cup marked \cup marked' \/ faults' # faults
<1>1. CASE PersistRefused(m)
  BY <1>1 DEF PersistRefused, IndInv, TypeOK
<1>2. CASE \/ PersistExcluded(m) \/ PersistFolded(m)
           \/ \E clock \in 0 .. Horizon : PersistInserted(m, clock)
  <2>1. /\ completed' = completed \ {m} /\ m.keys \subseteq marked \cup marked'
        /\ UNCHANGED <<pending, suppressed, confirmations>>
    BY <1>2 DEF PersistExcluded, PersistFolded, PersistInserted, Accept, ConfirmPersisted
  <2>2. QED
    BY <2>1, HeldIff, HeldIffNext
<1>3. QED
  BY <1>1, <1>2

LEMMA ConfirmKeeps ==
    ASSUME NEW g \in Held, Confirm
    PROVE  g \in Held' \cup marked'
<1> DEFINE keys == confirmations \cup {s[2] : s \in ConfirmedSuppressed}
<1>1. PICK failed \in SUBSET keys : marked' = marked \cup (keys \ failed) /\ confirmations' = failed
  BY DEF Confirm
<1>2. /\ suppressed' = suppressed \ ConfirmedSuppressed
      /\ UNCHANGED <<pending, completed>>
  BY DEF Confirm
<1>3. \A h \in keys : h \in marked' \cup confirmations'
  BY <1>1
<1>4. \A s \in suppressed : s \in suppressed' \/ s[2] \in keys
  BY <1>2
<1> HIDE DEF keys
<1>5. confirmations \subseteq keys
  BY DEF keys
<1>6. QED
  BY <1>2, <1>3, <1>4, <1>5, HeldIff, HeldIffNext

-----------------------------------------------------------------------------
(* The theorems.                                                           *)

\* The inductive invariant holds of every behaviour of the ingest thread.
THEOREM Invariance == Spec => []IndInv
<1>1. Init => IndInv
  BY InitOK
<1>2. IndInv /\ [Next]_loopVars => IndInv'
  <2> SUFFICES ASSUME IndInv, [Next]_loopVars PROVE IndInv'
    OBVIOUS
  <2>1. ASSUME NEW f \in Fragment, Receive(f) PROVE IndInv'
    BY <2>1, ReceiveOK
  <2>2. ASSUME NEW clock \in 0 .. Horizon, Timeout(clock) PROVE IndInv'
    BY <2>2, TimeoutOK
  <2>3. CASE Stop
    BY <2>3, StopOK
  <2>4. ASSUME NEW m \in completed, PersistExcluded(m) PROVE IndInv'
    BY <2>4, PersistExcludedOK
  <2>5. ASSUME NEW m \in completed, PersistFolded(m) PROVE IndInv'
    BY <2>5, PersistFoldedOK
  <2>6. ASSUME NEW m \in completed, NEW clock \in 0 .. Horizon, PersistInserted(m, clock)
        PROVE  IndInv'
    BY <2>6, PersistInsertedOK
  <2>7. ASSUME NEW m \in completed, PersistRefused(m) PROVE IndInv'
    BY <2>7, PersistRefusedOK
  <2>8. CASE Confirm
    BY <2>8, ConfirmOK
  <2>9. ASSUME NEW S \in SUBSET rows, DeleteRecords(S) PROVE IndInv'
    BY <2>9, DeleteOK
  <2>10. CASE Crash
    BY <2>10, ForgetOK DEF Crash, IndInv, TypeOK
  <2>11. CASE Start
    BY <2>11, ForgetOK DEF Start, IndInv, TypeOK
  <2>12. CASE UNCHANGED loopVars
    BY <2>12, StutterOK
  <2>13. QED
    BY <2>1, <2>2, <2>3, <2>4, <2>5, <2>6, <2>7, <2>8, <2>9, <2>10, <2>11, <2>12 DEF Next
<1>3. QED
  BY <1>1, <1>2, PTL DEF Spec

\* The state of the thread, the merger and the index keeps its types.
THEOREM TypeCorrect == Spec => []TypeOK
<1>1. IndInv => TypeOK
  BY DEF IndInv
<1>2. QED
  BY <1>1, Invariance, PTL

\* No key is acknowledged before a record that covers it is in the index,
\* whatever the order of late evidence, refused writes and daemon deaths.
THEOREM AcknowledgementSafe == Spec => []AcknowledgedIsRecorded
<1>1. IndInv => AcknowledgedIsRecorded
  BY DEF IndInv, AcknowledgedOK, Acknowledged, AcknowledgedIsRecorded
<1>2. QED
  BY <1>1, Invariance, PTL

\* No chain of merges and folds puts two processes or two users in one record.
THEOREM IdentitySafe == Spec => []RowsNeverMixIdentities
<1>1. IndInv => RowsNeverMixIdentities
  <2> SUFFICES ASSUME IndInv, NEW r \in rows, NEW f \in r.evidence, NEW g \in r.evidence
               PROVE  f.process = g.process /\ f.kind = g.kind /\ Compatible(f, g)
    BY DEF RowsNeverMixIdentities
  <2>1. Describes(r, r.evidence)
    BY DEF IndInv, RowsOK
  <2>2. QED
    BY <2>1 DEF Describes, Compatible
<1>2. QED
  BY <1>1, Invariance, PTL

\* Two entries of one source are never merged, appends to an ANR dump aside.
THEOREM SourcesDistinct == Spec => []OneFragmentPerSource
<1>1. IndInv => OneFragmentPerSource
  BY DEF IndInv, PendingOK, SingleSources, OneFragmentPerSource
<1>2. QED
  BY <1>1, Invariance, PTL

\* Between rounds the merger owes no acknowledgement.
THEOREM RoundsSettle == Spec => []SuppressionSettles
<1>1. IndInv => SuppressionSettles
  BY DEF IndInv, PhaseOK, CompletionsOK, SuppressionSettles
<1>2. QED
  BY <1>1, Invariance, PTL

\* A living daemon never drops a key silently: every step keeps it, marks it,
\* or belongs to a round in which the store refused a write.
THEOREM DropsAreRefusals == Spec => NoSilentDrop
<1> DEFINE Kept == \A f \in Held : \/ f \in Held' \cup marked \cup marked'
                                   \/ faults' # faults
                                   \/ "stopped" \in {phase, phase'}
<1>1. IndInv /\ [Next]_loopVars => [Kept]_loopVars
  <2> SUFFICES ASSUME IndInv, Next, NEW f \in Held
               PROVE  \/ f \in Held' \cup marked \cup marked'
                      \/ faults' # faults \/ "stopped" \in {phase, phase'}
    OBVIOUS
  <2>1. CASE \E g \in Fragment : Receive(g)
    BY <2>1, ReceiveKeeps
  <2>2. CASE (\E clock \in 0 .. Horizon : Timeout(clock)) \/ Stop
    BY <2>2, FlushKeeps
  <2>3. CASE \E m \in completed :
                \/ PersistExcluded(m) \/ PersistFolded(m) \/ PersistRefused(m)
                \/ \E clock \in 0 .. Horizon : PersistInserted(m, clock)
    BY <2>3, PersistKeeps
  <2>4. CASE Confirm
    BY <2>4, ConfirmKeeps
  <2>5. CASE \E S \in SUBSET rows : DeleteRecords(S)
    <3>1. UNCHANGED <<pending, completed, suppressed, confirmations>>
      BY <2>5 DEF DeleteRecords, mergerVars
    <3>2. QED
      BY <3>1, HeldIff, HeldIffNext
  <2>6. CASE Crash
    BY <2>6 DEF Crash
  <2>7. CASE Start
    BY <2>7 DEF Start
  <2>8. QED
    BY <2>1, <2>2, <2>3, <2>4, <2>5, <2>6, <2>7 DEF Next
<1>2. QED
  BY <1>1, Invariance, PTL DEF Spec, NoSilentDrop

-----------------------------------------------------------------------------
(* What a sweep takes.                                                     *)

\* The rows a sweep leaves, before payloads are evicted.
Kept(S, clock, tiers) ==
    LET aged    == IF tiers >= 1 THEN WithinAge(S, clock) ELSE S
        grouped == IF tiers >= 2 THEN TrimGroups(aged) ELSE aged
    IN  IF tiers >= 3 THEN TrimTotal(grouped) ELSE grouped

\* The row a sweep leaves of a row it kept.
AfterEviction(K, tiers, r) ==
    IF tiers >= 4 /\ Evicted(K, r) THEN [r EXCEPT !.payload = "evicted"] ELSE r

Remainder(K, tiers) == {AfterEviction(K, tiers, r) : r \in K}

LEMMA SweptIs ==
    ASSUME NEW S, NEW clock \in Int, NEW tiers \in Nat
    PROVE  Swept(S, clock, tiers) = Remainder(Kept(S, clock, tiers), tiers)
<1> DEFINE K == Kept(S, clock, tiers)
<1>1. Swept(S, clock, tiers) = IF tiers >= 4 THEN EvictPayloads(K) ELSE K
  BY DEF Swept, Kept
<1> HIDE DEF K
<1>2. CASE tiers >= 4
  BY <1>1, <1>2 DEF EvictPayloads, AfterEviction, Remainder, K
<1>3. CASE ~(tiers >= 4)
  <2>1. \A r \in K : AfterEviction(K, tiers, r) = r
    BY <1>3 DEF AfterEviction
  <2>2. {AfterEviction(K, tiers, r) : r \in K} = K
    BY <2>1
  <2>3. QED
    BY <1>1, <1>3, <2>2 DEF K, Remainder
<1>4. QED
  BY <1>2, <1>3

LEMMA LaterOrder ==
    ASSUME NEW r \in Row, NEW s \in Row, NEW t \in Row, Later(t, r), Later(r, s)
    PROVE  Later(t, s)
  BY DEF Later, Row

LEMMA FewerIsLess ==
    ASSUME NEW B, IsFiniteSet(B), NEW A, A \subseteq B
    PROVE  /\ IsFiniteSet(A) /\ Cardinality(A) \in Nat /\ Cardinality(B) \in Nat
           /\ Cardinality(A) <= Cardinality(B)
  BY FS_Subset, FS_CardinalityType

\* Each tier that takes a row takes the older rows of its group too.
LEMMA TiersTakeOldest ==
    ASSUME NEW S, S \subseteq Row, IsFiniteSet(S), NEW clock \in Int, NEW r \in S, NEW s \in S,
           SameGroup(r, s), Later(r, s)
    PROVE  /\ s \in WithinAge(S, clock) => r \in WithinAge(S, clock)
           /\ s \in TrimGroups(S) => r \in TrimGroups(S)
           /\ s \in TrimTotal(S) => r \in TrimTotal(S)
           /\ s.payload = "present" /\ Evicted(S, r) => Evicted(S, s)
<1>1. r \in Row /\ s \in Row /\ MaxPerGroup \in Nat /\ MaxTotal \in Nat /\ MaxPayloads \in Nat
      /\ MaxAge \in Nat
  BY RetentionAssumption
<1>2. \A t \in S : Later(t, r) => Later(t, s)
  BY <1>1, LaterOrder
<1>3. s \in WithinAge(S, clock) => r \in WithinAge(S, clock)
  <2>1. r.at \in Nat /\ s.at \in Nat /\ r.at >= s.at /\ clock - MaxAge \in Int
    BY <1>1 DEF Later, Row
  <2>2. s.at >= clock - MaxAge => r.at >= clock - MaxAge
    BY <2>1
  <2>3. QED
    BY <2>2 DEF WithinAge
<1> DEFINE G(q) == {t \in S : SameGroup(q, t) /\ Later(t, q)}
           L(q) == {t \in S : Later(t, q)}
           P(q) == {t \in S : t.payload = "present" /\ Later(t, q)}
<1>4. G(r) \subseteq G(s) /\ L(r) \subseteq L(s) /\ P(r) \subseteq P(s)
  BY <1>2 DEF SameGroup
<1>5. IsFiniteSet(G(s)) /\ IsFiniteSet(L(s)) /\ IsFiniteSet(P(s))
  <2>1. G(s) \subseteq S /\ L(s) \subseteq S /\ P(s) \subseteq S
    OBVIOUS
  <2>2. QED
    BY <2>1, FewerIsLess
<1>6. s \in TrimGroups(S) => r \in TrimGroups(S)
  <2>1. Cardinality(G(r)) <= Cardinality(G(s)) /\ Cardinality(G(r)) \in Nat /\ Cardinality(G(s)) \in Nat
    BY <1>4, <1>5, FewerIsLess
  <2>2. \A q \in S : q \in TrimGroups(S) <=> Cardinality(G(q)) < MaxPerGroup
    BY DEF TrimGroups
  <2> HIDE DEF G
  <2>3. QED
    BY <1>1, <2>1, <2>2
<1>7. s \in TrimTotal(S) => r \in TrimTotal(S)
  <2>1. Cardinality(L(r)) <= Cardinality(L(s)) /\ Cardinality(L(r)) \in Nat /\ Cardinality(L(s)) \in Nat
    BY <1>4, <1>5, FewerIsLess
  <2>2. \A q \in S : q \in TrimTotal(S) <=> Cardinality(L(q)) < MaxTotal
    BY DEF TrimTotal
  <2> HIDE DEF L
  <2>3. QED
    BY <1>1, <2>1, <2>2
<1>8. s.payload = "present" /\ Evicted(S, r) => Evicted(S, s)
  <2>1. Cardinality(P(r)) <= Cardinality(P(s)) /\ Cardinality(P(r)) \in Nat /\ Cardinality(P(s)) \in Nat
    BY <1>4, <1>5, FewerIsLess
  <2>2. \A q \in S : Evicted(S, q) <=> q.payload = "present" /\ Cardinality(P(q)) >= MaxPayloads
    BY DEF Evicted
  <2> HIDE DEF P
  <2>3. QED
    BY <1>1, <2>1, <2>2
<1>9. QED
  BY <1>3, <1>6, <1>7, <1>8

LEMMA KeptOK ==
    ASSUME NEW S, S \subseteq Row, IsFiniteSet(S), NEW clock \in Int, NEW tiers \in Nat
    PROVE  /\ Kept(S, clock, tiers) \subseteq S /\ IsFiniteSet(Kept(S, clock, tiers))
           /\ \A r \in S, s \in Kept(S, clock, tiers) :
                 SameGroup(r, s) /\ Later(r, s) => r \in Kept(S, clock, tiers)
<1> DEFINE A == IF tiers >= 1 THEN WithinAge(S, clock) ELSE S
           B == IF tiers >= 2 THEN TrimGroups(A) ELSE A
           C == IF tiers >= 3 THEN TrimTotal(B) ELSE B
<1>1. A \subseteq S /\ \A r \in S, s \in A : SameGroup(r, s) /\ Later(r, s) => r \in A
  BY TiersTakeOldest DEF WithinAge
<1> HIDE DEF A
<1>2. A \subseteq Row /\ IsFiniteSet(A)
  BY <1>1, FewerIsLess
<1>3. B \subseteq A /\ \A r \in A, s \in B : SameGroup(r, s) /\ Later(r, s) => r \in B
  BY <1>2, TiersTakeOldest DEF TrimGroups
<1> HIDE DEF B
<1>4. B \subseteq Row /\ IsFiniteSet(B)
  BY <1>2, <1>3, FewerIsLess
<1>5. C \subseteq B /\ \A r \in B, s \in C : SameGroup(r, s) /\ Later(r, s) => r \in C
  BY <1>4, TiersTakeOldest DEF TrimTotal
<1>6. C = Kept(S, clock, tiers)
  BY DEF Kept, A, B
<1> HIDE DEF C
<1>7. C \subseteq S /\ IsFiniteSet(C)
  BY <1>1, <1>3, <1>4, <1>5, FewerIsLess
<1>8. ASSUME NEW r \in S, NEW s \in C, SameGroup(r, s), Later(r, s) PROVE r \in C
  <2>1. r \in A
    BY <1>1, <1>3, <1>5, <1>8
  <2>2. r \in B
    BY <1>3, <1>5, <1>8, <2>1
  <2>3. QED
    BY <1>5, <1>8, <2>2
<1>9. QED
  BY <1>6, <1>7, <1>8

\* What is left of a row has its place and its group, and at most loses a payload.
LEMMA AfterEvictionOK ==
    ASSUME NEW K, NEW tiers, NEW r \in Row
    PROVE  LET q == AfterEviction(K, tiers, r)
           IN  /\ q.id = r.id /\ q.at = r.at /\ q.kind = r.kind /\ q.process = r.process
               /\ q.user = r.user /\ q.payload \in {r.payload, "evicted"}
               /\ q.payload = "present" => q = r
  BY DEF AfterEviction, Evicted, Row

\* The index is finite, and no id is used twice.
IndexOK == IsFiniteSet(rows) /\ \A r, s \in rows : r.id = s.id => r = s

\* The three ways in which the index changes.
LEMMA IndexSteps ==
    ASSUME Next
    PROVE  \/ rows' \subseteq rows /\ stored' = stored
           \/ \E m \in completed, r \in rows :
                rows' = (rows \ {r}) \cup {FoldInto(r, m)} /\ stored' = stored
           \/ \E m \in completed, clock \in 0 .. Horizon, tiers \in 0 .. 4 :
                rows' = Swept(rows \cup {RowOf(m, Len(stored) + 1)}, clock, tiers)
<1>1. CASE \/ \E f \in Fragment : Receive(f)
           \/ \E clock \in 0 .. Horizon : Timeout(clock)
           \/ Stop \/ Confirm \/ Crash \/ Start
           \/ \E S \in SUBSET rows : DeleteRecords(S)
           \/ \E m \in completed : PersistExcluded(m) \/ PersistRefused(m)
  BY <1>1 DEF Receive, Timeout, Stop, Confirm, Crash, Start, DeleteRecords, PersistExcluded,
              PersistRefused
<1>2. ASSUME NEW m \in completed, PersistFolded(m)
      PROVE  \E r \in rows : rows' = (rows \ {r}) \cup {FoldInto(r, m)} /\ stored' = stored
  BY <1>2 DEF PersistFolded, Companions
<1>3. ASSUME NEW m \in completed, NEW clock \in 0 .. Horizon, PersistInserted(m, clock)
      PROVE  \E tiers \in 0 .. 4 : rows' = Swept(rows \cup {RowOf(m, Len(stored) + 1)}, clock, tiers)
  BY <1>3 DEF PersistInserted
<1>4. QED
  BY <1>1, <1>2, <1>3 DEF Next

\* An insert and its sweep.
LEMMA InsertedRows ==
    ASSUME IndInv, IndexOK, NEW m \in completed, NEW clock \in 0 .. Horizon, NEW tiers \in 0 .. 4,
           rows' = Swept(rows \cup {RowOf(m, Len(stored) + 1)}, clock, tiers)
    PROVE  LET row == RowOf(m, Len(stored) + 1)
               S   == rows \cup {row}
               K   == Kept(S, clock, tiers)
           IN  /\ row \in Row /\ S \subseteq Row /\ IsFiniteSet(S)
               /\ \A r \in rows : r.id # row.id
               /\ \A r, s \in S : r.id = s.id => r = s
               /\ K \subseteq S /\ IsFiniteSet(K)
               /\ rows' = Remainder(K, tiers)
<1> DEFINE row == RowOf(m, Len(stored) + 1)
           S   == rows \cup {row}
           K   == Kept(S, clock, tiers)
<1>1. /\ stored \in Seq(StoredCrash) /\ rows \subseteq Row /\ m \in MergedCrash
      /\ \A r \in rows : r.id \in DOMAIN stored
  BY DEF IndInv, TypeOK, RowsOK
<1>2. row \in Row /\ row.id = Len(stored) + 1
  BY <1>1 DEF RowOf, Row, MergedCrash
<1>3. \A r \in rows : r.id # row.id
  BY <1>1, <1>2
<1> HIDE DEF row
<1>4. S \subseteq Row /\ IsFiniteSet(S)
  BY <1>1, <1>2, FS_AddElement DEF IndexOK
<1>5. \A r, s \in S : r.id = s.id => r = s
  BY <1>3 DEF IndexOK
<1>6. clock \in Int /\ tiers \in Nat
  OBVIOUS
<1>7. K \subseteq S /\ IsFiniteSet(K)
  <2> HIDE DEF S
  <2>1. QED
    BY <1>4, <1>6, KeptOK
<1>8. rows' = Remainder(K, tiers)
  BY <1>6, SweptIs DEF row
<1>9. QED
  BY <1>2, <1>3, <1>4, <1>5, <1>7, <1>8 DEF row

LEMMA IndexStep == ASSUME IndInv, IndexOK, [Next]_loopVars PROVE IndexOK'
<1>0. IsFiniteSet(rows) /\ rows \subseteq Row /\ \A r, s \in rows : r.id = s.id => r = s
  BY DEF IndInv, TypeOK, IndexOK
<1>1. CASE rows' \subseteq rows
  BY <1>0, <1>1, FewerIsLess DEF IndexOK
<1>2. ASSUME NEW m \in completed, NEW r \in rows, rows' = (rows \ {r}) \cup {FoldInto(r, m)}
      PROVE  IndexOK'
  <2>1. FoldInto(r, m).id = r.id
    BY DEF FoldInto
  <2>2. IsFiniteSet(rows \ {r})
    BY <1>0, FewerIsLess
  <2>3. IsFiniteSet(rows')
    BY <1>2, <2>2, FS_AddElement
  <2>4. QED
    BY <1>0, <1>2, <2>1, <2>3 DEF IndexOK
<1>3. ASSUME NEW m \in completed, NEW clock \in 0 .. Horizon, NEW tiers \in 0 .. 4,
             rows' = Swept(rows \cup {RowOf(m, Len(stored) + 1)}, clock, tiers)
      PROVE  IndexOK'
  <2> DEFINE S == rows \cup {RowOf(m, Len(stored) + 1)}
             K == Kept(S, clock, tiers)
             e == [r \in K |-> AfterEviction(K, tiers, r)]
  <2>1. /\ S \subseteq Row /\ \A r, s \in S : r.id = s.id => r = s
        /\ K \subseteq S /\ IsFiniteSet(K)
        /\ rows' = Remainder(K, tiers)
    BY <1>3, InsertedRows
  <2> HIDE DEF K, S
  <2>2. e \in Surjection(K, rows')
    BY <2>1 DEF Surjection, Remainder
  <2>3. IsFiniteSet(rows')
    <3> HIDE DEF e
    <3>1. QED
      BY <2>1, <2>2, FS_Surjection
  <2>4. \A r \in K : AfterEviction(K, tiers, r).id = r.id
    BY <2>1, AfterEvictionOK
  <2>5. QED
    BY <2>1, <2>3, <2>4 DEF IndexOK, Remainder
<1>4. CASE UNCHANGED loopVars
  BY <1>0, <1>4 DEF loopVars, IndexOK
<1>5. QED
  BY <1>1, <1>2, <1>3, <1>4, IndexSteps

LEMMA IndexInvariance == Spec => [](IndInv /\ IndexOK)
<1>1. Init => IndexOK
  BY FS_EmptySet DEF Init, IndexOK
<1>2. QED
  BY <1>1, IndexStep, Invariance, PTL DEF Spec

\* fold_rows and evict_payloads: a payload that was reclaimed never comes back, and no record
\* loses a payload but to the quota.
THEOREM EvictionsAreFinal == Spec => EvictionIsFinal
<1> DEFINE Final == \A r \in rows, s \in rows' :
                      r.id = s.id /\ r.payload # "absent" => s.payload \in {r.payload, "evicted"}
<1>1. IndInv /\ IndexOK /\ [Next]_loopVars => [Final]_loopVars
  <2> SUFFICES ASSUME IndInv, IndexOK, Next, NEW r \in rows, NEW s \in rows',
                      r.id = s.id, r.payload # "absent"
               PROVE  s.payload \in {r.payload, "evicted"}
    OBVIOUS
  <2>0. \A p, q \in rows : p.id = q.id => p = q
    BY DEF IndexOK
  <2>1. CASE rows' \subseteq rows
    BY <2>0, <2>1
  <2>2. ASSUME NEW m \in completed, NEW q \in rows, rows' = (rows \ {q}) \cup {FoldInto(q, m)}
        PROVE  s.payload \in {r.payload, "evicted"}
    <3>1. FoldInto(q, m).id = q.id /\ (q.payload # "absent" => FoldInto(q, m).payload = q.payload)
      BY DEF FoldInto
    <3>2. QED
      BY <2>0, <2>2, <3>1
  <2>3. ASSUME NEW m \in completed, NEW clock \in 0 .. Horizon, NEW tiers \in 0 .. 4,
               rows' = Swept(rows \cup {RowOf(m, Len(stored) + 1)}, clock, tiers)
        PROVE  s.payload \in {r.payload, "evicted"}
    <3> DEFINE S == rows \cup {RowOf(m, Len(stored) + 1)}
               K == Kept(S, clock, tiers)
    <3>1. /\ S \subseteq Row /\ \A p, q \in S : p.id = q.id => p = q
          /\ K \subseteq S /\ rows' = Remainder(K, tiers) /\ r \in S
      BY <2>3, InsertedRows
    <3> HIDE DEF K, S
    <3>2. PICK p \in K : s = AfterEviction(K, tiers, p)
      BY <3>1 DEF Remainder
    <3>3. s.id = p.id /\ s.payload \in {p.payload, "evicted"}
      BY <3>1, <3>2, AfterEvictionOK
    <3>4. p = r
      BY <3>1, <3>3
    <3>5. QED
      BY <3>3, <3>4
  <2>4. QED
    BY <2>1, <2>2, <2>3, IndexSteps
<1>2. QED
  BY <1>1, IndexInvariance, PTL DEF Spec, EvictionIsFinal

\* sweep: however many of its tiers an insert's sweep gets through, the older records of a group
\* lose their record or their payload before the newer ones.
THEOREM OldestGoFirst == Spec => SweepTakesOldest
<1> DEFINE Oldest == \A r \in rows, s \in rows' :
                       stored' # stored /\ SameGroup(r, s) /\ Later(r, s) =>
                           \E q \in rows' : /\ q.id = r.id
                                            /\ s.payload = "present" => q.payload = r.payload
<1>1. IndInv /\ IndexOK /\ [Next]_loopVars => [Oldest]_loopVars
  <2> SUFFICES ASSUME IndInv, IndexOK, Next, NEW r \in rows, NEW s \in rows',
                      stored' # stored, SameGroup(r, s), Later(r, s)
               PROVE  \E q \in rows' : /\ q.id = r.id
                                       /\ s.payload = "present" => q.payload = r.payload
    OBVIOUS
  <2>1. PICK m \in completed, clock \in 0 .. Horizon, tiers \in 0 .. 4 :
           rows' = Swept(rows \cup {RowOf(m, Len(stored) + 1)}, clock, tiers)
    BY IndexSteps
  <2> DEFINE S == rows \cup {RowOf(m, Len(stored) + 1)}
             K == Kept(S, clock, tiers)
  <2>2. /\ S \subseteq Row /\ IsFiniteSet(S) /\ K \subseteq S /\ IsFiniteSet(K) /\ r \in S
        /\ rows' = Remainder(K, tiers)
    BY <2>1, InsertedRows
  <2>3. clock \in Int /\ tiers \in Nat
    OBVIOUS
  <2> HIDE DEF S
  <2>4. \A p \in S, q \in K : SameGroup(p, q) /\ Later(p, q) => p \in K
    BY <2>2, <2>3, KeptOK
  <2> HIDE DEF K
  <2>5. PICK p \in K : s = AfterEviction(K, tiers, p)
    BY <2>2 DEF Remainder
  <2>6. /\ s.id = p.id /\ s.at = p.at /\ s.kind = p.kind /\ s.process = p.process
        /\ s.user = p.user /\ (s.payload = "present" => s = p)
    BY <2>2, <2>5, AfterEvictionOK
  <2>7. SameGroup(r, p) /\ Later(r, p)
    BY <2>6 DEF SameGroup, Later
  <2>8. r \in K
    BY <2>2, <2>4, <2>7
  <2> DEFINE q == AfterEviction(K, tiers, r)
  <2>9. q \in rows' /\ q.id = r.id
    BY <2>2, <2>8, AfterEvictionOK DEF Remainder
  <2>10. ASSUME s.payload = "present" PROVE q.payload = r.payload
    <3>1. p.payload = "present" /\ AfterEviction(K, tiers, p) = p
      BY <2>5, <2>6, <2>10
    <3>2. ~(tiers >= 4 /\ Evicted(K, p))
      <4>1. ASSUME tiers >= 4 /\ Evicted(K, p) PROVE FALSE
        <5>1. p \in Row
          BY <2>2
        <5>2. AfterEviction(K, tiers, p).payload = "evicted"
          BY <4>1, <5>1 DEF AfterEviction, Row
        <5>3. QED
          BY <3>1, <5>2
      <4>2. QED
        BY <4>1
    <3>3. K \subseteq Row
      BY <2>2
    <3>4. Evicted(K, r) => Evicted(K, p)
      BY <2>2, <2>3, <2>7, <2>8, <3>1, <3>3, TiersTakeOldest
    <3>5. q = r
      BY <3>2, <3>4 DEF AfterEviction
    <3>6. QED
      BY <3>5
  <2>11. QED
    BY <2>9, <2>10
<1>2. QED
  BY <1>1, IndexInvariance, PTL DEF Spec, SweepTakesOldest

-----------------------------------------------------------------------------
(* The pipeline: its inductive invariant.                                  *)

Paths == {f.path : f \in Fragment}

WorldOK ==
    /\ now \in 0 .. Horizon /\ glitches \in Nat
    /\ written \subseteq Fragment /\ IsFiniteSet(written) /\ missed \subseteq written

ReadersOK ==
    /\ ignored \subseteq Fragment /\ migrated \subseteq LogSource
    /\ read \subseteq written /\ seen \subseteq written
    /\ cutoff \in [LogSource -> Nat \cup {None}]

OnDisk == {f \in written : f.path # None}

\* Every queued event names a file, and one of its versions is on disk.
ArtefactsOK ==
    /\ watcher \in {"scan", "arm", "watch", "ended"}
    /\ found \in Seq(OnDisk) /\ inotify \in Seq(Paths)
    /\ \A i \in DOMAIN inotify :
          /\ inotify[i] # None
          /\ \E f \in written : f.path = inotify[i] /\ IsCurrent(f)

ChannelOK == queue \in Seq(written) /\ sent \subseteq written

\* As long as nothing failed, a reader has stopped looking for history exactly
\* when the marker says so, and it does before anything is sent.
HistoryOK ==
    glitches = 0 =>
        /\ \A s \in LogSource : cutoff[s] = None <=> s \in migrated
        /\ \A f \in sent : f.source \in LogSource => f.source \in migrated
        /\ \A f \in sent : f \notin Unrelated
        /\ sent \cap ignored = {}

PipeInv == WorldOK /\ ReadersOK /\ ArtefactsOK /\ ChannelOK /\ HistoryOK

-----------------------------------------------------------------------------
(* One lemma per group of steps.                                           *)

\* A sequence over a set is one over every larger set.
LEMMA SeqGrows ==
    ASSUME NEW S, NEW T, S \subseteq T, NEW s \in Seq(S)
    PROVE  s \in Seq(T)
  OBVIOUS

\* What the artefact thread holds, when no file is written meanwhile.
LEMMA ArtefactsKept ==
    ASSUME ArtefactsOK, written' = written, found' \in Seq(OnDisk),
           inotify' = <<>> \/ inotify' = inotify,
           watcher' \in {"scan", "arm", "watch", "ended"}
    PROVE  ArtefactsOK'
<1>1. OnDisk' = OnDisk /\ \A f : IsCurrent(f)' = IsCurrent(f)
  BY DEF OnDisk, IsCurrent
<1>2. CASE inotify' = <<>>
  <2>1. <<>> \in Seq(Paths) /\ DOMAIN <<>> = {}
    OBVIOUS
  <2>2. QED
    BY <1>1, <1>2, <2>1 DEF ArtefactsOK
<1>3. CASE inotify' = inotify
  BY <1>1, <1>3 DEF ArtefactsOK
<1>4. QED
  BY <1>2, <1>3

\* The steps of the ingest thread and of a manager take from the channel and
\* leave the collectors alone.
LEMMA OutsideOK ==
    ASSUME PipeInv, queue' \in Seq(written),
           UNCHANGED <<sent, outside, readers, artefacts, glitches>>
    PROVE  PipeInv'
<1>1. WorldOK' /\ ReadersOK' /\ ChannelOK' /\ HistoryOK'
  BY DEF PipeInv, WorldOK, ReadersOK, ChannelOK, HistoryOK, outside, readers
<1>2. ArtefactsOK'
  BY ArtefactsKept DEF PipeInv, ArtefactsOK, artefacts, outside
<1>3. QED
  BY <1>1, <1>2 DEF PipeInv

LEMMA WriteOK ==
    ASSUME PipeInv, NEW f \in Fragment, Write(f)
    PROVE  PipeInv'
<1>1. /\ f.at <= now /\ f \notin written /\ written' = written \cup {f}
      /\ \A g \in written : g.path = f.path /\ f.path # None => g.at < f.at
      /\ inotify' = (IF f.path # None /\ watcher = "watch" THEN Append(inotify, f.path) ELSE inotify)
      /\ missed' = (IF f.path # None /\ watcher = "arm" THEN missed \cup {f} ELSE missed)
      /\ UNCHANGED <<now, ignored, migrated, read, seen, cutoff, queue, sent, watcher, found, glitches>>
  BY DEF Write, readers, channel
<1>2. WorldOK' /\ ReadersOK' /\ HistoryOK'
  BY <1>1, FS_AddElement DEF PipeInv, WorldOK, ReadersOK, HistoryOK
<1>3. written \subseteq written' /\ f \in written'
  BY <1>1
<1>4. ChannelOK' /\ found' \in Seq(OnDisk')
  <2>1. OnDisk \subseteq OnDisk'
    BY <1>3 DEF OnDisk
  <2>2. QED
    BY <1>1, <1>3, <2>1, SeqGrows DEF PipeInv, ChannelOK, ArtefactsOK
<1>5. f.path \in Paths
  BY DEF Paths
<1>6. inotify' \in Seq(Paths)
  BY <1>1, <1>5 DEF PipeInv, ArtefactsOK
<1>7. ASSUME NEW p, p # None, \E g \in written : g.path = p /\ IsCurrent(g)
      PROVE  \E h \in written' : h.path = p /\ IsCurrent(h)'
  <2>1. PICK g \in written : g.path = p /\ IsCurrent(g)
    BY <1>7
  <2>2. CASE f.path = p
    BY <1>1, <1>7, <2>2 DEF IsCurrent
  <2>3. CASE f.path # p
    BY <1>1, <2>1, <2>3 DEF IsCurrent
  <2>4. QED
    BY <2>2, <2>3
<1>8. f.path # None => IsCurrent(f)'
  BY <1>1 DEF IsCurrent
<1>9. \A i \in DOMAIN inotify' :
         /\ inotify'[i] # None
         /\ \E h \in written' : h.path = inotify'[i] /\ IsCurrent(h)'
  <2> SUFFICES ASSUME NEW i \in DOMAIN inotify'
               PROVE  /\ inotify'[i] # None
                      /\ \E h \in written' : h.path = inotify'[i] /\ IsCurrent(h)'
    OBVIOUS
  <2>1. CASE i \in DOMAIN inotify /\ inotify'[i] = inotify[i]
    BY <1>7, <2>1 DEF PipeInv, ArtefactsOK
  <2>2. CASE f.path # None /\ inotify'[i] = f.path
    BY <1>3, <1>8, <2>2
  <2>3. QED
    BY <1>1, <2>1, <2>2 DEF PipeInv, ArtefactsOK
<1>10. QED
  BY <1>1, <1>2, <1>4, <1>6, <1>9 DEF PipeInv, ArtefactsOK

LEMMA ReadLogOK ==
    ASSUME PipeInv, NEW f \in Fragment, NEW ok \in BOOLEAN, ReadLog(f, ok)
    PROVE  PipeInv'
<1> DEFINE known == f \in seen \/ (ok /\ WasIngested(f))
<1>1. /\ f \in written /\ f.source \in LogSource
      /\ glitches' = IF ok THEN glitches ELSE glitches + 1
      /\ read' = read \cup {f} /\ seen' = seen \cup {f}
      /\ ignored' = IF ~known /\ IsHistorical(f) /\ ok THEN ignored \cup {f} ELSE ignored
      /\ UNCHANGED <<now, written, missed, watcher, found, inotify>>
  BY DEF ReadLog, NextEntry, outside, artefacts
<1>2. /\ f.at \in Nat /\ cutoff \in [LogSource -> Nat \cup {None}] /\ None \notin Nat
      /\ EndsMigration(f, ok)
  BY FragmentAssumption, NoneAssumption DEF ReadLog, PipeInv, ReadersOK
<1>3. WorldOK' /\ ArtefactsOK'
  BY <1>1, ArtefactsKept DEF PipeInv, WorldOK, ArtefactsOK
<1>4. CASE IsHistorical(f)
  <2>1. cutoff[f.source] # None /\ UNCHANGED <<cutoff, migrated>>
    BY <1>1, <1>2, <1>4 DEF IsHistorical, EndsMigration
  <2>2. UNCHANGED <<queue, sent>>
    BY <1>4 DEF ReadLog, channel
  <2>3. ReadersOK' /\ ChannelOK'
    BY <1>1, <2>1, <2>2 DEF PipeInv, ReadersOK, ChannelOK
  <2>4. HistoryOK'
    BY <1>1, <2>1, <2>2 DEF PipeInv, HistoryOK, WorldOK
  <2>5. QED
    BY <1>3, <2>3, <2>4 DEF PipeInv
<1>5. CASE ~IsHistorical(f)
  <2>1. /\ cutoff' = [cutoff EXCEPT ![f.source] = None]
        /\ cutoff[f.source] = None => migrated' = migrated
        /\ ok /\ cutoff[f.source] # None => migrated' = migrated \cup {f.source}
        /\ migrated \subseteq migrated' /\ migrated' \subseteq migrated \cup {f.source}
    <3>1. CASE cutoff[f.source] = None
      BY <1>1, <1>2, <3>1 DEF EndsMigration
    <3>2. CASE cutoff[f.source] # None
      <4>1. f.at >= cutoff[f.source]
        BY <1>1, <1>2, <1>5, <3>2 DEF IsHistorical
      <4>2. QED
        BY <1>2, <3>2, <4>1 DEF EndsMigration
    <3>3. QED
      BY <3>1, <3>2
  <2>2. /\ ignored' = ignored
        /\ \/ queue' = Append(queue, f) /\ sent' = sent \cup {f} /\ ~known
           \/ queue' = queue /\ sent' = sent
    BY <1>1, <1>5 DEF ReadLog, channel, Send
  <2>3. ReadersOK' /\ ChannelOK'
    <3>1. ReadersOK'
      BY <1>1, <2>1, <2>2 DEF PipeInv, ReadersOK
    <3>2. ChannelOK'
      BY <1>1, <2>2 DEF PipeInv, ChannelOK
    <3>3. QED
      BY <3>1, <3>2
  <2>4. HistoryOK'
    <3> SUFFICES ASSUME glitches' = 0
                 PROVE  /\ \A s \in LogSource : cutoff'[s] = None <=> s \in migrated'
                        /\ \A g \in sent' : g.source \in LogSource => g.source \in migrated'
                        /\ \A g \in sent' : g \notin Unrelated
                        /\ sent' \cap ignored' = {}
      BY DEF HistoryOK
    <3>1. ok /\ glitches = 0
      BY <1>1 DEF PipeInv, WorldOK
    <3>2. f.source \in migrated' /\ \A s \in LogSource : cutoff'[s] = None <=> s \in migrated'
      BY <1>1, <1>2, <2>1, <3>1 DEF PipeInv, HistoryOK
    <3>3. f \notin Unrelated
      BY <1>1, PipelineAssumption
    <3>4. f \notin ignored \/ known
      BY <3>1 DEF WasIngested
    <3>5. QED
      BY <2>1, <2>2, <3>1, <3>2, <3>3, <3>4 DEF PipeInv, HistoryOK
  <2>5. QED
    BY <1>3, <2>3, <2>4 DEF PipeInv
<1>6. QED
  BY <1>4, <1>5

LEMMA ReconnectOK ==
    ASSUME PipeInv, NEW s \in LogSource, Reconnect(s)
    PROVE  PipeInv'
<1>1. /\ read' \subseteq read
      /\ UNCHANGED <<now, written, missed, ignored, migrated, seen, cutoff,
                     watcher, found, inotify, queue, sent, glitches>>
  BY DEF Reconnect, outside, channel, artefacts
<1>2. WorldOK' /\ ReadersOK' /\ ChannelOK' /\ HistoryOK'
  BY <1>1 DEF PipeInv, WorldOK, ReadersOK, ChannelOK, HistoryOK
<1>3. ArtefactsOK'
  BY <1>1, ArtefactsKept DEF PipeInv, ArtefactsOK
<1>4. QED
  BY <1>2, <1>3 DEF PipeInv

\* The artefact thread looking for files: what it finds is on disk.
LEMMA LookOK ==
    ASSUME PipeInv, found' \in Seq(OnDisk), inotify' \in {<<>>, inotify},
           watcher' \in {"arm", "watch", "ended"},
           glitches' \in {glitches, glitches + 1},
           UNCHANGED <<outside, channel, readers>>
    PROVE  PipeInv'
<1>1. WorldOK' /\ ReadersOK' /\ ChannelOK' /\ HistoryOK'
  BY DEF PipeInv, WorldOK, ReadersOK, ChannelOK, HistoryOK, outside, channel, readers
<1>2. ArtefactsOK'
  BY ArtefactsKept DEF PipeInv, outside
<1>3. QED
  BY <1>1, <1>2 DEF PipeInv

LEMMA ScanOK ==
    ASSUME PipeInv, Scan
    PROVE  PipeInv'
<1> DEFINE disk == {f \in written : f.path # None /\ IsCurrent(f) /\ ~WasIngested(f)}
<1>1. \/ found' \in InOrder(disk) /\ glitches' = glitches
      \/ found' = <<>> /\ glitches' = glitches + 1
  BY DEF Scan
<1>2. disk \subseteq OnDisk /\ disk \subseteq written
  BY DEF OnDisk
<1> HIDE DEF disk
<1>3. Cardinality(disk) \in Nat
  BY <1>2, FS_Subset, FS_CardinalityType DEF PipeInv, WorldOK
<1>4. InOrder(disk) \subseteq Seq(disk)
  BY <1>3 DEF InOrder
<1>5. Seq(disk) \subseteq Seq(OnDisk) /\ <<>> \in Seq(OnDisk)
  BY <1>2, SeqGrows
<1>6. found' \in Seq(OnDisk) /\ glitches' \in {glitches, glitches + 1}
  BY <1>1, <1>4, <1>5
<1>7. QED
  BY <1>6, LookOK DEF Scan

LEMMA ArmOK ==
    ASSUME PipeInv, Arm
    PROVE  PipeInv'
  BY LookOK DEF Arm, PipeInv, ArtefactsOK

\* A queued event finds the version of its file that is on disk.
LEMMA PollOK ==
    ASSUME PipeInv, Poll
    PROVE  PipeInv'
<1> DEFINE current(p) == CHOOSE f \in written : f.path = p /\ IsCurrent(f)
<1>1. \/ found' = [i \in DOMAIN inotify |-> current(inotify[i])] /\ glitches' = glitches
      \/ found' = <<>> /\ glitches' = glitches + 1
  BY DEF Poll
<1>2. \A i \in DOMAIN inotify : current(inotify[i]) \in OnDisk
  <2> SUFFICES ASSUME NEW i \in DOMAIN inotify PROVE current(inotify[i]) \in OnDisk
    OBVIOUS
  <2>1. /\ inotify[i] # None
        /\ \E f : f \in written /\ f.path = inotify[i] /\ IsCurrent(f)
    BY DEF PipeInv, ArtefactsOK
  <2>2. QED
    BY <2>1 DEF OnDisk
<1> HIDE DEF current
<1>3. Len(inotify) \in Nat /\ DOMAIN inotify = 1 .. Len(inotify)
  BY DEF PipeInv, ArtefactsOK
<1>4. found' \in Seq(OnDisk) /\ glitches' \in {glitches, glitches + 1}
  <2>1. [i \in DOMAIN inotify |-> current(inotify[i])] \in Seq(OnDisk)
    BY <1>2, <1>3
  <2>2. <<>> \in Seq(OnDisk)
    OBVIOUS
  <2>3. QED
    BY <1>1, <2>1, <2>2
<1>5. QED
  BY <1>4, LookOK DEF Poll

LEMMA IngestSourceOK ==
    ASSUME PipeInv, NEW ok \in BOOLEAN, IngestSource(ok)
    PROVE  PipeInv'
<1> DEFINE f == Head(found)
<1>1. /\ found' = Tail(found) /\ found # <<>>
      /\ glitches' = IF ok THEN glitches ELSE glitches + 1
      /\ UNCHANGED <<now, written, missed, migrated, read, seen, cutoff, watcher, inotify>>
  BY DEF IngestSource, outside
<1>2. f \in OnDisk /\ found' \in Seq(OnDisk)
  BY <1>1 DEF PipeInv, ArtefactsOK
<1>3. \/ UNCHANGED <<queue, sent, ignored>>
      \/ /\ queue' = Append(queue, f) /\ sent' = sent \cup {f} /\ ignored' = ignored
         /\ f \notin Unrelated /\ ~(ok /\ WasIngested(f))
      \/ /\ ignored' \subseteq ignored \cup {f} /\ UNCHANGED <<queue, sent>>
         /\ f \in Unrelated
  BY DEF IngestSource, channel, Send
<1> HIDE DEF f
<1>4. f \in written /\ f \in Fragment /\ f.source \notin LogSource
  BY <1>2, PipelineAssumption DEF OnDisk, PipeInv, WorldOK
<1>5. ArtefactsOK'
  BY <1>1, <1>2, ArtefactsKept DEF PipeInv, ArtefactsOK
<1>6. WorldOK'
  BY <1>1 DEF PipeInv, WorldOK
<1>7. ReadersOK' /\ ChannelOK'
  <2>1. ignored' \subseteq ignored \cup {f}
    BY <1>3
  <2>2. \/ queue' = queue /\ sent' = sent
        \/ queue' = Append(queue, f) /\ sent' = sent \cup {f}
    BY <1>3
  <2>3. ReadersOK'
    BY <1>1, <1>4, <2>1 DEF PipeInv, ReadersOK
  <2>4. ChannelOK'
    <3>1. queue \in Seq(written) /\ sent \subseteq written /\ written' = written
      BY <1>1 DEF PipeInv, ChannelOK
    <3>2. Append(queue, f) \in Seq(written)
      BY <1>4, <3>1
    <3>3. queue' \in Seq(written') /\ sent' \subseteq written'
      BY <1>4, <2>2, <3>1, <3>2
    <3>4. QED
      BY <3>3 DEF ChannelOK
  <2>5. QED
    BY <2>3, <2>4
<1>8. HistoryOK'
  <2> SUFFICES ASSUME glitches' = 0
               PROVE  /\ \A s \in LogSource : cutoff'[s] = None <=> s \in migrated'
                      /\ \A g \in sent' : g.source \in LogSource => g.source \in migrated'
                      /\ \A g \in sent' : g \notin Unrelated
                      /\ sent' \cap ignored' = {}
    BY DEF HistoryOK
  <2>1. ok /\ glitches = 0
    BY <1>1 DEF PipeInv, WorldOK
  <2>2. \/ UNCHANGED <<sent, ignored>>
        \/ sent' = sent \cup {f} /\ ignored' = ignored /\ f \notin Unrelated /\ f \notin ignored
        \/ ignored' \subseteq ignored \cup {f} /\ sent' = sent /\ f \in Unrelated
    BY <1>3, <2>1 DEF WasIngested
  <2>3. QED
    BY <1>1, <1>4, <2>1, <2>2 DEF PipeInv, HistoryOK
<1>9. QED
  BY <1>5, <1>6, <1>7, <1>8 DEF PipeInv

\* A stop, a death or a start: the readers begin again where the markers say.
LEMMA ResetOK ==
    ASSUME PipeInv, Reset(now)
    PROVE  PipeInv'
<1>1. /\ queue' = <<>> /\ read' = {} /\ seen' = {}
      /\ cutoff' = [s \in LogSource |-> IF s \in migrated THEN None
                                        ELSE IF now > Grace THEN now - Grace ELSE 0]
      /\ watcher' = "scan" /\ found' = <<>> /\ inotify' = <<>>
      /\ UNCHANGED <<now, written, missed, ignored, migrated, glitches, sent>>
  BY DEF Reset, outside
<1>2. /\ now \in Nat /\ Grace \in Nat /\ None \notin Nat
  BY PipelineAssumption, NoneAssumption, LoopAssumption DEF PipeInv, WorldOK
<1>3. WorldOK' /\ ArtefactsOK' /\ ChannelOK'
  <2>1. \A S : <<>> \in Seq(S)
    OBVIOUS
  <2>2. ArtefactsOK'
    BY <1>1, <2>1, ArtefactsKept DEF PipeInv
  <2>3. QED
    BY <1>1, <2>1, <2>2 DEF PipeInv, WorldOK, ChannelOK
<1>4. /\ cutoff' \in [LogSource -> Nat \cup {None}]
      /\ \A s \in LogSource : cutoff'[s] = None <=> s \in migrated
  BY <1>1, <1>2
<1>5. ReadersOK' /\ HistoryOK'
  BY <1>1, <1>4 DEF PipeInv, ReadersOK, HistoryOK
<1>6. QED
  BY <1>3, <1>5 DEF PipeInv

LEMMA PipeInitOK ==
    ASSUME PipeInit
    PROVE  PipeInv
<1>1. IsFiniteSet({}) /\ Installed \in Nat /\ Grace \in Nat /\ None \notin Nat
  BY FS_EmptySet, PipelineAssumption, NoneAssumption, LoopAssumption
<1>2. WorldOK /\ ArtefactsOK /\ ChannelOK
  BY <1>1, PipelineAssumption DEF PipeInit, WorldOK, ArtefactsOK, ChannelOK
<1>3. /\ cutoff \in [LogSource -> Nat \cup {None}]
      /\ \A s \in LogSource : cutoff[s] # None
  BY <1>1 DEF PipeInit
<1>4. ReadersOK /\ HistoryOK
  BY <1>3 DEF PipeInit, ReadersOK, HistoryOK
<1>5. QED
  BY <1>2, <1>4 DEF PipeInv

-----------------------------------------------------------------------------
(* The theorems.                                                           *)

\* The inductive invariant of the collectors.
THEOREM PipeInvariance == PipeSpec => []PipeInv
<1>1. PipeInit => PipeInv
  BY PipeInitOK
<1>2. PipeInv /\ [PipeNext]_pipeVars => PipeInv'
  <2> SUFFICES ASSUME PipeInv, [PipeNext]_pipeVars PROVE PipeInv'
    OBVIOUS
  <2>1. ASSUME NEW f \in Fragment, Write(f) PROVE PipeInv'
    BY <2>1, WriteOK
  <2>2. CASE Tick
    <3>1. /\ now' = now + 1 /\ now < Horizon
          /\ UNCHANGED <<written, missed, readers, channel, artefacts, glitches>>
      BY <2>2 DEF Tick
    <3>2. WorldOK' /\ ReadersOK' /\ ChannelOK' /\ HistoryOK'
      BY <3>1, LoopAssumption DEF PipeInv, WorldOK, ReadersOK, ChannelOK, HistoryOK, readers, channel
    <3>3. ArtefactsOK'
      BY <3>1, ArtefactsKept DEF PipeInv, ArtefactsOK, artefacts
    <3>4. QED
      BY <3>2, <3>3 DEF PipeInv
  <2>3. ASSUME NEW s \in LogSource, LogReader(s) PROVE PipeInv'
    BY <2>3, ReadLogOK DEF LogReader
  <2>4. ASSUME NEW s \in LogSource, Reconnect(s) PROVE PipeInv'
    BY <2>4, ReconnectOK
  <2>5. CASE ArtefactThread
    BY <2>5, ScanOK, ArmOK, PollOK, IngestSourceOK DEF ArtefactThread
  <2>6. CASE ReceiveNext
    <3>1. queue' \in Seq(written)
      BY <2>6 DEF ReceiveNext, PipeInv, ChannelOK
    <3>2. QED
      BY <2>6, <3>1, OutsideOK DEF ReceiveNext
  <2>7. CASE TimeoutNow \/ PersistOrConfirm \/ Delete
    <3>1. /\ UNCHANGED <<sent, outside, readers, artefacts, glitches>>
          /\ queue' = queue
      BY <2>7 DEF TimeoutNow, PersistOrConfirm, Delete, channel
    <3>2. QED
      BY <3>1, OutsideOK DEF PipeInv, ChannelOK
  <2>8. CASE StopAll \/ CrashAll \/ StartAll
    BY <2>8, ResetOK DEF StopAll, CrashAll, StartAll
  <2>9. CASE UNCHANGED pipeVars
    <3>1. /\ UNCHANGED <<sent, outside, readers, artefacts, glitches>>
          /\ queue' = queue
      BY <2>9 DEF pipeVars, outside, readers, artefacts
    <3>2. QED
      BY <3>1, OutsideOK DEF PipeInv, ChannelOK
  <2>10. QED
    BY <2>1, <2>2, <2>3, <2>4, <2>5, <2>6, <2>7, <2>8, <2>9 DEF PipeNext, IngestThread
<1>3. QED
  BY <1>1, <1>2, PTL DEF PipeSpec

\* Whatever the collectors, the clock and the launcher do is a step of the
\* ingest thread as IngestLoop describes it, or does not touch it: everything
\* proved of the ingest thread holds in the running daemon.
THEOREM PipelineImplementsLoop == PipeSpec => Spec
<1>1. PipeInit => Init
  BY DEF PipeInit
<1>2. PipeInv /\ [PipeNext]_pipeVars => [Next]_loopVars
  <2> SUFFICES ASSUME PipeInv, [PipeNext]_pipeVars PROVE [Next]_loopVars
    OBVIOUS
  <2>1. CASE \/ (\E f \in Fragment : Write(f)) \/ Tick \/ ArtefactThread
             \/ \E s \in LogSource : LogReader(s) \/ Reconnect(s)
    BY <2>1 DEF Write, Tick, ArtefactThread, Scan, Arm, Poll, IngestSource, LogReader, ReadLog,
                Reconnect
  <2>2. CASE ReceiveNext
    <3>1. Head(queue) \in Fragment
      BY <2>2 DEF ReceiveNext, PipeInv, ChannelOK, WorldOK
    <3>2. QED
      BY <2>2, <3>1 DEF ReceiveNext, Next
  <2>3. CASE TimeoutNow \/ PersistOrConfirm
    BY <2>3 DEF TimeoutNow, PersistOrConfirm, Next, PipeInv, WorldOK
  <2>4. CASE Delete
    BY <2>4 DEF Delete, Next
  <2>5. CASE StopAll \/ CrashAll \/ StartAll
    BY <2>5 DEF StopAll, CrashAll, StartAll, Next
  <2>6. CASE UNCHANGED pipeVars
    BY <2>6 DEF pipeVars
  <2>7. QED
    BY <2>1, <2>2, <2>3, <2>4, <2>5, <2>6 DEF PipeNext, IngestThread
<1>3. QED
  BY <1>1, <1>2, PipeInvariance, PTL DEF PipeSpec, Spec

\* The whole daemon keeps its types.
THEOREM PipeTypeCorrect == PipeSpec => []PipeTypeOK
<1>1. PipeInv /\ TypeOK => PipeTypeOK
  <2> SUFFICES ASSUME PipeInv, TypeOK PROVE PipeTypeOK
    OBVIOUS
  <2>1. OnDisk \subseteq Fragment /\ written \subseteq Fragment
    BY DEF PipeInv, WorldOK, OnDisk
  <2>2. queue \in Seq(Fragment) /\ found \in Seq(Fragment)
    BY <2>1, SeqGrows DEF PipeInv, ChannelOK, ArtefactsOK
  <2>3. now \in Nat
    BY LoopAssumption DEF PipeInv, WorldOK
  <2>4. QED
    BY <2>2, <2>3 DEF PipeTypeOK, PipeInv, WorldOK, ReadersOK, ArtefactsOK, ChannelOK
<1>2. QED
  BY <1>1, PipeInvariance, PipelineImplementsLoop, TypeCorrect, PTL

\* No key the running daemon holds for done lacks its record.
THEOREM PipelineAcknowledgementSafe == PipeSpec => []AcknowledgedIsRecorded
  BY PipelineImplementsLoop, AcknowledgementSafe, PTL

\* Evidence that was sent on is never written off as history, by this life of
\* the daemon or a later one, as long as no store lookup failed.
THEOREM HistoryIsNeverSent == PipeSpec => []SentIsNeverHistory
<1>1. PipeInv => SentIsNeverHistory
  BY DEF PipeInv, HistoryOK, SentIsNeverHistory
<1>2. QED
  BY <1>1, PipeInvariance, PTL

-----------------------------------------------------------------------------
(* One record for each death that is told.                                 *)

IsTold(f) == Told(f.death)

\* Evidence that is not mixed with that of a death that is told.
Pure(K) == \A f, g \in K : IsTold(f) => g.death = f.death

\* An occurrence, a record or a row, with its evidence and its time: the time
\* and the user are those of a fragment, and each source left its fragment.
Whole(o, K, at) ==
    /\ Pure(K)
    /\ \E k \in K : k.at = at
    /\ \E k \in K : UserOf(o) = UserOf(k)
    /\ o.sources = {k.source : k \in K}

Separate(K, L) == \A f \in K \cap L : ~IsTold(f)

\* The occurrences P and the records C the merger has made, with no fragment
\* of a death that is told in two of them.
HandsOK(P, C) ==
    /\ \A p \in P : Whole(p, p.keys, p.first)
    /\ \A m \in C : Whole(m, m.keys, m.at)
    /\ \A p, q \in P : p = q \/ Separate(p.keys, q.keys)
    /\ \A m, n \in C : m = n \/ Separate(m.keys, n.keys)
    /\ \A p \in P, m \in C : Separate(p.keys, m.keys)

InHand(f) == (\E p \in pending : f \in p.keys) \/ (\E m \in completed : f \in m.keys)

InRow(f) == \E r \in rows : f \in r.evidence

\* What is in a row is marked, is in one row and is not on its way to another;
\* rows of one death are one row.
OneRowOK ==
    /\ \A r \in rows : Whole(r, r.evidence, r.at)
    /\ \A f \in Fragment : IsTold(f) /\ InRow(f) => f \in marked /\ ~InHand(f)
    /\ \A r, s \in rows : \A f \in r.evidence, g \in s.evidence :
          IsTold(f) /\ f.death = g.death => r = s

\* Neither waiting in the merger nor stored.
IsFresh(f) == ~InHand(f) /\ ~InRow(f)

OnceIn(s) == \A i, j \in DOMAIN s : IsTold(s[i]) /\ s[i] = s[j] => i = j

Queued(f, s) == \E i \in DOMAIN s : s[i] = f

\* On the way to the merger, each fragment once.
OnItsWayOK ==
    /\ OnceIn(queue) /\ OnceIn(found)
    /\ \A f \in Fragment : IsTold(f) /\ Queued(f, queue) => IsFresh(f) /\ ~Queued(f, found)
    /\ \A f \in Fragment : IsTold(f) /\ Queued(f, found) => IsFresh(f)
    /\ \A f \in Fragment : IsTold(f) /\ Queued(f.path, inotify) =>
          IsFresh(f) /\ ~Queued(f, found) /\ ~Queued(f, queue)
    /\ \A f \in Fragment : IsTold(f) => \A i, j \in DOMAIN inotify :
          inotify[i] = f.path /\ inotify[j] = f.path => i = j

\* What this life of the daemon has sent and not stored.
Sending(f) == InHand(f) \/ Queued(f, queue)

\* The readers remember what they sent, and the artefact thread scans first.
SenderOK ==
    Running => \A f \in Fragment : IsTold(f) /\ Sending(f) =>
        IF f.source \in LogSource THEN f \in seen ELSE watcher # "scan"

ScannerOK == watcher = "scan" => found = <<>> /\ inotify = <<>>

WrittenOK == \A f \in Fragment : InHand(f) \/ InRow(f) => f \in written

\* The part that is about the collectors.
OnceOK == OnItsWayOK /\ SenderOK /\ ScannerOK /\ WrittenOK

OnceInv == glitches = 0 => HandsOK(pending, completed) /\ OneRowOK /\ OnceOK

LEMMA ToldFacts ==
    ASSUME NEW f \in Fragment, IsTold(f), NEW g \in Fragment
    PROVE  /\ f.kind \in {"Java", "Native"} /\ f.pid # 0
           /\ \A t \in 0 .. Horizon : ~MayExpire(f, t)
           /\ f.path # None /\ f.path = g.path => f = g
           /\ g.death = f.death =>
                /\ f.kind = g.kind /\ f.process = g.process
                /\ f.pid = g.pid /\ UserOf(f) = UserOf(g)
                /\ Dist(f.at, g.at) <= Window
                /\ f.source = g.source => f = g
           /\ g.death # f.death /\ f.kind = g.kind /\ f.process = g.process =>
                /\ g.pid # 0
                /\ f.pid = g.pid => Dist(f.at, g.at) > Window
  BY DEF IsTold, Told

\* Two bodies of evidence that the merger or the store takes for one crash:
\* where one has a fragment of a death that is told, the other is of that death.
LEMMA OneWay ==
    ASSUME NEW o, NEW q, NEW K \in SUBSET Fragment, NEW L \in SUBSET Fragment,
           NEW a, NEW b,
           Describes(o, K), Describes(q, L), Pure(K), Pure(L),
           \E k \in K : k.at = a, \E k \in L : k.at = b,
           o.kind = q.kind, o.process = q.process,
           o.pid # 0 /\ q.pid # 0 => o.pid = q.pid,
           Dist(a, b) <= Window
    PROVE  \A f \in K, g \in L : IsTold(f) => g.death = f.death
<1> SUFFICES ASSUME NEW f \in K, NEW g \in L, IsTold(f), g.death # f.death PROVE FALSE
  OBVIOUS
<1>1. PICK k \in K : k.at = a
  OBVIOUS
<1>2. PICK l \in L : l.at = b
  OBVIOUS
<1>3. k.death = f.death /\ IsTold(k)
  BY DEF Pure, IsTold
<1>4. l.death # f.death
  <2>1. l.death = f.death => IsTold(l)
    BY DEF IsTold
  <2>2. QED
    BY <2>1 DEF Pure
<1>5. k \in Fragment /\ l \in Fragment /\ k.kind = l.kind /\ k.process = l.process
  BY DEF Describes
<1>6. k.pid # 0 /\ l.pid # 0 /\ (k.pid = l.pid => Dist(k.at, l.at) > Window)
  BY <1>3, <1>4, <1>5, ToldFacts
<1>7. k.pid = l.pid
  BY <1>6 DEF Describes
<1>8. k.at \in Nat /\ l.at \in Nat /\ Window \in Nat
  BY <1>5, FragmentAssumption, TimeAssumption
<1>9. QED
  BY <1>1, <1>2, <1>6, <1>7, <1>8 DEF Dist

LEMMA Met ==
    ASSUME NEW o, NEW q, NEW K \in SUBSET Fragment, NEW L \in SUBSET Fragment,
           NEW a \in Nat, NEW b \in Nat,
           Describes(o, K), Describes(q, L), Pure(K), Pure(L),
           \E k \in K : k.at = a, \E k \in L : k.at = b,
           o.kind = q.kind, o.process = q.process,
           o.pid # 0 /\ q.pid # 0 => o.pid = q.pid,
           Dist(a, b) <= Window
    PROVE  Pure(K \cup L)
<1>1. Dist(b, a) <= Window
  BY DEF Dist
<1>2. \A f \in K, g \in L : IsTold(f) => g.death = f.death
  BY OneWay
<1>3. \A f \in L, g \in K : IsTold(f) => g.death = f.death
  BY <1>1, OneWay
<1>4. QED
  BY <1>2, <1>3 DEF Pure

LEMMA NewWhole ==
    ASSUME NEW f \in Fragment
    PROVE  /\ Whole(NewPending(f), {f}, f.at)
           /\ NewPending(f).keys = {f} /\ NewPending(f).first = f.at
<1>1. /\ NewPending(f).keys = {f} /\ NewPending(f).first = f.at
      /\ NewPending(f).user = f.user /\ NewPending(f).sources = {f.source}
  BY DEF NewPending
<1>2. UserOf(NewPending(f)) = UserOf(f)
  BY <1>1 DEF UserOf
<1>3. {f.source} = {k.source : k \in {f}}
  OBVIOUS
<1>4. QED
  BY <1>1, <1>2, <1>3 DEF Whole, Pure

LEMMA MergeWhole ==
    ASSUME NEW f \in Fragment, NEW p \in Occurrence, PendingMatches(p, f),
           Describes(p, p.keys), Whole(p, p.keys, p.first)
    PROVE  LET q == MergeInto(p, f)
           IN  q.keys = p.keys \cup {f} /\ Whole(q, q.keys, q.first)
<1> DEFINE q == MergeInto(p, f)
<1>1. /\ p.keys \subseteq Fragment /\ p.first \in Nat /\ f.at \in Nat
      /\ p.user \in Nat \cup {None} /\ f.user \in Nat \cup {None}
      /\ p.pid \in Nat /\ f.pid \in Nat
  BY FragmentAssumption DEF Occurrence
<1>2. /\ q.keys = p.keys \cup {f} /\ q.sources = p.sources \cup {f.source}
      /\ q.user \in {p.user, f.user} /\ q.first \in {p.first, f.at}
  BY DEF MergeInto
<1>3. /\ p.kind = f.kind /\ p.process = f.process
      /\ p.pid # 0 /\ f.pid # 0 => p.pid = f.pid
      /\ Dist(p.first, f.at) <= Skew \/ Dist(p.first, f.at) <= Window
  BY DEF PendingMatches, SameOccurrence, IdentityMatches
<1>4. Dist(p.first, f.at) <= Window
  BY <1>1, <1>3, TimeAssumption DEF Dist
<1> HIDE DEF q
<1>5. /\ Pure(p.keys) /\ (\E k \in p.keys : k.at = p.first)
      /\ (\E k \in p.keys : UserOf(p) = UserOf(k))
      /\ p.sources = {k.source : k \in p.keys}
  BY DEF Whole
<1>6. Pure({f}) /\ Describes(f, {f}) /\ \E k \in {f} : k.at = f.at
  BY DEF Pure, Describes
<1>7. Pure(q.keys)
  <2>1. {f} \in SUBSET Fragment
    OBVIOUS
  <2>2. QED
    BY <1>1, <1>2, <1>3, <1>4, <1>5, <1>6, <2>1, Met
<1>8. \E k \in q.keys : k.at = q.first
  BY <1>2, <1>5
<1>9. \E k \in q.keys : UserOf(q) = UserOf(k)
  <2>1. UserOf(q) = UserOf(p) \/ UserOf(q) = UserOf(f)
    BY <1>2 DEF UserOf
  <2>2. QED
    BY <1>2, <1>5, <2>1
<1>10. q.sources = {k.source : k \in q.keys}
  BY <1>2, <1>5
<1>11. QED
  BY <1>2, <1>7, <1>8, <1>9, <1>10 DEF Whole, q

LEMMA FinishWhole ==
    ASSUME NEW p \in Occurrence, NEW id, Whole(p, p.keys, p.first)
    PROVE  LET m == Finish(p, id)
           IN  m.keys = p.keys /\ Whole(m, m.keys, m.at)
<1> DEFINE m == Finish(p, id)
<1>1. /\ m.keys = p.keys /\ m.at = p.first /\ m.sources = p.sources
      /\ m.user = UserOf(p)
  BY DEF Finish, UserOf
<1>2. UserOf(m) = UserOf(p)
  <2>1. p.user \in Nat \cup {None} /\ None \notin Nat
    BY NoneAssumption DEF Occurrence
  <2>2. UserOf(p) # None
    BY <2>1 DEF UserOf
  <2>3. QED
    BY <1>1, <2>2 DEF UserOf
<1> HIDE DEF m
<1>3. QED
  BY <1>1, <1>2 DEF Whole, m

\* The records of the occurrences S under the numbers n.
Finished(S, n) == {Finish(p, n[p]) : p \in S}

\* Finishing some occurrences, dropping some, and adding one.
LEMMA HandsFinish ==
    ASSUME NEW P \in SUBSET Occurrence, NEW C, HandsOK(P, C), NEW S \in SUBSET P, NEW n
    PROVE  HandsOK(P \ S, C \cup Finished(S, n))
<1> DEFINE D == C \cup Finished(S, n)
<1>1. \A p \in S : Finish(p, n[p]).keys = p.keys
                   /\ Whole(Finish(p, n[p]), Finish(p, n[p]).keys, Finish(p, n[p]).at)
  BY FinishWhole DEF HandsOK
<1>2. \A m \in D : m \in C \/ \E p \in S : m = Finish(p, n[p]) /\ m.keys = p.keys
  BY <1>1 DEF Finished
<1>3. \A m \in D : Whole(m, m.keys, m.at)
  BY <1>1, <1>2 DEF HandsOK
<1> HIDE DEF D
<1>4. \A m \in D, k \in D : m = k \/ Separate(m.keys, k.keys)
  <2> SUFFICES ASSUME NEW m \in D, NEW k \in D PROVE m = k \/ Separate(m.keys, k.keys)
    OBVIOUS
  <2>1. CASE m \in C /\ k \in C
    BY <2>1 DEF HandsOK
  <2>2. CASE m \in C /\ k \notin C
    BY <1>2, <2>2 DEF HandsOK, Separate
  <2>3. CASE m \notin C /\ k \in C
    BY <1>2, <2>3 DEF HandsOK, Separate
  <2>4. CASE m \notin C /\ k \notin C
    <3>1. PICK p \in S : m = Finish(p, n[p]) /\ m.keys = p.keys
      BY <1>2, <2>4
    <3>2. PICK q \in S : k = Finish(q, n[q]) /\ k.keys = q.keys
      BY <1>2, <2>4
    <3>3. p = q \/ Separate(p.keys, q.keys)
      BY DEF HandsOK
    <3>4. QED
      BY <3>1, <3>2, <3>3
  <2>5. QED
    BY <2>1, <2>2, <2>3, <2>4
<1>5. \A p \in P \ S, m \in D : Separate(p.keys, m.keys)
  <2> SUFFICES ASSUME NEW p \in P \ S, NEW m \in D PROVE Separate(p.keys, m.keys)
    OBVIOUS
  <2>1. CASE m \in C
    BY <2>1 DEF HandsOK
  <2>2. CASE m \notin C
    BY <1>2, <2>2 DEF HandsOK
  <2>3. QED
    BY <2>1, <2>2
<1>6. QED
  BY <1>3, <1>4, <1>5 DEF HandsOK, D

LEMMA HandsFewer ==
    ASSUME NEW P, NEW C, HandsOK(P, C), NEW Q \in SUBSET P, NEW D \in SUBSET C
    PROVE  HandsOK(Q, D)
  BY DEF HandsOK

LEMMA HandsMore ==
    ASSUME NEW P, NEW C, HandsOK(P, C), NEW q \in Occurrence, Whole(q, q.keys, q.first),
           \A p \in P : Separate(q.keys, p.keys), \A m \in C : Separate(q.keys, m.keys)
    PROVE  HandsOK(P \cup {q}, C) /\ \A id : HandsOK(P, C \cup {Finish(q, id)})
<1>1. /\ \A p \in P : Separate(p.keys, q.keys)
      /\ \A m \in C : Separate(m.keys, q.keys)
  BY DEF Separate
<1>2. HandsOK(P \cup {q}, C)
  BY <1>1 DEF HandsOK
<1>3. ASSUME NEW id PROVE HandsOK(P, C \cup {Finish(q, id)})
  <2>1. PICK m : m = Finish(q, id)
    OBVIOUS
  <2>2. m.keys = q.keys /\ Whole(m, m.keys, m.at)
    BY <2>1, FinishWhole
  <2>3. HandsOK(P, C \cup {m})
    BY <1>1, <2>2 DEF HandsOK
  <2>4. QED
    BY <2>1, <2>3
<1>4. QED
  BY <1>2, <1>3

\* What the merger has does not become more when occurrences are finished.
LEMMA FlushHands ==
    ASSUME IndInv, HandsOK(pending, completed), NEW S \in SUBSET pending, NEW n,
           pending' = pending \ S,
           completed' = completed \cup {Finish(p, n[p]) : p \in S}
    PROVE  /\ HandsOK(pending', completed')
           /\ \A g : InHand(g)' => InHand(g)
<1>1. pending \subseteq Occurrence
  BY DEF IndInv, TypeOK
<1>2. HandsOK(pending', completed')
  <2>1. completed' = completed \cup Finished(S, n)
    BY DEF Finished
  <2>2. QED
    BY <1>1, <2>1, HandsFinish
<1>3. \A p \in S : Finish(p, n[p]).keys = p.keys
  BY DEF Finish
<1>4. QED
  BY <1>2, <1>3 DEF InHand

LEMMA JoinedHands ==
    ASSUME IndInv, HandsOK(pending, completed), NEW f \in Fragment, IsTold(f) => ~InHand(f),
           NEW out \in SUBSET pending, NEW rest \in SUBSET (pending \ out),
           NEW q \in Occurrence, Whole(q, q.keys, q.first),
           \/ q.keys = {f}
           \/ \E p \in pending \ (out \cup rest) : q.keys = p.keys \cup {f},
           NEW kept, NEW n, Joined(q, rest, kept, out, n)
    PROVE  /\ HandsOK(pending', completed')
           /\ \A g : InHand(g)' => InHand(g) \/ g = f
<1> DEFINE C == completed \cup {Finish(p, n[p]) : p \in out}
           k == nextId + Cardinality(out)
<1>1. pending \subseteq Occurrence
  BY DEF IndInv, TypeOK
<1>2. HandsOK(pending \ out, C)
  <2>1. HandsOK(pending \ out, completed \cup Finished(out, n))
    BY <1>1, HandsFinish
  <2>2. QED
    BY <2>1 DEF Finished
<1>3. \A p \in out : Finish(p, n[p]).keys = p.keys
  BY DEF Finish
<1>4. \A m \in C : \/ \E c \in completed : m.keys = c.keys
                   \/ \E p \in out : m.keys = p.keys
  BY <1>3
<1>5. Finish(q, k).keys = q.keys
  BY DEF Finish
<1>6. \/ pending' = rest /\ completed' = C \cup {Finish(q, k)}
      \/ pending' = rest \cup {q} /\ completed' = C
  BY DEF Joined
<1> HIDE DEF C, k
<1>7. HandsOK(rest, C)
  BY <1>2, HandsFewer
<1>8. \A p \in pending : Separate({f}, p.keys)
  BY DEF Separate, InHand
<1>9. \A m \in completed : Separate({f}, m.keys)
  BY DEF Separate, InHand
<1>10. \A p \in rest : Separate(q.keys, p.keys)
  <2> SUFFICES ASSUME NEW p \in rest PROVE Separate(q.keys, p.keys)
    OBVIOUS
  <2>1. CASE q.keys = {f}
    BY <1>8, <2>1
  <2>2. ASSUME NEW x \in pending \ (out \cup rest), q.keys = x.keys \cup {f}
        PROVE  Separate(q.keys, p.keys)
    <3>1. Separate(x.keys, p.keys)
      BY DEF HandsOK
    <3>2. QED
      BY <1>8, <2>2, <3>1 DEF Separate
  <2>3. QED
    BY <2>1, <2>2
<1>11. \A m \in C : Separate(q.keys, m.keys)
  <2> SUFFICES ASSUME NEW m \in C PROVE Separate(q.keys, m.keys)
    OBVIOUS
  <2>1. Separate({f}, m.keys)
    BY <1>4, <1>8, <1>9
  <2>2. CASE q.keys = {f}
    BY <2>1, <2>2
  <2>3. ASSUME NEW x \in pending \ (out \cup rest), q.keys = x.keys \cup {f}
        PROVE  Separate(q.keys, m.keys)
    <3>1. Separate(x.keys, m.keys)
      BY <1>2 DEF HandsOK
    <3>2. QED
      BY <2>1, <2>3, <3>1 DEF Separate
  <2>4. QED
    BY <2>2, <2>3
<1>12. HandsOK(pending', completed')
  <2>1. HandsOK(rest \cup {q}, C) /\ \A id : HandsOK(rest, C \cup {Finish(q, id)})
    BY ONLY q \in Occurrence, Whole(q, q.keys, q.first), <1>7, <1>10, <1>11, HandsMore
  <2>2. QED
    BY <1>6, <2>1
<1>13. \A g \in q.keys : g = f \/ InHand(g)
  BY DEF InHand
<1>14. \A m \in C : \A g \in m.keys : InHand(g)
  BY <1>4 DEF InHand
<1>15. ASSUME NEW g, InHand(g)' PROVE InHand(g) \/ g = f
  <2>1. CASE \E p \in pending' : g \in p.keys
    <3>1. \A p \in rest : g \in p.keys => InHand(g)
      BY DEF InHand
    <3>2. QED
      BY <1>6, <1>13, <2>1, <3>1
  <2>2. CASE \E m \in completed' : g \in m.keys
    BY <1>5, <1>6, <1>13, <1>14, <2>2
  <2>3. QED
    BY <1>15, <2>1, <2>2 DEF InHand
<1>16. QED
  BY <1>12, <1>15

LEMMA ReceiveHands ==
    ASSUME IndInv, HandsOK(pending, completed), NEW f \in Fragment, IsTold(f) => ~InHand(f),
           Receive(f)
    PROVE  /\ HandsOK(pending', completed')
           /\ \A g : InHand(g)' => InHand(g) \/ g = f
<1> DEFINE out  == Overdue(f.at)
           rest == pending \ out
           open == {p \in rest : PendingMatches(p, f)}
           K    == Unexpired(f.at)
<1>1. out \in SUBSET pending
  BY DEF Overdue
<1>2. PICK n \in Numberings(out) :
        LET kept == K \cup {RecentOf(p, n[p]) : p \in out}
            late == {r \in kept : RecentMatches(r, f)}
        IN  \/ Absorbed({}, rest, kept, out, n)
            \/ \E p \in Nearest(open, f) :
                  Joined(MergeInto(p, f), rest \ {p}, kept, out, n)
            \/ \E r \in Nearest(late, f) :
                  Absorbed({<<r.id, f>>}, rest, kept, out, n)
            \/ Joined(NewPending(f), rest, kept, out, n)
  BY DEF Receive, Ingest
<1> DEFINE kept == K \cup {RecentOf(p, n[p]) : p \in out}
<1>3. \/ \E S : Absorbed(S, rest, kept, out, n)
      \/ \E p \in Nearest(open, f) : Joined(MergeInto(p, f), rest \ {p}, kept, out, n)
      \/ Joined(NewPending(f), rest, kept, out, n)
  BY <1>2
<1> HIDE DEF out, K, kept
<1>4. ASSUME NEW S, Absorbed(S, rest, kept, out, n)
      PROVE  HandsOK(pending', completed') /\ \A g : InHand(g)' => InHand(g) \/ g = f
  <2>1. /\ pending' = pending \ out
        /\ completed' = completed \cup {Finish(q, n[q]) : q \in out}
    BY <1>4 DEF Absorbed
  <2>2. QED
    BY <1>1, <2>1, FlushHands
<1>5. ASSUME NEW p \in Nearest(open, f), Joined(MergeInto(p, f), rest \ {p}, kept, out, n)
      PROVE  HandsOK(pending', completed') /\ \A g : InHand(g)' => InHand(g) \/ g = f
  <2>1. /\ p \in pending \ out /\ p \in Occurrence /\ PendingMatches(p, f)
        /\ Describes(p, p.keys) /\ SingleSources(p) /\ Whole(p, p.keys, p.first)
    BY DEF Nearest, IndInv, PendingOK, HandsOK
  <2>2. MergeInto(p, f) \in Occurrence
    BY <2>1, MergeIntoOK
  <2>3. PICK q : q = MergeInto(p, f)
    OBVIOUS
  <2>4. q.keys = p.keys \cup {f} /\ Whole(q, q.keys, q.first)
    BY <2>1, <2>3, MergeWhole
  <2>5. p \in pending \ (out \cup (rest \ {p})) /\ rest \ {p} \in SUBSET (pending \ out)
    BY <2>1
  <2>6. PICK others : others = rest \ {p}
    OBVIOUS
  <2>7. Joined(q, others, kept, out, n)
    BY <1>5, <2>3, <2>6
  <2>8. QED
    BY <1>1, <2>2, <2>3, <2>4, <2>5, <2>6, <2>7, JoinedHands
<1>6. CASE Joined(NewPending(f), rest, kept, out, n)
  <2>1. PICK q : q = NewPending(f)
    OBVIOUS
  <2>2. q \in Occurrence /\ q.keys = {f} /\ Whole(q, q.keys, q.first)
    BY <2>1, NewPendingOK, NewWhole
  <2>3. PICK others : others = rest
    OBVIOUS
  <2>4. Joined(q, others, kept, out, n) /\ others \in SUBSET (pending \ out)
    BY <1>6, <2>1, <2>3
  <2>5. QED
    BY <1>1, <2>2, <2>4, JoinedHands
<1>7. QED
  BY <1>3, <1>4, <1>5, <1>6

LEMMA FlushesHands ==
    ASSUME IndInv, HandsOK(pending, completed), Stop \/ \E clock \in 0 .. Horizon : Timeout(clock)
    PROVE  /\ HandsOK(pending', completed')
           /\ \A g : InHand(g)' => InHand(g)
<1>1. CASE Stop
  <2>1. PICK n : completed' = completed \cup {Finish(p, n[p]) : p \in pending}
    BY <1>1 DEF Stop, Drain
  <2>2. pending' = pending \ pending
    BY <1>1 DEF Stop, Drain
  <2>3. QED
    BY <2>1, <2>2, FlushHands
<1>2. ASSUME NEW clock \in 0 .. Horizon, Timeout(clock)
      PROVE  HandsOK(pending', completed') /\ \A g : InHand(g)' => InHand(g)
  <2>1. PICK S : S = Overdue(clock)
    OBVIOUS
  <2>2. PICK n : completed' = completed \cup {Finish(p, n[p]) : p \in S}
    BY <1>2, <2>1 DEF Timeout, FlushBefore
  <2>3. pending' = pending \ S /\ S \in SUBSET pending
    BY <1>2, <2>1 DEF Timeout, FlushBefore, Overdue
  <2>4. QED
    BY <2>2, <2>3, FlushHands
<1>3. QED
  BY <1>1, <1>2

\* Nothing is stored, and what is stored is not taken up again.
LEMMA RowsKept ==
    ASSUME OneRowOK, rows' \subseteq rows,
           \A f \in Fragment : IsTold(f) /\ f \in marked => f \in marked',
           \A f \in Fragment : IsTold(f) /\ InRow(f) => ~InHand(f)'
    PROVE  OneRowOK' /\ \A f : InRow(f)' => InRow(f)
<1>1. \A f : InRow(f)' => InRow(f)
  BY DEF InRow
<1>2. QED
  BY <1>1 DEF OneRowOK

LEMMA LeastOf ==
    ASSUME NEW T, T \subseteq Nat, T # {}
    PROVE  \E x \in T : \A y \in T : x <= y
<1> DEFINE N == Nat
           R == OpToRel(<, Nat)
<1>1. IsWellFoundedOn(R, N) /\ T \subseteq N
  BY NatLessThanWellFounded
<1>2. R = {p \in Nat \X Nat : p[1] < p[2]}
  BY DEF OpToRel
<1> HIDE DEF R, N
<1>3. PICK x \in T : \A y \in T : ~(<<y, x>> \in R)
  BY <1>1, WFMin
<1>4. \A y \in T : x \in Nat /\ y \in Nat /\ ~(y < x)
  BY <1>2, <1>3
<1>5. QED
  BY <1>4

\* Where there is a companion, there is a nearest one.
LEMMA CompanionFound ==
    ASSUME IndInv, NEW m \in completed, NEW r \in rows, IsCompanion(r, m)
    PROVE  Companions(m) # {}
<1> DEFINE near == {q \in rows : IsCompanion(q, m)}
           T == {Dist(q.at, m.at) : q \in near}
<1>1. m.at \in Nat /\ \A q \in rows : q.at \in Nat
  BY DEF IndInv, TypeOK, MergedCrash, Row
<1>2. T \subseteq Nat /\ T # {}
  BY <1>1 DEF Dist
<1>3. PICK d \in T : \A e \in T : d <= e
  <2> HIDE DEF T
  <2>1. QED
    BY <1>2, LeastOf
<1>4. PICK q \in near : d = Dist(q.at, m.at)
  OBVIOUS
<1>5. \A s \in near : Dist(q.at, m.at) <= Dist(s.at, m.at)
  BY <1>3, <1>4
<1>6. q \in Companions(m)
  BY <1>5 DEF Companions
<1>7. QED
  BY <1>6

\* What a record took out of the merger's hands when it was persisted.
LEMMA TakenOut ==
    ASSUME HandsOK(pending, completed), NEW m \in completed,
           pending' = pending, completed' = completed \ {m}
    PROVE  /\ HandsOK(pending', completed')
           /\ \A f : InHand(f)' => InHand(f)
           /\ \A f \in m.keys : IsTold(f) => ~InHand(f)'
<1>1. HandsOK(pending', completed')
  BY HandsFewer
<1>2. \A f : InHand(f)' => InHand(f)
  BY DEF InHand
<1>3. ASSUME NEW f \in m.keys, IsTold(f), InHand(f)' PROVE FALSE
  <2>1. CASE \E p \in pending : f \in p.keys
    BY <1>3, <2>1 DEF HandsOK, Separate
  <2>2. CASE \E c \in completed \ {m} : f \in c.keys
    <3>1. PICK c \in completed \ {m} : f \in c.keys
      BY <2>2
    <3>2. Separate(c.keys, m.keys)
      BY DEF HandsOK
    <3>3. QED
      BY <1>3, <3>1, <3>2 DEF Separate
  <2>3. QED
    BY <1>3, <2>1, <2>2 DEF InHand
<1>4. QED
  BY <1>1, <1>2, <1>3

LEMMA FoldRows ==
    ASSUME IndInv, HandsOK(pending, completed), OneRowOK, NEW m \in completed, PersistFolded(m)
    PROVE  /\ OneRowOK'
           /\ \A f : InRow(f)' => InRow(f) \/ f \in m.keys
<1>1. /\ pending' = pending /\ completed' = completed \ {m} /\ marked' = marked \cup m.keys
  BY DEF PersistFolded, Accept
<1>2. PICK r \in Companions(m) : rows' = (rows \ {r}) \cup {FoldInto(r, m)}
  BY DEF PersistFolded
<1>3. /\ r \in rows /\ r.kind = m.kind /\ r.process = m.process
      /\ r.pid = m.pid /\ r.user = m.user /\ Dist(r.at, m.at) <= CompanionWindow(m.kind)
  BY DEF Companions, IsCompanion
<1>4. r \in Row /\ m \in MergedCrash
  BY <1>3 DEF IndInv, TypeOK
<1>5. /\ r.at \in Nat /\ m.at \in Nat /\ r.evidence \subseteq Fragment /\ m.keys \subseteq Fragment
  BY <1>4 DEF Row, MergedCrash
<1>6. PICK row : row = FoldInto(r, m)
  OBVIOUS
<1>7. /\ row.at = r.at /\ row.user = r.user /\ row.sources = r.sources \cup m.sources
      /\ row.evidence = r.evidence \cup m.keys
  BY <1>6 DEF FoldInto
<1>8. /\ Describes(r, r.evidence) /\ Describes(m, m.keys)
      /\ Whole(r, r.evidence, r.at) /\ Whole(m, m.keys, m.at)
  BY <1>3 DEF IndInv, RowsOK, CompletionsOK, OneRowOK, HandsOK
<1>9. Dist(r.at, m.at) <= Window
  BY <1>3, <1>5, TimeAssumption DEF CompanionWindow, Dist
<1>10. Pure(row.evidence)
  <2>1. /\ Pure(r.evidence) /\ Pure(m.keys)
        /\ (\E k \in r.evidence : k.at = r.at) /\ (\E k \in m.keys : k.at = m.at)
    BY <1>8 DEF Whole
  <2>2. PICK K \in SUBSET Fragment : K = r.evidence
    BY <1>5
  <2>3. PICK L \in SUBSET Fragment : L = m.keys
    BY <1>5
  <2>4. Pure(K \cup L)
    BY <1>3, <1>5, <1>8, <1>9, <2>1, <2>2, <2>3, Met
  <2>5. QED
    BY <1>7, <2>2, <2>3, <2>4
<1>11. Whole(row, row.evidence, row.at)
  <2>1. \E k \in row.evidence : k.at = row.at
    BY <1>7, <1>8 DEF Whole
  <2>2. \E k \in row.evidence : UserOf(row) = UserOf(k)
    BY <1>7, <1>8 DEF Whole, UserOf
  <2>3. row.sources = {k.source : k \in row.evidence}
    <3>1. r.sources = {k.source : k \in r.evidence} /\ m.sources = {k.source : k \in m.keys}
      BY <1>8 DEF Whole
    <3>2. QED
      BY <1>7, <3>1
  <2>4. QED
    BY <1>10, <2>1, <2>2, <2>3 DEF Whole
<1>12. rows' = (rows \ {r}) \cup {row}
  BY <1>2, <1>6
<1>13. \A f : InRow(f)' => InRow(f) \/ f \in m.keys
  BY <1>3, <1>7, <1>12 DEF InRow
<1>14. \A f \in Fragment : IsTold(f) /\ InRow(f)' => f \in marked' /\ ~InHand(f)'
  BY <1>1, <1>13, TakenOut DEF OneRowOK
<1>15. ASSUME NEW s \in rows \ {r}, NEW f \in s.evidence, NEW g \in row.evidence,
              f.death = g.death, IsTold(f)
       PROVE  FALSE
  <2>1. PICK k \in r.evidence : k.at = r.at
    BY <1>8 DEF Whole
  <2>2. IsTold(g)
    BY <1>15 DEF IsTold
  <2>3. k.death = g.death
    BY <1>7, <1>10, <2>2 DEF Pure
  <2>4. r = s
    BY <1>3, <1>15, <2>3 DEF OneRowOK
  <2>5. QED
    BY <2>4
<1>16. \A p, q \in rows' : \A f \in p.evidence, g \in q.evidence :
          IsTold(f) /\ f.death = g.death => p = q
  <2> SUFFICES ASSUME NEW p \in rows', NEW q \in rows', NEW f \in p.evidence, NEW g \in q.evidence,
                      IsTold(f), f.death = g.death
               PROVE  p = q
    OBVIOUS
  <2>1. IsTold(g)
    BY DEF IsTold
  <2>2. CASE p \in rows \ {r} /\ q \in rows \ {r}
    BY <2>2 DEF OneRowOK
  <2>3. CASE p = row \/ q = row
    BY <1>12, <1>15, <2>1, <2>3
  <2>4. QED
    BY <1>12, <2>2, <2>3
<1>17. \A q \in rows' : Whole(q, q.evidence, q.at)
  BY <1>11, <1>12 DEF OneRowOK
<1>18. OneRowOK'
  BY <1>14, <1>16, <1>17 DEF OneRowOK
<1>19. QED
  BY <1>13, <1>18

\* A row of the death that a record is about would have been its companion.
LEMMA CompanionOfDeath ==
    ASSUME IndInv, HandsOK(pending, completed), OneRowOK, NEW m \in completed, NEW s \in rows,
           NEW f \in s.evidence, NEW g \in m.keys, IsTold(f), f.death = g.death
    PROVE  IsCompanion(s, m)
<1>1. /\ s \in Row /\ m \in MergedCrash /\ s.evidence \subseteq Fragment /\ m.keys \subseteq Fragment
      /\ Describes(s, s.evidence) /\ Describes(m, m.keys)
      /\ Whole(s, s.evidence, s.at) /\ Whole(m, m.keys, m.at)
  BY DEF IndInv, TypeOK, Row, MergedCrash, RowsOK, CompletionsOK, OneRowOK, HandsOK
<1>2. f \in Fragment /\ g \in Fragment /\ IsTold(g)
  BY <1>1 DEF IsTold
<1>3. \A k \in s.evidence : k \in Fragment /\ k.death = f.death /\ IsTold(k)
  BY <1>1 DEF Whole, Pure, IsTold
<1>4. \A k \in m.keys : k \in Fragment /\ k.death = f.death /\ IsTold(k)
  BY <1>1, <1>2 DEF Whole, Pure, IsTold
<1>5. /\ f.pid # 0 /\ f.pid = g.pid /\ f.kind = g.kind /\ f.process = g.process
      /\ f.kind \in {"Java", "Native"}
  BY <1>2, ToldFacts
<1>6. /\ m.pid # 0 /\ s.pid = m.pid /\ s.process = m.process /\ s.kind = m.kind
      /\ m.kind \in {"Java", "Native"}
  BY <1>1, <1>2, <1>5 DEF Describes
<1>7. s.user = m.user
  <2>1. PICK k \in s.evidence : UserOf(s) = UserOf(k)
    BY <1>1 DEF Whole
  <2>2. PICK l \in m.keys : UserOf(m) = UserOf(l)
    BY <1>1 DEF Whole
  <2>3. UserOf(k) = UserOf(l)
    BY <1>3, <1>4, ToldFacts
  <2>4. s.user \in Nat /\ m.user \in Nat /\ None \notin Nat
    BY <1>1, NoneAssumption DEF Row, MergedCrash
  <2>5. UserOf(s) = s.user /\ UserOf(m) = m.user
    BY <2>4 DEF UserOf
  <2>6. QED
    BY <2>1, <2>2, <2>3, <2>5
<1>8. Dist(s.at, m.at) <= CompanionWindow(m.kind)
  <2>1. PICK k \in s.evidence : k.at = s.at
    BY <1>1 DEF Whole
  <2>2. PICK l \in m.keys : l.at = m.at
    BY <1>1 DEF Whole
  <2>3. Dist(k.at, l.at) <= Window
    BY <1>3, <1>4, ToldFacts
  <2>4. QED
    BY <1>6, <2>1, <2>2, <2>3 DEF CompanionWindow
<1>9. s.sources \cap m.sources = {}
  <2> SUFFICES ASSUME NEW x \in s.sources, x \in m.sources PROVE FALSE
    OBVIOUS
  <2>1. PICK k \in s.evidence : k.source = x
    BY <1>1 DEF Whole
  <2>2. PICK l \in m.keys : l.source = x
    BY <1>1 DEF Whole
  <2>3. k = l
    BY <1>3, <1>4, <2>1, <2>2, ToldFacts
  <2>4. InRow(k) /\ InHand(k)
    BY <2>3 DEF InRow, InHand
  <2>5. QED
    BY <1>3, <2>4 DEF OneRowOK
<1>10. QED
  BY <1>6, <1>7, <1>8, <1>9 DEF IsCompanion

LEMMA EvictionIsShallow ==
    ASSUME NEW K, NEW tiers, NEW r \in Row
    PROVE  LET q == AfterEviction(K, tiers, r)
           IN  q.evidence = r.evidence /\ q.at = r.at /\ q.user = r.user /\ q.sources = r.sources
  BY DEF AfterEviction, Row

LEMMA InsertRows ==
    ASSUME IndInv, IndexOK, HandsOK(pending, completed), OneRowOK,
           NEW m \in completed, NEW clock \in 0 .. Horizon, PersistInserted(m, clock)
    PROVE  /\ OneRowOK'
           /\ \A f : InRow(f)' => InRow(f) \/ f \in m.keys
<1>1. /\ pending' = pending /\ completed' = completed \ {m} /\ Companions(m) = {}
  BY DEF PersistInserted, Accept
<1>2. PICK tiers \in 0 .. 4 :
        rows' = Swept(rows \cup {RowOf(m, Len(stored) + 1)}, clock, tiers)
  BY DEF PersistInserted
<1>3. PICK row : row = RowOf(m, Len(stored) + 1)
  OBVIOUS
<1>4. PICK K : K = Kept(rows \cup {row}, clock, tiers)
  OBVIOUS
<1>5. rows \cup {row} \subseteq Row /\ K \subseteq rows \cup {row} /\ rows' = Remainder(K, tiers)
  BY <1>2, <1>3, <1>4, InsertedRows
<1>6. /\ row.evidence = m.keys /\ row.at = m.at /\ row.user = m.user /\ row.sources = m.sources
  BY <1>3 DEF RowOf
<1>7. Whole(row, row.evidence, row.at)
  BY <1>6 DEF HandsOK, Whole, UserOf
<1>8. \A q \in rows' : \E r \in rows \cup {row} :
         /\ q = AfterEviction(K, tiers, r) /\ q.evidence = r.evidence
         /\ q.at = r.at /\ q.user = r.user /\ q.sources = r.sources
  BY <1>5, EvictionIsShallow DEF Remainder
<1>9. \A f : InRow(f)' => InRow(f) \/ f \in m.keys
  BY <1>6, <1>8 DEF InRow
<1>10. m.keys \subseteq Fragment
  BY DEF IndInv, TypeOK, MergedCrash
<1>11. \A f \in Fragment : IsTold(f) /\ f \in marked \cup m.keys => f \in marked'
  BY ToldFacts DEF PersistInserted
<1>12. \A f \in Fragment : IsTold(f) /\ InRow(f)' => f \in marked' /\ ~InHand(f)'
  BY <1>1, <1>9, <1>11, TakenOut DEF OneRowOK
<1>13. \A q \in rows' : Whole(q, q.evidence, q.at)
  <2> SUFFICES ASSUME NEW q \in rows' PROVE Whole(q, q.evidence, q.at)
    OBVIOUS
  <2>1. PICK r \in rows \cup {row} :
          /\ q.evidence = r.evidence /\ q.at = r.at /\ q.user = r.user /\ q.sources = r.sources
    BY <1>8
  <2>2. Whole(r, r.evidence, r.at)
    BY <1>7 DEF OneRowOK
  <2>3. QED
    BY <2>1, <2>2 DEF Whole, UserOf
<1>14. ASSUME NEW s \in rows, NEW f \in s.evidence, NEW g \in row.evidence,
              f.death = g.death, IsTold(f)
       PROVE  FALSE
  <2>1. IsCompanion(s, m)
    BY <1>6, <1>14, CompanionOfDeath
  <2>2. QED
    BY <1>1, <2>1, CompanionFound
<1>15. ASSUME NEW p \in rows', NEW q \in rows', NEW f \in p.evidence, NEW g \in q.evidence,
              IsTold(f), f.death = g.death
       PROVE  p = q
  <2>1. PICK r \in rows \cup {row} : p = AfterEviction(K, tiers, r) /\ p.evidence = r.evidence
    BY <1>8
  <2>2. PICK s \in rows \cup {row} : q = AfterEviction(K, tiers, s) /\ q.evidence = s.evidence
    BY <1>8
  <2>3. IsTold(g)
    BY <1>15 DEF IsTold
  <2>4. r = s
    <3>1. CASE r \in rows /\ s \in rows
      BY <1>15, <2>1, <2>2, <3>1 DEF OneRowOK
    <3>2. CASE r \in rows /\ s = row
      BY <1>14, <1>15, <2>1, <2>2, <3>2
    <3>3. CASE r = row /\ s \in rows
      BY <1>14, <1>15, <2>1, <2>2, <2>3, <3>3
    <3>4. QED
      BY <3>1, <3>2, <3>3
  <2>5. QED
    BY <2>1, <2>2, <2>4
<1>16. OneRowOK'
  BY <1>12, <1>13, <1>15 DEF OneRowOK
<1>17. QED
  BY <1>9, <1>16

\* The merger and the index only change hands, and the collectors do nothing.
LEMMA Undisturbed ==
    ASSUME OnceOK, UNCHANGED <<written, queue, seen, watcher, found, inotify>>, Running' => Running,
           \A g : InHand(g)' => InHand(g), \A g : InRow(g)' => InRow(g) \/ InHand(g)
    PROVE  OnceOK'
<1>1. \A g : IsFresh(g) => IsFresh(g)'
  BY DEF IsFresh
<1>2. \A g : Sending(g)' => Sending(g)
  BY DEF Sending, Queued
<1>3. OnItsWayOK'
  BY <1>1 DEF OnceOK, OnItsWayOK, OnceIn, Queued
<1>4. SenderOK' /\ ScannerOK'
  BY <1>2 DEF OnceOK, SenderOK, ScannerOK
<1>5. WrittenOK'
  BY DEF OnceOK, WrittenOK
<1>6. QED
  BY <1>3, <1>4, <1>5 DEF OnceOK

\* What a sequence loses with its head, and gains with one more element.
LEMMA TailOnce ==
    ASSUME NEW S, NEW s \in Seq(S), s # <<>>, OnceIn(s)
    PROVE  /\ OnceIn(Tail(s)) /\ Queued(Head(s), s)
           /\ \A x : Queued(x, Tail(s)) => Queued(x, s)
           /\ IsTold(Head(s)) => ~Queued(Head(s), Tail(s))
<1>1. /\ Tail(s) \in Seq(S) /\ Len(Tail(s)) = Len(s) - 1 /\ Len(s) \in Nat /\ Len(s) > 0
      /\ \A i \in 1 .. Len(s) - 1 : Tail(s)[i] = s[i + 1]
      /\ Head(s) = s[1]
  OBVIOUS
<1>2. DOMAIN s = 1 .. Len(s) /\ DOMAIN Tail(s) = 1 .. Len(s) - 1
  BY <1>1
<1>3. \A i \in DOMAIN Tail(s) : i \in Nat /\ i + 1 \in DOMAIN s /\ i + 1 # 1 /\ Tail(s)[i] = s[i + 1]
  BY <1>1, <1>2
<1>4. 1 \in DOMAIN s
  BY <1>1, <1>2
<1>5. OnceIn(Tail(s))
  <2> SUFFICES ASSUME NEW i \in DOMAIN Tail(s), NEW j \in DOMAIN Tail(s),
                      IsTold(Tail(s)[i]), Tail(s)[i] = Tail(s)[j]
               PROVE  i = j
    BY DEF OnceIn
  <2>1. i + 1 = j + 1
    BY <1>3 DEF OnceIn
  <2>2. QED
    BY <1>3, <2>1
<1>6. IsTold(Head(s)) => ~Queued(Head(s), Tail(s))
  <2> SUFFICES ASSUME IsTold(s[1]), NEW i \in DOMAIN Tail(s), Tail(s)[i] = s[1] PROVE FALSE
    BY <1>1 DEF Queued
  <2>1. i + 1 = 1
    BY <1>3, <1>4 DEF OnceIn
  <2>2. QED
    BY <1>3, <2>1
<1>7. QED
  BY <1>1, <1>3, <1>4, <1>5, <1>6 DEF Queued

LEMMA AppendOnce ==
    ASSUME NEW S, NEW s \in Seq(S), NEW e \in S
    PROVE  /\ \A x : Queued(x, Append(s, e)) <=> Queued(x, s) \/ x = e
           /\ OnceIn(s) /\ (IsTold(e) => ~Queued(e, s)) => OnceIn(Append(s, e))
<1> DEFINE t == Append(s, e)
<1>1. /\ Len(s) \in Nat /\ DOMAIN s = 1 .. Len(s) /\ DOMAIN t = 1 .. Len(s) + 1
      /\ t[Len(s) + 1] = e /\ \A i \in 1 .. Len(s) : t[i] = s[i]
  OBVIOUS
<1> HIDE DEF t
<1>2. \A i \in DOMAIN t : (i \in DOMAIN s /\ t[i] = s[i]) \/ (i = Len(s) + 1 /\ t[i] = e)
  BY <1>1
<1>3. \A i \in DOMAIN s : i \in DOMAIN t /\ t[i] = s[i]
  BY <1>1
<1>4. Len(s) + 1 \in DOMAIN t
  BY <1>1
<1>5. \A x : Queued(x, t) <=> Queued(x, s) \/ x = e
  BY <1>1, <1>2, <1>3, <1>4 DEF Queued
<1>6. ASSUME OnceIn(s), IsTold(e) => ~Queued(e, s) PROVE OnceIn(t)
  <2> SUFFICES ASSUME NEW i \in DOMAIN t, NEW j \in DOMAIN t, IsTold(t[i]), t[i] = t[j] PROVE i = j
    BY DEF OnceIn
  <2>1. CASE i \in DOMAIN s /\ t[i] = s[i] /\ j \in DOMAIN s /\ t[j] = s[j]
    BY <1>6, <2>1 DEF OnceIn
  <2>2. CASE i \in DOMAIN s /\ t[i] = s[i] /\ t[j] = e
    BY <1>6, <2>2 DEF Queued
  <2>3. CASE j \in DOMAIN s /\ t[j] = s[j] /\ t[i] = e
    BY <1>6, <2>3 DEF Queued
  <2>4. QED
    BY <1>2, <2>1, <2>2, <2>3
<1>7. QED
  BY <1>5, <1>6 DEF t

\* The head of the channel goes over to the merger.
LEMMA Delivered ==
    ASSUME OnceOK, PipeInv, queue # <<>>, queue' = Tail(queue), Running' => Running,
           UNCHANGED <<written, seen, watcher, found, inotify>>,
           \A g : InHand(g)' => InHand(g) \/ g = Head(queue), \A g : InRow(g)' => InRow(g)
    PROVE  OnceOK'
<1>1. queue \in Seq(written) /\ written \subseteq Fragment
  BY DEF PipeInv, ChannelOK, WorldOK
<1>2. PICK f : f = Head(queue)
  OBVIOUS
<1>3. /\ OnceIn(queue') /\ Queued(f, queue) /\ (IsTold(f) => ~Queued(f, queue'))
      /\ \A x : Queued(x, queue') => Queued(x, queue)
  BY <1>1, <1>2, TailOnce DEF OnceOK, OnItsWayOK
<1>4. f \in written /\ f \in Fragment
  BY <1>1, <1>2
<1>5. \A g : IsFresh(g) /\ g # f => IsFresh(g)'
  BY <1>2 DEF IsFresh
<1>6. IsTold(f) => ~Queued(f, found) /\ ~Queued(f.path, inotify)
  BY <1>3, <1>4 DEF OnceOK, OnItsWayOK
<1>7. OnItsWayOK'
  <2>1. OnceIn(found')
    BY DEF OnceOK, OnItsWayOK
  <2>2. ASSUME NEW g \in Fragment, IsTold(g), Queued(g, queue')
        PROVE  IsFresh(g)' /\ ~Queued(g, found')
    BY <1>3, <1>5, <2>2 DEF OnceOK, OnItsWayOK
  <2>3. ASSUME NEW g \in Fragment, IsTold(g), Queued(g, found') PROVE IsFresh(g)'
    BY <1>5, <1>6, <2>3 DEF OnceOK, OnItsWayOK
  <2>4. ASSUME NEW g \in Fragment, IsTold(g), Queued(g.path, inotify')
        PROVE  IsFresh(g)' /\ ~Queued(g, found') /\ ~Queued(g, queue')
    BY <1>3, <1>5, <1>6, <2>4 DEF OnceOK, OnItsWayOK
  <2>5. QED
    BY <1>3, <2>1, <2>2, <2>3, <2>4 DEF OnceOK, OnItsWayOK, Queued
<1>8. \A g : Sending(g)' => Sending(g)
  BY <1>2, <1>3 DEF Sending, Queued
<1>9. SenderOK' /\ ScannerOK'
  BY <1>8 DEF OnceOK, SenderOK, ScannerOK
<1>10. WrittenOK'
  BY <1>2, <1>4 DEF OnceOK, WrittenOK
<1>11. QED
  BY <1>7, <1>9, <1>10 DEF OnceOK

\* A collector has handled f: it put it in the channel, or had no need to.
LEMMA Handled ==
    ASSUME OnceOK, PipeInv, NEW f \in written,
           UNCHANGED <<pending, completed, rows, written, inotify, watcher, phase>>,
           seen \subseteq seen', OnceIn(found'), \A g : Queued(g, found') => Queued(g, found),
           watcher = "scan" => found' = <<>>,
           \/ queue' = queue
           \/ /\ queue' = Append(queue, f)
              /\ IF f.source \in LogSource THEN f \in seen' ELSE watcher # "scan"
              /\ IsTold(f) => /\ IsFresh(f) /\ ~Queued(f, queue) /\ ~Queued(f, found')
                              /\ ~Queued(f.path, inotify)
    PROVE  OnceOK'
<1>1. queue \in Seq(written) /\ written \subseteq Fragment
  BY DEF PipeInv, ChannelOK, WorldOK
<1>2. \A g : (IsFresh(g)' <=> IsFresh(g)) /\ (InHand(g)' <=> InHand(g)) /\ (InRow(g)' <=> InRow(g))
  BY DEF IsFresh, InHand, InRow
<1> DEFINE more == Append(queue, f)
<1>3. /\ \A x : Queued(x, more) <=> Queued(x, queue) \/ x = f
      /\ OnceIn(queue) /\ (IsTold(f) => ~Queued(f, queue)) => OnceIn(more)
  BY <1>1, AppendOnce
<1> HIDE DEF more
<1>4. OnceIn(queue')
  BY <1>3 DEF OnceOK, OnItsWayOK, more
<1>5. \A g : Queued(g, queue') => Queued(g, queue) \/ (queue' # queue /\ g = f)
  <2>1. CASE queue' = queue
    BY <2>1
  <2>2. CASE queue' # queue
    BY <1>3, <2>2 DEF more
  <2>3. QED
    BY <2>1, <2>2
<1>6. OnItsWayOK'
  <2>1. ASSUME NEW g \in Fragment, IsTold(g), Queued(g, queue')
        PROVE  IsFresh(g)' /\ ~Queued(g, found')
    BY <1>2, <1>5, <2>1 DEF OnceOK, OnItsWayOK
  <2>2. ASSUME NEW g \in Fragment, IsTold(g), Queued(g, found') PROVE IsFresh(g)'
    BY <1>2, <2>2 DEF OnceOK, OnItsWayOK
  <2>3. ASSUME NEW g \in Fragment, IsTold(g), Queued(g.path, inotify')
        PROVE  IsFresh(g)' /\ ~Queued(g, found') /\ ~Queued(g, queue')
    BY <1>2, <1>5, <2>3 DEF OnceOK, OnItsWayOK
  <2>4. QED
    BY <1>4, <2>1, <2>2, <2>3 DEF OnceOK, OnItsWayOK, Queued
<1>7. SenderOK'
  <2> SUFFICES ASSUME Running', NEW g \in Fragment, IsTold(g), Sending(g)'
               PROVE  IF g.source \in LogSource THEN g \in seen' ELSE watcher' # "scan"
    BY DEF SenderOK
  <2>1. Running
    BY DEF Running
  <2>2. Sending(g) \/ (queue' # queue /\ g = f)
    BY <1>2, <1>5 DEF Sending, Queued
  <2>3. QED
    BY <2>1, <2>2 DEF OnceOK, SenderOK
<1>8. ScannerOK' /\ WrittenOK'
  BY <1>2 DEF OnceOK, ScannerOK, WrittenOK
<1>9. QED
  BY <1>6, <1>7, <1>8 DEF OnceOK

LEMMA WriteOnce ==
    ASSUME OnceOK, PipeInv, NEW f \in Fragment, Write(f)
    PROVE  OnceOK'
<1>1. /\ f \notin written /\ written' = written \cup {f}
      /\ inotify' = (IF f.path # None /\ watcher = "watch" THEN Append(inotify, f.path) ELSE inotify)
      /\ UNCHANGED <<pending, completed, rows, phase, queue, seen, watcher, found>>
  BY DEF Write, readers, channel, loopVars, mergerVars
<1>2. \A g : (IsFresh(g)' <=> IsFresh(g)) /\ (InHand(g)' <=> InHand(g)) /\ (InRow(g)' <=> InRow(g))
  BY <1>1 DEF IsFresh, InHand, InRow
<1>3. /\ found \in Seq(written) /\ queue \in Seq(written) /\ inotify \in Seq(Paths)
      /\ f.path \in Paths
  BY SeqGrows DEF PipeInv, ArtefactsOK, ChannelOK, OnDisk, Paths
<1>4. IsFresh(f) /\ ~Queued(f, found) /\ ~Queued(f, queue)
  BY <1>1, <1>3 DEF OnceOK, WrittenOK, IsFresh, Queued
<1>5. ASSUME inotify' = Append(inotify, f.path), f.path # None,
             NEW g \in Fragment, IsTold(g), g.path = f.path
      PROVE  g = f /\ ~Queued(g.path, inotify)
  <2>1. g = f
    BY <1>5, ToldFacts
  <2>2. ASSUME NEW i \in DOMAIN inotify, inotify[i] = f.path PROVE FALSE
    <3>1. PICK h \in written : h.path = inotify[i]
      BY DEF PipeInv, ArtefactsOK
    <3>2. h \in Fragment
      BY DEF PipeInv, WorldOK
    <3>3. h = f
      BY <1>5, <2>1, <2>2, <3>1, <3>2, ToldFacts
    <3>4. QED
      BY <1>1, <3>3
  <2>3. QED
    BY <2>1, <2>2 DEF Queued
<1>6. \A x : Queued(x, inotify') =>
         Queued(x, inotify) \/ (inotify' = Append(inotify, f.path) /\ f.path # None /\ x = f.path)
  <2>1. \A x : Queued(x, Append(inotify, f.path)) <=> Queued(x, inotify) \/ x = f.path
    BY <1>3, AppendOnce
  <2>2. QED
    BY <1>1, <2>1
<1>7. ASSUME NEW g \in Fragment, IsTold(g), Queued(g.path, inotify')
      PROVE  IsFresh(g)' /\ ~Queued(g, found') /\ ~Queued(g, queue')
  <2>1. CASE Queued(g.path, inotify)
    BY <1>1, <1>2, <1>7, <2>1 DEF OnceOK, OnItsWayOK
  <2>2. CASE inotify' = Append(inotify, f.path) /\ f.path # None /\ g.path = f.path
    BY <1>1, <1>2, <1>4, <1>5, <1>7, <2>2
  <2>3. QED
    BY <1>6, <1>7, <2>1, <2>2
<1>8. ASSUME NEW g \in Fragment, IsTold(g), NEW i \in DOMAIN inotify', NEW j \in DOMAIN inotify',
             inotify'[i] = g.path, inotify'[j] = g.path
      PROVE  i = j
  <2>1. CASE inotify' = inotify
    BY <1>8, <2>1 DEF OnceOK, OnItsWayOK
  <2>2. CASE f.path # None /\ inotify' = Append(inotify, f.path)
    <3>1. /\ Len(inotify) \in Nat /\ DOMAIN inotify = 1 .. Len(inotify)
          /\ DOMAIN inotify' = 1 .. Len(inotify) + 1 /\ inotify'[Len(inotify) + 1] = f.path
          /\ \A n \in DOMAIN inotify : inotify'[n] = inotify[n]
      BY <1>3, <2>2
    <3>2. \A n \in DOMAIN inotify' : n \in DOMAIN inotify \/ n = Len(inotify) + 1
      BY <3>1
    <3>3. CASE i \in DOMAIN inotify /\ j \in DOMAIN inotify
      BY <1>8, <3>1, <3>3 DEF OnceOK, OnItsWayOK
    <3>4. CASE i = Len(inotify) + 1 /\ j = Len(inotify) + 1
      BY <3>4
    <3>5. CASE i \in DOMAIN inotify /\ j = Len(inotify) + 1
      BY <1>5, <1>8, <2>2, <3>1, <3>5 DEF Queued
    <3>6. CASE j \in DOMAIN inotify /\ i = Len(inotify) + 1
      BY <1>5, <1>8, <2>2, <3>1, <3>6 DEF Queued
    <3>7. QED
      BY <3>2, <3>3, <3>4, <3>5, <3>6
  <2>3. QED
    BY <1>1, <2>1, <2>2
<1>9. OnItsWayOK'
  <2>1. /\ OnceIn(queue') /\ OnceIn(found')
        /\ \A g \in Fragment : IsTold(g) /\ Queued(g, queue') => IsFresh(g)' /\ ~Queued(g, found')
        /\ \A g \in Fragment : IsTold(g) /\ Queued(g, found') => IsFresh(g)'
    BY <1>1, <1>2 DEF OnceOK, OnItsWayOK
  <2>2. QED
    BY <1>7, <1>8, <2>1 DEF OnItsWayOK, Queued
<1>10. SenderOK'
  BY <1>1, <1>2 DEF OnceOK, SenderOK, Sending, Queued, Running
<1>11. ScannerOK' /\ WrittenOK'
  BY <1>1, <1>2 DEF OnceOK, ScannerOK, WrittenOK
<1>12. QED
  BY <1>9, <1>10, <1>11 DEF OnceOK

LEMMA ReadLogOnce ==
    ASSUME OnceOK, OneRowOK, PipeInv, NEW f \in Fragment, ReadLog(f, TRUE)
    PROVE  OnceOK'
<1>1. /\ Running /\ f \in written /\ f.source \in LogSource /\ seen' = seen \cup {f}
      /\ UNCHANGED <<pending, completed, rows, written, inotify, watcher, phase, found>>
  BY DEF ReadLog, NextEntry, outside, artefacts, loopVars, mergerVars
<1>2. \/ queue' = queue
      \/ queue' = Append(queue, f) /\ f \notin seen /\ f \notin marked
  BY DEF ReadLog, channel, Send, WasIngested
<1>3. f.path = None /\ ~Queued(f, found) /\ ~Queued(f.path, inotify)
  <2>1. f.path = None
    BY <1>1, PipelineAssumption
  <2>2. found \in Seq(OnDisk) /\ \A i \in DOMAIN inotify : inotify[i] # None
    BY DEF PipeInv, ArtefactsOK
  <2>3. f \notin OnDisk
    BY <2>1 DEF OnDisk
  <2>4. QED
    BY <2>1, <2>2, <2>3 DEF Queued
<1>4. ASSUME f \notin seen, f \notin marked, IsTold(f) PROVE IsFresh(f) /\ ~Queued(f, queue)
  <2>1. ~Sending(f)
    BY <1>1, <1>4 DEF OnceOK, SenderOK
  <2>2. ~InRow(f)
    BY <1>4 DEF OneRowOK
  <2>3. QED
    BY <2>1, <2>2 DEF Sending, IsFresh
<1>5. /\ OnceIn(found') /\ (watcher = "scan" => found' = <<>>)
      /\ \A g : Queued(g, found') => Queued(g, found)
  BY <1>1 DEF OnceOK, OnItsWayOK, ScannerOK
<1>6. QED
  BY <1>1, <1>2, <1>3, <1>4, <1>5, Handled

LEMMA IngestSourceOnce ==
    ASSUME OnceOK, PipeInv, IngestSource(TRUE)
    PROVE  OnceOK'
<1>1. PICK f : f = Head(found)
  OBVIOUS
<1>2. /\ found # <<>> /\ found' = Tail(found)
      /\ UNCHANGED <<pending, completed, rows, written, inotify, watcher, phase, seen>>
      /\ queue' = queue \/ queue' = Append(queue, f)
  BY <1>1 DEF IngestSource, outside, channel, Send, loopVars, mergerVars
<1>3. found \in Seq(OnDisk) /\ f \in OnDisk
  BY <1>1, <1>2 DEF PipeInv, ArtefactsOK
<1>4. f \in written /\ f \in Fragment /\ f.source \notin LogSource
  BY <1>3, PipelineAssumption DEF OnDisk, PipeInv, WorldOK
<1>5. /\ OnceIn(found') /\ Queued(f, found) /\ (IsTold(f) => ~Queued(f, found'))
      /\ \A g : Queued(g, found') => Queued(g, found)
  BY <1>1, <1>2, <1>3, TailOnce DEF OnceOK, OnItsWayOK
<1>6. watcher # "scan"
  BY <1>2 DEF OnceOK, ScannerOK
<1>7. IsTold(f) => IsFresh(f) /\ ~Queued(f, queue) /\ ~Queued(f.path, inotify)
  BY <1>4, <1>5 DEF OnceOK, OnItsWayOK
<1>8. QED
  BY <1>2, <1>4, <1>5, <1>6, <1>7, Handled

\* The artefact thread looks for files: what it finds was not on its way.
LEMMA LookOnce ==
    ASSUME OnceOK, PipeInv, found' \in Seq(OnDisk), OnceIn(found'), watcher' # "scan",
           UNCHANGED <<pending, completed, rows, written, queue, seen, phase>>,
           inotify' = <<>> \/ (inotify' = inotify /\ found' = <<>>),
           \A f \in Fragment : IsTold(f) /\ Queued(f, found') => IsFresh(f) /\ ~Queued(f, queue)
    PROVE  OnceOK'
<1>1. \A g : (IsFresh(g)' <=> IsFresh(g)) /\ (InHand(g)' <=> InHand(g)) /\ (InRow(g)' <=> InRow(g))
  BY DEF IsFresh, InHand, InRow
<1>2. \A x : ~Queued(x, <<>>)
  BY DEF Queued
<1>3. \A x : Queued(x, inotify') => Queued(x, inotify) /\ found' = <<>>
  BY <1>2
<1>4. OnItsWayOK'
  <2>1. ASSUME NEW g \in Fragment, IsTold(g), Queued(g, queue')
        PROVE  IsFresh(g)' /\ ~Queued(g, found')
    BY <1>1, <2>1 DEF OnceOK, OnItsWayOK
  <2>2. ASSUME NEW g \in Fragment, IsTold(g), Queued(g, found') PROVE IsFresh(g)'
    BY <1>1, <2>2
  <2>3. ASSUME NEW g \in Fragment, IsTold(g), Queued(g.path, inotify')
        PROVE  IsFresh(g)' /\ ~Queued(g, found') /\ ~Queued(g, queue')
    BY <1>1, <1>2, <1>3, <2>3 DEF OnceOK, OnItsWayOK
  <2>4. ASSUME NEW g \in Fragment, IsTold(g), NEW i \in DOMAIN inotify', NEW j \in DOMAIN inotify',
               inotify'[i] = g.path, inotify'[j] = g.path
        PROVE  i = j
    <3>1. inotify' = inotify
      BY <1>2, <2>4 DEF Queued
    <3>2. QED
      BY <2>4, <3>1 DEF OnceOK, OnItsWayOK
  <2>5. OnceIn(queue')
    BY DEF OnceOK, OnItsWayOK
  <2>6. QED
    BY <2>1, <2>2, <2>3, <2>4, <2>5 DEF OnItsWayOK, Queued
<1>5. SenderOK'
  <2> SUFFICES ASSUME Running', NEW g \in Fragment, IsTold(g), Sending(g)', g.source \in LogSource
               PROVE  g \in seen'
    BY DEF SenderOK
  <2>1. Running /\ Sending(g)
    BY <1>1 DEF Running, Sending, Queued
  <2>2. QED
    BY <2>1 DEF OnceOK, SenderOK
<1>6. ScannerOK' /\ WrittenOK'
  BY <1>1 DEF OnceOK, ScannerOK, WrittenOK
<1>7. QED
  BY <1>4, <1>5, <1>6 DEF OnceOK

LEMMA ScanOnce ==
    ASSUME OnceOK, OneRowOK, PipeInv, Scan, glitches' = glitches, glitches = 0
    PROVE  OnceOK'
<1> DEFINE disk == {f \in written : f.path # None /\ IsCurrent(f) /\ ~WasIngested(f)}
<1>1. /\ Running /\ watcher = "scan" /\ watcher' = "arm" /\ found' \in InOrder(disk)
      /\ UNCHANGED <<pending, completed, rows, written, queue, seen, phase, inotify>>
  BY DEF Scan, outside, channel, readers, loopVars, mergerVars
<1>2. /\ disk \subseteq OnDisk /\ disk \subseteq written /\ disk \subseteq Fragment
      /\ \A f \in disk : f \notin marked /\ f.source \notin LogSource
  BY PipelineAssumption DEF OnDisk, WasIngested, PipeInv, WorldOK
<1> HIDE DEF disk
<1>3. Cardinality(disk) \in Nat
  BY <1>2, FS_Subset, FS_CardinalityType DEF PipeInv, WorldOK
<1>4. /\ found' \in [1 .. Cardinality(disk) -> disk]
      /\ \A i, j \in DOMAIN found' : i < j => found'[i] # found'[j]
  BY <1>1 DEF InOrder
<1>5. found' \in Seq(disk)
  BY <1>3, <1>4
<1>6. found' \in Seq(OnDisk)
  BY <1>2, <1>5, SeqGrows
<1>7. OnceIn(found')
  <2> SUFFICES ASSUME NEW i \in DOMAIN found', NEW j \in DOMAIN found', found'[i] = found'[j]
               PROVE  i = j
    BY DEF OnceIn
  <2>1. i \in Int /\ j \in Int /\ ~(i < j) /\ ~(j < i)
    BY <1>4
  <2>2. QED
    BY <2>1
<1>8. ASSUME NEW f \in Fragment, IsTold(f), Queued(f, found') PROVE IsFresh(f) /\ ~Queued(f, queue)
  <2>1. f \in disk
    BY <1>4, <1>8 DEF Queued
  <2>2. ~Sending(f)
    BY <1>1, <1>2, <1>8, <2>1 DEF OnceOK, SenderOK
  <2>3. ~InRow(f)
    BY <1>2, <1>8, <2>1 DEF OneRowOK
  <2>4. QED
    BY <2>2, <2>3 DEF Sending, IsFresh
<1>9. inotify' = <<>>
  BY <1>1 DEF OnceOK, ScannerOK
<1>10. watcher' # "scan"
  BY <1>1
<1>11. QED
  BY <1>1, <1>6, <1>7, <1>8, <1>9, <1>10, LookOnce

LEMMA PollOnce ==
    ASSUME OnceOK, PipeInv, Poll, glitches' = glitches, glitches = 0
    PROVE  OnceOK'
<1> DEFINE current(p) == CHOOSE f \in written : f.path = p /\ IsCurrent(f)
<1>1. /\ watcher = "watch" /\ watcher' = watcher /\ found = <<>> /\ inotify' = <<>>
      /\ found' = [i \in DOMAIN inotify |-> current(inotify[i])]
      /\ UNCHANGED <<pending, completed, rows, written, queue, seen, phase>>
  BY DEF Poll, outside, channel, readers, loopVars, mergerVars
<1>2. \A i \in DOMAIN inotify :
         current(inotify[i]) \in OnDisk /\ current(inotify[i]).path = inotify[i]
  <2> SUFFICES ASSUME NEW i \in DOMAIN inotify
               PROVE  current(inotify[i]) \in OnDisk /\ current(inotify[i]).path = inotify[i]
    OBVIOUS
  <2>1. /\ inotify[i] # None
        /\ \E f : f \in written /\ f.path = inotify[i] /\ IsCurrent(f)
    BY DEF PipeInv, ArtefactsOK
  <2>2. QED
    BY <2>1 DEF OnDisk
<1> HIDE DEF current
<1>3. Len(inotify) \in Nat /\ DOMAIN inotify = 1 .. Len(inotify)
  BY DEF PipeInv, ArtefactsOK
<1>4. found' \in Seq(OnDisk)
  BY <1>1, <1>2, <1>3
<1>5. /\ DOMAIN found' = DOMAIN inotify
      /\ \A i \in DOMAIN found' : found'[i] \in OnDisk /\ found'[i].path = inotify[i]
  BY <1>1, <1>2
<1>6. OnDisk \subseteq Fragment
  BY DEF OnDisk, PipeInv, WorldOK
<1>7. OnceIn(found')
  <2> SUFFICES ASSUME NEW i \in DOMAIN found', NEW j \in DOMAIN found', IsTold(found'[i]),
                      found'[i] = found'[j]
               PROVE  i = j
    BY DEF OnceIn
  <2>1. PICK f \in Fragment : f = found'[i] /\ IsTold(f)
    BY <1>5, <1>6
  <2>2. inotify[i] = f.path /\ inotify[j] = f.path
    BY <1>5, <2>1
  <2>3. QED
    BY <1>5, <2>1, <2>2 DEF OnceOK, OnItsWayOK
<1>8. ASSUME NEW f \in Fragment, IsTold(f), Queued(f, found') PROVE IsFresh(f) /\ ~Queued(f, queue)
  <2>1. Queued(f.path, inotify)
    BY <1>5, <1>8 DEF Queued
  <2>2. QED
    BY <1>8, <2>1 DEF OnceOK, OnItsWayOK
<1>9. watcher' # "scan"
  BY <1>1
<1>10. QED
  BY <1>1, <1>4, <1>7, <1>8, <1>9, LookOnce

LEMMA ArmOnce ==
    ASSUME OnceOK, PipeInv, Arm
    PROVE  OnceOK'
<1>1. /\ found = <<>> /\ found' = <<>> /\ inotify' = inotify /\ watcher' # "scan"
      /\ UNCHANGED <<pending, completed, rows, written, queue, seen, phase>>
  BY DEF Arm, outside, channel, readers, loopVars, mergerVars
<1>2. OnceIn(<<>>) /\ (\A x : ~Queued(x, <<>>)) /\ <<>> \in Seq(OnDisk)
  BY DEF OnceIn, Queued
<1>3. QED
  BY <1>1, <1>2, LookOnce

\* A stop, a death or a start: nothing is on its way, and nothing runs, or the
\* merger begins with nothing.
LEMMA ResetOnce ==
    ASSUME OnceOK, Reset(now), Running' => \A g : ~InHand(g)',
           \A g : InHand(g)' => InHand(g), \A g : InRow(g)' => InRow(g)
    PROVE  OnceOK'
<1>1. queue' = <<>> /\ found' = <<>> /\ inotify' = <<>> /\ written' = written
  BY DEF Reset, outside
<1>2. OnceIn(<<>>) /\ (\A x : ~Queued(x, <<>>)) /\ DOMAIN <<>> = {}
  BY DEF OnceIn, Queued
<1>3. OnItsWayOK'
  BY <1>1, <1>2 DEF OnItsWayOK, Queued, OnceIn
<1>4. \A g : Sending(g)' => InHand(g)'
  BY <1>1 DEF Sending, Queued
<1>5. SenderOK' /\ ScannerOK' /\ WrittenOK'
  BY <1>1, <1>4 DEF SenderOK, ScannerOK, OnceOK, WrittenOK
<1>6. QED
  BY <1>3, <1>5 DEF OnceOK

\* A step of a collector, of the world or of the clock.
LEMMA AsideOnce ==
    ASSUME HandsOK(pending, completed), OneRowOK, UNCHANGED loopVars
    PROVE  HandsOK(pending, completed)' /\ OneRowOK'
<1>1. UNCHANGED <<pending, completed, rows, marked>>
  BY DEF loopVars, mergerVars
<1>2. (\A g : InHand(g)' <=> InHand(g)) /\ (\A g : InRow(g)' <=> InRow(g))
  BY <1>1 DEF InHand, InRow
<1>3. HandsOK(pending, completed)'
  BY <1>1
<1>4. OneRowOK'
  BY <1>1, <1>2 DEF OneRowOK
<1>5. QED
  BY <1>3, <1>4

LEMMA PersistOnce ==
    ASSUME IndInv, IndexOK, PipeInv, HandsOK(pending, completed), OneRowOK, OnceOK,
           NEW m \in completed,
           PersistExcluded(m) \/ PersistFolded(m) \/ PersistInserted(m, now) \/ PersistRefused(m),
           UNCHANGED <<outside, readers, artefacts, channel, glitches>>
    PROVE  HandsOK(pending, completed)' /\ OneRowOK' /\ OnceOK'
<1>1. /\ pending' = pending /\ completed' = completed \ {m} /\ phase' = phase
      /\ UNCHANGED <<written, queue, seen, watcher, found, inotify>>
  BY DEF PersistExcluded, PersistFolded, PersistInserted, PersistRefused, Accept,
         outside, readers, artefacts, channel
<1>2. HandsOK(pending', completed') /\ \A g : InHand(g)' => InHand(g)
  BY <1>1, TakenOut
<1>3. HandsOK(pending, completed)'
  BY <1>2
<1>4. now \in 0 .. Horizon
  BY DEF PipeInv, WorldOK
<1>5. OneRowOK' /\ \A g : InRow(g)' => InRow(g) \/ g \in m.keys
  <2>1. CASE PersistExcluded(m) \/ PersistRefused(m)
    <3>1. rows' = rows /\ marked \subseteq marked'
      BY <2>1 DEF PersistExcluded, PersistRefused
    <3>2. \A f \in Fragment : IsTold(f) /\ InRow(f) => ~InHand(f)'
      BY <1>2 DEF OneRowOK
    <3>3. QED
      BY <3>1, <3>2, RowsKept
  <2>2. CASE PersistFolded(m)
    BY <2>2, FoldRows
  <2>3. CASE PersistInserted(m, now)
    BY <1>4, <2>3, InsertRows
  <2>4. QED
    BY <2>1, <2>2, <2>3
<1>6. \A g : InRow(g)' => InRow(g) \/ InHand(g)
  BY <1>5 DEF InHand
<1>7. OnceOK'
  BY <1>1, <1>2, <1>6, Undisturbed DEF Running
<1>8. QED
  BY <1>3, <1>5, <1>7

LEMMA ConfirmOnce ==
    ASSUME HandsOK(pending, completed), OneRowOK, OnceOK, Confirm,
           UNCHANGED <<outside, readers, artefacts, channel, glitches>>
    PROVE  HandsOK(pending, completed)' /\ OneRowOK' /\ OnceOK'
<1>1. /\ UNCHANGED <<pending, completed, rows>> /\ marked \subseteq marked'
      /\ phase \in {"persist", "final"} /\ phase' = (IF phase = "final" THEN "stopped" ELSE "receive")
      /\ UNCHANGED <<written, queue, seen, watcher, found, inotify>>
  BY DEF Confirm, outside, readers, artefacts, channel
<1>2. (\A g : InHand(g)' <=> InHand(g)) /\ (\A g : InRow(g)' <=> InRow(g))
  BY <1>1 DEF InHand, InRow
<1>3. HandsOK(pending, completed)' /\ OneRowOK'
  BY <1>1, <1>2 DEF OneRowOK
<1>4. Running' => Running
  BY <1>1 DEF Running
<1>5. QED
  BY <1>1, <1>2, <1>3, <1>4, Undisturbed

LEMMA ReceiveOnce ==
    ASSUME IndInv, PipeInv, HandsOK(pending, completed), OneRowOK, OnceOK, ReceiveNext
    PROVE  HandsOK(pending, completed)' /\ OneRowOK' /\ OnceOK'
<1>1. PICK f : f = Head(queue)
  OBVIOUS
<1>2. /\ queue # <<>> /\ Receive(f) /\ queue' = Tail(queue)
      /\ UNCHANGED <<written, seen, watcher, found, inotify>>
  BY <1>1 DEF ReceiveNext, outside, readers, artefacts
<1>3. rows' = rows /\ marked' = marked /\ Running
  BY <1>2 DEF Receive, Running
<1>4. queue \in Seq(written) /\ f \in Fragment
  BY <1>1, <1>2 DEF PipeInv, ChannelOK, WorldOK
<1>5. Queued(f, queue)
  BY <1>1, <1>2, <1>4, TailOnce DEF OnceOK, OnItsWayOK
<1>6. IsTold(f) => IsFresh(f)
  BY <1>4, <1>5 DEF OnceOK, OnItsWayOK
<1>7. HandsOK(pending', completed') /\ \A g : InHand(g)' => InHand(g) \/ g = f
  BY <1>2, <1>4, <1>6, ReceiveHands DEF IsFresh
<1>8. \A g \in Fragment : IsTold(g) /\ InRow(g) => ~InHand(g)'
  BY <1>6, <1>7 DEF OneRowOK, IsFresh
<1>9. OneRowOK' /\ \A g : InRow(g)' => InRow(g)
  BY <1>3, <1>8, RowsKept
<1>10. OnceOK'
  BY <1>1, <1>2, <1>3, <1>7, <1>9, Delivered
<1>11. QED
  BY <1>7, <1>9, <1>10

\* Between rounds the merger gives up what is due, and a manager deletes rows.
LEMMA QuietOnce ==
    ASSUME IndInv, PipeInv, HandsOK(pending, completed), OneRowOK, OnceOK, TimeoutNow \/ Delete
    PROVE  HandsOK(pending, completed)' /\ OneRowOK' /\ OnceOK'
<1>1. UNCHANGED <<written, queue, seen, watcher, found, inotify>>
  BY DEF TimeoutNow, Delete, outside, readers, artefacts, channel
<1>2. HandsOK(pending', completed') /\ \A g : InHand(g)' => InHand(g)
  <2>1. CASE TimeoutNow
    <3>1. \E clock \in 0 .. Horizon : Timeout(clock)
      BY <2>1 DEF TimeoutNow, PipeInv, WorldOK
    <3>2. QED
      BY <3>1, FlushesHands
  <2>2. CASE Delete
    BY <2>2 DEF Delete, DeleteRecords, mergerVars, InHand
  <2>3. QED
    BY <2>1, <2>2
<1>3. rows' \subseteq rows /\ marked' = marked /\ (Running' => Running)
  BY DEF TimeoutNow, Delete, Timeout, DeleteRecords, Running
<1>4. OneRowOK' /\ \A g : InRow(g)' => InRow(g)
  BY <1>2, <1>3, RowsKept DEF OneRowOK
<1>5. OnceOK'
  BY <1>1, <1>2, <1>3, <1>4, Undisturbed
<1>6. QED
  BY <1>2, <1>4, <1>5

LEMMA LifeOnce ==
    ASSUME IndInv, HandsOK(pending, completed), OneRowOK, OnceOK, StopAll \/ CrashAll \/ StartAll
    PROVE  HandsOK(pending, completed)' /\ OneRowOK' /\ OnceOK'
<1>1. Reset(now) /\ rows' = rows /\ marked' = marked
  BY DEF StopAll, CrashAll, StartAll, Stop, Crash, Start
<1>2. /\ HandsOK(pending', completed') /\ \A g : InHand(g)' => InHand(g)
      /\ Running' => \A g : ~InHand(g)'
  <2>1. CASE StopAll
    <3>1. Stop /\ ~Running'
      BY <2>1 DEF StopAll, Stop, Running
    <3>2. QED
      BY <3>1, FlushesHands
  <2>2. CASE CrashAll \/ StartAll
    <3>1. pending' = {} /\ completed' = {}
      BY <2>2 DEF CrashAll, StartAll, Crash, Start, Forget
    <3>2. QED
      BY <3>1 DEF HandsOK, InHand
  <2>3. QED
    BY <2>1, <2>2
<1>3. OneRowOK' /\ \A g : InRow(g)' => InRow(g)
  BY <1>1, <1>2, RowsKept DEF OneRowOK
<1>4. OnceOK'
  BY <1>1, <1>2, <1>3, ResetOnce
<1>5. QED
  BY <1>2, <1>3, <1>4

LEMMA OnceStep ==
    ASSUME IndInv, IndexOK, PipeInv, OnceInv, [PipeNext]_pipeVars
    PROVE  OnceInv'
<1> SUFFICES ASSUME glitches' = 0
             PROVE  HandsOK(pending, completed)' /\ OneRowOK' /\ OnceOK'
  BY DEF OnceInv
<1>1. glitches \in Nat /\ glitches = 0 => HandsOK(pending, completed) /\ OneRowOK /\ OnceOK
  BY DEF PipeInv, WorldOK, OnceInv
<1>2. glitches \in Nat
  BY DEF PipeInv, WorldOK
<1>3. ASSUME NEW f \in Fragment, Write(f)
      PROVE  HandsOK(pending, completed)' /\ OneRowOK' /\ OnceOK'
  <2>1. glitches = 0 /\ UNCHANGED loopVars
    BY <1>3 DEF Write
  <2>2. QED
    BY <1>1, <1>3, <2>1, AsideOnce, WriteOnce
<1>4. CASE Tick
  <2>1. /\ glitches = 0 /\ UNCHANGED loopVars
        /\ UNCHANGED <<written, queue, seen, watcher, found, inotify>>
    BY <1>4 DEF Tick, readers, channel, artefacts
  <2>2. /\ UNCHANGED <<pending, completed, rows, phase>>
    BY <2>1 DEF loopVars, mergerVars
  <2>3. (\A g : InHand(g)' <=> InHand(g)) /\ (\A g : InRow(g)' <=> InRow(g)) /\ (Running' <=> Running)
    BY <2>2 DEF InHand, InRow, Running
  <2>4. OnceOK'
    BY <1>1, <2>1, <2>3, Undisturbed
  <2>5. QED
    BY <1>1, <2>1, <2>4, AsideOnce
<1>5. ASSUME NEW f \in Fragment, NEW ok \in BOOLEAN, ReadLog(f, ok)
      PROVE  HandsOK(pending, completed)' /\ OneRowOK' /\ OnceOK'
  <2>1. glitches' = (IF ok THEN glitches ELSE glitches + 1) /\ UNCHANGED loopVars
    BY <1>5 DEF ReadLog
  <2>2. glitches = 0 /\ ok = TRUE
    BY <1>2, <2>1
  <2>3. QED
    BY <1>1, <1>5, <2>1, <2>2, AsideOnce, ReadLogOnce
<1>6. ASSUME NEW s \in LogSource, Reconnect(s)
      PROVE  HandsOK(pending, completed)' /\ OneRowOK' /\ OnceOK'
  <2>1. /\ glitches = 0 /\ UNCHANGED loopVars
        /\ UNCHANGED <<written, queue, seen, watcher, found, inotify>>
    BY <1>6 DEF Reconnect, outside, channel, artefacts
  <2>2. UNCHANGED <<pending, completed, rows, phase>>
    BY <2>1 DEF loopVars, mergerVars
  <2>3. (\A g : InHand(g)' <=> InHand(g)) /\ (\A g : InRow(g)' <=> InRow(g)) /\ (Running' <=> Running)
    BY <2>2 DEF InHand, InRow, Running
  <2>4. OnceOK'
    BY <1>1, <2>1, <2>3, Undisturbed
  <2>5. QED
    BY <1>1, <2>1, <2>4, AsideOnce
<1>7. CASE Scan \/ Arm \/ Poll
  <2>1. glitches = 0 /\ glitches' = glitches /\ UNCHANGED loopVars
    BY <1>2, <1>7 DEF Scan, Arm, Poll
  <2>2. QED
    BY <1>1, <1>7, <2>1, AsideOnce, ScanOnce, ArmOnce, PollOnce
<1>8. ASSUME NEW ok \in BOOLEAN, IngestSource(ok)
      PROVE  HandsOK(pending, completed)' /\ OneRowOK' /\ OnceOK'
  <2>1. glitches' = (IF ok THEN glitches ELSE glitches + 1) /\ UNCHANGED loopVars
    BY <1>8 DEF IngestSource
  <2>2. glitches = 0 /\ ok = TRUE
    BY <1>2, <2>1
  <2>3. QED
    BY <1>1, <1>8, <2>1, <2>2, AsideOnce, IngestSourceOnce
<1>9. CASE ReceiveNext \/ TimeoutNow \/ Delete
  <2>1. glitches = 0
    BY <1>9 DEF ReceiveNext, TimeoutNow, Delete
  <2>2. QED
    BY <1>1, <1>9, <2>1, ReceiveOnce, QuietOnce
<1>10. CASE PersistOrConfirm
  <2>1. glitches = 0 /\ UNCHANGED <<outside, readers, artefacts, channel, glitches>>
    BY <1>10 DEF PersistOrConfirm
  <2>2. CASE Confirm
    BY <1>1, <2>1, <2>2, ConfirmOnce
  <2>3. ASSUME NEW m \in completed,
               PersistExcluded(m) \/ PersistFolded(m) \/ PersistInserted(m, now) \/ PersistRefused(m)
        PROVE  HandsOK(pending, completed)' /\ OneRowOK' /\ OnceOK'
    BY <1>1, <2>1, <2>3, PersistOnce
  <2>4. QED
    BY <1>10, <2>2, <2>3 DEF PersistOrConfirm
<1>11. CASE StopAll \/ CrashAll \/ StartAll
  <2>1. glitches = 0
    BY <1>11 DEF StopAll, CrashAll, StartAll, Reset
  <2>2. QED
    BY <1>1, <1>11, <2>1, LifeOnce
<1>12. CASE UNCHANGED pipeVars
  <2>1. /\ glitches = 0 /\ UNCHANGED loopVars
        /\ UNCHANGED <<written, queue, seen, watcher, found, inotify>>
    BY <1>12 DEF pipeVars
  <2>2. UNCHANGED <<pending, completed, rows, phase>>
    BY <2>1 DEF loopVars, mergerVars
  <2>3. (\A g : InHand(g)' <=> InHand(g)) /\ (\A g : InRow(g)' <=> InRow(g)) /\ (Running' <=> Running)
    BY <2>2 DEF InHand, InRow, Running
  <2>4. OnceOK'
    BY <1>1, <2>1, <2>3, Undisturbed
  <2>5. QED
    BY <1>1, <2>1, <2>4, AsideOnce
<1>13. QED
  BY <1>3, <1>4, <1>5, <1>6, <1>7, <1>8, <1>9, <1>10, <1>11, <1>12
     DEF PipeNext, LogReader, ArtefactThread, IngestThread

\* However the collectors interleave, whatever else dies, and wherever the
\* daemon stops, dies and starts again, the evidence of a death that is told is
\* never in two records: each fragment reaches the merger at most once before
\* its key is stored, and where a record of the death is in the index already,
\* companion_record finds it (ingest_with_sources, was_ingested, startup_scan).
THEOREM OneRecord == PipeSpec => []OneRecordPerDeath
<1>1. PipeInit => OnceInv
  <2> SUFFICES ASSUME PipeInit PROVE HandsOK(pending, completed) /\ OneRowOK /\ OnceOK
    BY DEF OnceInv
  <2>1. /\ pending = {} /\ completed = {} /\ rows = {} /\ queue = <<>> /\ found = <<>>
        /\ inotify = <<>>
    BY DEF PipeInit, Init, MergerInit
  <2>2. (\A g : ~InHand(g) /\ ~InRow(g)) /\ (\A x : ~Queued(x, <<>>)) /\ OnceIn(<<>>)
    BY <2>1 DEF InHand, InRow, Queued, OnceIn
  <2>3. HandsOK(pending, completed) /\ OneRowOK
    BY <2>1, <2>2 DEF HandsOK, OneRowOK
  <2>4. OnItsWayOK
    BY <2>1, <2>2 DEF OnItsWayOK, Queued
  <2>5. SenderOK /\ ScannerOK /\ WrittenOK
    BY <2>1, <2>2 DEF SenderOK, Sending, ScannerOK, WrittenOK
  <2>6. QED
    BY <2>3, <2>4, <2>5 DEF OnceOK
<1>2. IndInv /\ IndexOK /\ PipeInv /\ OnceInv /\ [PipeNext]_pipeVars => OnceInv'
  BY OnceStep
<1>3. OnceInv => OneRecordPerDeath
  BY DEF OnceInv, OneRowOK, OneRecordPerDeath, IsTold
<1>4. PipeSpec => [](IndInv /\ IndexOK)
  BY PipelineImplementsLoop, IndexInvariance, PTL
<1>5. QED
  BY <1>1, <1>2, <1>3, <1>4, PipeInvariance, PTL DEF PipeSpec

=============================================================================
