--------------------------- MODULE Evidence_proofs ----------------------------
(***************************************************************************)
(* From evidence to occurrences, for any number of deaths and any evidence *)
(* of them: what a parser makes of an artefact that names its process is   *)
(* true of the death, so the merger joins what belongs together and        *)
(* nothing else, and no legible artefact is lost.                          *)
(***************************************************************************)
EXTENDS Evidence, TLAPS, FiniteSetTheorems

-----------------------------------------------------------------------------
(* The inductive invariant.                                                *)

Sent == {b.sent : b \in read} \ {None}

Named(K) == \A f \in K : "process" \in f.told

\* A fragment, or an occurrence, that says nothing wrong about a death.
TrueOf(x, d) ==
    /\ x.kind = d.kind /\ x.process = d.process
    /\ x.pid \in {0, d.pid} /\ x.user \in {None, UserOf(d)}

\* What a fragment tells is in its fields.
SaysWhatItTells(f) ==
    /\ "pid" \in f.told => f.pid # 0
    /\ "user" \in f.told => f.user # None

\* What was read became at most one fragment, with these promises.
ReadOK ==
    /\ deaths \in Scenario
    /\ \A b \in read :
        /\ b.death \in DOMAIN deaths
        /\ b.legible => b.sent # None \/ b.blank
        /\ b.sent # None =>
            /\ b.sent.death = b.death /\ b.sent.source = b.source /\ b.sent.at = 1
            /\ "process" \in b.sent.told =>
                 TrueOf(b.sent, deaths[b.death]) /\ SaysWhatItTells(b.sent)
    /\ \A b, c \in read : b.death = c.death /\ b.source = c.source => b = c

\* An occurrence, or what is remembered of one, against its evidence K.
Describes(x, K) ==
    /\ K # {} /\ K \subseteq Sent
    /\ x.sources = {f.source : f \in K} /\ x.first = 1
    /\ Named(K) => \E i \in DOMAIN deaths :
        /\ \A f \in K : f.death = i
        /\ TrueOf(x, deaths[i])
        /\ x.pid = 0 => \A f \in K : f.pid = 0
        /\ x.user = None => \A f \in K : f.user = None

PendingOK == \A p \in pending : Describes(p, p.keys) /\ p.last = 1

\* A record as Finish makes it of the occurrence r remembers.
FinishOf(o, r) ==
    /\ o.kind = r.kind /\ o.process = r.process /\ o.pid = r.pid
    /\ o.user = IF r.user = None THEN 0 ELSE r.user

CompletedOK == \A o \in completed : \E r \in recent : Describes(r, o.keys) /\ FinishOf(o, r)

RecentOK == \A r \in recent : r.first = 1

\* No fragment is lost.
KeptOK == Sent \subseteq (UNION {o.keys : o \in Occurrences}) \cup {s[2] : s \in suppressed}

About(o, i) == \E f \in o.keys : f.death = i

Vouched(i) == \A f, g \in Sent : f.death = i /\ g.death = i => Vouch(f.told, g.told)

JoinedOK ==
    Named(Sent) => \A i \in DOMAIN deaths :
        Vouched(i) =>
            /\ \A o, q \in pending : About(o, i) /\ About(q, i) => o = q
            /\ \A o, q \in completed : About(o, i) /\ About(q, i) => o = q
            /\ \A o \in pending, q \in completed : ~(About(o, i) /\ About(q, i))

EvInv == ReadOK /\ PendingOK /\ CompletedOK /\ RecentOK /\ KeptOK /\ JoinedOK

-----------------------------------------------------------------------------
(* What the parsers make of an artefact.                                   *)

\* What is said of the fragment m that is made of artefact a of death i.
MadeOf(m, a, i, d) ==
    /\ m \in CrashFragment
    /\ m.source = a.source /\ m.death = i /\ m.at = 1
    /\ "process" \in Tells(a) =>
        /\ TrueOf(m, d)
        /\ "pid" \in Tells(a) => m.pid # 0
        /\ "user" \in Tells(a) => m.user # None

\* Which artefacts become one.
Reads(m, a, i, d) ==
    /\ m # None => MadeOf(m, a, i, d)
    /\ Legible(a) => m # None \/ Blank(a)

LEMMA UserOfDeath ==
    ASSUME NEW d, IsDeath(d)
    PROVE  UserOf(d) \in 0 .. MaxPlausibleUser /\ UserOf(d) \in Nat /\ UserOf(d) # None
<1>1. d.uid \in Nat /\ d.uid # None /\ PerUser \in Nat \ {0} /\ MaxPlausibleUser \in Nat
  BY NoneAssumption, DeathAssumption DEF IsDeath
<1>2. UserOf(d) = d.uid \div PerUser
  BY <1>1 DEF UserOf, AndroidUserId
<1> DEFINE v == d.uid \div PerUser
<1>3. v \in Nat
  BY <1>1
<1>4. v <= MaxPlausibleUser
  BY DEF IsDeath
<1> HIDE DEF v
<1>5. v \in 0 .. MaxPlausibleUser /\ v # None
  BY <1>1, <1>3, <1>4, NoneAssumption
<1>6. QED
  BY <1>2, <1>3, <1>5 DEF v

\* The user a uid names.
LEMMA UserNamed ==
    ASSUME NEW d, IsDeath(d)
    PROVE  AndroidUserId(d.uid) = UserOf(d) /\ AndroidUserId(None) = None
  BY DEF UserOf, AndroidUserId

LEMMA FieldsOfDeath ==
    ASSUME NEW d, IsDeath(d)
    PROVE  /\ d.kind \in Kind /\ d.process \in Process /\ d.class \in Class
           /\ d.pid \in Nat /\ d.pid # 0 /\ d.pid # None /\ d.uid \in Nat /\ d.uid # None
<1>1. /\ d.kind \in Kind /\ d.process \in Process /\ d.class \in Class
      /\ d.pid \in Nat /\ d.pid > MaxPlausibleUser /\ d.uid \in Nat
  BY DEF IsDeath
<1>2. MaxPlausibleUser \in Nat
  BY DeathAssumption
<1>3. d.pid # 0
  BY <1>1, <1>2
<1>4. QED
  BY <1>1, <1>3, NoneAssumption

LEMMA FramesOfDeath ==
    ASSUME NEW d, IsDeath(d)
    PROVE  /\ Normalized(d) \in Seq(Frame) /\ AtLines(d) \in Seq(Frame)
           /\ NativeFrames(d) \in Seq(Frame) /\ TextFrames(d) \in Seq(Frame)
           /\ <<Head(AtLines(d))>> \in Seq(Frame)
           /\ Head(d.stack) \in Method
<1>1. /\ d.stack \in Seq(Method) /\ d.stack # <<>> /\ d.line \in Nat /\ d.pid \in Nat
      /\ OtherThread \in Method
  BY DeathAssumption DEF IsDeath
<1>2. /\ DOMAIN d.stack = 1 .. Len(d.stack) /\ Len(d.stack) \in Nat /\ Len(d.stack) # 0
      /\ \A k \in 1 .. Len(d.stack) : d.stack[k] \in Method
  BY <1>1
<1>3. Normalized(d) \in Seq(Frame)
  BY <1>2 DEF Normalized, Frame
<1>4. AtLines(d) \in Seq(Frame) /\ Len(AtLines(d)) = Len(d.stack)
  BY <1>1, <1>2 DEF AtLines, Frame
<1>5. NativeFrames(d) \in Seq(Frame)
  BY <1>2 DEF NativeFrames, Frame
<1>6. [form |-> "pc", name |-> OtherThread, line |-> d.pid] \in Frame
  BY <1>1 DEF Frame
<1>7. TextFrames(d) \in Seq(Frame)
  <2> DEFINE parsed == [i \in DOMAIN d.stack |-> ParseFrame(d.stack[i])]
  <2>1. ASSUME NEW m \in Method PROVE ParseFrame(m) \in Frame
    BY DeathAssumption DEF ParseFrame, Frame
  <2>2. parsed \in Seq(Frame)
    BY <1>2, <2>1
  <2> HIDE DEF parsed
  <2>3. parsed \o <<[form |-> "pc", name |-> OtherThread, line |-> d.pid]>> \in Seq(Frame)
    BY <1>6, <2>2
  <2>4. QED
    BY <2>3 DEF TextFrames, parsed
<1>8. Head(AtLines(d)) \in Frame
  BY <1>2, <1>4
<1>9. QED
  BY <1>1, <1>2, <1>3, <1>4, <1>5, <1>7, <1>8

LEMMA Ranks ==
    /\ Text \in Quality /\ Structured \in Quality /\ Artifact \in Quality /\ Protobuf \in Quality
    /\ Source = {"EVENTS", "CRASH_BUFFER", "DROPBOX", "TOMBSTONE", "ANR_FILE"}
    /\ PayloadState = {"absent", "present"}
  BY DEF Text, Structured, Artifact, Protobuf, Quality, Source, PayloadState

\* A record that is a fragment.
LEMMA IsFragment ==
    ASSUME NEW m \in CrashFragment PROVE m # None
  BY NoRecordAssumption

\* The evidence of each kind, one piece at a time.
LEMMA EventsAre ==
    ASSUME NEW i, NEW d, NEW odd, NEW a \in EventEntries(i, d, odd)
    PROVE  \E pair, loc, ok :
              /\ a = Event(i, d, pair, loc, ok)
              /\ pair = <<EventPid(d), UserOf(d)>> \/ pair = <<UserOf(d), EventPid(d)>>
<1>1. PICK P, B :
        /\ P = Either(odd, {<<EventPid(d), UserOf(d)>>}, <<UserOf(d), EventPid(d)>>)
        /\ B = Either(odd, {FALSE}, TRUE)
  OBVIOUS
<1>2. EventEntries(i, d, odd) = {Event(i, d, p, l, o) : p \in P, l \in B, o \in B}
  BY <1>1, SMT DEF EventEntries
<1>3. PICK p \in P, l \in B, o \in B : a = Event(i, d, p, l, o)
  BY <1>2
<1>4. p = <<EventPid(d), UserOf(d)>> \/ p = <<UserOf(d), EventPid(d)>>
  BY <1>1 DEF Either
<1>5. QED
  BY <1>3, <1>4, Zenon

LEMMA TombstonesAre ==
    ASSUME NEW i, NEW d, NEW odd, NEW a \in Tombstones(i, d, odd)
    PROVE  \E pb, text, line, named :
              /\ a = TombstonePair(i, d, pb, text, line, named)
              /\ line \in BOOLEAN /\ named \in BOOLEAN
              /\ pb \in {"absent", "blank", "damaged", "whole"} /\ text \in {"blank", "damaged", "whole"}
<1>1. PICK P, T, B :
        /\ P = Either(odd, {"absent", "blank", "damaged"}, "whole")
        /\ T = Either(odd, {"blank", "damaged"}, "whole") /\ B = Either(odd, {FALSE}, TRUE)
  OBVIOUS
<1>2. Tombstones(i, d, odd)
        = {TombstonePair(i, d, pb, text, line, named) : pb \in P, text \in T, line \in B, named \in B}
  BY <1>1, SMT DEF Tombstones
<1>3. PICK pb \in P, text \in T, line \in B, named \in B :
        a = TombstonePair(i, d, pb, text, line, named)
  BY <1>2
<1>4. /\ pb \in {"absent", "blank", "damaged", "whole"} /\ text \in {"blank", "damaged", "whole"}
      /\ line \in BOOLEAN /\ named \in BOOLEAN
  BY <1>1 DEF Either
<1>5. QED
  BY <1>3, <1>4, Zenon

LEMMA EntriesAre ==
    ASSUME NEW i, NEW d, NEW odd, NEW a \in DropboxEntries(i, d, odd)
    PROVE  \E tag, ok, names, pid, uid, line, body :
              /\ a = DropboxFile(i, d, tag, ok, names, pid, uid, line, body)
              /\ tag \in Tags(d.kind) \/ tag = CHOOSE t \in Tags(d.kind) : t # {}
              /\ ok \in BOOLEAN /\ line \in BOOLEAN
              /\ \/ names = <<None, PackageOf[d.process]>> \/ names = <<None, None>>
                 \/ names = <<d.process, PackageOf[d.process]>>
              /\ pid \in {None, SystemServer, d.pid} /\ uid \in {None, d.uid}
              /\ body \in {"report", "other"}
<1>1. PICK T, B, N, P, U, Y :
        /\ T = Either(odd, Tags(d.kind), CHOOSE t \in Tags(d.kind) : t # {})
        /\ B = Either(odd, {FALSE}, TRUE)
        /\ N = Either(odd, {<<None, PackageOf[d.process]>>, <<None, None>>},
                      <<d.process, PackageOf[d.process]>>)
        /\ P = Either(odd, {None, SystemServer}, d.pid)
        /\ U = Either(odd, {None}, d.uid)
        /\ Y = Either(odd, {"report", "other"},
                      IF d.kind \in {"Native", "Anr"} THEN "report" ELSE "other")
  OBVIOUS
<1>2. DropboxEntries(i, d, odd)
        = {DropboxFile(i, d, tag, ok, names, pid, uid, line, body) :
             tag \in T, ok \in B, names \in N, pid \in P, uid \in U, line \in B, body \in Y}
  BY <1>1, SMT DEF DropboxEntries
<1>3. PICK tag \in T, ok \in B, names \in N, pid \in P, uid \in U, line \in B, body \in Y :
        a = DropboxFile(i, d, tag, ok, names, pid, uid, line, body)
  BY <1>2
<1>4. tag \in Tags(d.kind) \/ tag = CHOOSE t \in Tags(d.kind) : t # {}
  BY <1>1 DEF Either
<1>5. ok \in BOOLEAN /\ line \in BOOLEAN
  BY <1>1 DEF Either
<1>6. \/ names = <<None, PackageOf[d.process]>> \/ names = <<None, None>>
      \/ names = <<d.process, PackageOf[d.process]>>
  BY <1>1 DEF Either
<1>7. pid \in {None, SystemServer, d.pid} /\ uid \in {None, d.uid}
  BY <1>1 DEF Either
<1>8. body \in {"report", "other"}
  BY <1>1 DEF Either
<1>9. QED
  BY <1>3, <1>4, <1>5, <1>6, <1>7, <1>8, Zenon

LEMMA EventsRead ==
    ASSUME NEW i \in Nat, NEW d, IsDeath(d), NEW odd, NEW a \in EventEntries(i, d, odd)
    PROVE  Reads(FragmentFromActivity(a), a, i, d)
<1> DEFINE pid == EventPid(d)
           u   == UserOf(d)
           id  == ActivityUserAndPid(a.first, a.second)
           e   == ParseActivityEvent(a)
<1>1. PICK pair, loc, ok :
        /\ a = Event(i, d, pair, loc, ok)
        /\ pair = <<pid, u>> \/ pair = <<u, pid>>
  BY EventsAre
<1>2. /\ a.source = "EVENTS" /\ a.death = i /\ a.d = d
      /\ a.first = pair[1] /\ a.second = pair[2] /\ a.intact = ok /\ a.located = loc
  BY <1>1 DEF Event
<1>3. a.class = IF d.kind = "Native" THEN "Native crash" ELSE d.class
  BY <1>1 DEF Event
<1>4. a.tag = CASE d.kind \in {"Java", "Native"} -> "am_crash"
                [] d.kind = "Anr" -> "am_anr" [] d.kind = "Wtf" -> "am_wtf"
  BY <1>1 DEF Event
<1>5. pair = <<pid, u>> \/ pair = <<u, pid>>
  BY <1>1
<1>6. d.kind \in Kind /\ d.process \in Process /\ d.class \in Class /\ d.class # "Native crash"
      /\ d.line \in Nat
  BY DeathAssumption DEF IsDeath
<1>7. pid \in Nat /\ pid > MaxPlausibleUser /\ MaxPlausibleUser \in Nat
  BY DeathAssumption DEF IsDeath, EventPid
<1>8. u \in 0 .. MaxPlausibleUser /\ u \in Nat /\ u # None
  BY UserOfDeath
<1> HIDE DEF pid, u
<1>9. id[1] = u /\ id[2] = pid
  BY <1>2, <1>5, <1>7, <1>8 DEF ActivityUserAndPid
<1>10. a.class \in Class \cup {"Native crash"}
  BY ONLY <1>3, <1>6
<1>11. /\ d.kind = "Native" => KindOfAmCrash(a.class) = "Native"
       /\ d.kind = "Java" => KindOfAmCrash(a.class) = "Java"
  BY ONLY <1>3, <1>6 DEF KindOfAmCrash
<1>12. /\ d.kind \in {"Java", "Native"} => a.tag = "am_crash"
       /\ d.kind = "Anr" => a.tag = "am_anr"
       /\ d.kind = "Wtf" => a.tag = "am_wtf"
  BY ONLY <1>4
<1>13. a.tag \in {"am_crash", "am_anr", "am_wtf"}
  BY <1>6, <1>12 DEF Kind
<1>14. ASSUME a.intact
       PROVE  /\ e \in ActivityEvent /\ e.tag = a.tag /\ e.user = u /\ e.pid = pid
              /\ e.process = d.process /\ e.class = a.class /\ e.place \in Seq(Frame)
  <2> DEFINE place == IF a.tag = "am_crash" /\ a.located
                      THEN <<[form |-> "file", name |-> Head(a.d.stack), line |-> a.d.line]>>
                      ELSE <<>>
  <2>1. [form |-> "file", name |-> Head(d.stack), line |-> d.line] \in Frame
    BY <1>6, FramesOfDeath DEF Frame
  <2>2. place \in Seq(Frame)
    <3>1. <<[form |-> "file", name |-> Head(d.stack), line |-> d.line]>> \in Seq(Frame)
      BY <2>1
    <3>2. <<>> \in Seq(Frame)
      OBVIOUS
    <3>3. QED
      BY ONLY <1>2, <3>1, <3>2, Zenon
  <2>3. e = [tag |-> a.tag, user |-> id[1], pid |-> id[2], process |-> a.d.process,
             class |-> a.class, place |-> place]
    BY <1>14 DEF ParseActivityEvent
  <2> HIDE DEF place, e, id
  <2>4. QED
    BY <1>2, <1>6, <1>7, <1>8, <1>9, <1>10, <1>13, <2>2, <2>3 DEF ActivityEvent
<1>15. ~a.intact => FragmentFromActivity(a) = None /\ ~Legible(a)
  BY <1>2 DEF FragmentFromActivity, ParseActivityEvent, Legible
<1>16. ASSUME a.intact
       PROVE  FragmentFromActivity(a) # None /\ MadeOf(FragmentFromActivity(a), a, i, d)
  <2> DEFINE kind == CASE e.tag = "am_crash" -> KindOfAmCrash(e.class)
                       [] e.tag = "am_anr"   -> "Anr"
                       [] e.tag = "am_wtf"   -> "Wtf"
             mpid == IF kind = "Native" THEN 0 ELSE e.pid
             class == IF kind = "Anr" THEN "ANR" ELSE e.class
             payload == IF kind = "Wtf" THEN "present" ELSE "absent"
  <2>1. e # None
    BY <1>14, <1>16, NoRecordAssumption
  <2>2. PICK m : /\ FragmentFromActivity(a) = m
                 /\ m = [NewFragment(a, Structured, kind, e.process, mpid)
                            EXCEPT !.user = e.user, !.frames = e.place, !.class = class,
                                   !.payload = payload]
    BY <2>1 DEF FragmentFromActivity
  <2> HIDE DEF e
  <2>3. kind = d.kind
    <3>1. e.tag = a.tag /\ e.class = a.class
      BY <1>14, <1>16
    <3>2. QED
      BY <1>6, <1>11, <1>12, <3>1 DEF Kind
  <2>4. class \in Class \cup {"Native crash", "ANR", None}
    BY <1>10, <1>14, <1>16
  <2>5. payload \in PayloadState
    BY Ranks
  <2>6. mpid = (IF d.kind = "Native" THEN 0 ELSE pid) /\ mpid \in Nat
    BY <1>7, <1>14, <1>16, <2>3
  <2> HIDE DEF kind, class, payload, mpid
  <2>7. m = [source |-> "EVENTS", quality |-> Structured, kind |-> d.kind, process |-> d.process,
             user |-> u, pid |-> mpid, at |-> 1, payload |-> payload, file |-> None,
             class |-> class, frames |-> e.place, death |-> i, told |-> {}]
    <3>1. /\ e.user = u /\ e.process = d.process
          /\ a.source = "EVENTS" /\ a.death = i
      BY <1>2, <1>14, <1>16
    <3>2. QED
      BY <2>2, <2>3, <3>1, ZenonT(60) DEF NewFragment
  <2>8. e.place \in Seq(Frame) /\ "EVENTS" \in Source /\ Structured \in Quality
    BY <1>14, <1>16, Ranks
  <2>9. /\ m \in CrashFragment /\ m # None
        /\ m.source = "EVENTS" /\ m.death = i /\ m.at = 1
        /\ m.kind = d.kind /\ m.process = d.process /\ m.user = u /\ m.pid = mpid
    <3>1. m \in CrashFragment
      BY <1>6, <1>8, <2>4, <2>5, <2>6, <2>7, <2>8 DEF CrashFragment
    <3>2. QED
      BY <2>7, <3>1, IsFragment
  <2>10. m.pid \in {0, d.pid} /\ (d.kind # "Native" => m.pid = pid)
    BY <2>6, <2>9 DEF pid, EventPid
  <2>11. TrueOf(m, d)
    BY <2>9, <2>10 DEF TrueOf, u
  <2>12. "pid" \in Tells(a) => d.kind # "Native"
    BY <1>2 DEF Tells
  <2>13. "pid" \in Tells(a) => m.pid # 0
    BY <1>7, <2>10, <2>12
  <2>14. QED
    BY <1>2, <1>8, <2>2, <2>9, <2>11, <2>13 DEF MadeOf
<1>17. QED
  BY <1>15, <1>16 DEF Reads

\* The report of an undamaged crash buffer, ANR dump or tombstone.
LEMMA CrashBufferParsed ==
    ASSUME NEW d, IsDeath(d), NEW r,
           r = [process |-> d.process, pid |-> d.pid, class |-> d.class, frames |-> Normalized(d)]
    PROVE  /\ r \in CrashBufferReport /\ r # None
           /\ r.process = d.process /\ r.pid = d.pid
<1>1. r = [process |-> d.process, pid |-> d.pid, class |-> d.class, frames |-> Normalized(d)]
  OBVIOUS
<1>2. Normalized(d) \in Seq(Frame)
  BY FramesOfDeath
<1>3. r \in CrashBufferReport
  <2>1. d.process \in Process /\ d.pid \in Nat /\ d.class \in Class
    BY FieldsOfDeath
  <2>2. QED
    BY ONLY <1>1, <1>2, <2>1 DEF CrashBufferReport
<1>4. r # None
  BY <1>3, NoRecordAssumption
<1>5. r.process = d.process /\ r.pid = d.pid
  BY ONLY <1>1
<1>6. QED
  BY <1>3, <1>4, <1>5

LEMMA AnrParsed ==
    ASSUME NEW d, IsDeath(d), NEW text \in {"whole", "channels"}, NEW r, r = ParseAnr(d, text)
    PROVE  /\ r \in AnrReport /\ r # None
           /\ r.process = d.process /\ r.pid = d.pid
<1> DEFINE frames == IF text = "whole" THEN <<Head(AtLines(d))>> ELSE <<>>
<1>1. frames \in Seq(Frame)
  <2>1. <<Head(AtLines(d))>> \in Seq(Frame) /\ <<>> \in Seq(Frame)
    BY FramesOfDeath
  <2>2. QED
    BY ONLY <2>1, Zenon
<1>2. r = [process |-> d.process, pid |-> d.pid, frames |-> frames]
  BY DEF ParseAnr
<1> HIDE DEF frames
<1>3. r \in AnrReport
  BY <1>1, <1>2 DEF AnrReport, IsDeath
<1>4. QED
  BY <1>2, <1>3, NoRecordAssumption

LEMMA TombstoneParsed ==
    ASSUME NEW d, IsDeath(d), NEW a, a.d = d, a.named \in BOOLEAN, NEW r,
           r = ParseProto(a) \/ r = ParseText(a)
    PROVE  /\ r \in TombstoneReport /\ r # None
           /\ r.process = NativeName(a) /\ r.pid = d.pid
           /\ r.uid \in {None, d.uid}
           /\ r = ParseProto(a) => r.uid = d.uid /\ r.format = "Protobuf"
           /\ r = ParseText(a) => r.format = "Text" /\ r.uid = IF a.uidLine THEN d.uid ELSE None
<1> DEFINE uid == IF a.uidLine THEN d.uid ELSE None
<1>1. ParseProto(a) = [format |-> "Protobuf", process |-> NativeName(a), pid |-> d.pid,
                       class |-> d.class, uid |-> d.uid, frames |-> NativeFrames(d)]
  BY DEF ParseProto
<1>2. ParseText(a) = [format |-> "Text", process |-> NativeName(a), pid |-> d.pid,
                      class |-> d.class, uid |-> uid, frames |-> TextFrames(d)]
  BY DEF ParseText
<1>3. NativeName(a) \in Process /\ d.uid \in Nat /\ d.pid \in Nat /\ d.class \in Class
      /\ uid \in Nat \cup {None} /\ uid \in {None, d.uid}
  BY DeathAssumption DEF NativeName, IsDeath
<1>4. NativeFrames(d) \in Seq(Frame) /\ TextFrames(d) \in Seq(Frame)
  BY FramesOfDeath
<1> HIDE DEF uid
<1>5. CASE r = ParseProto(a)
  <2>1. r \in TombstoneReport
    BY <1>1, <1>3, <1>4, <1>5 DEF TombstoneReport
  <2>2. r # None
    BY <2>1, NoRecordAssumption
  <2>3. r.format = "Protobuf" /\ r # ParseText(a)
    BY <1>1, <1>2, <1>5
  <2>4. QED
    BY <1>1, <1>3, <1>5, <2>1, <2>2, <2>3
<1>6. CASE r = ParseText(a)
  <2>1. r \in TombstoneReport
    BY <1>2, <1>3, <1>4, <1>6 DEF TombstoneReport
  <2>2. r # None
    BY <2>1, NoRecordAssumption
  <2>3. r.format = "Text" /\ r # ParseProto(a)
    BY <1>1, <1>2, <1>6
  <2>4. QED
    BY <1>2, <1>3, <1>6, <2>1, <2>2, <2>3 DEF uid
<1>7. QED
  BY <1>5, <1>6

LEMMA CrashesRead ==
    ASSUME NEW i \in Nat, NEW d, IsDeath(d), d.kind = "Java", NEW odd,
           NEW a \in CrashEntries(i, d, odd)
    PROVE  Reads(FragmentFromCrash(a), a, i, d)
<1>1. PICK ok \in BOOLEAN : a = CrashEntry(i, d, ok)
  BY DEF CrashEntries, Either
<1>2. a.source = "CRASH_BUFFER" /\ a.death = i /\ a.d = d /\ a.intact = ok
  BY <1>1 DEF CrashEntry
<1>3. CASE ~ok
  BY <1>2, <1>3 DEF FragmentFromCrash, ParseCrashBuffer, Reads, Legible
<1>4. CASE ok
  <2>1. PICK r : /\ r = ParseCrashBuffer(a.d, a.intact)
                 /\ r = [process |-> d.process, pid |-> d.pid, class |-> d.class,
                         frames |-> Normalized(d)]
    BY <1>2, <1>4 DEF ParseCrashBuffer
  <2>2. r \in CrashBufferReport /\ r # None /\ r.process = d.process /\ r.pid = d.pid
    BY <2>1, CrashBufferParsed
  <2> DEFINE f == NewFragment(a, Text, "Java", r.process, r.pid)
  <2>3. PICK m : m = FragmentFromCrash(a) /\ m = ApplyJavaReport(f, r)
    BY <2>1, <2>2 DEF FragmentFromCrash
  <2>4. m = [source |-> "CRASH_BUFFER", quality |-> Text, kind |-> "Java", process |-> d.process,
             user |-> None, pid |-> d.pid, at |-> 1, payload |-> "present", file |-> None,
             class |-> r.class, frames |-> r.frames, death |-> i, told |-> {}]
    <3>1. f = [source |-> "CRASH_BUFFER", quality |-> Text, kind |-> "Java",
               process |-> d.process, user |-> None, pid |-> d.pid, at |-> 1,
               payload |-> "absent", file |-> None, class |-> None, frames |-> <<>>,
               death |-> i, told |-> {}]
      BY <1>2, <2>2 DEF NewFragment
    <3> HIDE DEF f
    <3>2. QED
      BY <2>2, <2>3, <3>1, ZenonT(60) DEF ApplyJavaReport
  <2>5. d.pid \in Nat /\ d.process \in Process /\ d.pid # 0
    BY FieldsOfDeath
  <2>6. r.class \in Class /\ r.frames \in Seq(Frame)
    BY <2>2 DEF CrashBufferReport
  <2>7. "CRASH_BUFFER" \in Source /\ Text \in Quality /\ "present" \in PayloadState /\ "Java" \in Kind
    BY Ranks DEF Kind
  <2>8. m \in CrashFragment
    BY <2>4, <2>5, <2>6, <2>7 DEF CrashFragment
  <2>9. m.source = "CRASH_BUFFER" /\ m.death = i /\ m.at = 1 /\ m.pid = d.pid /\ TrueOf(m, d)
    BY <2>4 DEF TrueOf
  <2>10. "user" \notin Tells(a)
    BY <1>2 DEF Tells
  <2>11. MadeOf(m, a, i, d)
    BY <1>2, <2>5, <2>8, <2>9, <2>10 DEF MadeOf
  <2>12. QED
    BY <2>3, <2>8, <2>11, IsFragment DEF Reads
<1>5. QED
  BY <1>3, <1>4

LEMMA DumpsRead ==
    ASSUME NEW i \in Nat, NEW d, IsDeath(d), d.kind = "Anr", NEW odd,
           NEW a \in AnrDumps(i, d, odd)
    PROVE  Reads(AnrFragment(a), a, i, d)
<1>1. PICK text \in {"blank", "damaged", "channels", "whole"} : a = AnrDump(i, d, text)
  BY DEF AnrDumps, Either
<1>2. a.source = "ANR_FILE" /\ a.death = i /\ a.d = d /\ a.text = text /\ a.path \in AnrFile
  BY <1>1, DeathAssumption DEF AnrDump
<1>3. CASE text \notin {"channels", "whole"}
  BY <1>2, <1>3 DEF AnrFragment, ParseAnr, Reads, Legible
<1>4. CASE text \in {"channels", "whole"}
  <2>1. PICK r : r = ParseAnr(d, text)
    OBVIOUS
  <2>2. r \in AnrReport /\ r # None /\ r.process = d.process /\ r.pid = d.pid
    BY <1>4, <2>1, AnrParsed
  <2>3. PICK m : /\ m = AnrFragment(a)
                 /\ m = [NewFragment(a, Artifact, "Anr", r.process, r.pid)
                            EXCEPT !.file = a.path, !.class = "ANR", !.payload = "present",
                                   !.frames = r.frames]
    BY <1>2, <2>1, <2>2 DEF AnrFragment
  <2>4. m = [source |-> "ANR_FILE", quality |-> Artifact, kind |-> "Anr", process |-> d.process,
             user |-> None, pid |-> d.pid, at |-> 1, payload |-> "present", file |-> a.path,
             class |-> "ANR", frames |-> r.frames, death |-> i, told |-> {}]
    BY <1>2, <2>2, <2>3, ZenonT(60) DEF NewFragment
  <2>5. d.pid \in Nat /\ d.process \in Process /\ d.pid # 0
    BY FieldsOfDeath
  <2>6. r.frames \in Seq(Frame)
    BY <2>2 DEF AnrReport
  <2>7. "ANR_FILE" \in Source /\ Artifact \in Quality /\ "present" \in PayloadState /\ "Anr" \in Kind
    BY Ranks DEF Kind
  <2>8. m \in CrashFragment
    BY <1>2, <2>4, <2>5, <2>6, <2>7 DEF CrashFragment
  <2>9. m.source = "ANR_FILE" /\ m.death = i /\ m.at = 1 /\ m.pid = d.pid /\ TrueOf(m, d)
    BY <2>4 DEF TrueOf
  <2>10. "user" \notin Tells(a)
    BY <1>2 DEF Tells
  <2>11. MadeOf(m, a, i, d)
    BY <1>2, <2>5, <2>8, <2>9, <2>10 DEF MadeOf
  <2>12. QED
    BY <2>3, <2>8, <2>11, IsFragment DEF Reads
<1>5. QED
  BY <1>3, <1>4

LEMMA TombstonesRead ==
    ASSUME NEW i \in Nat, NEW d, IsDeath(d), d.kind = "Native", NEW odd,
           NEW a \in Tombstones(i, d, odd)
    PROVE  Reads(TombstoneFragment(a), a, i, d)
<1>1. PICK pb, text, line, named :
        /\ a = TombstonePair(i, d, pb, text, line, named)
        /\ line \in BOOLEAN /\ named \in BOOLEAN
        /\ pb \in {"absent", "blank", "damaged", "whole"} /\ text \in {"blank", "damaged", "whole"}
  BY TombstonesAre
<1>2. /\ a.source = "TOMBSTONE" /\ a.death = i /\ a.d = d /\ a.pb = pb /\ a.text = text
      /\ a.uidLine = line /\ a.named = named
  BY <1>1 DEF TombstonePair
<1>3. CASE PreferredHalf(a) = "blank" \/ "whole" \notin {pb, text}
  <2>1. ~Legible(a) \/ Blank(a)
    BY <1>2, <1>3 DEF Legible, Blank
  <2>2. PreferredHalf(a) # "blank" => ReadTombstoneReport(a) = None
    BY <1>2, <1>3 DEF ReadTombstoneReport
  <2>3. TombstoneFragment(a) = None
    BY <2>2 DEF TombstoneFragment
  <2>4. QED
    BY <2>1, <2>3 DEF Reads
<1>4. CASE PreferredHalf(a) # "blank" /\ "whole" \in {pb, text}
  <2>1. PICK r : r = ReadTombstoneReport(a)
    OBVIOUS
  <2>2. (pb = "whole" /\ r = ParseProto(a)) \/ (pb # "whole" /\ r = ParseText(a))
    BY <1>2, <1>4, <2>1 DEF ReadTombstoneReport
  <2>3. /\ r \in TombstoneReport /\ r # None /\ r.process = NativeName(a) /\ r.pid = d.pid
        /\ r.uid \in {None, d.uid} /\ (pb = "whole" \/ line => r.uid = d.uid)
    BY <1>1, <1>2, <2>2, TombstoneParsed
  <2> DEFINE q == IF r.format = "Protobuf" THEN Protobuf ELSE Artifact
             u == AndroidUserId(r.uid)
  <2>4. PICK f : f = ApplyNativeReport(NewFragment(a, q, "Native", r.process, r.pid), r)
    OBVIOUS
  <2>5. PICK m : m = TombstoneFragment(a) /\ m = [f EXCEPT !.payload = "present"]
    BY <1>4, <2>1, <2>3, <2>4 DEF TombstoneFragment
  <2>6. q \in Quality
    BY Ranks
  <2>7. u \in {None, UserOf(d)} /\ u \in Nat \cup {None} /\ (r.uid = d.uid => u = UserOf(d))
    BY <2>3, UserNamed, UserOfDeath
  <2> HIDE DEF q, u
  <2>8. f = [source |-> "TOMBSTONE", quality |-> q, kind |-> "Native", process |-> r.process,
             user |-> u, pid |-> r.pid, at |-> 1, payload |-> "absent", file |-> None,
             class |-> r.class, frames |-> r.frames, death |-> i, told |-> {}]
    BY <1>2, <2>4 DEF NewFragment, ApplyNativeReport, u
  <2>9. m = [source |-> "TOMBSTONE", quality |-> q, kind |-> "Native", process |-> r.process,
             user |-> u, pid |-> d.pid, at |-> 1, payload |-> "present", file |-> None,
             class |-> r.class, frames |-> r.frames, death |-> i, told |-> {}]
    BY <2>3, <2>5, <2>8
  <2>10. d.pid \in Nat /\ d.pid # 0 /\ r.process \in Process /\ r.class \in Class
         /\ r.frames \in Seq(Frame)
    BY <2>3, FieldsOfDeath DEF TombstoneReport
  <2>11. "TOMBSTONE" \in Source /\ "present" \in PayloadState /\ "Native" \in Kind
    BY Ranks DEF Kind
  <2>12. m \in CrashFragment
    BY <2>6, <2>7, <2>9, <2>10, <2>11 DEF CrashFragment
  <2>13. /\ m.source = "TOMBSTONE" /\ m.death = i /\ m.at = 1 /\ m.pid = d.pid /\ m.user = u
         /\ m.kind = "Native" /\ m.process = r.process
    BY <2>9
  <2>14. "process" \in Tells(a) => named
    BY <1>2 DEF Tells
  <2>15. "user" \in Tells(a) => pb = "whole" \/ line
    BY <1>2 DEF Tells
  <2>16. "process" \in Tells(a) => TrueOf(m, d)
    <3>1. named => r.process = d.process
      BY <1>2, <2>3 DEF NativeName
    <3>2. QED
      BY <2>7, <2>13, <2>14, <3>1 DEF TrueOf
  <2>17. "user" \in Tells(a) => m.user # None
    BY <2>3, <2>7, <2>13, <2>15, UserOfDeath
  <2>18. MadeOf(m, a, i, d)
    BY <1>2, <2>10, <2>12, <2>13, <2>16, <2>17 DEF MadeOf
  <2>19. QED
    BY <2>5, <2>12, <2>18, IsFragment DEF Reads
<1>5. QED
  BY <1>3, <1>4

-----------------------------------------------------------------------------
(* DropBox entries.                                                        *)

LEMMA Tests ==
    /\ DOMAIN KindTests = 1 .. 9
    /\ KindTests[1] = <<"native_recoverable_crash", "Native">>
    /\ KindTests[2] = <<"native_crash", "Native">>
    /\ KindTests[3] = <<"SYSTEM_TOMBSTONE", "Native">>
    /\ KindTests[4] = <<"_crash", "Java">>
    /\ KindTests[5] = <<"_anr", "Anr">>
    /\ KindTests[6] = <<"_wtf", "Wtf">>
    /\ KindTests[7] = <<"_strictmode", "Java">>
    /\ KindTests[8] = <<"_lowmem", "Anr">>
    /\ KindTests[9] = <<"_watchdog", "Anr">>
  BY DEF KindTests

\* The first test that a tag passes names its kind.
LEMMA FirstHit ==
    ASSUME NEW tag, NEW n \in 1 .. 9, KindTests[n][1] \in tag,
           \A k \in 1 .. 9 : KindTests[k][1] \in tag => n <= k
    PROVE  KindFromTag(tag) = KindTests[n][2]
<1> DEFINE hits == {k \in DOMAIN KindTests : KindTests[k][1] \in tag}
<1>1. hits = {k \in 1 .. 9 : KindTests[k][1] \in tag}
  BY Tests
<1>2. n \in hits /\ \A k \in hits : n <= k
  BY <1>1
<1>3. KindFromTag(tag) = KindTests[Min(hits)][2]
  BY <1>2 DEF KindFromTag
<1>4. \A k \in hits : k \in Int
  BY <1>1
<1> HIDE DEF hits
<1>5. Min(hits) \in hits /\ \A k \in hits : Min(hits) <= k
  BY <1>2 DEF Min
<1>6. Min(hits) = n
  <2>1. PICK m : m = Min(hits)
    OBVIOUS
  <2>2. m \in Int /\ m <= n /\ n <= m
    BY <1>2, <1>4, <1>5, <2>1
  <2>3. QED
    BY <2>1, <2>2
<1>7. QED
  BY <1>3, <1>6

LEMMA KindOfTag ==
    ASSUME NEW kind \in Kind, NEW tag \in Tags(kind)
    PROVE  KindFromTag(tag) = IF tag = {} THEN None ELSE kind
<1>1. CASE kind = "Java"
  <2>1. tag = {"_crash"}
    BY <1>1 DEF Tags
  <2>2. KindFromTag(tag) = KindTests[4][2]
    <3>1. KindTests[4][1] \in tag /\ \A k \in 1 .. 9 : KindTests[k][1] \in tag => 4 <= k
      BY <2>1, Tests
    <3>2. QED
      BY <3>1, FirstHit
  <2>3. QED
    BY <1>1, <2>1, <2>2, Tests
<1>2. CASE kind = "Anr"
  <2>1. tag = {"_anr"}
    BY <1>2 DEF Tags
  <2>2. KindFromTag(tag) = KindTests[5][2]
    <3>1. KindTests[5][1] \in tag /\ \A k \in 1 .. 9 : KindTests[k][1] \in tag => 5 <= k
      BY <2>1, Tests
    <3>2. QED
      BY <3>1, FirstHit
  <2>3. QED
    BY <1>2, <2>1, <2>2, Tests
<1>3. CASE kind = "Wtf"
  <2>1. CASE tag = {"_wtf"}
    <3>1. KindTests[6][1] \in tag /\ \A k \in 1 .. 9 : KindTests[k][1] \in tag => 6 <= k
      BY <2>1, Tests
    <3>2. KindFromTag(tag) = KindTests[6][2]
      BY <3>1, FirstHit
    <3>3. QED
      BY <1>3, <2>1, <3>2, Tests
  <2>2. CASE tag = {}
    BY <2>2 DEF KindFromTag
  <2>3. QED
    BY <1>3, <2>1, <2>2 DEF Tags
<1>4. CASE kind = "Native"
  <2>1. CASE tag = {"native_crash", "_crash"}
    <3>1. KindTests[2][1] \in tag /\ \A k \in 1 .. 9 : KindTests[k][1] \in tag => 2 <= k
      BY <2>1, Tests
    <3>2. KindFromTag(tag) = KindTests[2][2]
      BY <3>1, FirstHit
    <3>3. QED
      BY <1>4, <2>1, <3>2, Tests
  <2>2. CASE tag = {"SYSTEM_TOMBSTONE"}
    <3>1. KindTests[3][1] \in tag /\ \A k \in 1 .. 9 : KindTests[k][1] \in tag => 3 <= k
      BY <2>2, Tests
    <3>2. KindFromTag(tag) = KindTests[3][2]
      BY <3>1, FirstHit
    <3>3. QED
      BY <1>4, <2>2, <3>2, Tests
  <2>3. CASE tag = {"native_recoverable_crash", "_crash"}
    <3>1. KindTests[1][1] \in tag /\ \A k \in 1 .. 9 : KindTests[k][1] \in tag => 1 <= k
      BY <2>3, Tests
    <3>2. KindFromTag(tag) = KindTests[1][2]
      BY <3>1, FirstHit
    <3>3. QED
      BY <1>4, <2>3, <3>2, Tests
  <2>4. QED
    BY <1>4, <2>1, <2>2, <2>3 DEF Tags
<1>5. QED
  BY <1>1, <1>2, <1>3, <1>4 DEF Kind

\* A current build writes a tag that names the kind.
LEMMA UsualTag ==
    ASSUME NEW kind \in Kind, NEW tag, tag = CHOOSE t \in Tags(kind) : t # {}
    PROVE  tag \in Tags(kind)
<1>1. \E t \in Tags(kind) : t # {}
  <2>1. CASE kind = "Java"
    <3>1. {"_crash"} \in Tags(kind)
      BY <2>1 DEF Tags
    <3>2. QED
      BY <3>1
  <2>2. CASE kind = "Anr"
    <3>1. {"_anr"} \in Tags(kind)
      BY <2>2 DEF Tags
    <3>2. QED
      BY <3>1
  <2>3. CASE kind = "Wtf"
    <3>1. {"_wtf"} \in Tags(kind)
      BY <2>3 DEF Tags
    <3>2. QED
      BY <3>1
  <2>4. CASE kind = "Native"
    <3>1. {"SYSTEM_TOMBSTONE"} \in Tags(kind)
      BY <2>4 DEF Tags
    <3>2. QED
      BY <3>1
  <2>5. QED
    BY <2>1, <2>2, <2>3, <2>4 DEF Kind
<1>2. QED
  BY <1>1

\* The fragment of a DropBox entry, with what the headers and the body give it.
EntryMade(i, d, process, user, pid, class, frames) ==
    [source |-> "DROPBOX", quality |-> Structured, kind |-> d.kind, process |-> process,
     user |-> user, pid |-> pid, at |-> 1, payload |-> "present", file |-> None,
     class |-> class, frames |-> frames, death |-> i, told |-> {}]

EntryFields(m, i, d) ==
    m \in CrashFragment /\ m.source = "DROPBOX" /\ m.death = i /\ m.at = 1 /\ m.kind = d.kind

LEMMA EntryIsFragment ==
    ASSUME NEW i \in Nat, NEW d, IsDeath(d), NEW process \in Process,
           NEW user \in {None, UserOf(d)}, NEW pid \in Nat,
           NEW class \in Class \cup {"ANR", None}, NEW frames \in Seq(Frame)
    PROVE  /\ EntryFields(EntryMade(i, d, process, user, pid, class, frames), i, d)
           /\ EntryMade(i, d, process, user, pid, class, frames).process = process
           /\ EntryMade(i, d, process, user, pid, class, frames).user = user
           /\ EntryMade(i, d, process, user, pid, class, frames).pid = pid
<1>1. PICK m : m = EntryMade(i, d, process, user, pid, class, frames)
  OBVIOUS
<1>2. m = [source |-> "DROPBOX", quality |-> Structured, kind |-> d.kind, process |-> process,
           user |-> user, pid |-> pid, at |-> 1, payload |-> "present", file |-> None,
           class |-> class, frames |-> frames, death |-> i, told |-> {}]
  BY <1>1 DEF EntryMade
<1>3. d.kind \in Kind /\ user \in Nat \cup {None}
  BY FieldsOfDeath, UserOfDeath
<1>4. "DROPBOX" \in Source /\ Structured \in Quality /\ "present" \in PayloadState
  BY Ranks
<1>5. m \in CrashFragment
  <2>1. class \in Class \cup {"Native crash", "ANR", None} /\ process \in Process /\ pid \in Nat
        /\ frames \in Seq(Frame) /\ i \in Nat
    OBVIOUS
  <2>2. QED
    BY ONLY <1>2, <1>3, <1>4, <2>1 DEF CrashFragment
<1>6. QED
  BY <1>1, <1>2, <1>5 DEF EntryFields

\* A body that parses overrides the headers.
LEMMA ReportMade ==
    ASSUME NEW i, NEW d, IsDeath(d), NEW a, a.source = "DROPBOX", a.d = d, HasReport(a),
           NEW m, EntryFields(m, i, d),
           m.process = d.process, m.pid = d.pid, m.user \in {None, UserOf(d)},
           a.uid # None \/ (d.kind = "Native" /\ a.uidLine) => m.user = UserOf(d)
    PROVE  Reads(m, a, i, d)
<1>1. d.pid # 0
  BY FieldsOfDeath
<1>2. m \in CrashFragment /\ m.source = "DROPBOX" /\ m.death = i /\ m.at = 1 /\ m.kind = d.kind
  BY DEF EntryFields
<1>3. TrueOf(m, d)
  BY <1>2 DEF TrueOf
<1>4. "user" \in Tells(a) => m.user # None
  <2>1. "user" \in Tells(a) => a.uid # None \/ (d.kind = "Native" /\ a.uidLine)
    BY DEF Tells
  <2>2. QED
    BY <2>1, UserOfDeath
<1>5. MadeOf(m, a, i, d)
  BY <1>1, <1>2, <1>3, <1>4 DEF MadeOf
<1>6. QED
  BY <1>2, <1>5, IsFragment DEF Reads

\* Headers that tell the process tell nothing wrong.
LEMMA HeadersMade ==
    ASSUME NEW i, NEW d, IsDeath(d), NEW a, a.source = "DROPBOX", a.d = d, ~HasReport(a),
           NEW m, EntryFields(m, i, d),
           d.process \in {a.process, a.package} => m.process = d.process,
           m.pid = IF a.pid = None THEN 0 ELSE a.pid,
           m.user = AndroidUserId(a.uid), a.uid \in {None, d.uid}
    PROVE  Reads(m, a, i, d)
<1>1. d.pid # 0
  BY FieldsOfDeath
<1>2. m.user \in {None, UserOf(d)} /\ (a.uid # None => m.user # None)
  BY UserNamed, UserOfDeath
<1>3. m \in CrashFragment /\ m.source = "DROPBOX" /\ m.death = i /\ m.at = 1 /\ m.kind = d.kind
  BY DEF EntryFields
<1>4. "process" \in Tells(a) => a.pid \in {d.pid, None} /\ d.process \in {a.process, a.package}
  BY DEF Tells
<1>5. "process" \in Tells(a) => TrueOf(m, d)
  BY <1>2, <1>3, <1>4 DEF TrueOf
<1>6. "process" \in Tells(a) /\ "pid" \in Tells(a) => m.pid # 0
  <2>1. "pid" \in Tells(a) => a.pid # None
    BY DEF Tells
  <2>2. QED
    BY <1>1, <1>4, <2>1
<1>7. "user" \in Tells(a) => m.user # None
  <2>1. "user" \in Tells(a) => a.uid # None
    BY DEF Tells
  <2>2. QED
    BY <1>2, <2>1
<1>8. MadeOf(m, a, i, d)
  BY <1>3, <1>5, <1>6, <1>7 DEF MadeOf
<1>9. QED
  BY <1>3, <1>8, IsFragment DEF Reads

LEMMA DropboxRead ==
    ASSUME NEW i \in Nat, NEW d, IsDeath(d), NEW odd, NEW a \in DropboxEntries(i, d, odd)
    PROVE  Reads(DropboxFragment(a), a, i, d)
<1>1. PICK tag, ok, names, pid, uid, line, body :
        /\ a = DropboxFile(i, d, tag, ok, names, pid, uid, line, body)
        /\ tag \in Tags(d.kind) \/ tag = CHOOSE t \in Tags(d.kind) : t # {}
        /\ ok \in BOOLEAN /\ line \in BOOLEAN
        /\ \/ names = <<None, PackageOf[d.process]>> \/ names = <<None, None>>
           \/ names = <<d.process, PackageOf[d.process]>>
        /\ pid \in {None, SystemServer, d.pid} /\ uid \in {None, d.uid}
        /\ body \in {"report", "other"}
  BY EntriesAre
<1>2. /\ a.source = "DROPBOX" /\ a.death = i /\ a.d = d /\ a.tag = tag /\ a.intact = ok
      /\ a.process = names[1] /\ a.package = names[2] /\ a.pid = pid /\ a.uid = uid
      /\ a.body = body /\ a.uidLine = line /\ a.named = TRUE
  BY <1>1 DEF DropboxFile
<1>3. PackageOf[d.process] \in Process /\ d.process \in Process /\ d.kind \in Kind
      /\ d.process # None /\ PackageOf[d.process] # None
  BY NoRecordAssumption DEF IsDeath
<1>4. tag \in Tags(d.kind)
  BY <1>1, <1>3, UsualTag
<1>5. KindFromTag(tag) = IF tag = {} THEN None ELSE d.kind
  BY <1>3, <1>4, KindOfTag
<1> DEFINE e == ParseEntry(a)
           process == IF a.process # None THEN a.process ELSE a.package
<1>6. ~a.intact => e = None /\ ~Legible(a)
  BY <1>2 DEF ParseEntry, Legible
<1>7. a.intact =>
        e = [kind |-> KindFromTag(tag), process |-> a.process, pid |-> pid, uid |-> uid,
             package |-> a.package]
  <2>1. a.package = None => a.process = None
    <3>1. names[2] = None => names[1] = None
      BY <1>1, <1>3
    <3>2. QED
      BY <1>2, <3>1
  <2>2. QED
    BY <1>2, <2>1 DEF ParseEntry
<1>8. a.process \in Process \cup {None} /\ a.package \in Process \cup {None}
      /\ (d.process \in {a.process, a.package} => process = d.process)
  BY <1>1, <1>2, <1>3
<1>9. a.intact => /\ e # None /\ e.kind = KindFromTag(tag) /\ e.process = a.process
                  /\ e.pid = pid /\ e.uid = uid /\ e.package = a.package
  <2>1. KindFromTag(tag) \in Kind \cup {None}
    BY <1>3, <1>5
  <2>2. pid \in Nat \cup {None} /\ uid \in Nat \cup {None}
    BY <1>1, FieldsOfDeath, DeathAssumption
  <2> HIDE DEF e
  <2>3. a.intact => e \in DropboxEntry
    BY <1>7, <1>8, <2>1, <2>2 DEF DropboxEntry
  <2>4. a.intact => e # None
    BY <2>3, NoRecordAssumption
  <2>5. QED
    BY <1>7, <2>4
<1>10. CASE ~a.intact \/ tag = {} \/ process = None
  <2>1. DropboxFragment(a) = None
    BY <1>5, <1>6, <1>9, <1>10 DEF DropboxFragment
  <2>2. ~Legible(a)
    BY <1>2, <1>6, <1>10 DEF Legible
  <2>3. QED
    BY <2>1, <2>2 DEF Reads
<1>11. CASE a.intact /\ tag # {} /\ process # None
  <2> DEFINE bpid == IF a.pid = None THEN 0 ELSE a.pid
             user == AndroidUserId(a.uid)
             new  == NewFragment(a, Structured, d.kind, process, bpid)
             base == [new EXCEPT !.user = user, !.payload = "present"]
             parsed == a.body = "report"
             java == ParseCrashBuffer(d, parsed)
             anr  == ParseAnr(d, IF parsed THEN "whole" ELSE "damaged")
  <2>1. process \in Process
    BY <1>8, <1>11
  <2>2. e.kind = d.kind /\ e # None /\ d.kind # None
    BY <1>3, <1>5, <1>9, <1>11, NoRecordAssumption
  <2>3. DropboxFragment(a) =
          CASE d.kind = "Java" ->
                 IF java # None THEN ApplyJavaReport(base, java)
                 ELSE [base EXCEPT !.frames = AtLines(d), !.class = d.class]
            [] d.kind = "Anr" ->
                 IF anr # None
                 THEN [base EXCEPT !.process = anr.process, !.pid = anr.pid,
                          !.class = "ANR", !.frames = anr.frames]
                 ELSE [base EXCEPT !.class = "ANR"]
            [] d.kind = "Native" ->
                 IF parsed THEN ApplyNativeReport(base, ParseText(a)) ELSE base
            [] d.kind = "Wtf" -> [base EXCEPT !.frames = AtLines(d)]
    BY <1>2, <1>9, <1>11, <2>2, ZenonT(60) DEF DropboxFragment
  <2>4. base = EntryMade(i, d, process, user, bpid, None, <<>>)
    <3>1. new = [source |-> "DROPBOX", quality |-> Structured, kind |-> d.kind,
                 process |-> process, user |-> None, pid |-> bpid, at |-> 1,
                 payload |-> "absent", file |-> None, class |-> None, frames |-> <<>>,
                 death |-> i, told |-> {}]
      BY <1>2 DEF NewFragment
    <3>2. PICK b : b = base
      OBVIOUS
    <3> HIDE DEF new, process, bpid, user
    <3>3. b = [source |-> "DROPBOX", quality |-> Structured, kind |-> d.kind,
               process |-> process, user |-> user, pid |-> bpid, at |-> 1,
               payload |-> "present", file |-> None, class |-> None, frames |-> <<>>,
               death |-> i, told |-> {}]
      BY <3>1, <3>2
    <3>4. QED
      BY <3>2, <3>3 DEF EntryMade
  <2>5. user \in {None, UserOf(d)} /\ (uid # None => user = UserOf(d))
    BY <1>1, <1>2, UserNamed
  <2>6. /\ AtLines(d) \in Seq(Frame) /\ <<>> \in Seq(Frame) /\ d.class \in Class
        /\ Normalized(d) \in Seq(Frame)
    BY FramesOfDeath, FieldsOfDeath
  <2> HIDE DEF base, user, bpid, process, new
  \* A body that does not parse leaves the headers' identity.
  <2>7. ASSUME ~HasReport(a), NEW class \in Class \cup {"ANR", None}, NEW frames \in Seq(Frame),
               DropboxFragment(a) = EntryMade(i, d, process, user, bpid, class, frames)
        PROVE  Reads(DropboxFragment(a), a, i, d)
    <3>1. bpid \in Nat
      BY <1>1, <1>2, FieldsOfDeath, DeathAssumption, ZenonT(60) DEF bpid
    <3>2. PICK m : m = DropboxFragment(a)
      OBVIOUS
    <3>3. EntryFields(m, i, d) /\ m.process = process /\ m.user = user /\ m.pid = bpid
      <4>1. PICK pr \in Process, us \in {None, UserOf(d)}, n \in Nat :
              pr = process /\ us = user /\ n = bpid
        BY <2>1, <2>5, <3>1
      <4>2. m = EntryMade(i, d, pr, us, n, class, frames)
        BY <2>7, <3>2, <4>1
      <4>3. QED
        BY <4>1, <4>2, EntryIsFragment
    <3>4. /\ m.pid = (IF a.pid = None THEN 0 ELSE a.pid) /\ m.user = AndroidUserId(a.uid)
          /\ a.uid \in {None, d.uid} /\ (d.process \in {a.process, a.package} => m.process = d.process)
      BY <1>1, <1>2, <1>8, <3>3 DEF bpid, user
    <3>5. QED
      BY <1>2, <2>7, <3>2, <3>3, <3>4, HeadersMade
  \* A body that does replaces it.
  <2>8. ASSUME HasReport(a), NEW u \in {None, UserOf(d)},
               a.uid # None \/ (d.kind = "Native" /\ a.uidLine) => u = UserOf(d),
               NEW class \in Class \cup {"ANR", None}, NEW frames \in Seq(Frame),
               DropboxFragment(a) = EntryMade(i, d, d.process, u, d.pid, class, frames)
        PROVE  Reads(DropboxFragment(a), a, i, d)
    <3>1. d.process \in Process /\ d.pid \in Nat
      BY FieldsOfDeath
    <3>2. PICK m : m = DropboxFragment(a)
      OBVIOUS
    <3>3. EntryFields(m, i, d) /\ m.process = d.process /\ m.user = u /\ m.pid = d.pid
      BY <2>8, <3>1, <3>2, EntryIsFragment
    <3>4. QED
      BY <1>2, <2>8, <3>2, <3>3, ReportMade
  <2>9. PICK b : b = base
    OBVIOUS
  <2>10. b = [source |-> "DROPBOX", quality |-> Structured, kind |-> d.kind, process |-> process,
              user |-> user, pid |-> bpid, at |-> 1, payload |-> "present", file |-> None,
              class |-> None, frames |-> <<>>, death |-> i, told |-> {}]
    BY <2>4, <2>9 DEF EntryMade
  <2>11. HasReport(a) <=> parsed /\ d.kind # "Wtf"
    BY <1>2 DEF HasReport
  <2>12. CASE d.kind = "Java" /\ parsed
    <3>1. PICK r : /\ r = java
                   /\ r = [process |-> d.process, pid |-> d.pid, class |-> d.class,
                           frames |-> Normalized(d)]
      BY <2>12 DEF ParseCrashBuffer
    <3>2. r # None
      BY <3>1, CrashBufferParsed
    <3>3. PICK m : m = DropboxFragment(a) /\ m = ApplyJavaReport(b, r)
      BY <2>3, <2>9, <2>12, <3>1, <3>2
    <3>4. m = [source |-> "DROPBOX", quality |-> Structured, kind |-> d.kind, process |-> d.process,
               user |-> user, pid |-> d.pid, at |-> 1, payload |-> "present", file |-> None,
               class |-> d.class, frames |-> Normalized(d), death |-> i, told |-> {}]
      <4>1. /\ r.process = d.process /\ r.pid = d.pid /\ r.class = d.class
            /\ r.frames = Normalized(d)
        BY <3>1
      <4>2. m = [b EXCEPT !.process = d.process, !.pid = d.pid, !.class = d.class,
                          !.frames = Normalized(d), !.payload = "present"]
        BY <3>3, <4>1 DEF ApplyJavaReport
      <4>3. QED
        BY ONLY <2>10, <4>2
    <3>5. DropboxFragment(a) = EntryMade(i, d, d.process, user, d.pid, d.class, Normalized(d))
      BY <3>3, <3>4 DEF EntryMade
    <3>6. a.uid # None \/ (d.kind = "Native" /\ a.uidLine) => user = UserOf(d)
      BY <1>2, <2>5, <2>12
    <3>7. QED
      BY <2>5, <2>6, <2>8, <2>11, <2>12, <3>5, <3>6
  <2>13. CASE d.kind = "Java" /\ ~parsed
    <3>1. java = None
      BY <2>13 DEF ParseCrashBuffer
    <3>2. PICK m : m = DropboxFragment(a) /\ m = [b EXCEPT !.frames = AtLines(d), !.class = d.class]
      BY <2>3, <2>9, <2>13, <3>1
    <3>3. m = [source |-> "DROPBOX", quality |-> Structured, kind |-> d.kind, process |-> process,
               user |-> user, pid |-> bpid, at |-> 1, payload |-> "present", file |-> None,
               class |-> d.class, frames |-> AtLines(d), death |-> i, told |-> {}]
      BY ONLY <2>10, <3>2, ZenonT(60)
    <3>4. DropboxFragment(a) = EntryMade(i, d, process, user, bpid, d.class, AtLines(d))
      BY <3>2, <3>3 DEF EntryMade
    <3>5. QED
      BY <2>6, <2>7, <2>11, <2>13, <3>4
  <2>14. CASE d.kind = "Anr" /\ parsed
    <3>1. PICK r : r = anr /\ r = ParseAnr(d, "whole")
      BY <2>14
    <3>2. r \in AnrReport /\ r # None /\ r.process = d.process /\ r.pid = d.pid
      BY <3>1, AnrParsed
    <3>3. r.frames \in Seq(Frame)
      BY <3>2 DEF AnrReport
    <3>4. PICK m : /\ m = DropboxFragment(a)
                   /\ m = [b EXCEPT !.process = r.process, !.pid = r.pid, !.class = "ANR",
                                    !.frames = r.frames]
      BY <2>3, <2>9, <2>14, <3>1, <3>2
    <3>5. m = [source |-> "DROPBOX", quality |-> Structured, kind |-> d.kind, process |-> d.process,
               user |-> user, pid |-> d.pid, at |-> 1, payload |-> "present", file |-> None,
               class |-> "ANR", frames |-> r.frames, death |-> i, told |-> {}]
      BY ONLY <2>10, <3>2, <3>4, ZenonT(60)
    <3>6. DropboxFragment(a) = EntryMade(i, d, d.process, user, d.pid, "ANR", r.frames)
      BY <3>4, <3>5 DEF EntryMade
    <3>7. a.uid # None \/ (d.kind = "Native" /\ a.uidLine) => user = UserOf(d)
      BY <1>2, <2>5, <2>14
    <3>8. QED
      BY <2>5, <2>8, <2>11, <2>14, <3>3, <3>6, <3>7
  <2>15. CASE d.kind = "Anr" /\ ~parsed
    <3>1. anr = None
      BY <2>15 DEF ParseAnr
    <3>2. PICK m : m = DropboxFragment(a) /\ m = [b EXCEPT !.class = "ANR"]
      BY <2>3, <2>9, <2>15, <3>1
    <3>3. m = [source |-> "DROPBOX", quality |-> Structured, kind |-> d.kind, process |-> process,
               user |-> user, pid |-> bpid, at |-> 1, payload |-> "present", file |-> None,
               class |-> "ANR", frames |-> <<>>, death |-> i, told |-> {}]
      BY ONLY <2>10, <3>2
    <3>4. DropboxFragment(a) = EntryMade(i, d, process, user, bpid, "ANR", <<>>)
      BY <3>2, <3>3 DEF EntryMade
    <3>5. QED
      BY <2>6, <2>7, <2>11, <2>15, <3>4
  <2>16. CASE d.kind = "Native" /\ parsed
    <3>1. PICK r : r = ParseText(a)
      OBVIOUS
    <3>2. /\ r \in TombstoneReport /\ r.process = NativeName(a) /\ r.pid = d.pid
          /\ r.uid = IF a.uidLine THEN d.uid ELSE None
      BY <1>2, <3>1, TombstoneParsed, ZenonT(60)
    <3>3. r.process = d.process /\ r.class \in Class /\ r.frames \in Seq(Frame)
      BY <1>2, <3>2 DEF NativeName, TombstoneReport
    <3> DEFINE u == IF user = None THEN AndroidUserId(r.uid) ELSE user
    <3>4. /\ u \in {None, UserOf(d)}
          /\ a.uid # None \/ (d.kind = "Native" /\ a.uidLine) => u = UserOf(d)
      BY <1>2, <2>5, <3>2, UserNamed, UserOfDeath
    <3>5. PICK m : m = DropboxFragment(a) /\ m = ApplyNativeReport(b, r)
      BY <2>3, <2>9, <2>16, <3>1
    <3>6. m = [source |-> "DROPBOX", quality |-> Structured, kind |-> d.kind, process |-> d.process,
               user |-> u, pid |-> d.pid, at |-> 1, payload |-> "present", file |-> None,
               class |-> r.class, frames |-> r.frames, death |-> i, told |-> {}]
      <4>1. b.user = user
        BY <2>10
      <4>2. m = [b EXCEPT !.process = d.process, !.pid = d.pid, !.user = u,
                          !.class = r.class, !.frames = r.frames]
        BY <3>2, <3>3, <3>5, <4>1 DEF ApplyNativeReport
      <4> HIDE DEF u
      <4>3. QED
        BY ONLY <2>10, <4>2
    <3>7. DropboxFragment(a) = EntryMade(i, d, d.process, u, d.pid, r.class, r.frames)
      BY <3>5, <3>6 DEF EntryMade
    <3> HIDE DEF u
    <3>8. QED
      BY <2>8, <2>11, <2>16, <3>3, <3>4, <3>7
  <2>17. CASE d.kind = "Native" /\ ~parsed
    <3>1. DropboxFragment(a) = EntryMade(i, d, process, user, bpid, None, <<>>)
      BY <2>3, <2>4, <2>17
    <3>2. QED
      BY <2>6, <2>7, <2>11, <2>17, <3>1
  <2>18. CASE d.kind = "Wtf"
    <3>1. PICK m : m = DropboxFragment(a) /\ m = [b EXCEPT !.frames = AtLines(d)]
      BY <2>3, <2>9, <2>18
    <3>2. m = [source |-> "DROPBOX", quality |-> Structured, kind |-> d.kind, process |-> process,
               user |-> user, pid |-> bpid, at |-> 1, payload |-> "present", file |-> None,
               class |-> None, frames |-> AtLines(d), death |-> i, told |-> {}]
      BY ONLY <2>10, <3>1
    <3>3. DropboxFragment(a) = EntryMade(i, d, process, user, bpid, None, AtLines(d))
      BY <3>1, <3>2 DEF EntryMade
    <3>4. QED
      BY <2>6, <2>7, <2>11, <2>18, <3>3
  <2>19. QED
    BY <1>3, <2>12, <2>13, <2>14, <2>15, <2>16, <2>17, <2>18 DEF Kind
<1>12. QED
  BY <1>10, <1>11

-----------------------------------------------------------------------------
(* What the collectors send.                                               *)

LEMMA EvidenceRead ==
    ASSUME NEW i \in Nat, NEW d, IsDeath(d), NEW odd, NEW a \in Written(i, d, odd)
    PROVE  Reads(FragmentOf(a), a, i, d) /\ a.death = i
<1>1. CASE a \in EventEntries(i, d, odd)
  <2>1. a.source = "EVENTS" /\ a.death = i
    <3>1. PICK pair, loc, ok : a = Event(i, d, pair, loc, ok)
      BY <1>1, EventsAre
    <3>2. QED
      BY <3>1 DEF Event
  <2>2. FragmentOf(a) = FragmentFromActivity(a)
    BY <2>1 DEF FragmentOf
  <2>3. QED
    BY <1>1, <2>1, <2>2, EventsRead
<1>2. CASE a \in DropboxEntries(i, d, odd)
  <2>1. a.source = "DROPBOX" /\ a.death = i
    <3>1. PICK tag, ok, names, pid, uid, line, body :
            a = DropboxFile(i, d, tag, ok, names, pid, uid, line, body)
      BY <1>2, EntriesAre
    <3>2. QED
      BY <3>1 DEF DropboxFile
  <2>2. FragmentOf(a) = DropboxFragment(a)
    BY <2>1 DEF FragmentOf
  <2>3. QED
    BY <1>2, <2>1, <2>2, DropboxRead
<1>3. CASE d.kind = "Java" /\ a \in CrashEntries(i, d, odd)
  <2>1. a.source = "CRASH_BUFFER" /\ a.death = i
    <3>1. PICK ok \in BOOLEAN : a = CrashEntry(i, d, ok)
      BY <1>3 DEF CrashEntries, Either
    <3>2. QED
      BY <3>1 DEF CrashEntry
  <2>2. FragmentOf(a) = FragmentFromCrash(a)
    BY <2>1 DEF FragmentOf
  <2>3. QED
    BY <1>3, <2>1, <2>2, CrashesRead
<1>4. CASE d.kind = "Native" /\ a \in Tombstones(i, d, odd)
  <2>1. a.source = "TOMBSTONE" /\ a.death = i
    BY <1>4, TombstonesAre DEF TombstonePair
  <2>2. FragmentOf(a) = TombstoneFragment(a)
    BY <2>1 DEF FragmentOf
  <2>3. QED
    BY <1>4, <2>1, <2>2, TombstonesRead
<1>5. CASE d.kind = "Anr" /\ a \in AnrDumps(i, d, odd)
  <2>1. a.source = "ANR_FILE" /\ a.death = i
    BY <1>5 DEF AnrDumps, AnrDump
  <2>2. FragmentOf(a) = AnrFragment(a)
    BY <2>1 DEF FragmentOf
  <2>3. QED
    BY <1>5, <2>1, <2>2, DumpsRead
<1>6. d.kind \in Kind
  BY FieldsOfDeath
<1>7. QED
  BY <1>1, <1>2, <1>3, <1>4, <1>5, <1>6 DEF Written, Kind

LEMMA TellsOf ==
    ASSUME NEW a, a.source \in Source
    PROVE  Tells(a) \subseteq {"process", "pid", "user"}
  BY Ranks DEF Tells

\* What a collector sends of an artefact, as Read has it.
SentOf(a) ==
    IF FragmentOf(a) = None THEN None ELSE [FragmentOf(a) EXCEPT !.told = Tells(a)]

\* What is said of the fragment s that is sent of evidence from a source.
SentOK(s, source, i, d) ==
    /\ s \in CrashFragment /\ s # None
    /\ s.death = i /\ s.source = source /\ s.at = 1
    /\ "process" \in s.told => TrueOf(s, d) /\ SaysWhatItTells(s)

LEMMA EvidenceSent ==
    ASSUME NEW i \in Nat, NEW d, IsDeath(d), NEW odd, NEW a \in Written(i, d, odd)
    PROVE  /\ a.death = i
           /\ Legible(a) => SentOf(a) # None \/ Blank(a)
           /\ SentOf(a) # None => SentOK(SentOf(a), a.source, i, d)
<1>1. PICK m : m = FragmentOf(a)
  OBVIOUS
<1>2. Reads(m, a, i, d) /\ a.death = i
  BY <1>1, EvidenceRead
<1>3. CASE m = None
  <2>1. SentOf(a) = None /\ (Legible(a) => Blank(a))
    BY <1>1, <1>2, <1>3 DEF SentOf, Reads
  <2>2. QED
    BY <1>2, <2>1
<1>4. CASE m # None
  <2>1. MadeOf(m, a, i, d)
    BY <1>2, <1>4 DEF Reads
  <2>2. PICK s : s = SentOf(a) /\ s = [m EXCEPT !.told = Tells(a)]
    BY <1>1, <1>4 DEF SentOf
  <2>3. m \in CrashFragment /\ m.source = a.source
    BY <2>1 DEF MadeOf
  <2>4. Tells(a) \subseteq {"process", "pid", "user"}
    <3>1. a.source \in Source
      BY <2>3 DEF CrashFragment
    <3>2. QED
      BY <3>1, TellsOf
  <2>5. s \in CrashFragment
    BY <2>2, <2>3, <2>4 DEF CrashFragment
  <2>6. /\ s.source = m.source /\ s.death = m.death /\ s.at = m.at /\ s.told = Tells(a)
        /\ s.kind = m.kind /\ s.process = m.process /\ s.pid = m.pid /\ s.user = m.user
    BY <2>2, <2>3 DEF CrashFragment
  <2>7. s # None
    BY <2>5, IsFragment
  <2>8. s.death = i /\ s.source = a.source /\ s.at = 1
    BY <2>1, <2>6 DEF MadeOf
  <2>9. "process" \in s.told => TrueOf(s, d) /\ SaysWhatItTells(s)
    BY <2>1, <2>6 DEF MadeOf, TrueOf, SaysWhatItTells
  <2>10. SentOK(s, a.source, i, d)
    BY <2>5, <2>7, <2>8, <2>9 DEF SentOK
  <2>11. QED
    BY <1>2, <2>2, <2>7, <2>10
<1>5. QED
  BY <1>3, <1>4

-----------------------------------------------------------------------------
(* What the merger makes of it.  All evidence is of one time, so nothing   *)
(* falls due while it comes in.                                            *)

LEMMA Delay ==
    ASSUME NEW p PROVE CompletionDelay(p) \in Nat
  BY TimeAssumption DEF CompletionDelay

LEMMA NothingIsDue ==
    ASSUME PendingOK, RecentOK
    PROVE  Overdue(1) = {} /\ Unexpired(1) = recent
<1>1. ASSUME NEW p \in pending PROVE ~(p.last + CompletionDelay(p) < 1)
  <2>1. p.last = 1 /\ CompletionDelay(p) \in Nat
    BY Delay DEF PendingOK
  <2> DEFINE n == CompletionDelay(p)
  <2> HIDE DEF n
  <2>2. n \in Nat => ~(1 + n < 1)
    OBVIOUS
  <2>3. QED
    BY <2>1, <2>2 DEF n
<1>2. Overdue(1) = {}
  BY <1>1 DEF Overdue
<1>3. Unexpired(1) = recent
  BY TimeAssumption DEF RecentOK, Unexpired
<1>4. QED
  BY <1>2, <1>3

\* What ingest does to the state when nothing is due: the fragment is part of a
\* pending occurrence already, or joins p, or is absorbed, or opens an occurrence.
Files(p, rest) ==
    /\ suppressed' = suppressed
    /\ \/ /\ pending' = rest \cup {p}
          /\ recent' = recent /\ completed' = completed
       \/ \E id : /\ pending' = rest
                  /\ recent' = recent \cup {RecentOf(p, id)}
                  /\ completed' = completed \cup {Finish(p, id)}

Knows(f) ==
    /\ \E p \in pending : f \in p.keys
    /\ UNCHANGED <<pending, recent, completed, suppressed>>

Joins(f) ==
    \E p \in pending : PendingMatches(p, f) /\ Files(MergeInto(p, f), pending \ {p})

Absorbs(f) ==
    /\ \E id : suppressed' = suppressed \cup {<<id, f>>}
    /\ UNCHANGED <<pending, recent, completed>>

Opens(f) ==
    /\ \A p \in pending : ~PendingMatches(p, f)
    /\ \A r \in recent : ~RecentMatches(r, f)
    /\ Files(NewPending(f), pending)

LEMMA JoinedFiles ==
    ASSUME NEW p, NEW rest, NEW n, Joined(p, rest, recent, {}, n)
    PROVE  Files(p, rest)
<1> DEFINE id == nextId + Cardinality({})
<1>1. /\ suppressed' = suppressed
      /\ pending' = IF CompletionDelay(p) = 0 THEN rest ELSE rest \cup {p}
      /\ recent' = IF CompletionDelay(p) = 0 THEN recent \cup {RecentOf(p, id)} ELSE recent
  BY DEF Joined
<1>2. completed' = completed \cup (IF CompletionDelay(p) = 0 THEN {Finish(p, id)} ELSE {})
  <2>1. {Finish(q, n[q]) : q \in {}} = {}
    OBVIOUS
  <2>2. QED
    BY <2>1 DEF Joined
<1> HIDE DEF id
<1>3. CASE CompletionDelay(p) = 0
  BY <1>1, <1>2, <1>3 DEF Files
<1>4. CASE CompletionDelay(p) # 0
  BY <1>1, <1>2, <1>4 DEF Files
<1>5. QED
  BY <1>3, <1>4

LEMMA AbsorbedLeaves ==
    ASSUME NEW S, NEW n, Absorbed(S, pending, recent, {}, n)
    PROVE  /\ UNCHANGED <<pending, recent, completed>>
           /\ suppressed' = suppressed \cup S
<1>1. {Finish(q, n[q]) : q \in {}} = {}
  OBVIOUS
<1>2. QED
  BY <1>1 DEF Absorbed

LEMMA IngestCases ==
    ASSUME NEW f, f.at = 1, PendingOK, RecentOK, Ingest(f)
    PROVE  Knows(f) \/ Joins(f) \/ Absorbs(f) \/ Opens(f)
<1> DEFINE open == {p \in pending : PendingMatches(p, f)}
           late == {r \in recent : RecentMatches(r, f)}
<1>1. Overdue(1) = {} /\ Unexpired(1) = recent
  BY NothingIsDue
<1>2. PICK n \in Numberings(Overdue(1)) :
        LET kept == Unexpired(1) \cup {RecentOf(p, n[p]) : p \in Overdue(1)}
            rest == pending \ Overdue(1)
            op == {p \in rest : PendingMatches(p, f)}
            la == {r \in kept : RecentMatches(r, f)}
        IN  \/ /\ \E p \in rest : f \in p.keys
               /\ Absorbed({}, rest, kept, Overdue(1), n)
            \/ /\ \A p \in rest : f \notin p.keys
               /\ \/ \E p \in Nearest(op, f) :
                        Joined(MergeInto(p, f), rest \ {p}, kept, Overdue(1), n)
                  \/ /\ op = {}
                     /\ \E r \in Nearest(la, f) :
                            Absorbed({<<r.id, f>>}, rest, kept, Overdue(1), n)
                  \/ /\ op = {} /\ la = {}
                     /\ Joined(NewPending(f), rest, kept, Overdue(1), n)
  BY DEF Ingest
<1>3. /\ pending \ Overdue(1) = pending
      /\ Unexpired(1) \cup {RecentOf(p, n[p]) : p \in Overdue(1)} = recent
  BY <1>1
<1>4. \/ (\E p \in pending : f \in p.keys) /\ Absorbed({}, pending, recent, {}, n)
      \/ \E p \in Nearest(open, f) : Joined(MergeInto(p, f), pending \ {p}, recent, {}, n)
      \/ \E r \in Nearest(late, f) : Absorbed({<<r.id, f>>}, pending, recent, {}, n)
      \/ open = {} /\ late = {} /\ Joined(NewPending(f), pending, recent, {}, n)
  BY <1>1, <1>2, <1>3
<1>5. CASE (\E p \in pending : f \in p.keys) /\ Absorbed({}, pending, recent, {}, n)
  BY <1>5, AbsorbedLeaves DEF Knows
<1>6. ASSUME NEW p \in Nearest(open, f), Joined(MergeInto(p, f), pending \ {p}, recent, {}, n)
      PROVE  Joins(f)
  <2>1. p \in pending /\ PendingMatches(p, f)
    BY <1>6 DEF Nearest
  <2>2. QED
    BY <1>6, <2>1, JoinedFiles DEF Joins
<1>7. ASSUME NEW r, Absorbed({<<r.id, f>>}, pending, recent, {}, n)
      PROVE  Absorbs(f)
  <2>1. /\ suppressed' = suppressed \cup {<<r.id, f>>}
        /\ UNCHANGED <<pending, recent, completed>>
    BY <1>7, AbsorbedLeaves
  <2>2. QED
    BY <2>1 DEF Absorbs
<1>8. CASE open = {} /\ late = {} /\ Joined(NewPending(f), pending, recent, {}, n)
  BY <1>8, JoinedFiles DEF Opens
<1>9. QED
  BY <1>4, <1>5, <1>6, <1>7, <1>8

-----------------------------------------------------------------------------
(* Whose evidence it is.                                                   *)

LEMMA DeathsAre ==
    ASSUME deaths \in Scenario
    PROVE  /\ DOMAIN deaths \subseteq Nat
           /\ \A i \in DOMAIN deaths : IsDeath(deaths[i])
           /\ \A i, j \in DOMAIN deaths : i # j => Distinct(deaths[i], deaths[j])
  BY DeathAssumption

LEMMA UserIs ==
    ASSUME NEW d, IsDeath(d)
    PROVE  UserOf(d) = d.uid \div PerUser
<1>1. d.uid \in Nat /\ d.uid # None
  BY FieldsOfDeath
<1>2. QED
  BY <1>1 DEF UserOf, AndroidUserId

\* An occurrence and a fragment that match and say nothing wrong are of one death.
LEMMA SameDeath ==
    ASSUME deaths \in Scenario, NEW i \in DOMAIN deaths, NEW j \in DOMAIN deaths,
           NEW x, TrueOf(x, deaths[i]), NEW f, TrueOf(f, deaths[j]),
           NEW skew, SameOccurrence(x, f, skew)
    PROVE  i = j
<1>1. /\ IsDeath(deaths[i]) /\ IsDeath(deaths[j])
      /\ i # j => Distinct(deaths[i], deaths[j])
  BY DeathsAre
<1>2. x.process = f.process /\ IdentityMatches(x.pid, x.user, f.pid, f.user)
  BY DEF SameOccurrence
<1>3. /\ x.process = deaths[i].process /\ f.process = deaths[j].process
      /\ x.pid \in {0, deaths[i].pid} /\ f.pid \in {0, deaths[j].pid}
      /\ x.user \in {None, UserOf(deaths[i])} /\ f.user \in {None, UserOf(deaths[j])}
  BY DEF TrueOf
<1>4. CASE x.pid # 0 /\ f.pid # 0
  <2>1. deaths[i].pid = deaths[j].pid
    BY <1>2, <1>3, <1>4 DEF IdentityMatches
  <2>2. QED
    BY <1>1, <2>1 DEF Distinct
<1>5. CASE ~(x.pid # 0 /\ f.pid # 0)
  <2>1. x.user # None /\ x.user = f.user
    BY <1>2, <1>5 DEF IdentityMatches
  <2>2. UserOf(deaths[i]) = UserOf(deaths[j]) /\ deaths[i].process = deaths[j].process
    BY <1>2, <1>3, <2>1
  <2>3. QED
    BY <1>1, <2>2, UserIs DEF Distinct
<1>6. QED
  BY <1>4, <1>5

\* Evidence of one death that shares a pid or a user with it matches.
LEMMA SameIdentity ==
    ASSUME NEW d, IsDeath(d), NEW x, TrueOf(x, d), x.first = 1, NEW f, TrueOf(f, d), f.at = 1,
           (x.pid # 0 /\ f.pid # 0) \/ (x.user # None /\ f.user # None), NEW skew \in Nat
    PROVE  SameOccurrence(x, f, skew)
<1>1. /\ x.process = f.process /\ x.kind = f.kind
      /\ x.pid \in {0, d.pid} /\ f.pid \in {0, d.pid}
      /\ x.user \in {None, UserOf(d)} /\ f.user \in {None, UserOf(d)}
  BY DEF TrueOf
<1>2. IdentityMatches(x.pid, x.user, f.pid, f.user)
  BY <1>1 DEF IdentityMatches
<1>3. Dist(x.first, f.at) <= skew
  BY DEF Dist
<1>4. QED
  BY <1>1, <1>2, <1>3 DEF SameOccurrence

\* A collector has sent f, of death i.
Sends(f, i) ==
    /\ i \in DOMAIN deaths /\ SentOK(f, f.source, i, deaths[i])
    /\ deaths' = deaths /\ Sent' = Sent \cup {f}
    /\ \A g \in Sent : g.death = i => g.source # f.source

LEMMA DescribesStill ==
    ASSUME NEW x, NEW K, Describes(x, K), deaths' = deaths, Sent \subseteq Sent'
    PROVE  Describes(x, K)'
  BY DEF Describes, TrueOf, UserOf, AndroidUserId

LEMMA DescribesNew ==
    ASSUME NEW i, NEW f, Sends(f, i)
    PROVE  /\ Describes(NewPending(f), {f})'
           /\ NewPending(f).keys = {f} /\ NewPending(f).last = 1
<1>1. PICK p : p = NewPending(f)
  OBVIOUS
<1>2. /\ p.kind = f.kind /\ p.process = f.process /\ p.user = f.user /\ p.pid = f.pid
      /\ p.first = f.at /\ p.last = f.at /\ p.sources = {f.source} /\ p.keys = {f}
  BY <1>1 DEF NewPending
<1>3. f.at = 1 /\ f.death = i /\ i \in DOMAIN deaths' /\ f \in Sent'
      /\ ("process" \in f.told => TrueOf(f, deaths[i]))
  BY DEF Sends, SentOK
<1>4. Named({f}) => TrueOf(p, deaths'[i])
  <2>1. deaths' = deaths
    BY DEF Sends
  <2>2. QED
    BY <1>2, <1>3, <2>1 DEF Named, TrueOf
<1>5. Describes(p, {f})'
  <2>1. {f} # {} /\ {f} \subseteq Sent' /\ p.sources = {g.source : g \in {f}} /\ p.first = 1
    BY <1>2, <1>3
  <2>2. ASSUME Named({f})
        PROVE  /\ \A g \in {f} : g.death = i
               /\ p.pid = 0 => \A g \in {f} : g.pid = 0
               /\ p.user = None => \A g \in {f} : g.user = None
    BY <1>2, <1>3
  <2>3. QED
    BY <1>3, <1>4, <2>1, <2>2 DEF Describes, Named, TrueOf, UserOf, AndroidUserId
<1>6. QED
  BY <1>1, <1>2, <1>3, <1>5

LEMMA DescribesMerged ==
    ASSUME deaths \in Scenario, NEW i, NEW f, Sends(f, i),
           NEW p, Describes(p, p.keys), p.last = 1, PendingMatches(p, f)
    PROVE  /\ Describes(MergeInto(p, f), p.keys \cup {f})'
           /\ MergeInto(p, f).keys = p.keys \cup {f} /\ MergeInto(p, f).last = 1
           /\ Named(p.keys \cup {f}) => \A g \in p.keys : g.death = i
<1> DEFINE K == p.keys \cup {f}
<1>1. PICK m : m = MergeInto(p, f)
  OBVIOUS
<1>2. /\ f.at = 1 /\ f.death = i /\ i \in DOMAIN deaths /\ f \in Sent' /\ deaths' = deaths
      /\ Sent \subseteq Sent' /\ ("process" \in f.told => TrueOf(f, deaths[i]))
  BY DEF Sends, SentOK
<1>3. p.first = 1 /\ p.keys # {} /\ p.keys \subseteq Sent /\ p.sources = {g.source : g \in p.keys}
  BY DEF Describes
<1>4. /\ m.kind = p.kind /\ m.process = p.process
      /\ m.pid = IF p.pid = 0 THEN f.pid ELSE p.pid
      /\ m.sources = p.sources \cup {f.source} /\ m.keys = K
  BY <1>1 DEF MergeInto
<1>5. m.first = 1 /\ m.last = 1
  BY <1>1, <1>2, <1>3 DEF MergeInto
<1>6. m.user \in {f.user, p.user} /\ (m.user = None => f.user = None /\ p.user = None)
  BY <1>1 DEF MergeInto
<1>7. ASSUME Named(K)
      PROVE  /\ \A g \in K : g.death = i
             /\ TrueOf(m, deaths[i])
             /\ m.pid = 0 => \A g \in K : g.pid = 0
             /\ m.user = None => \A g \in K : g.user = None
  <2>1. Named(p.keys) /\ "process" \in f.told
    BY <1>7 DEF Named
  <2>2. PICK j \in DOMAIN deaths :
          /\ \A g \in p.keys : g.death = j
          /\ TrueOf(p, deaths[j])
          /\ p.pid = 0 => \A g \in p.keys : g.pid = 0
          /\ p.user = None => \A g \in p.keys : g.user = None
    BY <2>1 DEF Describes
  <2>3. TrueOf(f, deaths[i])
    BY <1>2, <2>1
  <2>4. PICK skew : SameOccurrence(p, f, skew)
    BY DEF PendingMatches
  <2>5. j = i
    BY <1>2, <2>2, <2>3, <2>4, SameDeath
  <2>6. TrueOf(m, deaths[i])
    BY <1>4, <1>6, <2>2, <2>3, <2>5 DEF TrueOf
  <2>7. QED
    BY <1>2, <1>4, <1>6, <2>2, <2>5, <2>6
<1>8. m.sources = {g.source : g \in K}
  BY <1>3, <1>4
<1>9. Describes(m, K)'
  <2>1. K # {} /\ K \subseteq Sent'
    BY <1>2, <1>3
  <2> HIDE DEF K
  <2>2. QED
    BY <1>2, <1>5, <1>7, <1>8, <2>1 DEF Describes, Named, TrueOf, UserOf, AndroidUserId
<1>10. QED
  BY <1>1, <1>4, <1>5, <1>7, <1>9

\* What an occurrence is remembered by.
LEMMA Remembered ==
    ASSUME NEW p, NEW id
    PROVE  /\ Finish(p, id).keys = p.keys
           /\ FinishOf(Finish(p, id), RecentOf(p, id))
           /\ RecentOf(p, id).first = p.first
           /\ Describes(p, p.keys)' => Describes(RecentOf(p, id), p.keys)'
<1>1. PICK r : r = RecentOf(p, id)
  OBVIOUS
<1>2. /\ r.kind = p.kind /\ r.process = p.process /\ r.user = p.user /\ r.pid = p.pid
      /\ r.first = p.first /\ r.sources = p.sources
  BY <1>1 DEF RecentOf
<1>3. FinishOf(Finish(p, id), r)
  BY <1>2 DEF Finish, FinishOf
<1>4. Describes(p, p.keys)' => Describes(r, p.keys)'
  BY <1>2 DEF Describes, TrueOf
<1>5. QED
  BY <1>1, <1>2, <1>3, <1>4 DEF Finish

LEMMA FilesKeeps ==
    ASSUME PendingOK, CompletedOK, RecentOK, deaths' = deaths, Sent \subseteq Sent',
           NEW q, Describes(q, q.keys)', q.last = 1,
           NEW rest \in SUBSET pending, Files(q, rest)
    PROVE  PendingOK' /\ CompletedOK' /\ RecentOK'
<1>1. \A p \in pending : Describes(p, p.keys)' /\ p.last = 1
  BY DescribesStill DEF PendingOK
<1>2. \A o \in completed : \E r \in recent : Describes(r, o.keys)' /\ FinishOf(o, r)
  BY DescribesStill DEF CompletedOK
<1>3. q.first = 1
  BY DEF Describes
<1>4. CASE pending' = rest \cup {q} /\ recent' = recent /\ completed' = completed
  <2>1. PendingOK'
    BY <1>1, <1>4 DEF PendingOK
  <2>2. CompletedOK' /\ RecentOK'
    BY <1>2, <1>4 DEF CompletedOK, RecentOK
  <2>3. QED
    BY <2>1, <2>2
<1>5. ASSUME NEW id, pending' = rest, recent' = recent \cup {RecentOf(q, id)},
             completed' = completed \cup {Finish(q, id)}
      PROVE  PendingOK' /\ CompletedOK' /\ RecentOK'
  <2>1. PendingOK'
    BY <1>1, <1>5 DEF PendingOK
  <2>2. RecentOK'
    BY <1>3, <1>5, Remembered DEF RecentOK
  <2>3. Describes(RecentOf(q, id), Finish(q, id).keys)' /\ FinishOf(Finish(q, id), RecentOf(q, id))
    BY Remembered
  <2>4. CompletedOK'
    BY <1>2, <1>5, <2>3 DEF CompletedOK
  <2>5. QED
    BY <2>1, <2>2, <2>4
<1>6. QED
  BY <1>4, <1>5 DEF Files

LEMMA FilesKept ==
    ASSUME KeptOK, NEW f, Sent' = Sent \cup {f}, NEW q, f \in q.keys,
           NEW rest \in SUBSET pending, \A p \in pending \ rest : p.keys \subseteq q.keys,
           Files(q, rest)
    PROVE  KeptOK'
<1>1. \E o \in Occurrences' : o.keys = q.keys
  BY Remembered DEF Files, Occurrences
<1>2. \A o \in Occurrences : \E n \in Occurrences' : o.keys \subseteq n.keys
  BY <1>1 DEF Files, Occurrences
<1>3. suppressed' = suppressed
  BY DEF Files
<1>4. ASSUME NEW g \in Sent'
      PROVE  g \in (UNION {o.keys : o \in Occurrences'}) \cup {s[2] : s \in suppressed'}
  <2>1. CASE g = f
    BY <1>1, <2>1
  <2>2. CASE g \in Sent
    BY <1>2, <1>3, <2>2 DEF KeptOK
  <2>3. QED
    BY <1>4, <2>1, <2>2
<1>5. QED
  BY <1>4 DEF KeptOK

LEMMA VouchedStill ==
    ASSUME Sent \subseteq Sent', NEW j, Vouched(j)'
    PROVE  Vouched(j)
  BY DEF Vouched, Vouch

\* One occurrence q more, of death i, in the place of the ones that are not in rest.
LEMMA FilesOne ==
    ASSUME JoinedOK, deaths' = deaths, Sent \subseteq Sent', NEW q, NEW i,
           NEW rest \in SUBSET pending, Files(q, rest),
           Named(Sent)' => \A g \in q.keys : g.death = i,
           Named(Sent)' /\ Vouched(i)' => \A o \in rest \cup completed : ~About(o, i)
    PROVE  JoinedOK'
<1>1. SUFFICES ASSUME Named(Sent)', NEW j \in DOMAIN deaths, Vouched(j)'
      PROVE  /\ \A o, n \in pending' : About(o, j) /\ About(n, j) => o = n
             /\ \A o, n \in completed' : About(o, j) /\ About(n, j) => o = n
             /\ \A o \in pending', n \in completed' : ~(About(o, j) /\ About(n, j))
  BY DEF JoinedOK, About
<1>2. Named(Sent) /\ Vouched(j)
  BY <1>1, VouchedStill DEF Named
<1>3. /\ \A o, n \in pending : About(o, j) /\ About(n, j) => o = n
      /\ \A o, n \in completed : About(o, j) /\ About(n, j) => o = n
      /\ \A o \in pending, n \in completed : ~(About(o, j) /\ About(n, j))
  BY <1>1, <1>2 DEF JoinedOK
<1>4. \A id : About(Finish(q, id), j) <=> About(q, j)
  BY Remembered DEF About
<1>5. About(q, j) => j = i
  BY <1>1 DEF About
<1>6. About(q, j) => \A o \in rest \cup completed : ~About(o, j)
  BY <1>1, <1>5
<1>7. CASE pending' = rest \cup {q} /\ completed' = completed
  BY <1>3, <1>6, <1>7
<1>8. ASSUME NEW id, pending' = rest, completed' = completed \cup {Finish(q, id)}
      PROVE  /\ \A o, n \in pending' : About(o, j) /\ About(n, j) => o = n
             /\ \A o, n \in completed' : About(o, j) /\ About(n, j) => o = n
             /\ \A o \in pending', n \in completed' : ~(About(o, j) /\ About(n, j))
  BY <1>3, <1>4, <1>6, <1>8
<1>9. QED
  BY <1>7, <1>8 DEF Files

\* Evidence that is vouched for is recognised.
LEMMA Recognised ==
    ASSUME ReadOK, NEW i, NEW f, Sends(f, i), Named(Sent)', Vouched(i)',
           NEW x, NEW K, Describes(x, K), NEW h \in K, h.death = i
    PROVE  /\ f.source \notin x.sources
           /\ \A skew \in Nat : SameOccurrence(x, f, skew)
<1>1. /\ i \in DOMAIN deaths /\ f \in Sent' /\ Sent \subseteq Sent' /\ f.death = i /\ f.at = 1
      /\ "process" \in f.told => TrueOf(f, deaths[i]) /\ SaysWhatItTells(f)
      /\ \A g \in Sent : g.death = i => g.source # f.source
  BY DEF Sends, SentOK
<1>2. K \subseteq Sent /\ Named(K) /\ "process" \in f.told
  BY <1>1 DEF Describes, Named
<1>3. PICK j \in DOMAIN deaths :
        /\ \A g \in K : g.death = j
        /\ TrueOf(x, deaths[j])
        /\ x.pid = 0 => \A g \in K : g.pid = 0
        /\ x.user = None => \A g \in K : g.user = None
  BY <1>2 DEF Describes
<1>4. j = i /\ x.sources = {g.source : g \in K} /\ x.first = 1
  BY <1>3 DEF Describes
<1>5. f.source \notin x.sources
  BY <1>1, <1>2, <1>3, <1>4
<1>6. SaysWhatItTells(h)
  <2>1. h \in Sent /\ "process" \in h.told
    BY <1>2 DEF Named
  <2>2. PICK b \in read : b.sent = h /\ h # None
    BY <2>1 DEF Sent
  <2>3. QED
    BY <2>1, <2>2 DEF ReadOK
<1>7. Vouch(f.told, h.told)
  BY <1>1, <1>2 DEF Vouched, Vouch
<1>8. \/ "pid" \in f.told /\ "pid" \in h.told
      \/ "user" \in f.told /\ "user" \in h.told
  BY <1>7 DEF Vouch
<1>9. \/ f.pid # 0 /\ x.pid # 0
      \/ f.user # None /\ x.user # None
  BY <1>1, <1>2, <1>3, <1>6, <1>8 DEF SaysWhatItTells
<1>10. IsDeath(deaths[i])
  BY <1>1, DeathsAre DEF ReadOK
<1>11. TrueOf(x, deaths[i]) /\ TrueOf(f, deaths[i])
  BY <1>1, <1>2, <1>3, <1>4
<1>12. \A skew \in Nat : SameOccurrence(x, f, skew)
  BY <1>1, <1>4, <1>9, <1>10, <1>11, SameIdentity
<1>13. QED
  BY <1>5, <1>12

-----------------------------------------------------------------------------
(* The steps.                                                              *)

\* Evidence that changes no occurrence.
LEMMA LeavesOccurrences ==
    ASSUME PendingOK, CompletedOK, RecentOK, JoinedOK, deaths' = deaths, Sent \subseteq Sent',
           UNCHANGED <<pending, recent, completed>>
    PROVE  PendingOK' /\ CompletedOK' /\ RecentOK' /\ JoinedOK'
<1>1. PendingOK' /\ CompletedOK' /\ RecentOK'
  BY DescribesStill DEF PendingOK, CompletedOK, RecentOK
<1>2. SUFFICES ASSUME Named(Sent)', NEW j \in DOMAIN deaths, Vouched(j)'
      PROVE  /\ \A o, n \in pending' : About(o, j) /\ About(n, j) => o = n
             /\ \A o, n \in completed' : About(o, j) /\ About(n, j) => o = n
             /\ \A o \in pending', n \in completed' : ~(About(o, j) /\ About(n, j))
  BY <1>1 DEF JoinedOK, About
<1>3. Named(Sent) /\ Vouched(j)
  BY <1>2, VouchedStill DEF Named
<1>4. QED
  BY <1>2, <1>3 DEF JoinedOK

LEMMA KnowsStep ==
    ASSUME EvInv, NEW i, NEW f, Sends(f, i), Knows(f)
    PROVE  PendingOK' /\ CompletedOK' /\ RecentOK' /\ KeptOK' /\ JoinedOK'
<1>1. /\ deaths' = deaths /\ Sent' = Sent \cup {f} /\ Sent \subseteq Sent'
      /\ UNCHANGED <<pending, recent, completed, suppressed>>
  BY DEF Sends, Knows
<1>2. PendingOK' /\ CompletedOK' /\ RecentOK' /\ JoinedOK'
  BY <1>1, LeavesOccurrences DEF EvInv
<1>3. f \in UNION {o.keys : o \in Occurrences}
  BY DEF Knows, Occurrences
<1>4. Occurrences' = Occurrences
  BY <1>1 DEF Occurrences
<1>5. KeptOK'
  BY <1>1, <1>3, <1>4 DEF EvInv, KeptOK
<1>6. QED
  BY <1>2, <1>5

LEMMA AbsorbsStep ==
    ASSUME EvInv, NEW i, NEW f, Sends(f, i), Absorbs(f)
    PROVE  PendingOK' /\ CompletedOK' /\ RecentOK' /\ KeptOK' /\ JoinedOK'
<1>1. /\ deaths' = deaths /\ Sent' = Sent \cup {f} /\ Sent \subseteq Sent'
      /\ UNCHANGED <<pending, recent, completed>>
  BY DEF Sends, Absorbs
<1>2. PendingOK' /\ CompletedOK' /\ RecentOK' /\ JoinedOK'
  BY <1>1, LeavesOccurrences DEF EvInv
<1>3. PICK id : suppressed' = suppressed \cup {<<id, f>>}
  BY DEF Absorbs
<1>4. /\ f \in {s[2] : s \in suppressed'}
      /\ \A g : g \in {s[2] : s \in suppressed} => g \in {s[2] : s \in suppressed'}
  <2>1. PICK t : t = <<id, f>>
    OBVIOUS
  <2>2. t[2] = f
    BY ONLY <2>1
  <2>3. t \in suppressed' /\ suppressed \subseteq suppressed'
    BY <1>3, <2>1
  <2>4. QED
    BY ONLY <2>2, <2>3
<1>5. Occurrences' = Occurrences
  BY <1>1 DEF Occurrences
<1>6. ASSUME NEW g \in Sent'
      PROVE  g \in (UNION {o.keys : o \in Occurrences'}) \cup {s[2] : s \in suppressed'}
  <2>1. CASE g = f
    <3>1. f \in {s[2] : s \in suppressed'}
      BY <1>4
    <3>2. QED
      BY ONLY <2>1, <3>1, Zenon
  <2>2. CASE g \in Sent
    <3>1. g \in (UNION {o.keys : o \in Occurrences}) \cup {s[2] : s \in suppressed}
      BY <2>2 DEF EvInv, KeptOK
    <3>2. QED
      BY ONLY <1>4, <1>5, <3>1
  <2>3. QED
    BY <1>1, <1>6, <2>1, <2>2
<1>7. KeptOK'
  BY <1>6 DEF KeptOK
<1>8. QED
  BY <1>2, <1>7

LEMMA JoinsStep ==
    ASSUME EvInv, NEW i, NEW f, Sends(f, i), Joins(f)
    PROVE  PendingOK' /\ CompletedOK' /\ RecentOK' /\ KeptOK' /\ JoinedOK'
<1>1. /\ deaths' = deaths /\ Sent' = Sent \cup {f} /\ Sent \subseteq Sent' /\ i \in DOMAIN deaths
      /\ f.death = i /\ deaths \in Scenario
  BY DEF Sends, SentOK, EvInv, ReadOK
<1>2. PICK p \in pending : PendingMatches(p, f) /\ Files(MergeInto(p, f), pending \ {p})
  BY DEF Joins
<1>3. Describes(p, p.keys) /\ p.last = 1
  BY <1>2 DEF EvInv, PendingOK
<1>4. PICK q : q = MergeInto(p, f)
  OBVIOUS
<1>5. /\ Describes(MergeInto(p, f), p.keys \cup {f})'
      /\ MergeInto(p, f).keys = p.keys \cup {f} /\ MergeInto(p, f).last = 1
      /\ Named(p.keys \cup {f}) => \A g \in p.keys : g.death = i
  BY <1>1, <1>2, <1>3, DescribesMerged
<1>6. /\ Describes(q, q.keys)' /\ q.keys = p.keys \cup {f} /\ q.last = 1
      /\ Files(q, pending \ {p})
  BY <1>2, <1>4, <1>5
<1>7. PendingOK' /\ CompletedOK' /\ RecentOK'
  BY <1>1, <1>6, FilesKeeps DEF EvInv
<1>8. KeptOK'
  BY <1>1, <1>6, FilesKept DEF EvInv
<1>9. p.keys \subseteq Sent /\ p.keys # {}
  BY <1>3 DEF Describes
<1>10. Named(Sent)' => \A g \in q.keys : g.death = i
  <2>1. Named(Sent)' => Named(p.keys \cup {f})
    BY <1>1, <1>9 DEF Named
  <2>2. QED
    BY <1>1, <1>5, <1>6, <2>1
<1>11. ASSUME Named(Sent)', Vouched(i)'
       PROVE  \A o \in (pending \ {p}) \cup completed : ~About(o, i)
  <2>1. About(p, i)
    BY <1>6, <1>9, <1>10, <1>11 DEF About
  <2>2. Named(Sent) /\ Vouched(i)
    BY <1>1, <1>11, VouchedStill DEF Named
  <2>3. QED
    BY <1>1, <1>2, <2>1, <2>2 DEF EvInv, JoinedOK
<1>12. JoinedOK'
  BY <1>1, <1>6, <1>10, <1>11, FilesOne DEF EvInv
<1>13. QED
  BY <1>7, <1>8, <1>12

LEMMA OpensStep ==
    ASSUME EvInv, NEW i, NEW f, Sends(f, i), Opens(f)
    PROVE  PendingOK' /\ CompletedOK' /\ RecentOK' /\ KeptOK' /\ JoinedOK'
<1>1. /\ deaths' = deaths /\ Sent' = Sent \cup {f} /\ Sent \subseteq Sent' /\ i \in DOMAIN deaths
      /\ f.death = i
  BY DEF Sends, SentOK
<1>2. PICK q : q = NewPending(f)
  OBVIOUS
<1>3. /\ Describes(q, q.keys)' /\ q.keys = {f} /\ q.last = 1 /\ Files(q, pending)
  BY <1>2, DescribesNew DEF Opens
<1>4. PendingOK' /\ CompletedOK' /\ RecentOK'
  BY <1>1, <1>3, FilesKeeps DEF EvInv
<1>5. KeptOK'
  BY <1>1, <1>3, FilesKept DEF EvInv
<1>6. ASSUME Named(Sent)', Vouched(i)', NEW o \in pending \cup completed, About(o, i)
      PROVE  FALSE
  <2>1. PICK h \in o.keys : h.death = i
    BY <1>6 DEF About
  <2>2. Skew \in Nat /\ Window \in Nat
    BY TimeAssumption
  <2>3. CASE o \in pending
    <3>1. Describes(o, o.keys)
      BY <2>3 DEF EvInv, PendingOK
    <3>2. f.source \notin o.sources /\ \A skew \in Nat : SameOccurrence(o, f, skew)
      BY <1>6, <2>1, <3>1, Recognised DEF EvInv
    <3>3. PendingMatches(o, f)
      BY <2>2, <3>2 DEF PendingMatches
    <3>4. QED
      BY <2>3, <3>3 DEF Opens
  <2>4. CASE o \in completed
    <3>1. PICK r \in recent : Describes(r, o.keys)
      BY <2>4 DEF EvInv, CompletedOK
    <3>2. f.source \notin r.sources /\ \A skew \in Nat : SameOccurrence(r, f, skew)
      BY <1>6, <2>1, <3>1, Recognised DEF EvInv
    <3>3. RecentMatches(r, f)
      BY <2>2, <3>2 DEF RecentMatches
    <3>4. QED
      BY <3>1, <3>3 DEF Opens
  <2>5. QED
    BY <1>6, <2>3, <2>4
<1>7. Named(Sent)' /\ Vouched(i)' => \A o \in pending \cup completed : ~About(o, i)
  BY <1>6
<1>8. Named(Sent)' => \A g \in q.keys : g.death = i
  BY <1>1, <1>3
<1>9. JoinedOK'
  BY <1>1, <1>3, <1>7, <1>8, FilesOne DEF EvInv
<1>10. QED
  BY <1>4, <1>5, <1>9

\* What Read does, for evidence of death i.
LEMMA ReadStep ==
    ASSUME EvInv, NEW i \in DOMAIN deaths, NEW odd, NEW a \in Written(i, deaths[i], odd), Read(a)
    PROVE  EvInv'
<1> DEFINE s == SentOf(a)
           new == [death |-> a.death, source |-> a.source, sent |-> s, legible |-> Legible(a),
                   blank |-> Blank(a)]
<1>1. /\ read' = read \cup {new} /\ deaths' = deaths
      /\ \A b \in read : <<b.death, b.source>> # <<a.death, a.source>>
      /\ (s = None /\ UNCHANGED mergerVars) \/ (s # None /\ Ingest(s))
  <2>1. /\ read' = read \cup {[death |-> a.death, source |-> a.source, sent |-> SentOf(a),
                                legible |-> Legible(a), blank |-> Blank(a)]}
        /\ UNCHANGED deaths
        /\ \A b \in read : <<b.death, b.source>> # <<a.death, a.source>>
        /\ \/ SentOf(a) = None /\ UNCHANGED <<mergerVars, details>>
           \/ SentOf(a) # None /\ Join(SentOf(a))
    BY Zenon DEF Read, SentOf
  <2>2. Join(SentOf(a)) => Ingest(SentOf(a))
    BY DEF Join
  <2>3. QED
    BY <2>1, <2>2
<1>2. ReadOK /\ PendingOK /\ CompletedOK /\ RecentOK /\ KeptOK /\ JoinedOK
  BY DEF EvInv
<1>3. i \in Nat /\ IsDeath(deaths[i]) /\ deaths \in Scenario
  BY <1>2, DeathsAre DEF ReadOK
<1>4. /\ a.death = i
      /\ Legible(a) => s # None \/ Blank(a)
      /\ s # None => SentOK(s, a.source, i, deaths[i])
  BY <1>3, EvidenceSent
<1> HIDE DEF s
<1>5. /\ new.death = i /\ new.source = a.source /\ new.sent = s
      /\ new.legible = Legible(a) /\ new.blank = Blank(a)
  BY <1>4
<1> HIDE DEF new
<1>6. \A b \in read : ~(b.death = new.death /\ b.source = new.source)
  BY <1>1, <1>4, <1>5
<1>7. ReadOK'
  <2>1. ASSUME NEW b \in read'
        PROVE  /\ b.death \in DOMAIN deaths
               /\ b.legible => b.sent # None \/ b.blank
               /\ b.sent # None =>
                    /\ b.sent.death = b.death /\ b.sent.source = b.source /\ b.sent.at = 1
                    /\ "process" \in b.sent.told =>
                         TrueOf(b.sent, deaths[b.death]) /\ SaysWhatItTells(b.sent)
    <3>1. CASE b \in read
      BY <1>2, <3>1 DEF ReadOK
    <3>2. CASE b = new
      BY <1>4, <1>5, <3>2 DEF SentOK
    <3>3. QED
      BY <1>1, <2>1, <3>1, <3>2
  <2>2. ASSUME NEW b \in read', NEW c \in read', b.death = c.death, b.source = c.source
        PROVE  b = c
    BY <1>1, <1>2, <1>6, <2>2 DEF ReadOK
  <2>3. deaths' = deaths /\ deaths' \in Scenario
    BY <1>1, <1>3
  <2>4. QED
    BY <2>1, <2>2, <2>3 DEF ReadOK, TrueOf, UserOf, AndroidUserId
<1>8. CASE s = None
  <2>1. Sent' = Sent
    BY <1>1, <1>5, <1>8 DEF Sent
  <2>2. UNCHANGED <<pending, recent, completed, suppressed>>
    BY <1>1, <1>8 DEF mergerVars
  <2>3. PendingOK' /\ CompletedOK' /\ RecentOK' /\ JoinedOK'
    BY <1>1, <1>2, <2>1, <2>2, LeavesOccurrences
  <2>4. KeptOK'
    <3>1. Occurrences' = Occurrences
      BY <2>2 DEF Occurrences
    <3>2. QED
      BY <1>2, <2>1, <2>2, <3>1 DEF KeptOK
  <2>5. QED
    BY <1>7, <2>3, <2>4 DEF EvInv
<1>9. CASE s # None
  <2>1. SentOK(s, a.source, i, deaths[i])
    BY <1>4, <1>9
  <2>2. s.at = 1 /\ s.source = a.source
    BY <2>1 DEF SentOK
  <2>3. Sends(s, i)
    <3>1. Sent' = Sent \cup {s}
      BY <1>1, <1>5, <1>9 DEF Sent
    <3>2. ASSUME NEW g \in Sent, g.death = i PROVE g.source # s.source
      <4>1. PICK b \in read : b.sent = g /\ g # None
        BY <3>2 DEF Sent
      <4>2. g.death = b.death /\ g.source = b.source
        BY <1>2, <4>1 DEF ReadOK
      <4>3. QED
        BY <1>5, <1>6, <2>2, <3>2, <4>1, <4>2
    <3>3. QED
      BY <1>1, <2>1, <2>2, <3>1, <3>2 DEF Sends
  <2>4. Knows(s) \/ Joins(s) \/ Absorbs(s) \/ Opens(s)
    BY <1>1, <1>2, <1>9, <2>2, IngestCases
  <2>5. PendingOK' /\ CompletedOK' /\ RecentOK' /\ KeptOK' /\ JoinedOK'
    BY <2>3, <2>4, KnowsStep, JoinsStep, AbsorbsStep, OpensStep
  <2>6. QED
    BY <1>7, <2>5 DEF EvInv
<1>10. QED
  BY <1>8, <1>9

LEMMA EvInvStep ==
    ASSUME EvInv, [EvidenceNext]_evidenceVars
    PROVE  EvInv'
<1>1. CASE EvidenceNext
  <2>1. PICK i \in DOMAIN deaths : \E a \in Written(i, deaths[i], i \in Flawed) : Read(a)
    BY <1>1 DEF EvidenceNext
  <2>2. PICK a \in Written(i, deaths[i], i \in Flawed) : Read(a)
    BY <2>1
  <2>3. QED
    BY <2>2, ReadStep
<1>2. CASE UNCHANGED evidenceVars
  <2>1. UNCHANGED <<pending, recent, suppressed, completed, deaths, read>>
    BY <1>2 DEF evidenceVars
  <2>2. Sent' = Sent /\ Occurrences' = Occurrences
    BY <2>1 DEF Sent, Occurrences
  <2>3. PendingOK' /\ CompletedOK' /\ RecentOK' /\ JoinedOK'
    BY <2>1, <2>2, LeavesOccurrences DEF EvInv
  <2>4. KeptOK'
    BY <2>1, <2>2 DEF EvInv, KeptOK
  <2>5. ReadOK'
    BY <2>1 DEF EvInv, ReadOK, TrueOf, UserOf, AndroidUserId
  <2>6. QED
    BY <2>3, <2>4, <2>5 DEF EvInv
<1>3. QED
  BY <1>1, <1>2

LEMMA EvInvInit ==
    ASSUME EvidenceInit PROVE EvInv
  BY DEF EvidenceInit, MergerInit, EvInv, ReadOK, PendingOK, CompletedOK, RecentOK, KeptOK,
         JoinedOK, Sent, Occurrences

\* Every fragment that was sent is in an occurrence or absorbed by one, every
\* occurrence describes the evidence it is made of, and evidence that vouches
\* for itself is one occurrence (CrashMerger::ingest on what the parsers send).
THEOREM EvidenceInvariance == EvidenceSpec => []EvInv
<1>1. EvidenceInit => EvInv
  BY EvInvInit
<1>2. EvInv /\ [EvidenceNext]_evidenceVars => EvInv'
  BY EvInvStep
<1>3. QED
  BY <1>1, <1>2, PTL DEF EvidenceSpec

\* An occurrence whose evidence names its process carries the kind, process,
\* user and pid of one death, whatever the evidence and however many deaths.
THEOREM EvidenceAttributed == EvidenceSpec => []CrashIsAttributed
<1>1. EvInv => CrashIsAttributed
  <2>1. SUFFICES ASSUME EvInv, NEW o \in Occurrences, \A f \in o.keys : "process" \in f.told
        PROVE  \E i \in DOMAIN deaths :
                 /\ \A f \in o.keys : f.death = i
                 /\ o.kind = deaths[i].kind /\ o.process = deaths[i].process
                 /\ o.pid \in {0, deaths[i].pid}
                 /\ o.user \in {None, UserOf(deaths[i])} \/ (o \in completed /\ o.user = 0)
    BY DEF CrashIsAttributed
  <2>2. Named(o.keys)
    BY <2>1 DEF Named
  <2>3. CASE o \in pending
    <3>1. Describes(o, o.keys)
      BY <2>1, <2>3 DEF EvInv, PendingOK
    <3>2. PICK i \in DOMAIN deaths : (\A f \in o.keys : f.death = i) /\ TrueOf(o, deaths[i])
      BY <2>2, <3>1 DEF Describes
    <3>3. QED
      BY <3>2 DEF TrueOf
  <2>4. CASE o \in completed
    <3>1. PICK r \in recent : Describes(r, o.keys) /\ FinishOf(o, r)
      BY <2>1, <2>4 DEF EvInv, CompletedOK
    <3>2. PICK i \in DOMAIN deaths : (\A f \in o.keys : f.death = i) /\ TrueOf(r, deaths[i])
      BY <2>2, <3>1 DEF Describes
    <3>3. QED
      BY <2>4, <3>1, <3>2 DEF TrueOf, FinishOf
  <2>5. QED
    BY <2>1, <2>3, <2>4 DEF Occurrences
<1>2. QED
  BY <1>1, EvidenceInvariance, PTL

\* Evidence of one death that vouches for itself, pairwise, is one occurrence,
\* in whatever order it is read (CrashMerger::ingest).
THEOREM EvidenceJoined == EvidenceSpec => []EvidenceJoins
<1>1. EvInv => EvidenceJoins
  <2>1. SUFFICES ASSUME EvInv, Named(Sent), NEW i \in DOMAIN deaths, Vouched(i)
        PROVE  Cardinality({o \in Occurrences : About(o, i)}) <= 1
    BY DEF EvidenceJoins, Sent, Named, Vouched, About
  <2> DEFINE S == {o \in Occurrences : About(o, i)}
  <2>2. \A o, q \in S : o = q
    BY <2>1 DEF EvInv, JoinedOK, Occurrences
  <2> HIDE DEF S
  <2>3. CASE S = {}
    BY <2>3, FS_EmptySet DEF S
  <2>4. CASE S # {}
    <3>1. PICK o : S = {o}
      BY <2>2, <2>4
    <3>2. Cardinality(S) = 1
      BY <3>1, FS_Singleton
    <3>3. QED
      BY <3>2 DEF S
  <2>5. QED
    BY <2>3, <2>4
<1>2. QED
  BY <1>1, EvidenceInvariance, PTL

\* A legible artefact reaches a record or is absorbed by one, unless the half of
\* a tombstone pair that is read first is blank (ingest_source,
\* tombstone_fragment).
THEOREM LegibleKept == EvidenceSpec => []OnlyABlankHalfHides
<1>1. EvInv => OnlyABlankHalfHides
  <2>1. SUFFICES ASSUME EvInv, NEW b \in read, b.legible, ~b.blank
        PROVE  Recorded(b)
    BY DEF OnlyABlankHalfHides
  <2>2. b.sent # None /\ b.sent.death = b.death /\ b.sent.source = b.source
    BY <2>1 DEF EvInv, ReadOK
  <2>3. b.sent \in Sent
    BY <2>2 DEF Sent
  <2>4. QED
    BY <2>1, <2>2, <2>3 DEF EvInv, KeptOK, Recorded
<1>2. QED
  BY <1>1, EvidenceInvariance, PTL
===============================================================================
