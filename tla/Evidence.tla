------------------------------- MODULE Evidence -------------------------------
(***************************************************************************)
(* From what Android writes about a crash to the fragment the merger joins. *)
(*                                                                         *)
(* The platform describes one death in several places: an ActivityManager  *)
(* event, the crash log buffer, a DropBox entry, a tombstone pair, an ANR  *)
(* dump.  The parsers (cch_logd, cch_dropbox, cch_tombstone, cch_anrfile)  *)
(* and collectors.rs turn each of them into a CrashFragment, and           *)
(* CrashMerger joins fragments by kind, process, pid and user.  Whether a  *)
(* death becomes one record of the right app thus depends on every parser  *)
(* reading the same identity out of differently shaped, differently        *)
(* damaged evidence, in whatever order it is read.                         *)
(*                                                                         *)
(* An artefact is a record: the death it describes (the truth of its       *)
(* text), and the ways in which the platform writes or spoils it.  All     *)
(* evidence carries the same time: windows and skew are IngestPipeline's.  *)
(***************************************************************************)
EXTENDS CrashMerger, FiniteSetsExt, SequencesExt

CONSTANTS
    Scenario,          \* the pairs of deaths to consider
    Flawed,            \* which of the two deaths leaves odd or damaged evidence
    Class,             \* exception and signal names
    Method,            \* methods of the frames
    Framework,         \* methods under FRAMEWORK_PREFIXES
    FrameCount,        \* FINGERPRINT_FRAME_COUNT
    MaxPlausibleUser,  \* MAX_PLAUSIBLE_USER_ID
    PerUser,           \* 100_000, the uids of one Android user
    SystemServer,      \* the pid of system_server
    ThreadName,        \* the name of a crashing thread
    OtherThread,       \* a frame of a thread that did not crash
    Printed,           \* how a text tombstone prints the frame of a method
    MappedFile,        \* what is left of a frame that is printed with an offset
    PackageOf          \* a process name up to its first colon

Frame == [form : {"method", "at", "pc", "cut", "offset", "file"}, name : Method, line : Nat]

\* A death: its pid is above every user id.
IsDeath(d) ==
    /\ d.kind \in Kind /\ d.process \in Process /\ PackageOf[d.process] \in Process
    /\ d.pid \in Nat /\ d.pid > MaxPlausibleUser
    /\ d.uid \in Nat /\ d.uid \div PerUser <= MaxPlausibleUser
    /\ d.class \in Class
    /\ d.stack \in Seq(Method) \ {<<>>} /\ d.line \in Nat

\* Two deaths at one time have two pids, and are of two processes or two users.
Distinct(d, e) ==
    /\ d.pid # e.pid
    /\ d.process # e.process \/ d.uid \div PerUser # e.uid \div PerUser

ASSUME DeathAssumption ==
    /\ "Native crash" \notin Class
    /\ MaxPlausibleUser \in Nat /\ PerUser \in Nat \ {0} /\ FrameCount \in Nat \ {0}
    /\ SystemServer \in Nat /\ SystemServer > MaxPlausibleUser
    /\ ThreadName \in Process /\ OtherThread \in Method /\ AnrFile # {}
    /\ MappedFile \in Method /\ Printed \in [Method -> {"plain", "signature", "offset"}]
    /\ \A s \in Scenario :
        /\ DOMAIN s \subseteq Nat /\ \A i \in DOMAIN s : IsDeath(s[i])
        /\ \A i, j \in DOMAIN s : i # j => Distinct(s[i], s[j])

\* What the parsers return, and the fragment that collectors.rs sends: the
\* fields the model keeps.
CrashBufferReport == [process : Process, pid : Nat, class : Class, frames : Seq(Frame)]

AnrReport == [process : Process, pid : Nat, frames : Seq(Frame)]

TombstoneReport == [format : {"Protobuf", "Text"}, process : Process, pid : Nat,
                    class : Class, uid : Nat \cup {None}, frames : Seq(Frame)]

ActivityEvent == [tag : {"am_crash", "am_anr", "am_wtf"}, user : Nat, pid : Nat,
                  process : Process, class : Class \cup {"Native crash"}, place : Seq(Frame)]

DropboxEntry == [kind : Kind \cup {None}, process : Process \cup {None}, pid : Nat \cup {None},
                 uid : Nat \cup {None}, package : Process \cup {None}]

CrashFragment == [source : Source, quality : Quality, kind : Kind, process : Process,
                  user : Nat \cup {None}, pid : Nat, at : Nat, payload : PayloadState,
                  file : AnrFile \cup {None}, class : Class \cup {"Native crash", "ANR", None},
                  frames : Seq(Frame), death : Nat, told : SUBSET {"process", "pid", "user"}]

ASSUME NoRecordAssumption ==
    None \notin Kind \cup Process \cup CrashBufferReport \cup AnrReport \cup TombstoneReport
                 \cup ActivityEvent \cup DropboxEntry \cup CrashFragment

VARIABLES
    deaths,    \* the two deaths of this behaviour
    read,      \* what the collectors have read, and what they made of it
    details    \* class and frames of each occurrence, ranked like its user

evidenceVars == <<pending, recent, suppressed, nextId, completed,
                  deaths, read, details>>

-----------------------------------------------------------------------------
(* Reading one artefact.                                                   *)

\* Mutant: the field is read the way the tag declares it.
AsDeclared(first, second) == <<first, second>>

\* activity_user_and_pid: some builds log (pid, user) under the old
\* declaration; only an unambiguous pair is taken for swapped.
ActivityUserAndPid(first, second) ==
    IF first > MaxPlausibleUser /\ second \in 0 .. MaxPlausibleUser
    THEN <<second, first>> ELSE <<first, second>>

\* android_user_id
AndroidUserId(uid) ==
    IF uid = None THEN None ELSE (IF uid < 0 THEN 0 ELSE uid) \div PerUser

\* CrashFragment::new
NewFragment(a, quality, kind, process, pid) ==
    [source |-> a.source, quality |-> quality, kind |-> kind,
     process |-> process, user |-> None, pid |-> pid, at |-> 1,
     payload |-> "absent", file |-> None, class |-> None, frames |-> <<>>,
     death |-> a.death, told |-> {}]

\* The stack of a report, as JavaFrame::normalized and java_like_frames keep
\* it: the method alone, or the whole line with the line number.
Normalized(d) == [i \in DOMAIN d.stack |-> [form |-> "method", name |-> d.stack[i], line |-> 0]]
AtLines(d)    == [i \in DOMAIN d.stack |-> [form |-> "at", name |-> d.stack[i], line |-> d.line]]

\* kind_of_am_crash: NativeCrashListener reports through am_crash as well.
KindOfAmCrash(class) == IF class = "Native crash" THEN "Native" ELSE "Java"

\* parse_event_payload and parse_activity_event: one malformed value refuses
\* the whole event; am_crash alone has a place.
ParseActivityEvent(a) ==
    LET id == ActivityUserAndPid(a.first, a.second)
    IN  IF ~a.intact THEN None
        ELSE [tag |-> a.tag, user |-> id[1], pid |-> id[2], process |-> a.d.process,
              class |-> a.class,
              place |-> IF a.tag = "am_crash" /\ a.located
                        THEN <<[form |-> "file", name |-> Head(a.d.stack),
                                line |-> a.d.line]>>
                        ELSE <<>>]

\* fragment_from_activity.  The pid of a native am_crash is system_server's,
\* hence unknown.
FragmentFromActivity(a) ==
    LET e    == ParseActivityEvent(a)
        kind == CASE e.tag = "am_crash" -> KindOfAmCrash(e.class)
                  [] e.tag = "am_anr"   -> "Anr"
                  [] e.tag = "am_wtf"   -> "Wtf"
    IN  IF e = None THEN None
        ELSE [NewFragment(a, Structured, kind, e.process,
                          IF kind = "Native" THEN 0 ELSE e.pid)
                EXCEPT !.user = e.user, !.frames = e.place,
                       !.class = IF kind = "Anr" THEN "ANR" ELSE e.class,
                       !.payload = IF kind = "Wtf" THEN "present" ELSE "absent"]

\* parse_crash_buffer: the FATAL EXCEPTION line, then the Process line with its
\* PID, then the first line that is no frame, or nothing at all.
ParseCrashBuffer(d, whole) ==
    IF ~whole THEN None
    ELSE [process |-> d.process, pid |-> d.pid, class |-> d.class, frames |-> Normalized(d)]

\* apply_java_report
ApplyJavaReport(f, r) ==
    [f EXCEPT !.process = r.process, !.pid = r.pid, !.class = r.class,
              !.frames = r.frames, !.payload = "present"]

\* fragment_from_crash
FragmentFromCrash(a) ==
    LET r == ParseCrashBuffer(a.d, a.intact)
    IN  IF r = None THEN None
        ELSE ApplyJavaReport(NewFragment(a, Text, "Java", r.process, r.pid), r)

\* parse_anr: a stack dump or a list of waiting channels, which has no frames;
\* the top frame of the main thread is all that collectors.rs takes.
ParseAnr(d, text) ==
    IF text \notin {"whole", "channels"} THEN None
    ELSE [process |-> d.process, pid |-> d.pid,
          frames |-> IF text = "whole" THEN <<Head(AtLines(d))>> ELSE <<>>]

\* Mutant: the headers come first.
ApplyNativeHeaders(f, r) ==
    [f EXCEPT !.pid = IF f.pid = 0 THEN r.pid ELSE f.pid,
              !.user = IF f.user = None THEN AndroidUserId(r.uid) ELSE f.user,
              !.class = r.class, !.frames = r.frames]

\* apply_native_report, of a report with these fields: the body overrides the
\* DropBox headers, except for a uid the headers know.
ApplyNativeReport(f, r) ==
    [f EXCEPT !.process = r.process, !.pid = r.pid,
              !.user = IF f.user = None THEN AndroidUserId(r.uid) ELSE f.user,
              !.class = r.class, !.frames = r.frames]

\* NativeFrame::normalized, of the crashing thread's frames in the protobuf: the
\* library and the symbol, or the relative pc of a frame that has none.
NativeFrames(d) ==
    [i \in DOMAIN d.stack |-> [form |-> "pc", name |-> d.stack[i], line |-> 0]]

\* parse_frame and NativeFrame::normalized, of a line of the text.  The function
\* is what the first parentheses hold, up to the first that closes: a C++
\* signature loses its end, and a frame of a library mapped from an archive
\* gives "(offset 0x..)" instead of its symbol, the same for each of its frames
\* once normalize_native_frame has dropped what follows the blank.
ParseFrame(m) ==
    CASE Printed[m] = "plain"     -> [form |-> "pc", name |-> m, line |-> 0]
      [] Printed[m] = "signature" -> [form |-> "cut", name |-> m, line |-> 0]
      [] Printed[m] = "offset"    -> [form |-> "offset", name |-> MappedFile, line |-> 0]

\* The frames of every thread the text goes on to list are taken.
TextFrames(d) ==
    [i \in DOMAIN d.stack |-> ParseFrame(d.stack[i])] \o <<[form |-> "pc", name |-> OtherThread, line |-> d.pid]>>

\* The process is argv[0], or else the name of the crashing thread.
NativeName(a) == IF a.named THEN a.d.process ELSE ThreadName

\* parse_proto
ParseProto(a) ==
    [format |-> "Protobuf", process |-> NativeName(a), pid |-> a.d.pid,
     class |-> a.d.class, uid |-> a.d.uid, frames |-> NativeFrames(a.d)]

\* parse_text: older releases write no uid line.
ParseText(a) ==
    [format |-> "Text", process |-> NativeName(a), pid |-> a.d.pid,
     class |-> a.d.class, uid |-> IF a.uidLine THEN a.d.uid ELSE None,
     frames |-> TextFrames(a.d)]

\* The tests of kind_from_tag, in order, and the CrashKind dropbox_fragment
\* files each DropboxKind under.
KindTests ==
    << <<"native_recoverable_crash", "Native">>, <<"native_crash", "Native">>,
       <<"SYSTEM_TOMBSTONE", "Native">>, <<"_crash", "Java">>,
       <<"_anr", "Anr">>, <<"_wtf", "Wtf">>, <<"_strictmode", "Java">>,
       <<"_lowmem", "Anr">>, <<"_watchdog", "Anr">> >>

\* kind_from_tag.  A tag is the set of the tests it would pass.
KindFromTag(tag) ==
    LET hits == {i \in DOMAIN KindTests : KindTests[i][1] \in tag}
    IN  IF hits = {} THEN None ELSE KindTests[Min(hits)][2]

\* parse_path and parse_bytes: an entry that does not unpack to text is refused
\* whole; headers that are missing or malformed are left out one by one.
ParseEntry(a) ==
    IF ~a.intact THEN None
    ELSE [kind |-> KindFromTag(a.tag), process |-> a.process, pid |-> a.pid, uid |-> a.uid,
          package |-> IF a.package = None /\ a.process # None THEN PackageOf[a.process]
                                                            ELSE a.package]

\* dropbox_fragment: the headers give an identity, which a body that parses
\* overrides; an entry with neither process nor package is not recorded.
DropboxFragment(a) ==
    LET e       == ParseEntry(a)
        process == IF e.process # None THEN e.process ELSE e.package
        base    == [NewFragment(a, Structured, e.kind, process,
                                IF e.pid = None THEN 0 ELSE e.pid)
                      EXCEPT !.user = AndroidUserId(e.uid), !.payload = "present"]
        parsed  == a.body = "report"
        java    == ParseCrashBuffer(a.d, parsed)
        anr     == ParseAnr(a.d, IF parsed THEN "whole" ELSE "damaged")
    IN  IF e = None \/ e.kind = None \/ process = None THEN None
        ELSE CASE e.kind = "Java" ->
                    IF java # None THEN ApplyJavaReport(base, java)
                    ELSE [base EXCEPT !.frames = AtLines(a.d), !.class = a.d.class]
               [] e.kind = "Anr" ->
                    IF anr # None
                    THEN [base EXCEPT !.process = anr.process, !.pid = anr.pid,
                             !.class = "ANR", !.frames = anr.frames]
                    ELSE [base EXCEPT !.class = "ANR"]
               [] e.kind = "Native" ->
                    IF parsed THEN ApplyNativeReport(base, ParseText(a)) ELSE base
               [] e.kind = "Wtf" -> [base EXCEPT !.frames = AtLines(a.d)]

\* Mutant: only the preferred half is tried.
ReadPreferredHalf(a) ==
    IF a.pb # "absent"
    THEN IF a.pb = "whole" THEN ParseProto(a) ELSE None
    ELSE IF a.text = "whole" THEN ParseText(a) ELSE None

\* read_tombstone_report: the protobuf half is preferred when it exists, and
\* the text is tried when the protobuf does not parse.
ReadTombstoneReport(a) ==
    IF a.pb = "whole" THEN ParseProto(a)
    ELSE IF a.text = "whole" THEN ParseText(a) ELSE None

\* The half discover prefers, whose bytes tombstone_fragment reads first.
PreferredHalf(a) == IF a.pb = "absent" THEN a.text ELSE a.pb

\* tombstone_fragment
TombstoneFragment(a) ==
    LET r == ReadTombstoneReport(a)
    IN  IF PreferredHalf(a) = "blank" \/ r = None THEN None
        ELSE [ApplyNativeReport(
                 NewFragment(a, IF r.format = "Protobuf" THEN Protobuf ELSE Artifact,
                             "Native", r.process, r.pid), r)
                EXCEPT !.payload = "present"]

\* anr_fragment
AnrFragment(a) ==
    LET r == ParseAnr(a.d, a.text)
    IN  IF r = None THEN None
        ELSE [NewFragment(a, Artifact, "Anr", r.process, r.pid)
                EXCEPT !.file = a.path, !.class = "ANR", !.payload = "present",
                       !.frames = r.frames]

\* What a collector makes of an artefact: a fragment, or None.
FragmentOf(a) ==
    CASE a.source = "EVENTS"       -> FragmentFromActivity(a)
      [] a.source = "CRASH_BUFFER" -> FragmentFromCrash(a)
      [] a.source = "DROPBOX"      -> DropboxFragment(a)
      [] a.source = "TOMBSTONE"    -> TombstoneFragment(a)
      [] a.source = "ANR_FILE"     -> AnrFragment(a)

-----------------------------------------------------------------------------
(* The group of an occurrence.                                             *)

\* normalize_java_frame and normalize_native_frame: the line number inside the
\* parentheses goes; a text without parentheses stays as it is.
NormalizeFrame(f) == IF f.form = "at" THEN [f EXCEPT !.line = 0] ELSE f

\* is_framework_frame: the prefixes are those of methods, a native frame begins
\* with its library and the place of an event with a file.
IsFrameworkFrame(f) == f.form \in {"method", "at"} /\ f.name \in Framework

\* Fingerprint::from_raw_frames
FingerprintFrames(raw) ==
    LET normalized == [i \in DOMAIN raw |-> NormalizeFrame(raw[i])]
        app == SelectSeq(normalized, LAMBDA f : ~IsFrameworkFrame(f))
        kept == IF app = <<>> THEN normalized ELSE app
    IN  SubSeq(kept, 1, IF Len(kept) < FrameCount THEN Len(kept) ELSE FrameCount)

\* Pending::new, the class and the frames of the first fragment
NewDetails(f) ==
    [keys |-> {f}, class |-> f.class, classQ |-> f.quality,
     frames |-> f.frames, framesQ |-> f.quality]

\* Mutant: the last evidence wins.
MergeDetailsLast(x, f) ==
    [keys |-> x.keys \cup {f}, classQ |-> f.quality, framesQ |-> f.quality,
     class  |-> IF f.class = None THEN x.class ELSE f.class,
     frames |-> IF f.frames = <<>> THEN x.frames ELSE f.frames]

\* Pending::merge, the class (merge_ranked) and the frames
MergeDetails(x, f) ==
    LET takesClass  == /\ f.class # None
                       /\ x.class = None \/ Outranks(f.quality, x.classQ)
        takesFrames == f.frames # <<>> /\ Outranks(f.quality, x.framesQ)
    IN  [keys |-> x.keys \cup {f},
         class   |-> IF takesClass THEN f.class ELSE x.class,
         classQ  |-> IF takesClass THEN f.quality ELSE x.classQ,
         frames  |-> IF takesFrames THEN f.frames ELSE x.frames,
         framesQ |-> IF takesFrames THEN f.quality ELSE x.framesQ]

\* What GroupKey::group_id hashes besides the app: primary is the class, or the
\* kind when no evidence names one (the model has no summary text).
Site(o) ==
    LET x == CHOOSE x \in details : x.keys = o.keys
    IN  [kind |-> o.kind, primary |-> IF x.class = None THEN o.kind ELSE x.class,
         frames |-> FingerprintFrames(x.frames)]

-----------------------------------------------------------------------------
(* What the platform writes (external).  A flawless death leaves the       *)
(* evidence a current AOSP build leaves; a flawed one leaves any of the    *)
(* variants and damages the code provides for.                             *)

Either(odd, S, usual) == IF odd THEN S \cup {usual} ELSE {usual}

UserOf(d) == AndroidUserId(d.uid)

Event(i, d, pair, loc, ok) ==
    [source |-> "EVENTS", death |-> i, d |-> d, first |-> pair[1], second |-> pair[2],
     located |-> loc, intact |-> ok,
     tag |-> CASE d.kind \in {"Java", "Native"} -> "am_crash"
               [] d.kind = "Anr" -> "am_anr" [] d.kind = "Wtf" -> "am_wtf",
     class |-> IF d.kind = "Native" THEN "Native crash" ELSE d.class]

\* NativeCrashListener runs in system_server.
EventPid(d) == IF d.kind = "Native" THEN SystemServer ELSE d.pid

EventEntries(i, d, odd) ==
    {Event(i, d, pair, loc, ok) :
        pair \in Either(odd, {<<EventPid(d), UserOf(d)>>}, <<UserOf(d), EventPid(d)>>),
        loc \in Either(odd, {FALSE}, TRUE), ok \in Either(odd, {FALSE}, TRUE)}

CrashEntry(i, d, ok) == [source |-> "CRASH_BUFFER", death |-> i, d |-> d, intact |-> ok]

CrashEntries(i, d, odd) == {CrashEntry(i, d, ok) : ok \in Either(odd, {FALSE}, TRUE)}

Tags(kind) ==
    CASE kind = "Java"   -> {{"_crash"}}
      [] kind = "Native" -> {{"native_crash", "_crash"}, {"SYSTEM_TOMBSTONE"},
                             {"native_recoverable_crash", "_crash"}}
      [] kind = "Anr"    -> {{"_anr"}}
      [] kind = "Wtf"    -> {{"_wtf"}, {}}

DropboxFile(i, d, tag, ok, names, pid, uid, line, body) ==
    [source |-> "DROPBOX", death |-> i, d |-> d, tag |-> tag, intact |-> ok,
     process |-> names[1], package |-> names[2], pid |-> pid, uid |-> uid,
     body |-> body, uidLine |-> line, named |-> TRUE]

\* The body of a Java entry is a bare stack trace on AOSP, and the log buffer's
\* text on some builds; a process header without its pid, or no header at all.
DropboxEntries(i, d, odd) ==
    {DropboxFile(i, d, tag, ok, names, pid, uid, line, body) :
        tag \in Either(odd, Tags(d.kind), CHOOSE t \in Tags(d.kind) : t # {}),
        ok \in Either(odd, {FALSE}, TRUE),
        names \in Either(odd, {<<None, PackageOf[d.process]>>, <<None, None>>},
                         <<d.process, PackageOf[d.process]>>),
        pid \in Either(odd, {None, SystemServer}, d.pid),
        uid \in Either(odd, {None}, d.uid), line \in Either(odd, {FALSE}, TRUE),
        body \in Either(odd, {"report", "other"},
                        IF d.kind \in {"Native", "Anr"} THEN "report" ELSE "other")}

TombstonePair(i, d, pb, text, line, named) ==
    [source |-> "TOMBSTONE", death |-> i, d |-> d, pb |-> pb, text |-> text,
     uidLine |-> line, named |-> named]

Tombstones(i, d, odd) ==
    {TombstonePair(i, d, pb, text, line, named) :
        pb \in Either(odd, {"absent", "blank", "damaged"}, "whole"),
        text \in Either(odd, {"blank", "damaged"}, "whole"),
        line \in Either(odd, {FALSE}, TRUE), named \in Either(odd, {FALSE}, TRUE)}

AnrDump(i, d, text) ==
    [source |-> "ANR_FILE", death |-> i, d |-> d, text |-> text,
     path |-> CHOOSE p \in AnrFile : TRUE]

AnrDumps(i, d, odd) ==
    {AnrDump(i, d, text) :
        text \in Either(odd, {"blank", "damaged", "channels"}, "whole")}

Written(i, d, odd) ==
    EventEntries(i, d, odd) \cup DropboxEntries(i, d, odd) \cup
    CASE d.kind = "Java"   -> CrashEntries(i, d, odd)
      [] d.kind = "Native" -> Tombstones(i, d, odd)
      [] d.kind = "Anr"    -> AnrDumps(i, d, odd)
      [] d.kind = "Wtf"    -> {}

-----------------------------------------------------------------------------
(* What an artefact tells a reader, whatever the code makes of it.  An     *)
(* entry that names the wrong pid and has no report to correct it tells    *)
(* nothing reliable.                                                       *)

HasReport(a) == a.body = "report" /\ a.d.kind # "Wtf"

Tells(a) ==
    CASE a.source = "EVENTS" ->
           {"process", "user"} \cup (IF a.d.kind = "Native" THEN {} ELSE {"pid"})
      [] a.source \in {"CRASH_BUFFER", "ANR_FILE"} -> {"process", "pid"}
      [] a.source = "TOMBSTONE" ->
           {"pid"} \cup (IF a.named THEN {"process"} ELSE {})
                   \cup (IF a.pb = "whole" \/ a.uidLine THEN {"user"} ELSE {})
      [] a.source = "DROPBOX" ->
           IF ~HasReport(a) /\ a.pid \notin {a.d.pid, None} THEN {}
           ELSE (IF HasReport(a) \/ a.d.process \in {a.process, a.package}
                 THEN {"process"} ELSE {})
                \cup (IF HasReport(a) \/ a.pid # None THEN {"pid"} ELSE {})
                \cup (IF a.uid # None \/ (a.d.kind = "Native" /\ HasReport(a) /\ a.uidLine)
                      THEN {"user"} ELSE {})

\* The artefacts that must be recorded: a crash, not damaged, that names an app
\* where the collectors look for one.  Of a tombstone pair one half is enough.
Legible(a) ==
    CASE a.source \in {"EVENTS", "CRASH_BUFFER"} -> a.intact
      [] a.source = "TOMBSTONE" -> "whole" \in {a.pb, a.text}
      [] a.source = "ANR_FILE"  -> a.text \in {"whole", "channels"}
      [] a.source = "DROPBOX"   ->
           a.intact /\ a.tag # {} /\ {a.process, a.package} # {None}

\* The half that is read first is all zeroes.
Blank(a) == a.source = "TOMBSTONE" /\ PreferredHalf(a) = "blank"

\* Two pieces of evidence from which a reader sees that they belong together.
Vouch(s, t) ==
    "process" \in s \cap t /\ s \cap t \cap {"pid", "user"} # {}

-----------------------------------------------------------------------------
(* The system: the collectors read, in any order, and the merger joins.    *)

EvidenceInit ==
    /\ MergerInit
    /\ deaths \in Scenario
    /\ read = {} /\ details = {}

\* CrashMerger::ingest of the fragment, with what it does to class and frames.
Join(f) ==
    /\ Ingest(f)
    /\ LET new == {o.keys : o \in pending' \cup completed'}
           mine == {k \in new : f \in k}
       IN  details' = IF mine = {} THEN details
                      ELSE {x \in details : \A k \in mine : x.keys # k \ {f}} \cup
                           {IF k = {f} THEN NewDetails(f)
                            ELSE MergeDetails(CHOOSE x \in details : x.keys = k \ {f}, f) :
                              k \in mine}

\* ingest_source, or one entry of a log reader: a fragment is sent and joined,
\* anything else is skipped.
Read(a) ==
    LET made == FragmentOf(a)
        sent == IF made = None THEN None ELSE [made EXCEPT !.told = Tells(a)]
    IN  /\ \A b \in read : <<b.death, b.source>> # <<a.death, a.source>>
        /\ read' = read \cup {[death |-> a.death, source |-> a.source,
                               sent |-> sent, legible |-> Legible(a),
                               blank |-> Blank(a)]}
        /\ UNCHANGED deaths
        /\ \/ sent = None /\ UNCHANGED <<mergerVars, details>>
           \/ sent # None /\ Join(sent)

EvidenceNext ==
    \E i \in DOMAIN deaths :
        \E a \in Written(i, deaths[i], i \in Flawed) : Read(a)

EvidenceSpec == EvidenceInit /\ [][EvidenceNext]_evidenceVars

-----------------------------------------------------------------------------
(* Properties.                                                             *)

Occurrences == pending \cup completed

\* An occurrence whose evidence names its process is made of the evidence of
\* one death and carries its kind, process, user and pid: swapped fields,
\* wrong headers and damaged halves never move a crash to another process, its
\* clone or a neighbour (activity_user_and_pid, apply_native_report,
\* kind_from_tag).
CrashIsAttributed ==
    \A o \in Occurrences : (\A f \in o.keys : "process" \in f.told) =>
        \E i \in DOMAIN deaths :
            /\ \A f \in o.keys : f.death = i
            /\ o.kind = deaths[i].kind /\ o.process = deaths[i].process
            /\ o.pid \in {0, deaths[i].pid}
            /\ o.user \in {None, UserOf(deaths[i])} \/ (o \in completed /\ o.user = 0)

\* Evidence of one death that vouches for itself, pairwise, is one occurrence,
\* in whatever order the collectors read it, as long as nothing read leaves
\* its process unnamed: the parsers give the merger identities that agree.
EvidenceJoins ==
    LET sent == {b.sent : b \in read} \ {None}
    IN  (\A f \in sent : "process" \in f.told) =>
        \A i \in DOMAIN deaths :
            (\A f, g \in sent : f.death = i /\ g.death = i => Vouch(f.told, g.told))
              => Cardinality({o \in Occurrences : \E f \in o.keys : f.death = i}) <= 1

\* The evidence of this source of this death is in a record, or absorbed by one.
Recorded(b) ==
    \E f \in (UNION {o.keys : o \in Occurrences}) \cup {s[2] : s \in suppressed} :
        f.death = b.death /\ f.source = b.source

\* A legible artefact reaches a record or is absorbed by one, except a tombstone
\* whose preferred half is all zeroes: a protobuf half that is damaged in any
\* other way gives way to the text, and one spoilt source hides no other
\* (tombstone_fragment, read_tombstone_report).
OnlyABlankHalfHides ==
    \A b \in read : b.legible => Recorded(b) \/ b.blank

\* The occurrence has the stack of its tombstone or its ANR dump, and it fills
\* the fingerprint: below FrameCount frames, those of other threads in a text
\* tombstone take part.
HasStack(o) ==
    \E f \in o.keys :
        /\ f.source \in {"TOMBSTONE", "ANR_FILE"} /\ f.frames # <<>>
        /\ f.kind = "Native" => Len(deaths[f.death].stack) >= FrameCount

\* The frames of its death are printed the way the protobuf names them.
PlainStack(o) ==
    \A f \in o.keys : \A i \in DOMAIN deaths[f.death].stack :
        Printed[deaths[f.death].stack[i]] = "plain"

\* The half of the pair a tombstone of the occurrence was read from.
Halves(o) == {f.quality : f \in {g \in o.keys : g.source = "TOMBSTONE"}}

\* An occurrence that has the stack of its tombstone or its ANR dump is grouped
\* by it, the same for every death at one site, whatever else was read before or
\* after it; also whichever half of the pair survived, when the text prints the
\* frames plainly (MergeDetails is Pending::merge, FingerprintFrames is
\* from_raw_frames).
SiteIsStable ==
    \A o, p \in {q \in Occurrences : HasStack(q)} :
        Halves(o) = Halves(p) \/ (PlainStack(o) /\ PlainStack(p)) => Site(o) = Site(p)

=============================================================================
