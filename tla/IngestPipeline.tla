--------------------------- MODULE IngestPipeline ----------------------------
(***************************************************************************)
(* The collectors of collectors.rs around the ingest thread: the two log   *)
(* readers (ct-log-events, ct-log-crash), the artefact thread              *)
(* (ct-artifacts, with the start-up scan and the inotify watch of          *)
(* cch_watcher) and the channel they share.                                *)
(*                                                                         *)
(* The world writes log entries and artefact files; each is a fragment     *)
(* with two more fields: path, the file an artefact is a version of (None  *)
(* for a log entry), and death, the crash it really is evidence of.  Only  *)
(* properties read death.                                                  *)
(*                                                                         *)
(* Checking a key and sending its fragment is one step: what the ingest    *)
(* thread marks in between could as well have been marked just after.      *)
(***************************************************************************)
EXTENDS IngestLoop

CONSTANTS
    Grace,       \* LOG_HISTORY_GRACE_MS
    Unrelated,   \* artefacts that are readable and hold no crash
    Installed,   \* the clock at the first start of the daemon
    MaxGlitches  \* bound on what goes wrong for the collectors

LogSource == {"EVENTS", "CRASH_BUFFER"}

ASSUME PipelineAssumption ==
    /\ Grace \in Nat /\ MaxGlitches \in Nat /\ Installed \in 0 .. Horizon
    /\ Unrelated \subseteq Fragment
    /\ \A f \in Fragment : (f.source \in LogSource) = (f.path = None)
    /\ \A f \in Unrelated : f.source \notin LogSource

VARIABLES
    now,       \* now_ms()
    written,   \* log entries and file versions that came to be
    ignored,   \* keys in ingested_source the collectors marked themselves
    migrated,  \* log sources whose migration marker is in ingested_source
    queue,     \* the mpsc channel
    read,      \* entries handled since the log reader was opened
    seen,      \* the log readers' seen sets
    cutoff,    \* LogReplayMigration: source -> cutoff_ms while active, None after
    watcher,   \* the artefact thread: "scan", "arm", "watch", "ended"
    found,     \* sources a scan or a poll returned, not yet handled
    inotify,   \* files with a queued inotify event
    glitches,  \* store lookups, scans and polls that failed
    sent,      \* history: fragments a collector put in the channel
    missed     \* history: files completed after the scan and before the watch

pipeVars ==
    <<loopVars, now, written, ignored, migrated, queue, read, seen, cutoff,
      watcher, found, inotify, glitches, sent, missed>>

outside == <<now, written, missed>>
readers == <<ignored, migrated, read, seen, cutoff>>
artefacts == <<watcher, found, inotify>>
channel == <<queue, sent>>

\* The collectors' threads run, and nobody asked them to stop.
Running == phase \in {"receive", "persist"}

\* was_ingested: a key of either kind is a row of ingested_source.
WasIngested(f) == f \in marked \cup ignored

\* The version of its file that is on disk.
IsCurrent(f) ==
    \A g \in written : g.path = f.path /\ g # f => g.at < f.at

-----------------------------------------------------------------------------
(* The world.                                                              *)

\* Android writes a log entry, or completes a version of a file.  A watched
\* directory queues an event for it.
Write(f) ==
    /\ f \notin written /\ f.at <= now
    /\ \A g \in written : g.path = f.path /\ f.path # None => g.at < f.at
    /\ written' = written \cup {f}
    /\ inotify' = IF f.path # None /\ watcher = "watch" THEN Append(inotify, f.path) ELSE inotify
    /\ missed' = IF f.path # None /\ watcher = "arm" THEN missed \cup {f} ELSE missed
    /\ UNCHANGED <<loopVars, now, readers, channel, watcher, found, glitches>>

Tick ==
    /\ now < Horizon /\ now' = now + 1
    /\ UNCHANGED <<loopVars, written, missed, readers, channel, artefacts, glitches>>

-----------------------------------------------------------------------------
Send(f) == queue' = Append(queue, f) /\ sent' = sent \cup {f}

(* run_log_reader with the closures of spawn_events_loop, spawn_crash_loop *)

\* A buffer is read from its beginning, in the order it was written.
NextEntry(f) ==
    /\ f \in written \ read /\ f.source \in LogSource
    /\ \A g \in written \ read : g.source = f.source => f.at <= g.at

\* Mutant: the marker is never stored.
EndsUnmarked(f, done) ==
    /\ cutoff' = IF cutoff[f.source] # None /\ f.at >= cutoff[f.source]
                 THEN [cutoff EXCEPT ![f.source] = None] ELSE cutoff
    /\ UNCHANGED migrated

\* is_historical: the first live entry ends the migration and stores a marker,
\* which may fail; done is whether the marker is stored.
EndsMigration(f, done) ==
    LET s    == f.source
        ends == cutoff[s] # None /\ f.at >= cutoff[s]
    IN  /\ cutoff' = IF ends THEN [cutoff EXCEPT ![s] = None] ELSE cutoff
        /\ migrated' = IF ends /\ done THEN migrated \cup {s} ELSE migrated

IsHistorical(f) == cutoff[f.source] # None /\ f.at < cutoff[f.source]

\* log_source_seen, then send; ok is whether the store answers the reader.  A
\* lookup that fails counts as "not ingested".
ReadLog(f, ok) ==
    LET known == f \in seen \/ (ok /\ WasIngested(f))
    IN  /\ Running /\ NextEntry(f)
        /\ ok \/ glitches < MaxGlitches
        /\ glitches' = IF ok THEN glitches ELSE glitches + 1
        /\ EndsMigration(f, ok)
        /\ read' = read \cup {f} /\ seen' = seen \cup {f}
        /\ ignored' = IF ~known /\ IsHistorical(f) /\ ok THEN ignored \cup {f} ELSE ignored
        /\ IF ~known /\ ~IsHistorical(f) THEN Send(f) ELSE UNCHANGED channel
        /\ UNCHANGED <<loopVars, outside, artefacts>>

\* logd closed the socket: the buffer is opened again and replayed from its
\* beginning.  The closure that handles entries is the same, and with it the
\* seen set and the state of the migration.
Reconnect(s) ==
    /\ Running
    /\ \E f \in read : f.source = s
    /\ read' = {f \in read : f.source # s}
    /\ UNCHANGED <<loopVars, outside, channel,
                   ignored, migrated, seen, cutoff, artefacts, glitches>>

-----------------------------------------------------------------------------
(* spawn_artifact_loop                                                     *)

\* sort_by_key(modified_ns)
InOrder(S) ==
    {s \in [1 .. Cardinality(S) -> S] :
        \A i, j \in DOMAIN s : i < j => s[i] # s[j] /\ s[i].at <= s[j].at}

\* Mutant: the start-up scan looks at nothing.
ScanNothing ==
    /\ Running /\ watcher = "scan" /\ watcher' = "arm" /\ found' = <<>>
    /\ UNCHANGED <<loopVars, outside, channel, readers, inotify, glitches>>

\* startup_scan: what is on disk and not ingested, oldest first; an error
\* anywhere abandons the whole scan.
Scan ==
    /\ Running /\ watcher = "scan"
    /\ LET disk == {f \in written : f.path # None /\ IsCurrent(f) /\ ~WasIngested(f)}
       IN  \/ found' \in InOrder(disk) /\ UNCHANGED glitches
           \/ found' = <<>> /\ glitches < MaxGlitches /\ glitches' = glitches + 1
    /\ watcher' = "arm"
    /\ UNCHANGED <<loopVars, outside, channel,
                   readers, inotify>>

\* InotifyWatcher::new: the directories are watched from here on, or never.
Arm ==
    /\ Running /\ watcher = "arm" /\ found = <<>>
    /\ \/ watcher' = "watch" /\ UNCHANGED glitches
       \/ watcher' = "ended" /\ glitches < MaxGlitches /\ glitches' = glitches + 1
    /\ UNCHANGED <<loopVars, outside, channel,
                   readers, found, inotify>>

\* poll: every queued event is looked up by name, so it finds the version that
\* is on disk now; an error loses the events that were read.
Poll ==
    /\ Running /\ watcher = "watch" /\ found = <<>> /\ inotify # <<>>
    /\ LET current(p) == CHOOSE f \in written : f.path = p /\ IsCurrent(f)
       IN  \/ /\ found' = [i \in DOMAIN inotify |-> current(inotify[i])]
              /\ UNCHANGED glitches
           \/ found' = <<>> /\ glitches < MaxGlitches /\ glitches' = glitches + 1
    /\ inotify' = <<>>
    /\ UNCHANGED <<loopVars, outside, channel,
                   readers, watcher>>

\* ingest_source: known, a crash to send, readable but no crash, or unreadable.
\* A lookup that fails counts as "not ingested" here too.
IngestSource(ok) ==
    LET f == Head(found)
    IN  /\ Running /\ found # <<>>
        /\ ok \/ glitches < MaxGlitches
        /\ glitches' = IF ok THEN glitches ELSE glitches + 1
        /\ found' = Tail(found)
        /\ \/ ok /\ WasIngested(f) /\ UNCHANGED <<channel, ignored>>
           \/ /\ ~(ok /\ WasIngested(f)) /\ f \notin Unrelated
              /\ Send(f) /\ UNCHANGED ignored
           \/ /\ ~(ok /\ WasIngested(f)) /\ f \in Unrelated
              /\ ignored' = (IF ok THEN ignored \cup {f} ELSE ignored) /\ UNCHANGED channel
           \/ ~ok /\ UNCHANGED <<channel, ignored>>
        /\ UNCHANGED <<loopVars, outside, migrated, read, seen, cutoff, watcher, inotify>>

-----------------------------------------------------------------------------
(* The ingest thread, fed from the channel.                                *)

ReceiveNext ==
    /\ queue # <<>> /\ Receive(Head(queue)) /\ queue' = Tail(queue)
    /\ UNCHANGED <<sent, outside, readers, artefacts, glitches>>

\* recv_timeout gives up only on an empty channel.
TimeoutNow ==
    /\ queue = <<>> /\ Timeout(now)
    /\ UNCHANGED <<outside, readers, artefacts, channel, glitches>>

PersistOrConfirm ==
    /\ \/ \E m \in completed :
            PersistExcluded(m) \/ PersistFolded(m) \/ PersistInserted(m, now) \/ PersistRefused(m)
       \/ Confirm
    /\ UNCHANGED <<outside, readers, artefacts, channel, glitches>>

IngestThread == ReceiveNext \/ TimeoutNow \/ PersistOrConfirm

\* A manager's request, on the thread of its connection.
Delete ==
    /\ \E S \in SUBSET rows : DeleteRecords(S)
    /\ UNCHANGED <<outside, readers, artefacts, channel, glitches>>

\* What a process holds in memory besides the merger.  LogReplayMigration::new
\* runs as the readers start.
Reset(time) ==
    /\ queue' = <<>> /\ read' = {} /\ seen' = {}
    /\ cutoff' = [s \in LogSource |-> IF s \in migrated THEN None
                                      ELSE IF time > Grace THEN time - Grace ELSE 0]
    /\ watcher' = "scan" /\ found' = <<>> /\ inotify' = <<>>
    /\ UNCHANGED <<outside, ignored, migrated, glitches, sent>>

\* CollectorRuntime::stop: what is still in the channel is dropped.  The last
\* life is not cut short, or nothing could be said to happen at last.
StopAll == lives < MaxLives /\ Stop /\ Reset(now)

CrashAll == lives < MaxLives /\ Crash /\ Reset(now)

StartAll == Start /\ Reset(now)

PipeInit ==
    /\ Init
    /\ now = Installed /\ written = {} /\ ignored = {} /\ migrated = {} /\ queue = <<>>
    /\ read = {} /\ seen = {} /\ missed = {} /\ glitches = 0 /\ sent = {}
    /\ cutoff = [s \in LogSource |-> IF Installed > Grace THEN Installed - Grace ELSE 0]
    /\ watcher = "scan" /\ found = <<>> /\ inotify = <<>>

LogReader(s) == \E f \in Fragment : f.source = s /\ \E ok \in BOOLEAN : ReadLog(f, ok)

ArtefactThread == Scan \/ Arm \/ Poll \/ \E ok \in BOOLEAN : IngestSource(ok)

PipeNext ==
    \/ \E f \in Fragment : Write(f)
    \/ Tick
    \/ \E s \in LogSource : LogReader(s) \/ Reconnect(s)
    \/ ArtefactThread
    \/ IngestThread
    \/ Delete
    \/ StopAll \/ CrashAll \/ StartAll

PipeSpec == PipeInit /\ [][PipeNext]_pipeVars

\* Threads run, the clock advances, and the launcher starts the daemon again.
Fairness ==
    /\ WF_pipeVars(Tick) /\ WF_pipeVars(StartAll)
    /\ WF_pipeVars(IngestThread) /\ WF_pipeVars(ArtefactThread)
    /\ \A s \in LogSource : WF_pipeVars(LogReader(s))

FairPipeSpec == PipeSpec /\ Fairness

-----------------------------------------------------------------------------
(* Properties.                                                             *)

PipeTypeOK ==
    /\ TypeOK
    /\ now \in Nat /\ written \subseteq Fragment /\ missed \subseteq written
    /\ ignored \subseteq Fragment /\ migrated \subseteq LogSource
    /\ queue \in Seq(Fragment) /\ found \in Seq(Fragment)
    /\ read \subseteq written /\ seen \subseteq written
    /\ cutoff \in [LogSource -> Nat \cup {None}]
    /\ watcher \in {"scan", "arm", "watch", "ended"}
    /\ \A i \in DOMAIN inotify : \E f \in written : f.path = inotify[i]
    /\ glitches \in Nat /\ sent \subseteq written

\* The user an occurrence, or a fragment alone, is stored under (Pending::finish).
UserOf(o) == IF o.user = None THEN 0 ELSE o.user

\* A death that ended its process, told once by each of its sources: they agree
\* on who died and when, no other death of the process passes for it, none of
\* its files is written twice, and its keys are not old enough to be pruned.
\* What happens where one of these fails is what the code does not promise.
Told(d) ==
    \A f \in {e \in Fragment : e.death = d} :
        /\ f.kind \in {"Java", "Native"} /\ f.pid # 0
        /\ \A t \in 0 .. Horizon : ~MayExpire(f, t)
        /\ \A g \in Fragment :
            /\ f.path # None /\ f.path = g.path => f = g
            /\ g.death = d =>
                /\ f.kind = g.kind /\ f.process = g.process
                /\ f.pid = g.pid /\ UserOf(f) = UserOf(g)
                /\ Dist(f.at, g.at) <= Window
                /\ f.source = g.source => f = g
            /\ g.death # d /\ f.kind = g.kind /\ f.process = g.process =>
                /\ g.pid # 0
                /\ f.pid = g.pid => Dist(f.at, g.at) > Window

\* The test a_second_source_arriving_late_folds_instead_of_recording_again:
\* "the same death seen twice is not a second crash".  The evidence of a death
\* that is told is never spread over two records, however the collectors
\* interleave, whatever else dies, and wherever the daemon stops, dies and
\* starts again.
OneRecordPerDeath ==
    \A r, s \in rows : \A f \in r.evidence, g \in s.evidence :
        f.death = g.death /\ Told(f.death) /\ glitches = 0 => r = s

\* Evidence a life of the daemon has sent on is never written off as history
\* by a later one, nor by a replay of the same one: is_historical stores its marker
\* before the first live entry is sent, so a restart cannot move the cutoff past
\* it.  (A marker the store
\* refused is not there, and the entry is then lost.)
SentIsNeverHistory ==
    glitches = 0 => sent \cap ignored = {}

\* logd does not close a reader's socket for ever.
ReconnectsEnd == \A s \in LogSource : <>[][~Reconnect(s)]_pipeVars

\* What is written is at last in ingested_source: log entries whatever the
\* replays of a reconnecting reader and the daemon's restarts, files unless a
\* newer version replaced them.  Files completed in the gap between scan and
\* watch are left out, and so is everything once a store write, a lookup, a scan
\* or a poll has failed.
EvidenceSettles ==
    ReconnectsEnd =>
        \A f \in Fragment :
            f \in written ~> \/ WasIngested(f) \/ f \in missed
                             \/ f.path # None /\ ~IsCurrent(f)
                             \/ faults > 0 \/ glitches > 0

=============================================================================
