# A TLA+ model of CrashCatcher

CrashCatcher is an Android root module. Its daemon collects the evidence the platform leaves
behind when a process crashes, hangs or reports a failure (log entries, DropBox entries,
tombstones, ANR dumps), joins what belongs to one occurrence into one record, keeps the records
in an index with their stacks beside it, and shows them in a manager application. These modules
model what decides whether a crash is recognised, recorded, recorded once, kept, announced and shown.

Paths below are relative to `src/`; `collectors.rs`, `core.rs` and so on are in
`crates/cch_daemond/src`, `write.rs`, `read.rs`, `retention.rs`, `payload.rs` in
`crates/cch_store/src`.

## Inventory

| Part | State it keeps | Operations | What makes it hard | Modelled in |
|---|---|---|---|---|
| Merger (`crates/cch_merge`) | pending occurrences, recent completions, late evidence waiting for confirmation | `ingest`, `flush_before`, `drain`, `confirm_persisted`, `reject_completion`, `take_confirmed_...` | any arrival order, unknown pids and users, evidence after completion | `CrashMerger` |
| Ingest thread (`collectors.rs`, `ingest_with_sources` of `core.rs`) | the merger, keys whose confirmation failed | receive, time out, persist, confirm, stop | refused writes, death between any two steps, deletions by a manager | `IngestLoop` |
| Collectors (`collectors.rs`, `cch_watcher`, `cch_logd`) | `seen` sets, replay cutoffs, inotify watch, channel | read, reconnect, scan, watch, poll, send | replayed logs, restarts, files replaced or closed blank, failing lookups | `IngestPipeline` |
| Parsers (`cch_logd`, `cch_dropbox`, `cch_tombstone`, `cch_anrfile`, fragments of `collectors.rs`) | none | artefact to fragment, ranking of class and frames, group fingerprint | one identity in five shapes, half-written files, any order | `Evidence` |
| Retention (`retention.rs`) | none | the five tiers of `sweep` | each tier is a transaction of its own | `Retention`, `CrashStore` |
| Crash store (`crates/cch_store`) | SQLite index, payload files, id generator | insert, fold, sweep, delete, open, list, count | two stores without a common transaction, three threads, crashes, lists read page by page | `CrashStore`, `Paging` |
| Mutes and configuration (`cch_config`, `cch_settings`, `core.rs`) | configuration file, mutes in memory and in the index, log level, two Android settings | `update_config`, mute, unmute, takeover, `clear_mutes` | several threads and copies updated one after the other, failing writes, renames a power failure undoes | `Config`, `AtomicDocument` |
| Packages and authentication (`cch_packages`, `cch_auth`, `packages.rs`) | package index, verdicts stored with groups | read three sources, complete, reload, authenticate, classify, reclassify | PackageManager comes and goes, updates move the APK, two threads replace one index | `Packages` |
| Bridge: broker (`bridge_broker.rs`), listener (`server.rs`), supervisor (`cch_bridge_supervisor`), Java process (`bridge/`) | pending requests, command channel, session, cached packages, child process | request, reply, time out, attach, detach, greet, handle, restart | three locks and an atomic against a detaching thread, late replies, processes that outlive the daemon | `Bridge` |
| Manager connections (`server.rs`, `apps/manager` data layer) | connection slots, pool of channels, payload handles | connect, authenticate, greet, ask, retry, read a text in chunks | either side dies at any moment, no timeout on an answer, characters cut by a chunk or by a read of a descriptor | `Sessions` |
| Module launcher (`module/*.sh`) | attempt counter, boot guard | start, retry, give up | boot loops | not modelled |
| Logging, diagnostics, packaging, demo | files for people to read | | | not modelled |

Collectors send fragments over one channel to the ingest thread; it alone owns the merger and
writes records. A fragment carries a durable key of its evidence. The key enters
`ingested_source` in the transaction that stores the record, and collectors skip evidence whose
key is there: this is the only thing that survives a restart besides the records. Before a record
is stored the package index classifies it and the configuration may exclude it. After that the
configuration and the mutes decide whether the ingest thread asks the bridge process for a
notification and waits for the reply. A manager reads, deletes and configures on the threads of
the connection slots; neither the merger nor a sweep is told.

## Modules

`CrashMerger` translates the correlator. A fragment is a record of the fields the merger decides
on, and stands for its own source key. The vectors of the code are sets; where the code takes the
first of equally near matches the model takes any. Completion ids are handed out in any order
among occurrences that complete together.

`Retention` gives the ceilings as operators on a set of rows, in the order `sweep` applies them.
Stack frames are abstracted, so a group is a process, a user and a kind. A payload weighs one.

`IngestLoop` (extends both) is the thread. One round is `Receive` or `Timeout`, then one
`Persist...` step for each completed record in the order of their time, then `Confirm`. `Stop` is
the drain and its last round, `Crash` loses everything but the index, `Start` begins with a new
merger. `PersistInserted` includes the sweep, which may get through any number of its tiers,
because the code swallows a sweep's error. Here any fragment may arrive at any moment.

`IngestPipeline` (extends `IngestLoop`) adds the world that writes evidence, the two log readers
with their one-time migration and the replays after logd has closed their socket (`Reconnect`, an
ordinary step that may happen any number of times), the artefact thread with its scan, watch and
polls, and the channel. Its steps on the ingest thread are the actions of `IngestLoop`, fed from the queue. It is
the detailed specification of which `IngestLoop` is the abstract one
(`PipelineImplementsLoop`).

`Evidence` (extends `CrashMerger`) supplies the fragments that the others take as given. An
artefact is a record of the death it describes and of the ways Android writes or spoils it; the
`Parse...` and `...Fragment` operators are the parsers and the functions of `collectors.rs`, one
per function, and say which field comes from where when a header and a body differ, when the user
and the pid may be swapped, when a half of a tombstone pair is blank or cut short. The two halves of a
pair name a frame differently: `NativeFrames` has the symbols of the protobuf, `ParseFrame` what is
left of a printed line (`Printed`), where a C++ signature or an offset comes first. `Read` gives
the fragment to the merger and ranks class and frames (`MergeDetails`); `Site` is the
fingerprint a group is made of. The byte level is a flag: an artefact parses or it does not.

`CrashStore` (extends `Retention`) opens up what `IngestLoop` takes as one step. It keeps the
index and the payload directory apart, and every point at which the code holds no lock is a step
boundary: write the file, then commit the row; select, unlink, commit for each tier of a sweep;
list, unlink, commit for a deletion. `Open` resumes the id generator, removes orphans and runs the
start-up sweep before the servers start. Which record arrives, and which one it is folded into, is
left open within a group.

`Paging` reads that index. `NextPage` is one request of `list_groups` or `list_records`: filter,
cursor predicate, order, limit plus one. The index is behind one lock, so a page is a step, and
`Record`, `DeleteGroup` and `DeleteRecord` happen between pages. `Ordered` is the set of the
sequences SQLite may answer with; ids break ties, so there is one. `Trend` and `ByKind` are the
counts of the statistics page. `PackageRollups` is the apps screen with the limit the client gives;
its order has no tiebreak, so it is a set of answers.

`Config` has the document as a function from fields to values. A request of a connection goes
through `update_config` (`Prepare` writes the temporary file under the lock, `Rename` puts it in
place) and then through the copies: log level, mutes in memory, mute column, Android settings. The
reader of the events log ends mutes at an unlock, the start ends all of them, and the ingest thread
reads the configuration, stores, and asks for the mute last. `Die` ends the process and nothing
else. Nobody syncs the directory after a rename, so the file also has what a power failure would leave
of it: `WriteBack` is the kernel making the last rename last, `PowerFails` undoes one that was not
written back (`Outages` lets it happen). `Edit` is somebody leaving the file unreadable, which ends the
next start. The variable `said` is what clients were told; a power failure takes it back.

`AtomicDocument` is what the configuration store promises: updates take effect whole, one after the
other, and a power failure brings back the document that was kept last. It may be spoilt from outside,
and an update then begins from the defaults. `Config` is shown to implement it by
`INSTANCE ... WITH`: the document is the content of the file, and an update is wanted from its
temporary file on (`ConfigIsAtomic`).

`Packages` reads `packages.list`, the APK paths and the system flags in three steps on three kinds
of threads: the start, the thread that completes the index, and a slot that cannot authenticate its
peer (`CheckFirst`, `InstallRead`, `InstallWrite`, `CheckAgain`). A uid is a pair of user and app
id, an APK path the number of its directory. `EnrichRecord`, `StoreRecord` and the two steps of the
reclassification use the index. `BridgeBroker::query_package` has no caller, so the cache
`enrich_record` would ask first is empty and left out.

`Sessions` has the slot threads of the daemon (`Connect`, `Authenticate`, `ReadLane`, `Handshake`,
`Dispatch`, `HangUp`), the pool of the manager (`Offer`), its client, which tries a request once
more on another channel (`Take`, `Receive`, `Fails`), and screens that read a text. A descriptor is
read in pieces of any length, and what may be the beginning of a character is carried over to the next
piece (`StreamPiece`, `LastCharBoundary`, `StreamEnd`). Where it did not arrive, or fails before
anything is shown (`StreamFails`), the text is read chunk by chunk through the handle (`OpenPayload`,
`ReadPayload`, `ClosePayload`). A byte of a text is the number of bytes its character should have, or
0 if it continues one, so cutting a character shows, and so does a malformed text.

`Bridge` stands alone. A call into the broker is the steps of `request`: `Begin` (or `Refused`)
reads `connected`, `Register` makes the entry in `pending`, `Send` uses the session's channel, and
`Answered` or `GiveUp` ends the wait. The listener thread goes through `Accept`, `Attach`, `Greet`,
`SpawnWriter` and `HandleEvent`; the three assignments of `detach` are `Disconnect`, `Unplug` and
`Clear`, and run twice per session, in `handle_bridge` and in `bridge_accept_loop`. A socket has two
ends and two queues, and what was written before a close can still be read. `DaemonRestart` resets
everything of the daemon and leaves the processes. Durations, the hello kept for display and
the text of notifications are left out. The framework is external: a command works or throws.

The `MC...` modules define the values of the instances. Each `..._proofs` module holds the inductive
invariant of the module it is named after, and the theorems; `Ingest_proofs` those of `IngestLoop`
and `IngestPipeline`.

Definitions whose comment begins with "Mutant" are not part of a specification. Each is the body
of a neighbouring definition with one mistake in it, and shows that the property it is paired
with in `PROJECT.json` notices that mistake.

## Runs

Time is scaled: the ten-second window is 2 to 4 units, the two-second skew is 1 or 2.

| Run | What it checks |
|---|---|
| `ingest` | Fragments of a native crash of two users, an ANR with two dumps and a Java exception, in any order and repeated, against ceilings of one record per group, two in all and one payload; one refused write, partial sweeps, deletions, two lives. `AcknowledgedIsRecorded`, `RowsNeverMixIdentities`, `OneFragmentPerSource`, `SuppressionSettles`, `NoSilentDrop`, `SweepTakesOldest`, `EvictionIsFinal`, `TypeOK`. Both the pid-only and the user-only matches occur. |
| `pipeline` | One Java death of the device owner in both logs and DropBox; two lives, one refused write, one failing lookup or scan, logs replayed at any time: `OneRecordPerDeath` (that the death is told is assumed and evaluated), `SentIsNeverHistory`, `PipeTypeOK`. |
| `settles` | An ANR whose dump is closed blank first and readers that logd makes reconnect, with fairness: `EvidenceSettles`. |
| `evidence` | Nine pairs of deaths that are easy to confuse (a process and its clone in another user, or two processes of one package, of each kind, with pids and users at the limits of what can be told apart, and a native pair whose frames print with a signature and an offset), the first leaving odd or damaged evidence, read in any order: `CrashIsAttributed` (no field of one death ends in the record of another), `EvidenceJoins` (evidence that vouches for itself is one occurrence), `OnlyABlankHalfHides` (one spoilt source hides no other, and a damaged half of a tombstone hides the other only if it is blank), `SiteIsStable` (groups do not depend on order, nor, for plainly printed frames, on which half survived). |
| `store` | Three inserts of two applications, one manager connection, one failing call, two lives; ceilings of two records and one payload: `IdsAreFresh`, `LostPayloadWasChosen`, `CeilingsHold`, `GroupsCoverRows`, `StoreTypeOK`. Timestamps start at 0, the value a fresh id generator also starts from. |
| `paging` | Three groups, three records that may share their time, every sort order, pages of one or two rows and changes of the order while scrolling: `ScrollIsComplete`, `ScrollIsOrdered`, `StatsAgree` for every window and bucket width, and `AppsAgree` for limits of zero, one, and more than the largest page. |
| `settings` | One connection with two requests, the unlock reader, the start and the ingest thread, with failing writes, an edit, deaths and power failures: `AnsweredIsInForce` (what a client was told holds in every copy), `SilencedAppsStaySilent`, `ConfigIsAtomic`. Several connections are left to the proofs. |
| `packages` | The manager, an app to be installed and a system package; one installation or update, one death, one retry, PackageManager coming and going: `OnlyNewAppsAreMisfiled` (a third-party app is taken for the platform's only if it was installed after the index was read), and with fairness `ManagerGetsIn`. |
| `sessions` | Two slots, a pool of two, one screen and a text of a two-byte and a three-byte character and a stray continuation byte, read in pieces of up to two bytes or in chunks of three, two faults (deaths of either side, refusals, lost and unreadable descriptors, evictions) and one cancelled request: `ShownTextIsWhole`, `OneRetryIsEnough`, and with fairness `EveryRequestEnds` and `FailuresStop`. |
| `bridge` | Two callers, one process, two requests in a life of the daemon, which may be restarted any number of times: `AnswersMatch` (no late reply, and none of another session or life, reaches a call), `NoCallWaitsInVain` (the order of `detach` leaves nobody waiting on a session that is gone), `LeaksAreBounded` (the entry `request` leaves behind without a sender). |
| `bridge_returns` | One caller, two processes, with fairness: `EveryCallReturns` and `BridgeComesBack`. |

One run ends in a violation. `paired_payload` checks a sentence of the repository that the code
does not keep; the finding in `PROJECT.json` quotes it. The event of a Java crash arrives before
the crash log's entry. The empty payload slot is ranked with the event's quality, the entry's stack
is refused, and the record completes without one.

### Bounds

`MaxCompletions`, `MaxRows` and `MaxIds` bound completions and inserts: two or three records are
enough for one to be matched, folded into, swept or deleted while another is being written.
`Room` in `IngestLoop` stops arrivals early enough that no pending occurrence is cut off by a
bound. `MaxFaults` and `MaxGlitches` bound failures (reconnecting readers are not among them): one is enough where a property that
survives a failure at any point is checked from every state after it; `sessions` has two, because
one retry answers one of them. `MaxLives` of two and `MaxDeaths` of one give one
crash or stop at any point and the recovery after it. `Horizon` and `Times` bound the clock: it
reaches beyond the last fragment by a whole window. `Span` is larger than `MaxIds`: the 80-bit
sequence does not wrap.

`MaxRequests` of two lets a late reply meet a second request; `Proc` and `Conn` of `Bridge` bound
what is alive at a time, not how often processes start or connect. `MaxAsks` of two in `settings`
lets a request, or an unlock, follow or overlap what another has done in every copy; deaths and
power failures are not bounded there. `MaxMoves`
of one is the installation of the app or the update of the manager; `Interval` and `Retries` of one
make a denied reload and a completing thread that gives up both happen. `MaxRecords` of three is one
row on the page before, one on the next and one that moves. `MaxLeaks` is one less than the slots,
since the code has no answer to as many cancelled requests as slots. `MaxHandles` keeps the handle
counter finite. `PieceLen` of two cuts each character of the text at every place. `FrameCount` is two for the four of the code, and `Flawed` names the death whose
evidence varies: one damaged side against a sound one is where confusion starts.

`bridge` uses symmetry of callers, processes and sockets, which no definition tells apart; it checks
no liveness. No other run uses symmetry. Deadlock is not
checked, since a run may use up its bounds and a stopped daemon may stay stopped.

### Fairness

`settles` assumes weak fairness of each log reader, of the artefact thread, of the ingest thread,
of the clock, and of starting the daemon again. The readers and the ingest thread are loops of
threads of their own that block only in a read or a timed receive; the launcher restarts the
daemon. Nothing is assumed of Android, of the manager, of failures or of crashes, and the last life
of the model is not cut short. The property has as its condition that logd stops closing the readers'
sockets at some time (`ReconnectsEnd`): a reader that is always thrown back gets nowhere. It leaves out
what the code gives up on: files completed between the scan and the watch, versions replaced by newer
ones, and behaviours in which a store write, a lookup, a scan or a poll has failed.

`bridge_returns` assumes weak fairness of the callers, the listener and the writer, of a living
process connecting and greeting, and of the supervisor noticing an exit and ending a backoff; and
strong fairness of starting a process and of starting the writer thread, that is, some attempt of
infinitely many succeeds. Nothing is assumed of a process getting to a command, so
`EveryCallReturns` rests on the timeout. `BridgeComesBack` excludes endless deaths and the case that
each process of the instance hangs in a command of a past session.

`sessions` assumes weak fairness of each slot thread, of the client's steps and of starting the
daemon again. Nothing is assumed of the user, of deaths or of faults. Its one statement about
durations is `ConnectsSoon`: the manager waits five seconds for a channel, and a slot that is free
connects again after one, so waiting is not given up while a connection is on its way.

`packages` assumes weak fairness of the threads that read, of authentication, of the clock and of
starting the daemon. Nothing is assumed of PackageManager or of the manager: the property has as
its condition that they stay.

## Proofs

The theorems hold for every value of the constants: any number of fragments, packages, connections,
callers, slots, records and page sizes, any window and any bound on faults. They assume what the
modules state under ASSUME, which each run evaluates on its instance. Those are of three kinds: types
(a bound is a natural number, a request names a package and fields it may set, a pid is a number),
facts the code fixes (the skew and the settle window do not exceed the window, a page has at least
one row, a pool room for one channel, the id sequence does not wrap), and that a value standing for
"none" is none of the values it stands beside. One assumption narrows what a client may send:
`ConfigAssumption` leaves the dialog takeover out of `SetGlobalConfig`. The manager sets it through
`SetDialogTakeover`; a patch that named it would change the document and not Android.

Every proof has the same shape. An invariant, checked with TLC on the run's instance first, is
shown to hold initially and to be kept by each action, in one lemma per action with a step for each
conjunct the action can disturb; the properties follow from it. No property is inductive alone. What
was missing, module by module:

`Ingest_proofs` is about `IngestLoop` and `IngestPipeline`. `IndInv` is the loop's. That a row does not mix identities (`IdentitySafe`) needs to know
that a pending occurrence's pid and user summarise those of all its fragments (`PendingOK`), and that
this survives completion, with the default user 0 (`CompletionsOK`, `RowsOK`). That an acknowledged
key is covered (`AcknowledgementSafe`) needs the link between a completion id, the recent
occurrence that carries it and what was stored for it (`SuppressedOK`), and that ids are issued once.
`TypeCorrect`, `SourcesDistinct`, `RoundsSettle` and `DropsAreRefusals` follow
from it too. The sweep's two theorems (`OldestGoFirst`, `EvictionsAreFinal`) rest on `IndexOK`, a finite
index with one row per id, and on lemmas about each tier of `Retention`.

Every behaviour of the pipeline is one of the loop
(`PipelineImplementsLoop`: every collector step leaves the loop's variables alone, every ingest step
is one of its actions), and with it the loop's guarantees for the whole pipeline (`PipeTypeCorrect`,
`PipelineAcknowledgementSafe`). `HistoryIsNeverSent` rests on `HistoryOK`: while a log source is not
marked as migrated, nothing of it has been sent.

`OneRecord` states `OneRecordPerDeath` for any number of deaths and fragments. It is about the deaths
that are told (`Told`); the others may be there and interfere. Writes of the ingest thread may fail,
lookups and scans of the collectors may not. A death is told when:

* it is a Java or native crash, since an ANR goes on beyond the window, and its pid is known;
* its fragments agree on kind, process, pid and the user they are stored under, and lie in one
  window (the death of a secondary user does not: the crash log has no user, and it is stored for 0);
* each source reports it once, and no file of it is written again (a file overwritten before the
  watcher has read it is read twice);
* its keys are not pruned within the run (a log replayed after that is new to the store);
* other deaths of the same kind and process have a known pid, and another one if they are within the window.

The `pipeline` run evaluates that its own death is told. The invariant, `OnceInv`, follows a fragment
through the daemon. It is at most once among the inotify queue, the scan's results, the channel, the
merger and the rows (`OnItsWayOK`, `HandsOK`, `OneRowOK`). What is in a row is marked, so no later life
sends it again, and what this life sent and has not stored its reader remembers or, for a file, was sent
after the only scan (`SenderOK`, `ScannerOK`). Hence two rows of one death could only come from two
occurrences. Of two fragments of it, the later finds the earlier in the merger (`Met`, `ReceiveHands`)
or, when that one is stored, its row as a companion (`CompanionOfDeath`, `CompanionFound`), whichever
life stored it.

`CrashStore_proofs`: `StoreInv` says what each thread holds between two steps. A deletion may take
rows and files from under a sweep or a fold, so what they selected is described by what was true
of it then and by `condemned` (`FoldOK`, `SweepOK`, `RequestsOK`), and a file without a row, or a row
without its file, by the step that is to blame (`FilesOK`). `CeilingsOK` says at each tier of a
sweep by how much the index is still over the ceilings; it is what makes `CeilingsAreKept` survive
a death in mid-sweep. `GroupsOK` counts, besides the rows, the payloads a sweep has unlinked and not
yet booked. `StoreTypes`, `FreshIds`, `PayloadsAreSafe` and `GroupsCover` are the others. Where the
code takes a maximum or the oldest row, the proof takes a minimal element of a well-founded ordering
(`WFMin` on the strict subsets of a finite set), which needs no induction.

`Config_proofs` has three layers. `StoreInv` is about the file, its temporary and the lock
(`WriterOK`: the temporary holds the update applied to what the file has, and is synced before it is
renamed, so what is written back is whole); `StoreIsAtomic` needs this layer only. `CopyInv` follows each handler through the copies: as long as nobody else was at work on
its fields (`AloneOK`), what it has done so far is in the copies written so far (`ProgressOK`), and what
was answered still is (`SaidOK`); hence `AnswersAreInForce`. `HushOK` adds the ingest thread, for
`SilenceIsKept`.

`Packages_proofs`: `PkInv` says that every index, in force or being built, names the packages that were
there at boot and calls no package a system package that is none (`PkTypes`, `Index`), because a thread
between two of its reads holds one whole list (`ReadsOneList`) and nothing is uninstalled
(`StaysInstalled`). A verdict that calls a third-party app a system app is therefore a miss, on its
way (`CrashOK`) and stored (`VerdictsOK`), and remains one through the repair: `MisfiledAreNew`.

`Bridge_proofs`: `BridgeInv` describes what travels on the sockets of this life of the daemon
(`WordsOK`), which of them are open (`SocketsOK`), what the three assignments of `detach` have done
so far (`PhaseOK`), and for each waiting caller where its command or reply is (`WaitsOK`): from these
`RepliesAnswer` and `WaitsEnd`. `LeaksEnd` counts the entries of a caller that no session will
answer, against a bound that depends on how far `detach` is.

`Paging_proofs`: `PgInv` says that the cursor separates what was listed from what was not, in the
order the pages were taken in, among the rows nobody touched (`SplitOK`). A change of the order
keeps the cursor of the old one until it is refused, so the order is the cursor's (`Key`), not the
client's. A page prolongs the list by rows that come behind the old cursor and before the new one
(`PageSplits`), and a record or a deletion moves only rows it touches (`RecordsOutside`,
`GroupsOutside`). `ScrollsComplete` and `ScrollsOrdered` follow. `StatisticsAgree` and `ScreensAgree` are about
counts. Those of a statistics window or of the rows of the apps screen are sums over the parts of a
partition, and a finite set has as many elements as its parts together (`ByClass`); the rest is that
the buckets of the trend, and the packages of the screen, are such a partition. The limit of the screen
leaves a part of the packages, and what it leaves out is older than every row of a full screen. That no
group counts fewer crashes than it has records needs an invariant, `CountOK`: a deletion takes records
and leaves the count.

`Sessions_proofs`: `SsInv`. `OneRetry` needs that the client's channel is open and not in the pool
(`ClientOK`), that the pool's channels are open and distinct (`PoolOK`), which rests on the numbers
`Connect` picks, and that while nothing has broken there is a live channel for the attempt that is
left, or the attempt under way is on one or has been refused (`RetryOK`). `ShownText` needs, besides,
that the text a screen has is the decoding of what lies before its offset, that the offset is where
a character begins, and that the handle it reads through still names its record (`TextInv`). The
lemma under it is `DecodedInPieces`: a text cut at the beginning of a character decodes to its pieces'
decodings one after the other, and `read_chunk` cuts nowhere else. For a descriptor the
invariant says that what is shown is the decoding of the text up to where a character begins, and that
the carry is what has been read behind it (`Streamed`); one piece keeps this because
`lastCharBoundary` cuts where a character begins, or cuts nothing off (`StreamedOn`).

`Evidence_proofs`: `EvInv` is about the occurrences whose evidence all names its process. Each is
described by one death, and a user or pid it does not know, none of its fragments knows
(`PendingOK`, `CompletedOK`). The second half is what makes it inductive: the merger compares a new
fragment with the summary, not with each of its fragments. A lemma per parser says what a fragment of
that source can be wrong about (`ReadOK`), and the properties are then about the merger alone:
`EvidenceAttributed`, `LegibleKept` (`KeptOK`, for `OnlyABlankHalfHides`) and `EvidenceJoined` (`JoinedOK`, which says that two
fragments that vouch for each other match). Any number of deaths may share a behaviour. What is assumed
of them, `DeathAssumption`, is what Android gives and the parsers rely on: a pid above every
plausible user id, a user among the plausible ones, a stack, and two deaths of one behaviour having two
pids and not both process and user in common. `NoRecordAssumption` is of the third kind.

Only model-checked, and why. Liveness (`EvidenceSettles`, `EveryCallReturns`, `BridgeComesBack`,
`ManagerGetsIn`, `EveryRequestEnds`, `FailuresStop`) needs ENABLED. `SiteIsStable` speaks of a
scenario whose deaths share a crash site, and rests on what a filtered sequence begins with, which is
an induction over the sequence. That `Ordered` is never empty, that is, that rows can be sorted, is
left to the runs as well. Where an induction over data was needed (`SumDefined`, `ByClass`,
`DecodedInPieces`), the proof takes a smallest counterexample, by `WFMin` or the well-ordering of the
naturals, and refutes it.

## Where the code differs from what one might expect

Met while modelling. The properties are stated so that they hold beside these; where a model reaches such a state, the
property's condition leaves it out and its comment says so.

*Recording.* Two WTF events are both absorbed by the record a DropBox entry completed
(`cch_merge/src/lib.rs` 303 against the comment at 289). The crash log stores a secondary user's
death for user 0, so after a restart its event does not find it and the death has two records
(`write.rs` 243). An entry whose record was refused stays in its reader's `seen` set, so a replay in
the same life skips it (`collectors.rs` 772).

*Parsing.* A DropBox entry without a `Process` or `Package` header is dropped even when its body
names the process, and one with only `Package` can join another process of the package. A blank `.pb` half
hides its whole text half, although "damage need not hit both" (`collectors.rs` 377, 420). The text half
of a native crash names a function by what its first parentheses hold (`cch_tombstone/src/lib.rs` 247): a
C++ signature is cut, a library mapped from an archive gives its offset, and the half that survives decides
the group. A tombstone without a command line is attributed to the thread's name. A
pid up to 999 cannot be told from a user. The group of a Java crash depends on whether the event's
single "file:line" frame came first. A native stack of fewer than four frames, read from the text
half, is grouped with frames of other threads.

*Store.* A death between the unlink and the transaction of a deletion leaves a row that claims a
payload it has not (`read.rs` 236). Deleting records by id lowers neither the group's occurrence nor its bytes (`read.rs` 262 against
`retention.rs` 160). A fold adds a payload and no sweep follows (`write.rs` 288). The id of a deleted newest record can be
issued again after a restart (`cch_store/src/lib.rs` 230).

*Lists.* `list_apps` applies the search after the limit. The cursor's separator can occur in a process name.

*Configuration.* A file that is no document stops the daemon from starting: `clear_mutes` reads it with `load` (`core.rs` 494),
before anything could recover it, although "refusing to boot would be worse" (`cch_config/src/store.rs` 81). A power failure may undo
updates that were answered, since the directory is not synced after the rename (`store.rs` 135). An unlock and a mute at
the same moment leave file, memory and index apart. A death between the mute column and the file
leaves the column set. `adjusted` is never reported for a clamped value. Two requests to the
global configuration set the log level after the lock is released, each from the document it stored,
so the one that stored first may set it last: the file says debug and the process does not log it,
although the switch is meant to take effect immediately (`core.rs` 690). The proof of
`AnsweredIsInForce` led here. Its invariant was not inductive while a request about another field
counted as leaving the level alone.

*Packages.* A crash of an app installed a moment ago is taken for the platform's, and left out where
those are hidden, until something reloads the index
(`core.rs` 1266 against the comment at 1264). Two threads in `install_packages`
can lose the system flags until the next reload (`core.rs` 267 against the comment at 252). Stored verdicts are repaired only
by the thread that completes the index after start-up, not by a later reload. A wall clock set back blocks reloads until it has caught up.

*Manager and bridge.* A held channel and a spare one that both died with the daemon use up both
attempts of a request. After a daemon restart, a handle of the past life may name another text. The
descriptor path never closes its handle. A cancelled open leaks a channel. `EventBus` never sends
`Dropped`. A dismissal while the bridge is away is answered as if no notification could exist
(`core.rs` 789), although notifications outlive the connection.

## Not modelled

The launcher: shell scripts that start the daemon at most eight times and guard the boot; the
models take restarts for granted. The byte level of the parsers and of the wire: event encoding,
protobuf, gzip, JSON, frame headers and APK signatures are functions on bytes without state, and a
model would repeat them. Event delivery to subscribers, since the shipped manager opens no
subscription. Export, storage status and diagnostics, which only read. The user interface. `VACUUM`
and the schema. Logging, packaging and the demo application. The clock of `IngestPipeline` does not
run backwards; that of `CrashStore` and `IngestLoop` may.

## Plan

Every specification has theorems about its safety. Left, in this order:

1. `IngestLoop` and `CrashStore` keep the same index at different grain; a refinement of the one by the
   other, with the sweep as the step to be split.
2. The launcher is the one part with state of its own that is left to model.
