------------------------------ MODULE Packages -------------------------------
(***************************************************************************)
(* The package index: what the daemon knows of the installed packages, who *)
(* rebuilds it and what is decided by it.                                  *)
(*                                                                         *)
(* Three sources are read one after the other: packages.list for the uids, *)
(* `cmd package list packages -f` for the APK paths and `-s` for the       *)
(* system flags.  The last two fail while PackageManager is away.  The     *)
(* daemon builds a first index when it starts, a thread replaces it once   *)
(* PackageManager has answered, and a manager connection that cannot be    *)
(* authenticated rebuilds it when a stale index may be the reason.  The    *)
(* ingest thread decides by the index whether a crash is an app's, a       *)
(* system app's or the platform's.                                         *)
(*                                                                         *)
(* A path is the number of the directory of an APK, 0 for none; every      *)
(* update moves the APK to a new one, as Android does.  A uid is a pair of *)
(* an Android user and an app id.  Packages are installed and updated but  *)
(* not removed.  BridgeBroker::query_package has no caller, so the cache   *)
(* that enrich_record asks first is empty and is left out.                 *)
(***************************************************************************)
EXTENDS Naturals

CONSTANTS
    Pkg,        \* packages
    Manager,    \* the one whose certificate is the pinned one
    SystemPkg,  \* those PackageManager flags as system packages
    Partition,  \* those whose APK is on a partition looks_like_system_path knows
    Fresh,      \* those not yet installed when the device boots
    AppId,      \* the app id of each package
    Peer,       \* uids that may own the manager's socket
    Process,    \* platform processes, which have no package
    Crashing,   \* names the collectors report crashes of
    Slot,       \* threads that connect to the manager
    Include,    \* values the user gives include_system_apps
    Interval,   \* bound and rate: ticks between two reloads
    Retries,    \* attempts of the thread that completes the index
    MaxMoves,   \* bound: installations and updates
    MaxDeaths,  \* bound: deaths of the daemon
    Nobody      \* no peer

ASSUME PackagesAssumption ==
    /\ Manager \in Pkg /\ SystemPkg \subseteq Pkg /\ SystemPkg # {}
    /\ Partition \subseteq SystemPkg /\ Fresh \subseteq Pkg
    /\ Process \cap Pkg = {} /\ Crashing \subseteq Pkg \cup Process /\ Nobody \notin Peer
    /\ Include \subseteq BOOLEAN /\ Slot \cap {"start", "complete"} = {}
    /\ Interval \in Nat /\ Retries \in Nat /\ MaxMoves \in Nat /\ MaxDeaths \in Nat

Reader == Slot \cup {"start", "complete"}

VARIABLES
    dir,       \* where the APK of each package is
    device,    \* "early": PackageManager does not answer, "up": it does
    listener,  \* the uid that owns the manager's socket
    index,     \* DaemonCore::packages
    reader,    \* what the threads that read packages are doing
    tries,     \* attempts left to the thread that completes the index
    wait,      \* ticks until begin_package_reload lets another reload pass
    crash,     \* the record the ingest thread has classified and not stored
    verdicts,  \* is_system_app and package_installed of the groups of a name
    moves, deaths

pkVars == <<dir, device, listener, index, reader, tries, wait, crash, verdicts,
            moves, deaths>>

-----------------------------------------------------------------------------
(***************************************************************************)
(* PackageIndex.                                                           *)
(***************************************************************************)
\* build: an empty set of system packages means that PackageManager did not answer.
BuildIndex(list, paths, system) ==
    [list   |-> list,
     path   |-> [p \in Pkg |-> IF p \in list THEN paths[p] ELSE 0],
     system |-> IF system = {} THEN {p \in list \cap Partition : paths[p] # 0}
                ELSE list \cap system,
     known  |-> system # {}]

NoIndex == BuildIndex({}, [p \in Pkg |-> 0], {})

ByUid(ix, uid) == {p \in ix.list : <<0, AppId[p]>> = uid}

InheritSystemFlags(ix, previous) ==
    IF ix.known \/ ~previous.known THEN ix
    ELSE [ix EXCEPT !.known = TRUE,
                    !.system = (@ \ previous.list) \cup (ix.list \cap previous.system)]

\* classify_package: the verdict on a name, starting from the record's defaults.
ClassifyPackage(ix, name) ==
    IF ix.list = {} THEN [system |-> FALSE, installed |-> TRUE]
    ELSE IF name \in ix.list THEN [system |-> ix.known /\ name \in ix.system, installed |-> TRUE]
    ELSE [system |-> TRUE, installed |-> FALSE]

-----------------------------------------------------------------------------
(***************************************************************************)
(* Authenticator.  The certificate of an APK can be read while the APK is  *)
(* where the index says.                                                   *)
(***************************************************************************)
Candidates(ix, uid) ==
    IF ByUid(ix, uid) # {} \/ uid[1] = 0 THEN ByUid(ix, uid) ELSE ByUid(ix, <<0, uid[2]>>)

AuthenticateUid(ix, uid) ==
    LET located == {p \in Candidates(ix, uid) : ix.path[p] # 0}
    IN  IF Candidates(ix, uid) = {} THEN "unknown uid"
        ELSE IF located = {} THEN "no path"
        ELSE IF \E p \in located : ix.path[p] = dir[p] /\ p = Manager THEN "ok"
        ELSE IF \E p \in located : ix.path[p] # dir[p] THEN "unreadable"
        ELSE "mismatch"

\* Mutant of MayBeStale: an APK that cannot be read is taken for a foreign one.
StaleIfMissing(failure) == failure \in {"unknown uid", "no path"}

MayBeStale(failure) == failure \in {"unknown uid", "no path", "unreadable"}

-----------------------------------------------------------------------------
(***************************************************************************)
(* Reading the device: the three reads of load_package_index.              *)
(***************************************************************************)
Resting(at) == [at |-> at, uid |-> Nobody, list |-> {}, paths |-> [p \in Pkg |-> 0],
                built |-> NoIndex]

\* Where a thread goes when the list cannot be read, and when the index is built.
OnFailure(t) == IF t = "start" THEN "list" ELSE IF t = "complete" THEN "sleep" ELSE "retry"
OnBuilt(t, ix) ==
    CASE t = "start"    -> "install"
      [] t = "complete" -> IF ix.known THEN "replace" ELSE "sleep"
      [] OTHER          -> "inherit"

\* Before Android is up the list may be unreadable too.  A daemon that cannot
\* read it does not start; the launcher starts another.
ReadList(t) ==
    /\ reader[t].at = "list"
    /\ \/ device = "early" /\ reader' = [reader EXCEPT ![t] = Resting(OnFailure(t))]
       \/ reader' = [reader EXCEPT ![t].at = "paths", ![t].list = {p \in Pkg : dir[p] # 0}]
    /\ UNCHANGED <<dir, device, listener, index, tries, wait, crash, verdicts,
                   moves, deaths>>

ReadCodePaths(t) ==
    /\ reader[t].at = "paths"
    /\ reader' = [reader EXCEPT ![t].at = "flags",
                                ![t].paths = IF device = "up" THEN dir ELSE @]
    /\ UNCHANGED <<dir, device, listener, index, tries, wait, crash, verdicts,
                   moves, deaths>>

ReadSystemPackages(t) ==
    LET system == IF device = "up" THEN {p \in SystemPkg : dir[p] # 0} ELSE {}
        ix == BuildIndex(reader[t].list, reader[t].paths, system) IN
    /\ reader[t].at = "flags"
    /\ reader' = [reader EXCEPT ![t].at = OnBuilt(t, ix), ![t].built = ix,
                                ![t].list = {}, ![t].paths = [p \in Pkg |-> 0]]
    /\ UNCHANGED <<dir, device, listener, index, tries, wait, crash, verdicts,
                   moves, deaths>>

-----------------------------------------------------------------------------
(***************************************************************************)
(* The start of the daemon, and the thread that completes the index.       *)
(***************************************************************************)
Running == reader["start"].at = "done"

\* The rest of main: the core takes the index, and the other threads start.
StartDaemon ==
    /\ reader["start"].at = "install"
    /\ index' = reader["start"].built
    /\ reader' = [t \in Reader |->
                    CASE t = "start"    -> Resting("done")
                      [] t = "complete" -> Resting(IF index'.known THEN "done" ELSE "sleep")
                      [] OTHER          -> Resting("retry")]
    /\ tries' = Retries
    /\ UNCHANGED <<dir, device, listener, wait, crash, verdicts, moves, deaths>>

\* complete_package_index: another attempt after a while, or none.
TryAgain ==
    /\ reader["complete"].at = "sleep"
    /\ \/ tries = 0 /\ reader' = [reader EXCEPT !["complete"] = Resting("done")] /\ tries' = 0
       \/ tries > 0 /\ reader' = [reader EXCEPT !["complete"] = Resting("list")]
                    /\ tries' = tries - 1
    /\ UNCHANGED <<dir, device, listener, index, wait, crash, verdicts, moves, deaths>>

\* replace_packages with the completed index.
Complete ==
    /\ reader["complete"].at = "replace"
    /\ index' = reader["complete"].built
    /\ reader' = [reader EXCEPT !["complete"] = Resting("names")]
    /\ UNCHANGED <<dir, device, listener, tries, wait, crash, verdicts, moves, deaths>>

\* reclassify_stored_packages: the flags of the stored names, then apply_package_system_flags.
ReclassifyRead ==
    /\ reader["complete"].at = "names"
    /\ reader' = [reader EXCEPT !["complete"] =
                    IF ~index.known THEN Resting("done")
                    ELSE [Resting("apply") EXCEPT
                            !.list = index.list \cap DOMAIN verdicts,
                            !.built = index]]
    /\ UNCHANGED <<dir, device, listener, index, tries, wait, crash, verdicts,
                   moves, deaths>>

\* Mutant of ApplyFlags: the update sets package_installed and forgets is_system_app.
ApplyInstalledOnly(c) ==
    [n \in DOMAIN verdicts |->
        IF n \in c.list THEN [verdicts[n] EXCEPT !.installed = TRUE] ELSE verdicts[n]]

ApplyFlags(c) ==
    [n \in DOMAIN verdicts |->
        IF n \in c.list THEN [system |-> n \in c.built.system, installed |-> TRUE]
        ELSE verdicts[n]]

ReclassifyApply ==
    /\ reader["complete"].at = "apply"
    /\ verdicts' = ApplyFlags(reader["complete"])
    /\ reader' = [reader EXCEPT !["complete"] = Resting("done")]
    /\ UNCHANGED <<dir, device, listener, index, tries, wait, crash, moves, deaths>>

-----------------------------------------------------------------------------
(***************************************************************************)
(* A connection to the manager: manager_connect_loop, handle_manager and   *)
(* DaemonCore::authenticate_uid.                                           *)
(***************************************************************************)
Connect(s) ==
    /\ Running /\ reader[s].at = "retry" /\ listener # Nobody
    /\ reader' = [reader EXCEPT ![s] = [Resting("check") EXCEPT !.uid = listener]]
    /\ UNCHANGED <<dir, device, listener, index, tries, wait, crash, verdicts,
                   moves, deaths>>

\* begin_package_reload: at most one reload in an interval.
BeginPackageReload == wait' = IF wait = 0 THEN Interval ELSE wait

CheckFirst(s) ==
    LET result == AuthenticateUid(index, reader[s].uid) IN
    /\ reader[s].at = "check"
    /\ \/ /\ result = "ok"
          /\ reader' = [reader EXCEPT ![s].at = "served"] /\ UNCHANGED wait
       \/ /\ result # "ok" /\ ~MayBeStale(result)
          /\ reader' = [reader EXCEPT ![s] = Resting("retry")] /\ UNCHANGED wait
       \/ /\ MayBeStale(result)
          /\ reader' = [reader EXCEPT ![s] =
                            IF wait = 0 THEN [@ EXCEPT !.at = "list"] ELSE Resting("retry")]
          /\ BeginPackageReload
    /\ UNCHANGED <<dir, device, listener, index, tries, crash, verdicts, moves, deaths>>

\* install_packages: the flags of the current index are read, the lock is
\* released, and the index is replaced.
InstallRead(s) ==
    /\ reader[s].at = "inherit"
    /\ reader' = [reader EXCEPT ![s].at = "replace",
                                ![s].built = InheritSystemFlags(@, index)]
    /\ UNCHANGED <<dir, device, listener, index, tries, wait, crash, verdicts,
                   moves, deaths>>

InstallWrite(s) ==
    /\ reader[s].at = "replace"
    /\ index' = reader[s].built
    /\ reader' = [reader EXCEPT ![s] = [Resting("again") EXCEPT !.uid = reader[s].uid]]
    /\ UNCHANGED <<dir, device, listener, tries, wait, crash, verdicts, moves, deaths>>

CheckAgain(s) ==
    /\ reader[s].at = "again"
    /\ reader' = [reader EXCEPT ![s] =
                    IF AuthenticateUid(index, reader[s].uid) = "ok"
                    THEN [@ EXCEPT !.at = "served"] ELSE Resting("retry")]
    /\ UNCHANGED <<dir, device, listener, index, tries, wait, crash, verdicts,
                   moves, deaths>>

\* The owner of the socket goes away.
Disconnect(s) ==
    /\ reader[s].at = "served"
    /\ reader' = [reader EXCEPT ![s] = Resting("retry")]
    /\ UNCHANGED <<dir, device, listener, index, tries, wait, crash, verdicts,
                   moves, deaths>>

-----------------------------------------------------------------------------
(***************************************************************************)
(* The ingest thread: enrich_record, then should_record and the upsert of  *)
(* the group, which rewrites the verdict whenever the crash is seen again. *)
(***************************************************************************)
NoCrash == [name |-> Nobody]

EnrichRecord(name) ==
    /\ Running /\ crash = NoCrash
    /\ name \in Pkg => dir[name] # 0
    /\ crash' = [name |-> name, verdict |-> ClassifyPackage(index, name)]
    /\ UNCHANGED <<dir, device, listener, index, reader, tries, wait, verdicts,
                   moves, deaths>>

StoreRecord(include) ==
    /\ crash # NoCrash
    /\ verdicts' = IF crash.verdict.system /\ ~include THEN verdicts
                   ELSE [n \in DOMAIN verdicts \cup {crash.name} |->
                            IF n = crash.name THEN crash.verdict ELSE verdicts[n]]
    /\ crash' = NoCrash
    /\ UNCHANGED <<dir, device, listener, index, reader, tries, wait, moves, deaths>>

-----------------------------------------------------------------------------
(***************************************************************************)
(* The device and time.                                                    *)
(***************************************************************************)
\* An app is installed, or updated: its APK is in a new directory.
Move(p) ==
    /\ moves < MaxMoves /\ p \notin SystemPkg
    /\ dir' = [dir EXCEPT ![p] = @ + 1] /\ moves' = moves + 1
    /\ UNCHANGED <<device, listener, index, reader, tries, wait, crash, verdicts,
                   deaths>>

DeviceChanges ==
    /\ device' = IF device = "early" THEN "up" ELSE "early"
    /\ UNCHANGED <<dir, listener, index, reader, tries, wait, crash, verdicts,
                   moves, deaths>>

Listen(uid) ==
    /\ listener # uid
    /\ \E p \in Pkg : AppId[p] = uid[2] /\ dir[p] # 0
    /\ listener' = uid
    /\ UNCHANGED <<dir, device, index, reader, tries, wait, crash, verdicts,
                   moves, deaths>>

Tick ==
    /\ wait > 0 /\ wait' = wait - 1
    /\ UNCHANGED <<dir, device, listener, index, reader, tries, crash, verdicts,
                   moves, deaths>>

Asleep == [t \in Reader |-> IF t = "start" THEN Resting("list") ELSE Resting("off")]

\* The daemon dies; what it stored stays.
DaemonDies ==
    /\ deaths < MaxDeaths /\ deaths' = deaths + 1
    /\ index' = NoIndex /\ reader' = Asleep /\ tries' = 0 /\ wait' = 0 /\ crash' = NoCrash
    /\ UNCHANGED <<dir, device, listener, verdicts, moves>>

PkInit ==
    /\ dir = [p \in Pkg |-> IF p \in Fresh THEN 0 ELSE 1]
    /\ device = "early" /\ listener = Nobody
    /\ index = NoIndex /\ reader = Asleep /\ tries = 0 /\ wait = 0 /\ crash = NoCrash
    /\ verdicts = [n \in {} |-> {}]
    /\ moves = 0 /\ deaths = 0

Authenticates(s) ==
    \/ Connect(s) \/ CheckFirst(s) \/ InstallRead(s) \/ InstallWrite(s) \/ CheckAgain(s)

Reads(t) == ReadList(t) \/ ReadCodePaths(t) \/ ReadSystemPackages(t)

PkNext ==
    \/ \E t \in Reader : Reads(t)
    \/ StartDaemon \/ TryAgain \/ Complete \/ ReclassifyRead \/ ReclassifyApply
    \/ \E s \in Slot : Authenticates(s) \/ Disconnect(s)
    \/ \E n \in Crashing : EnrichRecord(n)
    \/ \E i \in Include : StoreRecord(i)
    \/ \E p \in Pkg : Move(p)
    \/ DeviceChanges
    \/ \E u \in Peer : Listen(u)
    \/ Tick
    \/ DaemonDies

\* Threads run, and time passes.
PkFairness ==
    /\ \A t \in Reader : WF_pkVars(Reads(t))
    /\ WF_pkVars(StartDaemon) /\ WF_pkVars(Tick)
    /\ \A s \in Slot : WF_pkVars(Authenticates(s))

PkSpec == PkInit /\ [][PkNext]_pkVars /\ PkFairness

-----------------------------------------------------------------------------
(***************************************************************************)
(* The manager gets in, whatever happened to its APK and to the index:     *)
(* once PackageManager keeps answering, the manager keeps its socket and   *)
(* the daemon lives, there is a connection again and again, in whatever    *)
(* user the manager runs and although a reload may be denied.              *)
(***************************************************************************)
ManagerGetsIn ==
    \A u \in {v \in Peer : v[2] = AppId[Manager]} :
        <>[](device = "up" /\ listener = u)
            => []<>(\E s \in Slot : reader[s].at = "served")

(***************************************************************************)
(* How far a wrong index reaches.  A third-party app is called a system    *)
(* app, and so hidden, only by a miss: it was installed after the index in *)
(* force was read, its crash was filed as the platform's, and the group    *)
(* still says that no such package is installed.  An index without flags,  *)
(* one that inherited them, a reload and the repair of stored groups never *)
(* do it, and never to an app that was there when the device booted.       *)
(***************************************************************************)
OnlyNewAppsAreMisfiled ==
    \A p \in DOMAIN verdicts :
        p \in Pkg \ SystemPkg /\ verdicts[p].system => p \in Fresh /\ ~verdicts[p].installed

=============================================================================
