------------------------------- MODULE Config --------------------------------
(***************************************************************************)
(* The configuration of the daemon and the copies made of parts of it: the *)
(* JSON document of cch_config, the mutes in memory and in the index, the  *)
(* log level in force and the two Android settings of the dialog takeover. *)
(* Manager connections change them through the requests of core.rs, the    *)
(* reader of the events log ends mutes when the screen is unlocked, the    *)
(* start of the daemon ends all of them, and the ingest thread obeys them. *)
(*                                                                         *)
(* A document is a function from fields to values, where a missing entry   *)
(* of `apps` is one that has the default in each field.  A patch is a      *)
(* function on the fields it names.  A step ends where the code releases a *)
(* lock, makes a system call that may fail, or may die with an effect that *)
(* lasts.  Names are valid settings keys, and the subscribers' event is    *)
(* left out.                                                               *)
(***************************************************************************)
EXTENDS Naturals, FiniteSets

CONSTANTS
    Pkg,          \* packages
    Conn,         \* threads that serve manager connections
    Asked,        \* requests the managers make
    Crashes,      \* what the collectors report: [pkg, kind, system, main, handled, front]
    MinKept, MaxKept, \* bounds of a retention value
    Kept,         \* its default
    MaxAsks,      \* bound: requests
    Faults,       \* writes to the file, the index and Android's settings may fail
    Outages,      \* the power may fail
    Sdk28,        \* the device runs Android 9 or newer
    All,          \* in place of a package: a global field
    Corrupt,      \* contents of a file that is no document
    None          \* nothing known, nobody

Scope   == {"none", "unlock", "restart"}
Mode    == {"dialog", "notification", "toast", "nothing"}
Switch  == {"enabled", "java", "anr", "native", "wtf", "self_handled", "only_foreground",
            "unknown_notifies", "only_main", "system_apps", "takeover", "debug"}
Global  == {All} \X (Switch \cup {"mode", "kept"})
App(p)  == {p} \X {"mode", "ignore", "mute"}
Field   == Global \cup UNION {App(p) : p \in Pkg}

Threads == Conn \cup {"events", "main"}

\* The values of a field; an application need not have a mode of its own.
Values(f) ==
    CASE f[2] = "kept" -> Nat [] f[2] = "mute" -> Scope
      [] f[2] = "mode" -> Mode \cup (IF f[1] = All THEN {} ELSE {None})
      [] OTHER -> BOOLEAN

Document == [Field -> Nat \cup BOOLEAN \cup Scope \cup Mode \cup {None}]

\* The manager sets the takeover by SetDialogTakeover alone: a SetGlobalConfig that named it would
\* change the document and not Android.
ASSUME ConfigAssumption ==
    /\ MinKept \in Nat /\ MaxKept \in Nat /\ MinKept <= MaxKept /\ Kept \in MinKept..MaxKept
    /\ MaxAsks \in Nat /\ Sdk28 \in BOOLEAN /\ Faults \in BOOLEAN /\ Outages \in BOOLEAN
    /\ All \notin Pkg /\ Conn \cap {"events", "main"} = {}
    /\ \A r \in Crashes : r.pkg \in Pkg
    /\ Corrupt \notin Document /\ None \notin Scope /\ None \notin Mode /\ None \notin BOOLEAN
    /\ \A ps \in SUBSET Pkg : [f \in ps \X {"mute"} |-> "none"] # None
    /\ \A a \in Asked :
        /\ \/ a.op = "global" /\ DOMAIN a.set \subseteq Global \ {<<All, "takeover">>}
           \/ a.op = "app" /\ a.on \in Pkg /\ DOMAIN a.set \subseteq App(a.on)
           \/ a.op = "mute" /\ a.on \in Pkg /\ DOMAIN a.set = {<<a.on, "mute">>}
           \/ a.op = "takeover" /\ DOMAIN a.set = {<<All, "takeover">>}
        /\ a.set # None /\ \A f \in DOMAIN a.set : a.set[f] \in Values(f)

VARIABLES
    life,      \* "down", "starting" or "up"
    file,      \* the configuration file: its contents and whether they were synced, and what
               \* a power failure would leave of it: [doc, synced, kept]
    temp,      \* the file it is written to first, or None
    mutes,     \* DaemonCore::volatile_mutes
    column,    \* the values of muted_until_ms (set or not) among the groups of a package
    level,     \* the debug level is in force
    android,   \* the Android settings hide_error_dialogs and anr_show_background
    task,      \* what each thread is doing
    ingest,    \* the ingest thread
    said,      \* what clients were told last, None where somebody touched it since
    edited,    \* the file was changed from outside
    asks       \* requests so far

cfVars == <<life, file, temp, mutes, column, level, android, task, ingest, said, edited, asks>>

-----------------------------------------------------------------------------
(***************************************************************************)
(* The document.                                                           *)
(***************************************************************************)
Default ==
    [f \in Field |->
        CASE f[2] = "kept" -> Kept
          [] f[2] = "mode" -> IF f[1] = All THEN "notification" ELSE None
          [] f[2] = "ignore" -> FALSE
          [] f[2] = "mute" -> "none"
          [] OTHER -> f[2] \in {"enabled", "java", "anr", "native", "self_handled",
                                "unknown_notifies"}]

\* GlobalConfigPatch::apply, AppConfigPatch::apply
Apply(u, d) == [f \in Field |-> IF f \in DOMAIN u THEN u[f] ELSE d[f]]

\* RetentionPolicy::clamped.  One of the five ceilings stands for all.
Clamped(v) == IF v < MinKept THEN MinKept ELSE IF v > MaxKept THEN MaxKept ELSE v

\* ConfigDocument::normalized
Normalized(d) == [d EXCEPT ![<<All, "kept">>] = Clamped(@)]

EffectiveNotifyMode(d, p) ==
    IF d[<<p, "ignore">>] THEN "nothing"
    ELSE IF d[<<p, "mode">>] = None THEN d[<<All, "mode">>] ELSE d[<<p, "mode">>]

ShouldRecord(d, r) ==
    /\ d[<<All, "enabled">>] /\ ~d[<<r.pkg, "ignore">>]
    /\ r.system => d[<<All, "system_apps">>]
    /\ d[<<All, "only_main">>] => r.main
    /\ r.handled => d[<<All, "self_handled">>]

CapturesKind(d, r) == d[<<All, r.kind>>]

\* Whether the process was in the foreground may be unknown (None).
ShouldNotify(d, r) ==
    /\ EffectiveNotifyMode(d, r.pkg) # "nothing"
    /\ d[<<All, "only_foreground">>] =>
        IF r.front = None THEN d[<<All, "unknown_notifies">>] ELSE r.front

-----------------------------------------------------------------------------
(***************************************************************************)
(* ConfigStore, behind one lock.                                           *)
(***************************************************************************)
Readable == file.doc # Corrupt

\* load_or_recover: an unreadable file counts as the defaults.
Recovered == IF Readable THEN file.doc ELSE Default

\* The lock is held from reading the document to renaming the new one over it.
Locked == \E t \in Threads : task[t].at = "rename"

Idle == [at |-> "idle", ask |-> [op |-> "none"], got |-> Default, cleared |-> {},
         clean |-> FALSE, was |-> Default]

\* The change a thread makes to the document.
Change(t) ==
    IF task[t].ask.op \in {"unlock", "boot"}
    THEN [f \in {<<p, "mute">> : p \in task[t].cleared} |-> "none"]
    ELSE task[t].ask.set

\* What a thread does when its update is stored.
AfterUpdate(op) ==
    CASE op = "global" -> "level" [] op = "app" -> "apply" [] OTHER -> "answer"

\* Mutant of Prepare: the bytes are not waited for.
PrepareUnsynced(t) ==
    LET new == Normalized(Apply(Change(t), Recovered)) IN
    /\ task[t].at = "update" /\ ~Locked
    /\ task' = [task EXCEPT ![t].at = "rename", ![t].got = new]
    /\ temp' = [doc |-> new, synced |-> FALSE]
    /\ \/ file' = file
       \/ ~Readable /\ file' = [file EXCEPT !.doc = Default, !.synced = TRUE]
    /\ UNCHANGED <<life, mutes, column, level, android, ingest, said, edited, asks>>

\* ConfigStore::update up to the synced temporary file: the document as the file has it now, changed.
\* An unreadable file is moved aside, unless that fails.
Prepare(t) ==
    LET new == Normalized(Apply(Change(t), Recovered)) IN
    /\ task[t].at = "update" /\ ~Locked
    /\ task' = [task EXCEPT ![t].at = "rename", ![t].got = new]
    /\ temp' = [doc |-> new, synced |-> TRUE]
    /\ \/ file' = file
       \/ ~Readable /\ file' = [file EXCEPT !.doc = Default, !.synced = TRUE]
    /\ UNCHANGED <<life, mutes, column, level, android, ingest, said, edited, asks>>

\* The new contents are in place for every process; nobody syncs the directory.
Rename(t) ==
    /\ task[t].at = "rename"
    /\ file' = [doc |-> temp.doc, synced |-> temp.synced, kept |-> file.kept]
    /\ temp' = None
    /\ task' = [task EXCEPT ![t].at = AfterUpdate(task[t].ask.op)]
    /\ UNCHANGED <<life, mutes, column, level, android, ingest, said, edited, asks>>

\* Writing or renaming fails.  What is left of the temporary file is truncated by the next update.
UpdateFails(t) ==
    /\ Faults
    /\ task[t].at = "rename"
    /\ task' = [task EXCEPT ![t].at = "failed"]
    /\ temp' = None
    /\ UNCHANGED <<life, file, mutes, column, level, android, ingest, said, edited, asks>>

UpdateConfig(t) == Prepare(t) \/ Rename(t) \/ UpdateFails(t)

-----------------------------------------------------------------------------
(***************************************************************************)
(* Requests.  A thread that begins takes back what was said of the fields  *)
(* it touches, here and for everyone who works on one of them; what it     *)
(* says in the end counts only if nobody did so in between.  A request     *)
(* touches the fields it names and those whose copies it writes: a         *)
(* SetGlobalConfig puts the log level into effect whatever it changes.     *)
(***************************************************************************)
Touched(a) ==
    CASE a.op = "global" -> DOMAIN a.set \cup {<<All, "debug">>}
      [] a.op = "takeover" -> DOMAIN a.set
      [] a.op \in {"app", "mute"} -> App(a.on)
      [] OTHER -> {<<p, "mute">> : p \in Pkg}

Busy(t, fs) == task[t].at # "idle" /\ Touched(task[t].ask) \cap fs # {}

FirstStep(op) ==
    CASE op = "global" -> "before" [] op = "app" -> "update" [] op = "mute" -> "apply"
      [] op = "takeover" -> "anr" [] OTHER -> "list"

Begin(t, a) ==
    LET fs == Touched(a) IN
    /\ task' = [d \in Threads |->
                IF d = t
                THEN [Idle EXCEPT !.at = FirstStep(a.op), !.ask = a,
                                  !.was = IF t \in Conn THEN @ ELSE said,
                                  !.clean = \A e \in Threads \ {t} : ~Busy(e, fs)]
                ELSE [task[d] EXCEPT !.clean = @ /\ ~Busy(d, fs)]]
    /\ said' = [f \in Field |-> IF f \in fs THEN None ELSE said[f]]
    /\ ingest' = [ingest EXCEPT !.hushed = @ /\ fs \cap App(ingest.of.pkg) = {}]

\* A manager's request arrives.
Ask(c, a) ==
    /\ life = "up" /\ task[c].at = "idle"
    /\ asks < MaxAsks /\ asks' = asks + 1
    /\ Begin(c, a)
    /\ UNCHANGED <<life, file, temp, mutes, column, level, android, edited>>

Step(t, from, to) == task[t].at = from /\ task' = [task EXCEPT ![t].at = to]

\* SetGlobalConfig reads the configuration before it changes it.
Before(c) ==
    /\ ~Locked
    /\ Step(c, "before", IF Readable THEN "update" ELSE "failed")
    /\ UNCHANGED <<life, file, temp, mutes, column, level, android, ingest, said, edited, asks>>

SetLevel(c) ==
    /\ Step(c, "level", "answer")
    /\ level' = task[c].got[<<All, "debug">>]
    /\ UNCHANGED <<life, file, temp, mutes, column, android, ingest, said, edited, asks>>

\* Store::set_package_mute: every group of the package.
Marked(p, muted) == IF column[p] = {} THEN {} ELSE {muted}

\* apply_mute, under the lock of the mutes: memory, then the index, which may refuse.  A SetAppConfig
\* applies what the stored document says, a MuteApp what it was asked.
ApplyMute(c) ==
    LET a == task[c].ask
        s == IF a.op = "app" THEN task[c].got[<<a.on, "mute">>] ELSE a.set[<<a.on, "mute">>]
    IN
    /\ task[c].at = "apply"
    /\ mutes' = [mutes EXCEPT ![a.on] = s]
    /\ \/ /\ Step(c, "apply", IF a.op = "app" THEN "answer" ELSE "update")
          /\ column' = [column EXCEPT ![a.on] = Marked(a.on, s # "none")]
       \/ /\ Faults
          /\ Step(c, "apply", "failed")
          /\ UNCHANGED column
    /\ UNCHANGED <<life, file, temp, level, android, ingest, said, edited, asks>>

\* AndroidSettings::set_dialog_takeover, one command at a time.  Each of them may fail.
PutAnrBackground(c) ==
    LET on == task[c].ask.set[<<All, "takeover">>] IN
    /\ task[c].at = "anr"
    /\ \/ /\ on => Sdk28
          /\ Step(c, "anr", "hide")
          /\ android' = [android EXCEPT !.anr = @ /\ ~on]
       \/ /\ on /\ (Sdk28 => Faults)
          /\ Step(c, "anr", "failed")
          /\ UNCHANGED android
    /\ UNCHANGED <<life, file, temp, mutes, column, level, ingest, said, edited, asks>>

PutHideDialogs(c) ==
    /\ \/ /\ Step(c, "hide", "status")
          /\ android' = [android EXCEPT !.hide = task[c].ask.set[<<All, "takeover">>]]
       \/ /\ Faults
          /\ Step(c, "hide", "failed")
          /\ UNCHANGED android
    /\ UNCHANGED <<life, file, temp, mutes, column, level, ingest, said, edited, asks>>

TakeoverStatus(c) ==
    /\ Step(c, "status", "update") \/ (Faults /\ Step(c, "status", "failed"))
    /\ UNCHANGED <<life, file, temp, mutes, column, level, android, ingest, said, edited, asks>>

-----------------------------------------------------------------------------
(***************************************************************************)
(* clear_mutes, on the reader of the events log and at the start.          *)
(***************************************************************************)
Ends(op, scope) == op = "boot" \/ scope = "unlock"

\* The configuration first: at the start memory is empty.  Entries with the default in every field
\* are not in the document.
ListMutes(t) ==
    LET op == task[t].ask.op
        ps == {p \in Pkg : /\ Ends(op, file.doc[<<p, "mute">>])
                           /\ \E f \in App(p) : file.doc[f] # Default[f]}
    IN
    /\ task[t].at = "list" /\ ~Locked
    /\ task' = [task EXCEPT
            ![t] = IF Readable THEN [@ EXCEPT !.at = "forget", !.cleared = ps]
                               ELSE [@ EXCEPT !.at = "unreadable"]]
    /\ UNCHANGED <<life, file, temp, mutes, column, level, android, ingest, said, edited, asks>>

\* Then memory.
ForgetMutes(t) ==
    LET ps == {p \in Pkg : mutes[p] # "none" /\ Ends(task[t].ask.op, mutes[p])}
        cleared == task[t].cleared \cup ps
    IN
    /\ task[t].at = "forget"
    /\ mutes' = [p \in Pkg |-> IF p \in ps THEN "none" ELSE mutes[p]]
    /\ task' = [task EXCEPT ![t].at = IF cleared = {} THEN "answer" ELSE "columns",
                            ![t].cleared = cleared]
    /\ UNCHANGED <<life, file, temp, column, level, android, ingest, said, edited, asks>>

\* Mutant of ClearColumns: the configuration is forgotten.
ClearColumnsOnly(t) ==
    /\ \E ps \in SUBSET task[t].cleared :
        /\ Faults \/ ps = task[t].cleared
        /\ column' = [p \in Pkg |-> IF p \in ps THEN Marked(p, FALSE) ELSE column[p]]
        /\ Step(t, "columns", IF ps = task[t].cleared THEN "answer" ELSE "failed")
    /\ UNCHANGED <<life, file, temp, mutes, level, android, ingest, said, edited, asks>>

\* The index package by package, in any order; it may refuse before each.
ClearColumns(t) ==
    /\ \E ps \in SUBSET task[t].cleared :
        /\ Faults \/ ps = task[t].cleared
        /\ column' = [p \in Pkg |-> IF p \in ps THEN Marked(p, FALSE) ELSE column[p]]
        /\ Step(t, "columns", IF ps = task[t].cleared THEN "update" ELSE "failed")
    /\ UNCHANGED <<life, file, temp, mutes, level, android, ingest, said, edited, asks>>

ClearMutes(t) == ListMutes(t) \/ ForgetMutes(t) \/ ClearColumns(t)

\* An unlock in the events log.
Unlocked ==
    /\ life = "up" /\ task["events"].at = "idle"
    /\ Begin("events", [op |-> "unlock"])
    /\ UNCHANGED <<life, file, temp, mutes, column, level, android, edited, asks>>

\* What is said of a field when a thread ends well.
Told(t, f) ==
    CASE task[t].ask.op = "unlock" ->
            IF task[t].was[f] = "unlock" THEN "none" ELSE task[t].was[f]
      [] task[t].ask.op = "boot" -> IF task[t].was[f] = None THEN None ELSE "none"
      [] OTHER -> task[t].got[f]

\* The answer, or the end of clear_mutes.
Answer(t) ==
    /\ task[t].at = "answer"
    /\ task' = [task EXCEPT ![t] = Idle]
    /\ said' = [f \in Field |->
                IF task[t].clean /\ f \in Touched(task[t].ask) THEN Told(t, f) ELSE said[f]]
    /\ life' = IF t = "main" THEN "up" ELSE life
    /\ UNCHANGED <<file, temp, mutes, column, level, android, ingest, edited, asks>>

\* An error is answered; main ends with it.
Fail(t) ==
    /\ task[t].at \in {"failed", "unreadable"}
    /\ task' = [task EXCEPT ![t] = Idle]
    /\ life' = IF t = "main" THEN "down" ELSE life
    /\ UNCHANGED <<file, temp, mutes, column, level, android, ingest, said, edited, asks>>

Request(c) ==
    \/ \E a \in Asked : Ask(c, a)
    \/ Before(c) \/ SetLevel(c) \/ ApplyMute(c)
    \/ PutAnrBackground(c) \/ PutHideDialogs(c) \/ TakeoverStatus(c)

-----------------------------------------------------------------------------
(***************************************************************************)
(* The ingest thread, from reading the configuration to the alert.         *)
(***************************************************************************)
\* A client was told that the package makes no noise.
Silenced(p) ==
    \/ said[<<p, "ignore">>] = TRUE
    \/ said[<<p, "mode">>] = "nothing"
    \/ said[<<p, "mute">>] \in {"unlock", "restart"}

\* The thread waits for the next record.
Rested == [ingest EXCEPT !.at = "idle", !.notify = FALSE, !.hushed = FALSE]

\* A record that the configuration excludes, or cannot be read for, ends here.
IngestLoad(r) ==
    /\ life = "up" /\ ingest.at = "idle" /\ ~Locked
    /\ Readable /\ CapturesKind(file.doc, r) /\ ShouldRecord(file.doc, r)
    /\ ingest' = [at |-> "insert", of |-> r, notify |-> ShouldNotify(file.doc, r),
                  hushed |-> Silenced(r.pkg)]
    /\ UNCHANGED <<life, file, temp, mutes, column, level, android, task, said, edited, asks>>

\* A new group starts without a mute; a refusal ends the ingest.
IngestInsert ==
    LET p == ingest.of.pkg IN
    /\ ingest.at = "insert"
    /\ \/ /\ column' = [column EXCEPT ![p] = @ \cup {FALSE}]
          /\ ingest' = [ingest EXCEPT !.at = "decide"]
       \/ /\ column[p] # {}
          /\ ingest' = [ingest EXCEPT !.at = "decide"]
          /\ UNCHANGED column
       \/ /\ Faults
          /\ ingest' = Rested
          /\ UNCHANGED column
    /\ UNCHANGED <<life, file, temp, mutes, level, android, task, said, edited, asks>>

\* Mutant of IngestDecide: is_muted is not asked.
DecideDeaf ==
    /\ ingest.at = "decide"
    /\ ingest' = IF ingest.notify THEN [ingest EXCEPT !.at = "alert"] ELSE Rested
    /\ UNCHANGED <<life, file, temp, mutes, column, level, android, task, said, edited, asks>>

\* should_notify of the configuration read before, is_muted of now
IngestDecide ==
    /\ ingest.at = "decide"
    /\ ingest' = IF ingest.notify /\ mutes[ingest.of.pkg] = "none"
                 THEN [ingest EXCEPT !.at = "alert"] ELSE Rested
    /\ UNCHANGED <<life, file, temp, mutes, column, level, android, task, said, edited, asks>>

\* notify, with the dialog, the notification or the toast
IngestAlert ==
    /\ ingest.at = "alert"
    /\ ingest' = Rested
    /\ UNCHANGED <<life, file, temp, mutes, column, level, android, task, said, edited, asks>>

Ingest == (\E r \in Crashes : IngestLoad(r)) \/ IngestInsert \/ IngestDecide \/ IngestAlert

-----------------------------------------------------------------------------
(***************************************************************************)
(* Death, start and the world.                                             *)
(***************************************************************************)
Unmuted == [p \in Pkg |-> "none"]

\* What a process has in memory.
Forgotten ==
    /\ life' = "down"
    /\ temp' = None
    /\ mutes' = Unmuted
    /\ task' = [t \in Threads |-> Idle]
    /\ ingest' = Rested

\* The process dies: what it wrote is with the kernel, which goes on.
Die ==
    /\ life # "down"
    /\ Forgotten
    /\ UNCHANGED <<file, column, level, android, said, edited, asks>>

\* The kernel writes the directory back, at a time of its own: the last rename lasts.  Contents that
\* were not synced before it need not be there.  Only a power failure ever tells.
WriteBack ==
    /\ Outages
    /\ file' = [file EXCEPT !.kept = IF file.synced THEN file.doc ELSE Corrupt]
    /\ UNCHANGED <<life, temp, mutes, column, level, android, task, ingest, said, edited, asks>>

\* The power fails: a rename that was not written back is undone, and the index may lose its last
\* transactions (synchronous = NORMAL), so nothing is left of what was said.  Which of them it loses
\* makes no difference to the rest, and the column is any.
PowerFails ==
    /\ Outages
    /\ Forgotten
    /\ file' = [doc |-> file.kept, synced |-> TRUE, kept |-> file.kept]
    /\ column' \in [Pkg -> SUBSET BOOLEAN]
    /\ said' = [f \in Field |-> None]
    /\ UNCHANGED <<level, android, edited, asks>>

\* main: apply_log_level, whose failure is only logged, then clear_volatile_mutes
Start ==
    /\ life = "down"
    /\ life' = "starting"
    /\ level' = (Readable /\ file.doc[<<All, "debug">>])
    /\ mutes' = Unmuted
    /\ Begin("main", [op |-> "boot"])
    /\ UNCHANGED <<file, temp, column, android, edited, asks>>

\* Somebody leaves the file unreadable, once.  An edit during an update is overwritten by it and left out.
Edit ==
    /\ ~Locked /\ ~edited
    /\ file' = [file EXCEPT !.doc = Corrupt, !.synced = TRUE]
    /\ edited' = TRUE
    /\ said' = [f \in Field |-> None]
    /\ task' = [t \in Threads |-> [task[t] EXCEPT !.clean = FALSE]]
    /\ ingest' = [ingest EXCEPT !.hushed = FALSE]
    /\ UNCHANGED <<life, temp, mutes, column, level, android, asks>>

ConfigInit ==
    /\ life = "down"
    /\ file = [doc |-> Default, synced |-> TRUE, kept |-> Default]
    /\ temp = None
    /\ mutes = Unmuted
    /\ column = [p \in Pkg |-> {}]
    /\ level = FALSE
    /\ android = [hide |-> FALSE, anr |-> TRUE]
    /\ task = [t \in Threads |-> Idle]
    /\ \E r \in Crashes : ingest = [at |-> "idle", of |-> r, notify |-> FALSE, hushed |-> FALSE]
    /\ said = [f \in Field |-> None]
    /\ edited = FALSE
    /\ asks = 0

ConfigNext ==
    \/ \E c \in Conn : Request(c)
    \/ \E t \in {"events", "main"} : ClearMutes(t)
    \/ \E t \in Threads : UpdateConfig(t) \/ Answer(t) \/ Fail(t)
    \/ Unlocked \/ Ingest \/ Start \/ Die \/ WriteBack \/ PowerFails \/ Edit

ConfigSpec == ConfigInit /\ [][ConfigNext]_cfVars

-----------------------------------------------------------------------------
(***************************************************************************)
(* Properties.                                                             *)
(***************************************************************************)
\* What a client was told of a setting holds in every copy of it, in the file, in memory, in the
\* index and in Android, until another request, an unlock or an edit touches it, and across
\* deaths of the process.  core.rs updates the copies one after the other under different locks.
AnsweredIsInForce ==
    life = "up" => \A f \in Field : said[f] # None =>
        /\ Readable /\ file.doc[f] = said[f]
        /\ f[2] = "mute" => /\ mutes[f[1]] = said[f]
                            /\ said[f] = "none" => TRUE \notin column[f[1]]
        /\ f[2] = "debug" => level = said[f]
        /\ f[2] = "takeover" => android.hide = said[f] /\ (said[f] => ~android.anr)

\* An application that a client was told is ignored, muted or set to nothing, and that nobody
\* has touched since, makes no alert for a crash whose ingest began after the answer.
SilencedAppsStaySilent == ~(ingest.at = "alert" /\ ingest.hushed)

Doc == INSTANCE AtomicDocument WITH
    Client <- Threads,
    Update <- {a.set : a \in Asked} \cup
              {[f \in ps \X {"mute"} |-> "none"] : ps \in SUBSET Pkg},
    Within <- Normalized,
    Unreadable <- Corrupt,
    doc <- file.doc,
    kept <- file.kept,
    wanted <- [t \in Threads |-> IF task[t].at = "rename" THEN Change(t) ELSE None],
    outside <- edited

\* The configuration store implements an atomic document: updates of several threads take effect
\* whole and one after the other, no death of the process loses one, and neither a death nor a
\* failing write at any point leaves half of one.  A power failure brings back a whole document too,
\* the last one that was written back, though it may take answered updates with it.  The document
\* is unreadable only by somebody else's hand.
ConfigIsAtomic == Doc!ADSpec

=============================================================================
