--------------------------- MODULE Config_proofs -----------------------------
(***************************************************************************)
(* The configuration, for every set of packages, connections and requests: *)
(* the store implements an atomic document, what a client was told is in   *)
(* force in every copy, and a silenced application makes no alert.         *)
(***************************************************************************)
EXTENDS Config, TLAPS

-----------------------------------------------------------------------------
(* The first layer of the invariant: the file, the temporary file and who  *)
(* holds the lock.                                                         *)

Unlock == [op |-> "unlock"]
Boot   == [op |-> "boot"]

\* The steps of a handler.
StepsOf(op) ==
    CASE op = "global"   -> {"before", "update", "rename", "level", "answer", "failed"}
      [] op = "app"      -> {"update", "rename", "apply", "answer", "failed"}
      [] op = "mute"     -> {"apply", "update", "rename", "answer", "failed"}
      [] op = "takeover" -> {"anr", "hide", "status", "update", "rename", "answer", "failed"}
      [] OTHER           -> {"list", "forget", "columns", "update", "rename", "answer", "failed",
                             "unreadable"}

\* What a thread works on.
Work(t) == IF t = "events" THEN {Unlock} ELSE IF t = "main" THEN {Boot} ELSE Asked

TaskState(t) ==
    {k \in [at : {"idle"} \cup UNION {StepsOf(op) : op \in {"global", "app", "mute", "takeover",
                                                           "boot"}},
            ask : Asked \cup {Unlock, Boot, [op |-> "none"]}, got : Document,
            cleared : SUBSET Pkg, clean : BOOLEAN, was : Document] :
        k.at # "idle" => k.ask \in Work(t) /\ k.at \in StepsOf(k.ask.op)}

TaskOK == /\ task = [t \in Threads |-> task[t]]
          /\ \A t \in Threads : task[t] \in TaskState(t)

Bounded(d) ==
    /\ d \in Document /\ \A f \in Field : d[f] \in Values(f)
    /\ d[<<All, "kept">>] \in MinKept..MaxKept

\* Whole, but for what somebody did from outside.
Sound(d) == d # Corrupt => Bounded(d)

\* What is in the file was synced before it got there, and what is kept was once in the file.
FileOK == /\ file = [doc |-> file.doc, synced |-> TRUE, kept |-> file.kept]
          /\ Sound(file.doc) /\ Sound(file.kept)

\* The temporary file of the thread that holds the lock has what the thread wants of what the
\* file has.
WriterOK ==
    /\ \A t, u \in Threads : task[t].at = "rename" /\ task[u].at = "rename" => t = u
    /\ \A t \in Threads : task[t].at = "rename" =>
        /\ temp = [doc |-> task[t].got, synced |-> TRUE]
        /\ task[t].got = Normalized(Apply(Change(t), Recovered))

StoreInv == TaskOK /\ FileOK /\ WriterOK

-----------------------------------------------------------------------------
(* The second layer: who works on which field, and how far the copies are. *)

Works(t) == task[t].at # "idle"

LifeOK ==
    /\ life \in {"down", "starting", "up"}
    /\ life # "up" => mutes = Unmuted /\ \A t \in Threads \ {"main"} : ~Works(t)
    /\ Works("main") <=> life = "starting"

CopiesTypeOK ==
    /\ mutes = [p \in Pkg |-> mutes[p]] /\ column = [p \in Pkg |-> column[p]]
    /\ android = [hide |-> android.hide, anr |-> android.anr] /\ said \in Document

\* A thread that nobody disturbed shares its fields with no thread at work.
AloneOK ==
    \A t, u \in Threads : t # u /\ Works(t) /\ task[t].clean /\ Works(u)
        => Touched(task[t].ask) \cap Touched(task[u].ask) = {}

\* Nothing is said of a field that a thread works on.
QuietOK == \A t \in Threads : Works(t) => \A f \in Touched(task[t].ask) : said[f] = None

DocIs(f, v)    == Readable /\ file.doc[f] = v
ColumnIs(p, v) == v = "none" => TRUE \notin column[p]
MuteIs(p, v)   == mutes[p] = v /\ ColumnIs(p, v)

SaidOK ==
    \A f \in Field : said[f] # None =>
        /\ DocIs(f, said[f])
        /\ f[2] = "mute" => ColumnIs(f[1], said[f]) /\ (life = "up" => mutes[f[1]] = said[f])
        /\ f[2] = "debug" /\ life # "down" => level = said[f]
        /\ f[2] = "takeover" => android.hide = said[f] /\ (said[f] => ~android.anr)

\* The steps at which the new document is in the file.
Stored(op) == {"level", "answer"} \cup (IF op = "app" THEN {"apply"} ELSE {})

\* What an undisturbed request of a manager has achieved.
RequestOK(t) ==
    LET k == task[t]  a == k.ask  on == a.set[<<All, "takeover">>] IN
    /\ k.at \in Stored(a.op) => \A f \in Touched(a) : DocIs(f, k.got[f])
    /\ a.op = "global" /\ k.at = "answer" => level = k.got[<<All, "debug">>]
    /\ a.op \in {"app", "mute"} /\ k.at = "answer" => MuteIs(a.on, k.got[<<a.on, "mute">>])
    /\ a.op = "mute" /\ k.at \in {"update", "rename"} => MuteIs(a.on, a.set[<<a.on, "mute">>])
    /\ a.op = "takeover" =>
        /\ k.at \in {"hide", "status", "update", "rename", "answer"} /\ on => ~android.anr
        /\ k.at \in {"status", "update", "rename", "answer"} => android.hide = on
        /\ k.at = "answer" => k.got[<<All, "takeover">>] = on

\* What becomes of a mute.
Left(op, scope) == IF Ends(op, scope) THEN "none" ELSE scope

\* What an undisturbed clear_mutes has achieved for a package of whose mute clients knew.
SweepOK(t, p) ==
    LET k == task[t]  op == k.ask.op  w == k.was[<<p, "mute">>]  left == Left(op, w) IN
    /\ k.at \in {"list", "forget", "columns", "update", "rename"} => DocIs(<<p, "mute">>, w)
    /\ k.at \in {"list", "forget"} => mutes[p] = (IF op = "boot" THEN "none" ELSE w)
    /\ k.at \in {"list", "forget", "columns"} => ColumnIs(p, w)
    /\ k.at \in {"forget", "columns", "update", "rename"} =>
        IF p \in k.cleared THEN left = "none" ELSE left = w
    /\ k.at \in {"columns", "update", "rename", "answer"} => mutes[p] = left
    /\ k.at \in {"update", "rename", "answer"} => ColumnIs(p, left)
    /\ k.at = "answer" => DocIs(<<p, "mute">>, left)

ProgressOK ==
    \A t \in Threads : Works(t) /\ task[t].clean =>
        IF t \in Conn THEN RequestOK(t)
        ELSE \A p \in Pkg : task[t].was[<<p, "mute">>] # None => SweepOK(t, p)

CopyInv == LifeOK /\ CopiesTypeOK /\ AloneOK /\ QuietOK /\ SaidOK /\ ProgressOK

\* The ingest thread found the package silent, and it still is.
HushOK ==
    /\ ingest = [at |-> ingest.at, of |-> ingest.of, notify |-> ingest.notify,
                 hushed |-> ingest.hushed]
    /\ ingest.of.pkg \in Pkg
    /\ ingest.hushed =>
        /\ life = "up" /\ ingest.at # "alert"
        /\ ingest.at # "idle" /\ ingest.notify
            => said[<<ingest.of.pkg, "mute">>] \in {"unlock", "restart"}

ConfigInv == StoreInv /\ CopyInv /\ HushOK

-----------------------------------------------------------------------------
(* Fields, requests and documents.                                         *)

LEMMA Fields ==
    /\ <<All, "kept">> \in Field /\ <<All, "debug">> \in Field /\ <<All, "takeover">> \in Field
    /\ \A p \in Pkg : /\ App(p) \subseteq Field /\ <<p, "mute">> \in App(p)
                      /\ <<p, "ignore">> \in App(p) /\ <<p, "mode">> \in App(p)
    /\ Global \subseteq Field
  BY DEF Field, Global, App, Switch

LEMMA Parties == /\ "events" \in Threads /\ "main" \in Threads /\ Conn \subseteq Threads
                 /\ "events" \notin Conn /\ "main" \notin Conn
  BY ConfigAssumption DEF Threads

LEMMA AskedOK ==
    ASSUME NEW a \in Asked
    PROVE  /\ a.op \in {"global", "app", "mute", "takeover"}
           /\ a.set # None /\ DOMAIN a.set \subseteq Field
           /\ \A f \in DOMAIN a.set : a.set[f] \in Values(f)
           /\ a.op = "global" => DOMAIN a.set \subseteq Global \ {<<All, "takeover">>}
           /\ a.op \in {"app", "mute"} => a.on \in Pkg /\ DOMAIN a.set \subseteq App(a.on)
           /\ a.op = "mute" => DOMAIN a.set = {<<a.on, "mute">>}
           /\ a.op = "takeover" => DOMAIN a.set = {<<All, "takeover">>}
<1>1. /\ \/ a.op = "global" /\ DOMAIN a.set \subseteq Global \ {<<All, "takeover">>}
         \/ a.op = "app" /\ a.on \in Pkg /\ DOMAIN a.set \subseteq App(a.on)
         \/ a.op = "mute" /\ a.on \in Pkg /\ DOMAIN a.set = {<<a.on, "mute">>}
         \/ a.op = "takeover" /\ DOMAIN a.set = {<<All, "takeover">>}
      /\ a.set # None /\ \A f \in DOMAIN a.set : a.set[f] \in Values(f)
  BY ConfigAssumption
<1>2. QED
  BY <1>1, Fields

LEMMA DefaultOK == Bounded(Default)
<1>1. Default \in Document
  <2>1. \A f \in Field : Default[f] \in Nat \cup BOOLEAN \cup Scope \cup Mode \cup {None}
    BY ConfigAssumption DEF Default, Scope, Mode
  <2>2. QED
    BY <2>1 DEF Document, Default
<1>2. Default[<<All, "kept">>] = Kept
  BY Fields DEF Default
<1>3. \A f \in Field : Default[f] \in Values(f)
  <2> TAKE f \in Field
  <2>1. Kept \in Nat
    BY ConfigAssumption
  <2>2. CASE f[2] \in {"kept", "mute", "mode"}
    BY <2>1, <2>2 DEF Default, Values, Scope, Mode
  <2>3. CASE f[2] \notin {"kept", "mute", "mode"}
    <3>1. Default[f] \in BOOLEAN
      <4> DEFINE on == f[2] \in {"enabled", "java", "anr", "native", "self_handled",
                                 "unknown_notifies"}
      <4>1. on \in BOOLEAN
        OBVIOUS
      <4> HIDE DEF on
      <4>2. Default[f] = IF f[2] = "ignore" THEN FALSE ELSE on
        BY <2>3 DEF Default, on
      <4>3. QED
        BY <4>1, <4>2
    <3>2. Values(f) = BOOLEAN
      BY <2>3 DEF Values
    <3>3. QED
      BY <3>1, <3>2
  <2>4. QED
    BY <2>2, <2>3
<1>4. QED
  BY <1>1, <1>2, <1>3, ConfigAssumption DEF Bounded

LEMMA ValuesOK ==
    ASSUME NEW f \in Field, NEW v \in Values(f)
    PROVE  /\ v \in Nat \cup BOOLEAN \cup Scope \cup Mode \cup {None}
           /\ f = <<All, "kept">> => v \in Nat
  BY DEF Values

\* A change in good order, applied to a document, makes a document; it has the changed fields from
\* the change (but for the bounds) and the others as they were.
LEMMA UpdatedOK ==
    ASSUME NEW u, NEW d, Bounded(d),
           DOMAIN u \subseteq Field, \A f \in DOMAIN u : u[f] \in Values(f)
    PROVE  LET new == Normalized(Apply(u, d)) IN
           /\ Bounded(new)
           /\ \A f \in Field \ DOMAIN u : new[f] = d[f]
           /\ \A f \in DOMAIN u \ {<<All, "kept">>} : new[f] = u[f]
<1> DEFINE kept == <<All, "kept">>
           v == Apply(u, d)[kept]
<1>0. MinKept \in Nat /\ MaxKept \in Nat /\ MinKept <= MaxKept
  BY ConfigAssumption
<1>1. /\ Apply(u, d) \in Document
      /\ \A f \in Field : Apply(u, d)[f] = IF f \in DOMAIN u THEN u[f] ELSE d[f]
  BY ValuesOK DEF Apply, Document, Bounded
<1>2. v \in Nat
  BY <1>0, <1>1, Fields, ValuesOK DEF Bounded
<1>3. /\ Clamped(v) \in MinKept..MaxKept
      /\ v \in MinKept..MaxKept => Clamped(v) = v
  BY <1>0, <1>2 DEF Clamped
<1>4. Normalized(Apply(u, d)) = [Apply(u, d) EXCEPT ![kept] = Clamped(v)]
  BY DEF Normalized
<1>5. Clamped(v) \in Nat
  BY <1>0, <1>3
<1>6. Bounded(Normalized(Apply(u, d)))
  <2>1. Normalized(Apply(u, d)) \in Document
    BY <1>1, <1>4, <1>5, Fields DEF Document
  <2>2. Normalized(Apply(u, d))[kept] = Clamped(v) /\ Clamped(v) \in Values(kept)
    BY <1>1, <1>4, <1>5, Fields DEF Document, Values
  <2>3. \A f \in Field \ {kept} : Normalized(Apply(u, d))[f] \in Values(f)
    <3> TAKE f \in Field \ {kept}
    <3>1. Normalized(Apply(u, d))[f] = Apply(u, d)[f]
      BY <1>1, <1>4 DEF Document
    <3>2. QED
      BY <1>1, <3>1 DEF Bounded
  <2>4. QED
    BY <1>3, <2>1, <2>2, <2>3 DEF Bounded
<1>7. \A f \in Field : Normalized(Apply(u, d))[f] = IF f = kept THEN Clamped(v) ELSE Apply(u, d)[f]
  BY <1>1, <1>4 DEF Document
<1>8. kept \notin DOMAIN u => v \in MinKept..MaxKept /\ v = d[kept]
  BY <1>1, Fields DEF Bounded
<1> HIDE DEF v
<1>9. QED
  BY <1>1, <1>3, <1>6, <1>7, <1>8

LEMMA RecoveredOK ==
    ASSUME FileOK
    PROVE  Bounded(Recovered) /\ (Readable => Recovered = file.doc)
  BY DefaultOK DEF FileOK, Sound, Readable, Recovered

\* What a thread wants to change is in good order, and is one of the updates of the abstract
\* document.
LEMMA ChangeOK ==
    ASSUME TaskOK, NEW t \in Threads, task[t].at # "idle"
    PROVE  /\ Change(t) # None /\ DOMAIN Change(t) \subseteq Field
           /\ \A f \in DOMAIN Change(t) : Change(t)[f] \in Values(f)
           /\ Change(t) \in {a.set : a \in Asked} \cup
                            {[f \in ps \X {"mute"} |-> "none"] : ps \in SUBSET Pkg}
           /\ task[t].ask \in Asked => Change(t) = task[t].ask.set
           /\ task[t].ask \notin Asked =>
                /\ task[t].ask.op \in {"unlock", "boot"}
                /\ Change(t) = [f \in task[t].cleared \X {"mute"} |-> "none"]
<1>1. task[t] \in TaskState(t) /\ task[t].cleared \in SUBSET Pkg
      /\ task[t].ask \in Work(t)
  BY DEF TaskOK, TaskState
<1>2. CASE task[t].ask \in Asked
  <2>1. Change(t) = task[t].ask.set
    BY <1>2, AskedOK DEF Change
  <2>2. QED
    BY <1>2, <2>1, AskedOK
<1>3. CASE task[t].ask \notin Asked
  <2>1. task[t].ask.op \in {"unlock", "boot"}
    BY <1>1, <1>3 DEF Work, Unlock, Boot
  <2>2. {<<p, "mute">> : p \in task[t].cleared} = task[t].cleared \X {"mute"}
    OBVIOUS
  <2>3. Change(t) = [f \in task[t].cleared \X {"mute"} |-> "none"]
    BY <2>1, <2>2 DEF Change
  <2>4. Change(t) # None
    BY <1>1, <2>3, ConfigAssumption
  <2>5. \A f \in task[t].cleared \X {"mute"} : f \in Field /\ "none" \in Values(f)
    <3> TAKE f \in task[t].cleared \X {"mute"}
    <3>1. PICK p \in Pkg : f = <<p, "mute">>
      BY <1>1
    <3>2. f \in Field
      BY <3>1, Fields
    <3>3. "none" \in Values(f)
      BY <3>1 DEF Values, Scope
    <3>4. QED
      BY <3>2, <3>3
  <2>6. QED
    BY <1>1, <1>3, <2>1, <2>3, <2>4, <2>5
<1>4. QED
  BY <1>2, <1>3

LEMMA IdleOK == \A t \in Threads : Idle \in TaskState(t) /\ Idle.at = "idle"
  BY DefaultOK DEF Idle, TaskState, Bounded

-----------------------------------------------------------------------------
(* Steps outside the lock.                                                 *)

\* A thread goes on to k, without taking the lock.
GoesOn(t, k) ==
    /\ k \in TaskState(t) /\ k.at # "rename"
    /\ task' = [task EXCEPT ![t] = k]
    /\ file' = file /\ (temp' = temp \/ task[t].at = "rename")
    /\ edited' = edited

LEMMA GoesOnOK ==
    ASSUME StoreInv, NEW t \in Threads, NEW k, GoesOn(t, k)
    PROVE  StoreInv'
<1>1. task'[t] = k /\ \A u \in Threads \ {t} : task'[u] = task[u]
  BY DEF StoreInv, TaskOK, GoesOn
<1>2. TaskOK'
  BY <1>1 DEF StoreInv, TaskOK, GoesOn
<1>3. FileOK' /\ Recovered' = Recovered
  BY DEF StoreInv, FileOK, GoesOn, Readable, Recovered
<1>4. ASSUME NEW u \in Threads, task'[u].at = "rename"
      PROVE  u # t /\ task[u].at = "rename" /\ temp' = temp /\ Change(u)' = Change(u)
  <2>1. u # t /\ task'[u] = task[u]
    BY <1>1, <1>4 DEF GoesOn
  <2>2. task[t].at # "rename"
    BY <1>4, <2>1 DEF StoreInv, WriterOK
  <2>3. QED
    BY <1>4, <2>1, <2>2 DEF GoesOn, Change
<1>5. WriterOK'
  BY <1>1, <1>3, <1>4 DEF StoreInv, WriterOK
<1>6. QED
  BY <1>2, <1>3, <1>5 DEF StoreInv

LEMMA WorkOK ==
    ASSUME TaskOK, NEW t \in Threads, Works(t)
    PROVE  /\ task[t].at \in StepsOf(task[t].ask.op) /\ task[t].at # "idle"
           /\ task[t].ask.op \in {"global", "app", "mute", "takeover", "unlock", "boot"}
           /\ task[t].cleared \in SUBSET Pkg /\ task[t].got \in Document
           /\ task[t].was \in Document /\ task[t].clean \in BOOLEAN
<1>1. /\ task[t].at \in StepsOf(task[t].ask.op) /\ task[t].ask \in Work(t)
      /\ task[t].cleared \in SUBSET Pkg /\ task[t].got \in Document
      /\ task[t].was \in Document /\ task[t].clean \in BOOLEAN
  BY DEF TaskOK, TaskState, Works
<1>2. task[t].ask.op \in {"global", "app", "mute", "takeover", "unlock", "boot"}
  BY <1>1, AskedOK DEF Work, Unlock, Boot
<1>3. QED
  BY <1>1, <1>2 DEF Works

\* A handler goes to another of its steps.
LEMMA NewPlaceOK ==
    ASSUME TaskOK, NEW t \in Threads, Works(t), NEW to \in StepsOf(task[t].ask.op)
    PROVE  [task[t] EXCEPT !.at = to] \in TaskState(t)
<1>1. to \in UNION {StepsOf(op) : op \in {"global", "app", "mute", "takeover", "boot"}}
  <2>1. StepsOf("unlock") = StepsOf("boot")
    BY DEF StepsOf
  <2>2. QED
    BY <2>1, WorkOK
<1>2. QED
  BY <1>1 DEF TaskState, TaskOK, Works

LEMMA StepOK ==
    ASSUME TaskOK, NEW t \in Threads, Works(t),
           NEW from, NEW to \in StepsOf(task[t].ask.op), Step(t, from, to)
    PROVE  /\ task[t].at = from /\ task'[t] \in TaskState(t) /\ task'[t].at = to
           /\ task' = [task EXCEPT ![t] = task'[t]]
           /\ task'[t].ask = task[t].ask /\ task'[t].got = task[t].got
           /\ task'[t].cleared = task[t].cleared
           /\ task'[t].clean = task[t].clean /\ task'[t].was = task[t].was
<1>1. task'[t] = [task[t] EXCEPT !.at = to] /\ task' = [task EXCEPT ![t] = task'[t]]
  BY DEF Step, TaskOK
<1>2. task'[t] \in TaskState(t)
  BY <1>1, NewPlaceOK
<1>3. QED
  BY <1>1, <1>2 DEF TaskState, TaskOK, Step

LEMMA NeverIdle == \A op : "idle" \notin StepsOf(op)
  BY DEF StepsOf

-----------------------------------------------------------------------------
(* What a thread at work touches, and what it leaves alone.                *)

LEMMA TouchedOK ==
    ASSUME TaskOK, NEW t \in Threads, Works(t)
    PROVE  LET a == task[t].ask IN
           /\ Touched(a) \subseteq Field /\ DOMAIN Change(t) \subseteq Touched(a)
           /\ t \in Conn =>
                /\ a \in Asked
                /\ a.op = "global" => Touched(a) = DOMAIN a.set \cup {<<All, "debug">>}
                /\ a.op \in {"app", "mute"} => Touched(a) = App(a.on)
                /\ a.op = "takeover" => Touched(a) = {<<All, "takeover">>}
           /\ t \notin Conn =>
                /\ a.op = (IF t = "main" THEN "boot" ELSE "unlock")
                /\ Touched(a) = Pkg \X {"mute"} /\ a \notin Asked
<1> DEFINE a == task[t].ask
<1>1. /\ a \in Work(t) /\ task[t].cleared \in SUBSET Pkg
  BY DEF TaskOK, TaskState, Works
<1>2. CASE t \in Conn
  <2>1. a \in Asked
    BY <1>1, <1>2, Parties DEF Work
  <2>2. /\ a.op = "global" => Touched(a) = DOMAIN a.set \cup {<<All, "debug">>}
        /\ a.op \in {"app", "mute"} => Touched(a) = App(a.on)
        /\ a.op = "takeover" => Touched(a) = {<<All, "takeover">>}
    BY <2>1, AskedOK DEF Touched
  <2>3. Change(t) = a.set
    BY <2>1, ChangeOK DEF Works
  <2>4. Touched(a) \subseteq Field /\ DOMAIN a.set \subseteq Touched(a)
    <3>1. CASE a.op = "global"
      <4>1. Touched(a) = DOMAIN a.set \cup {<<All, "debug">>}
        BY <2>2, <3>1
      <4>2. DOMAIN a.set \subseteq Field /\ <<All, "debug">> \in Field
        BY <2>1, AskedOK, Fields
      <4>3. QED
        BY <4>1, <4>2
    <3>2. CASE a.op \in {"app", "mute"}
      <4>1. Touched(a) = App(a.on)
        BY <2>2, <3>2
      <4>2. a.on \in Pkg /\ DOMAIN a.set \subseteq App(a.on)
        BY <2>1, <3>2, AskedOK
      <4>3. QED
        BY <4>1, <4>2, Fields
    <3>3. CASE a.op = "takeover"
      <4>1. Touched(a) = {<<All, "takeover">>} /\ DOMAIN a.set = {<<All, "takeover">>}
        BY <2>1, <2>2, <3>3, AskedOK
      <4>2. QED
        BY <4>1, Fields
    <3>4. QED
      BY <2>1, <3>1, <3>2, <3>3, AskedOK
  <2>5. QED
    BY <1>2, <2>1, <2>2, <2>3, <2>4
<1>3. CASE t \notin Conn
  <2>1. t = "main" \/ t = "events"
    BY <1>3 DEF Threads
  <2>2. a.op = (IF t = "main" THEN "boot" ELSE "unlock") /\ a = [op |-> a.op]
    BY <1>1, <2>1 DEF Work, Unlock, Boot
  <2>3. a \notin Asked
    BY <2>2, AskedOK
  <2>4. Touched(a) = Pkg \X {"mute"}
    BY <2>2 DEF Touched
  <2>5. Change(t) = [f \in task[t].cleared \X {"mute"} |-> "none"]
    BY <2>3, ChangeOK DEF Works
  <2>6. Touched(a) \subseteq Field
    <3>1. \A p \in Pkg : <<p, "mute">> \in Field
      BY Fields
    <3>2. QED
      BY <2>4, <3>1
  <2>7. QED
    BY <1>1, <1>3, <2>2, <2>3, <2>4, <2>5, <2>6
<1>4. QED
  BY <1>2, <1>3

\* No copy of the field f changes, but for a file that becomes readable and marks that go.
Keeps(f) ==
    /\ Readable => Readable' /\ file'.doc[f] = file.doc[f]
    /\ f[2] = "mute" => /\ mutes'[f[1]] = mutes[f[1]]
                        /\ TRUE \notin column[f[1]] => TRUE \notin column'[f[1]]
    /\ f[2] = "debug" => level' = level
    /\ f[2] = "takeover" => android' = android

LEMMA RequestKept ==
    ASSUME TaskOK, NEW t \in Conn, Works(t), task'[t] = task[t], RequestOK(t),
           \A f \in Touched(task[t].ask) : Keeps(f)
    PROVE  RequestOK(t)'
<1> DEFINE a == task[t].ask
<1>0. a \in Asked /\ t \in Threads
  BY TouchedOK, Parties
<1>1. \A f \in Touched(a) : \A v : DocIs(f, v) => DocIs(f, v)'
  BY DEF Keeps, DocIs
<1>2. a.op = "global" => level' = level
  <2>1. a.op = "global" => <<All, "debug">> \in Touched(a)
    BY <1>0, TouchedOK
  <2>2. QED
    BY <2>1 DEF Keeps
<1>3. a.op \in {"app", "mute"} => \A v : MuteIs(a.on, v) => MuteIs(a.on, v)'
  <2>1. a.op \in {"app", "mute"} => <<a.on, "mute">> \in Touched(a)
    <3>1. a.op \in {"app", "mute"} => a.on \in Pkg
      BY <1>0, AskedOK
    <3>2. a.op \in {"app", "mute"} => Touched(a) = App(a.on)
      BY <1>0, TouchedOK
    <3>3. QED
      BY <3>1, <3>2, Fields
  <2>2. QED
    BY <1>0, <2>1 DEF Keeps, MuteIs, ColumnIs
<1>4. a.op = "takeover" => android' = android
  <2>1. a.op = "takeover" => <<All, "takeover">> \in Touched(a)
    BY <1>0, TouchedOK
  <2>2. QED
    BY <2>1 DEF Keeps
<1>5. QED
  BY <1>1, <1>2, <1>3, <1>4 DEF RequestOK

LEMMA SweepKept ==
    ASSUME NEW t, NEW p \in Pkg, task'[t] = task[t], SweepOK(t, p), Keeps(<<p, "mute">>)
    PROVE  SweepOK(t, p)'
<1>1. \A v : DocIs(<<p, "mute">>, v) => DocIs(<<p, "mute">>, v)'
  BY DEF Keeps, DocIs
<1>2. mutes'[p] = mutes[p] /\ \A v : ColumnIs(p, v) => ColumnIs(p, v)'
  BY DEF Keeps, ColumnIs
<1>3. QED
  BY <1>1, <1>2 DEF SweepOK

\* A handler goes from one of its steps to another: it suffices that it leaves alone what it does
\* not touch and makes the progress that is expected of it.
LEMMA HandlerStep ==
    ASSUME StoreInv, TaskOK', CopyInv, HushOK, CopiesTypeOK', NEW t \in Threads, Works(t),
           Works(t)',
           task' = [task EXCEPT ![t] = task'[t]],
           task'[t].ask = task[t].ask, task'[t].clean = task[t].clean,
           task'[t].was = task[t].was,
           UNCHANGED <<life, said, ingest>>, life # "up" => mutes' = Unmuted,
           \A f \in Field \ Touched(task[t].ask) : Keeps(f),
           task[t].clean /\ t \in Conn => RequestOK(t)',
           task[t].clean /\ t \notin Conn =>
                \A p \in Pkg : task[t].was[<<p, "mute">>] # None => SweepOK(t, p)'
    PROVE  CopyInv' /\ HushOK'
<1>0. TaskOK /\ \A u \in Threads : /\ u # t => task'[u] = task[u]
                                   /\ task'[u].ask = task[u].ask /\ task'[u].clean = task[u].clean
                                   /\ task'[u].was = task[u].was /\ (Works(u)' <=> Works(u))
  BY DEF StoreInv, TaskOK, Works
<1>1. LifeOK'
  BY <1>0, Parties DEF CopyInv, LifeOK
<1>2. AloneOK'
  BY <1>0 DEF CopyInv, AloneOK
<1>3. QuietOK'
  BY <1>0 DEF CopyInv, QuietOK
<1>4. SaidOK'
  <2> SUFFICES ASSUME NEW f \in Field, said[f] # None
               PROVE  /\ DocIs(f, said[f])'
                      /\ f[2] = "mute" => /\ ColumnIs(f[1], said[f])'
                                          /\ life = "up" => mutes'[f[1]] = said[f]
                      /\ f[2] = "debug" /\ life # "down" => level' = said[f]
                      /\ f[2] = "takeover" => android'.hide = said[f] /\ (said[f] => ~android'.anr)
    BY DEF SaidOK, DocIs, ColumnIs, Readable
  <2>1. Keeps(f)
    BY DEF CopyInv, QuietOK
  <2>2. QED
    BY <2>1 DEF CopyInv, SaidOK, Keeps, DocIs, ColumnIs
<1>5. ProgressOK'
  <2> SUFFICES ASSUME NEW u \in Threads, Works(u)', task'[u].clean
               PROVE  IF u \in Conn THEN RequestOK(u)'
                      ELSE \A p \in Pkg : task'[u].was[<<p, "mute">>] # None => SweepOK(u, p)'
    BY DEF ProgressOK
  <2>1. CASE u = t
    BY <1>0, <2>1
  <2>2. CASE u # t
    <3>1. Works(u) /\ task[u].clean /\ task'[u] = task[u]
      BY <1>0, <2>2
    <3>2. Touched(task[u].ask) \subseteq Field
      BY <1>0, <3>1, TouchedOK
    <3>3. Touched(task[u].ask) \cap Touched(task[t].ask) = {}
      BY <2>2, <3>1 DEF CopyInv, AloneOK
    <3>4. \A f \in Touched(task[u].ask) : Keeps(f)
      BY <3>2, <3>3
    <3>5. CASE u \in Conn
      BY <1>0, <3>1, <3>4, <3>5, RequestKept DEF CopyInv, ProgressOK
    <3>6. CASE u \notin Conn
      <4>1. Touched(task[u].ask) = Pkg \X {"mute"}
        BY <1>0, <3>1, <3>6, TouchedOK
      <4>2. \A p \in Pkg : Keeps(<<p, "mute">>)
        BY <3>4, <4>1
      <4>3. QED
        BY <3>1, <3>6, <4>2, SweepKept DEF CopyInv, ProgressOK
    <3>7. QED
      BY <3>5, <3>6
  <2>3. QED
    BY <2>1, <2>2
<1>6. HushOK'
  BY DEF HushOK
<1>7. QED
  BY <1>1, <1>2, <1>3, <1>4, <1>5, <1>6 DEF CopyInv

-----------------------------------------------------------------------------
(* The steps of a handler, one after the other.                            *)

\* The fields that have copies outside the document.
LEMMA Copied ==
    ASSUME NEW f \in Field
    PROVE  /\ f[2] = "debug" => f = <<All, "debug">>
           /\ f[2] = "takeover" => f = <<All, "takeover">>
           /\ f[2] = "mute" => f[1] \in Pkg /\ f = <<f[1], "mute">>
  BY DEF Field, Global, App, Switch

\* A step that changes no copy at all.
LEMMA Untouched ==
    ASSUME UNCHANGED <<file, mutes, column, level, android>>
    PROVE  \A f \in Field : Keeps(f)
  BY DEF Keeps, Readable

\* A step outside the lock: what remains to be shown of each.
LEMMA StepKeeps ==
    ASSUME ConfigInv, NEW t \in Threads, Works(t),
           NEW from, NEW to \in StepsOf(task[t].ask.op) \ {"rename"}, Step(t, from, to),
           UNCHANGED <<life, file, ingest, said, edited>>, temp' = temp \/ task[t].at = "rename",
           CopiesTypeOK', life # "up" => mutes' = Unmuted,
           \A f \in Field \ Touched(task[t].ask) : Keeps(f),
           task[t].clean /\ t \in Conn => RequestOK(t)',
           task[t].clean /\ t \notin Conn =>
                \A p \in Pkg : task[t].was[<<p, "mute">>] # None => SweepOK(t, p)'
    PROVE  ConfigInv' /\ GoesOn(t, task'[t])
<1>0. TaskOK
  BY DEF ConfigInv, StoreInv
<1>1. /\ task'[t] \in TaskState(t) /\ task'[t].at = to
      /\ task' = [task EXCEPT ![t] = task'[t]]
      /\ task'[t].ask = task[t].ask /\ task'[t].clean = task[t].clean
      /\ task'[t].was = task[t].was
  BY <1>0, StepOK
<1>2. GoesOn(t, task'[t])
  BY <1>1 DEF GoesOn
<1>3. StoreInv'
  BY <1>2, GoesOnOK DEF ConfigInv
<1>4. Works(t)'
  BY <1>1, NeverIdle DEF Works
<1>5. CopyInv' /\ HushOK'
  BY <1>1, <1>3, <1>4, HandlerStep DEF ConfigInv, StoreInv
<1>6. QED
  BY <1>2, <1>3, <1>5 DEF ConfigInv

LEMMA BeforeOK ==
    ASSUME ConfigInv, NEW c \in Conn, Before(c)
    PROVE  ConfigInv' /\ GoesOn(c, task'[c])
<1> DEFINE to == IF Readable THEN "update" ELSE "failed"
<1>0. c \in Threads /\ TaskOK /\ Works(c) /\ Step(c, "before", to)
  BY Parties DEF ConfigInv, StoreInv, Before, Step, Works
<1>1. task[c].ask.op = "global"
  BY <1>0, WorkOK DEF StepsOf, Step
<1>2. to \in StepsOf(task[c].ask.op) \ {"rename"}
  BY <1>1 DEF StepsOf
<1>3. RequestOK(c)'
  <2>1. task'[c].ask = task[c].ask /\ task'[c].at = to
    BY <1>0, <1>2, StepOK
  <2>2. QED
    BY <1>1, <2>1 DEF RequestOK, Stored
<1>4. CopiesTypeOK' /\ (life # "up" => mutes' = Unmuted)
  BY DEF ConfigInv, CopyInv, CopiesTypeOK, LifeOK, Before
<1>5. \A f \in Field : Keeps(f)
  BY Untouched DEF Before
<1>6. UNCHANGED <<life, file, temp, ingest, said, edited>>
  BY DEF Before
<1> HIDE DEF to
<1>7. QED
  BY <1>0, <1>2, <1>3, <1>4, <1>5, <1>6, StepKeeps

LEMMA SetLevelOK ==
    ASSUME ConfigInv, NEW c \in Conn, SetLevel(c)
    PROVE  ConfigInv' /\ GoesOn(c, task'[c])
<1>0. c \in Threads /\ TaskOK /\ Works(c) /\ Step(c, "level", "answer") /\ task[c].at = "level"
  BY Parties DEF ConfigInv, StoreInv, SetLevel, Step, Works
<1>1. task[c].ask.op = "global"
  BY <1>0, WorkOK DEF StepsOf
<1>2. "answer" \in StepsOf(task[c].ask.op) \ {"rename"}
  BY <1>1 DEF StepsOf
<1>3. task[c].clean => RequestOK(c)'
  <2>1. task'[c].ask = task[c].ask /\ task'[c].at = "answer" /\ task'[c].got = task[c].got
    BY <1>0, <1>2, StepOK
  <2>2. task[c].clean => RequestOK(c)
    BY <1>0 DEF ConfigInv, CopyInv, ProgressOK
  <2>3. task[c].clean => \A f \in Touched(task[c].ask) : DocIs(f, task[c].got[f])
    BY <1>0, <2>2 DEF RequestOK, Stored
  <2>4. file' = file /\ level' = task[c].got[<<All, "debug">>]
    BY DEF SetLevel
  <2>5. QED
    BY <1>1, <2>1, <2>3, <2>4 DEF RequestOK, DocIs, Readable
<1>4. CopiesTypeOK' /\ (life # "up" => mutes' = Unmuted)
  BY DEF ConfigInv, CopyInv, CopiesTypeOK, LifeOK, SetLevel
<1>5. \A f \in Field \ Touched(task[c].ask) : Keeps(f)
  <2>1. <<All, "debug">> \in Touched(task[c].ask)
    BY <1>0, <1>1, TouchedOK
  <2>2. QED
    BY <2>1, Copied DEF Keeps, SetLevel, Readable
<1>6. UNCHANGED <<life, file, temp, ingest, said, edited>>
  BY DEF SetLevel
<1>7. QED
  BY <1>0, <1>2, <1>3, <1>4, <1>5, <1>6, StepKeeps

LEMMA ApplyMuteOK ==
    ASSUME ConfigInv, NEW c \in Conn, ApplyMute(c)
    PROVE  ConfigInv' /\ GoesOn(c, task'[c])
<1> DEFINE a == task[c].ask
           s == IF a.op = "app" THEN task[c].got[<<a.on, "mute">>] ELSE a.set[<<a.on, "mute">>]
           done == IF a.op = "app" THEN "answer" ELSE "update"
<1>0. c \in Threads /\ TaskOK /\ Works(c) /\ task[c].at = "apply" /\ CopiesTypeOK
  BY Parties DEF ConfigInv, StoreInv, CopyInv, ApplyMute, Step, Works
<1>1. a.op \in {"app", "mute"}
  BY <1>0, WorkOK DEF StepsOf
<1>2. /\ a \in Asked /\ Touched(a) = App(a.on)
  BY <1>0, <1>1, TouchedOK
<1>3. /\ a.on \in Pkg
  BY <1>1, <1>2, AskedOK
<1>4. {"answer", "update", "failed"} \cap StepsOf(a.op) = {"answer", "update", "failed"}
  BY <1>1 DEF StepsOf
<1>5. /\ mutes' = [mutes EXCEPT ![a.on] = s]
      /\ UNCHANGED <<life, file, temp, level, android, ingest, said, edited>>
      /\ \/ /\ Step(c, "apply", done)
            /\ column' = [column EXCEPT ![a.on] = Marked(a.on, s # "none")]
         \/ Step(c, "apply", "failed") /\ column' = column
  BY DEF ApplyMute
<1>6. life = "up"
  BY <1>0, Parties DEF ConfigInv, CopyInv, LifeOK
<1>7. CopiesTypeOK'
  BY <1>0, <1>5 DEF CopiesTypeOK
<1>8. \A f \in Field \ Touched(a) : Keeps(f)
  <2> SUFFICES ASSUME NEW f \in Field \ Touched(a) PROVE Keeps(f)
    OBVIOUS
  <2>1. f[2] = "mute" => f[1] # a.on
    BY <1>2, <1>3, Fields, Copied
  <2>2. f[2] = "mute" => mutes'[f[1]] = mutes[f[1]] /\ column'[f[1]] = column[f[1]]
    BY <1>0, <1>5, <2>1, Copied DEF CopiesTypeOK
  <2>3. QED
    BY <1>5, <2>2 DEF Keeps, Readable
<1>9. CASE Step(c, "apply", "failed") /\ column' = column
  <2>1. RequestOK(c)'
    <3>1. task'[c].at = "failed"
      BY <1>0, <1>4, <1>9, StepOK
    <3>2. QED
      BY <3>1 DEF RequestOK, Stored
  <2>2. "failed" \in StepsOf(task[c].ask.op) \ {"rename"}
    BY <1>4
  <2>3. QED
    BY <1>0, <1>5, <1>6, <1>7, <1>8, <1>9, <2>1, <2>2, StepKeeps
<1>10. CASE Step(c, "apply", done) /\ column' = [column EXCEPT ![a.on] = Marked(a.on, s # "none")]
  <2>1. done \in StepsOf(task[c].ask.op) \ {"rename"}
    BY <1>4
  <2>2. task'[c].ask = a /\ task'[c].at = done /\ task'[c].got = task[c].got
    BY <1>0, <1>10, <2>1, StepOK
  <2>3. MuteIs(a.on, s)'
    <3>1. mutes'[a.on] = s /\ column'[a.on] = Marked(a.on, s # "none")
      BY <1>0, <1>3, <1>5, <1>10 DEF CopiesTypeOK
    <3>2. s = "none" => TRUE \notin Marked(a.on, s # "none")
      BY DEF Marked
    <3> HIDE DEF s
    <3>3. s = "none" => TRUE \notin column'[a.on]
      BY <3>1, <3>2
    <3>4. QED
      BY <2>2, <3>1, <3>3 DEF MuteIs, ColumnIs, s
  <2>4. task[c].clean /\ a.op = "app" => \A f \in Touched(a) : DocIs(f, task[c].got[f])'
    <3>1. task[c].clean => RequestOK(c)
      BY <1>0 DEF ConfigInv, CopyInv, ProgressOK
    <3>2. task[c].clean /\ a.op = "app" => \A f \in Touched(a) : DocIs(f, task[c].got[f])
      BY <1>0, <3>1 DEF RequestOK, Stored
    <3>3. QED
      BY <1>5, <2>2, <3>2 DEF DocIs, Readable
  <2>5. task[c].clean => RequestOK(c)'
    <3>1. CASE a.op = "app"
      BY <2>2, <2>3, <2>4, <3>1 DEF RequestOK
    <3>2. CASE a.op = "mute"
      BY <2>2, <2>3, <3>2 DEF RequestOK, Stored
    <3>3. QED
      BY <1>1, <3>1, <3>2
  <2> HIDE DEF done
  <2>6. QED
    BY <1>0, <1>5, <1>6, <1>7, <1>8, <1>10, <2>1, <2>5, StepKeeps
<1>11. QED
  BY <1>5, <1>9, <1>10

\* The three steps of a SetDialogTakeover before it stores the switch.
LEMMA TakeoverOK ==
    ASSUME ConfigInv, NEW c \in Conn,
           PutAnrBackground(c) \/ PutHideDialogs(c) \/ TakeoverStatus(c)
    PROVE  ConfigInv' /\ GoesOn(c, task'[c])
<1> DEFINE a == task[c].ask
           on == a.set[<<All, "takeover">>]
<1>0. /\ c \in Threads /\ TaskOK /\ Works(c) /\ task[c].at \in {"anr", "hide", "status"}
      /\ CopiesTypeOK
  BY Parties
     DEF ConfigInv, StoreInv, CopyInv, PutAnrBackground, PutHideDialogs, TakeoverStatus, Step, Works
<1>1. a.op = "takeover"
  BY <1>0, WorkOK DEF StepsOf
<1>2. a \in Asked /\ Touched(a) = {<<All, "takeover">>}
  BY <1>0, <1>1, TouchedOK
<1>3. on \in BOOLEAN
  <2>1. a.set[<<All, "takeover">>] \in Values(<<All, "takeover">>)
    BY <1>1, <1>2, AskedOK
  <2>2. QED
    BY <2>1 DEF Values
<1>4. /\ UNCHANGED <<life, file, temp, mutes, column, level, ingest, said, edited>>
      /\ android' = [hide |-> android'.hide, anr |-> android'.anr]
  BY <1>0 DEF PutAnrBackground, PutHideDialogs, TakeoverStatus, CopiesTypeOK
<1>5. PICK to \in {"hide", "status", "update", "failed"} :
        /\ Step(c, task[c].at, to)
        /\ to = "hide" => task[c].at = "anr" /\ android' = [android EXCEPT !.anr = @ /\ ~on]
        /\ to = "status" => task[c].at = "hide" /\ android' = [android EXCEPT !.hide = on]
        /\ to = "update" => task[c].at = "status" /\ android' = android
  BY DEF PutAnrBackground, PutHideDialogs, TakeoverStatus, Step
<1>6. to \in StepsOf(task[c].ask.op) \ {"rename"}
  BY <1>1 DEF StepsOf
<1>7. CopiesTypeOK'
  BY <1>0, <1>4 DEF CopiesTypeOK
<1>8. \A f \in Field \ Touched(a) : Keeps(f)
  BY <1>2, <1>4, Copied DEF Keeps, Readable
<1>9. task[c].clean => RequestOK(c)'
  <2> SUFFICES ASSUME task[c].clean PROVE RequestOK(c)'
    OBVIOUS
  <2>1. task'[c].ask = a /\ task'[c].at = to
    BY <1>0, <1>5, <1>6, StepOK
  <2>2. RequestOK(c)
    BY <1>0 DEF ConfigInv, CopyInv, ProgressOK
  <2>3. /\ task[c].at \in {"hide", "status"} /\ on => ~android.anr
        /\ task[c].at = "status" => android.hide = on
    BY <1>1, <2>2 DEF RequestOK
  <2>4. /\ to \in {"hide", "status", "update"} /\ on => ~android'.anr
        /\ to \in {"status", "update"} => android'.hide = on
    BY <1>0, <1>3, <1>5, <2>3 DEF CopiesTypeOK
  <2>5. QED
    BY <1>1, <2>1, <2>4 DEF RequestOK, Stored
<1>10. life # "up" => mutes' = Unmuted
  BY <1>4 DEF ConfigInv, CopyInv, LifeOK
<1>11. QED
  BY <1>0, <1>4, <1>5, <1>6, <1>7, <1>8, <1>9, <1>10, StepKeeps

-----------------------------------------------------------------------------
(* clear_mutes.                                                            *)

LEMMA SweepKeeps ==
    ASSUME ConfigInv, NEW t \in Threads \ Conn, Works(t), NEW k \in TaskState(t),
           task' = [task EXCEPT ![t] = k], k.at \notin {"idle", "rename"},
           k.ask = task[t].ask, k.clean = task[t].clean, k.was = task[t].was,
           UNCHANGED <<life, file, temp, level, android, ingest, said, edited>>, CopiesTypeOK',
           life # "up" => mutes' = Unmuted,
           task[t].clean => \A p \in Pkg : task[t].was[<<p, "mute">>] # None => SweepOK(t, p)'
    PROVE  ConfigInv' /\ GoesOn(t, task'[t])
<1>1. TaskOK /\ task'[t] = k
  BY DEF ConfigInv, StoreInv, TaskOK
<1>2. GoesOn(t, task'[t])
  BY <1>1 DEF GoesOn
<1>3. StoreInv'
  BY <1>2, GoesOnOK DEF ConfigInv
<1>4. \A f \in Field \ Touched(task[t].ask) : Keeps(f)
  <2>1. Touched(task[t].ask) = Pkg \X {"mute"}
    BY <1>1, TouchedOK
  <2>2. \A f \in Field \ Touched(task[t].ask) : f[2] # "mute"
    BY <2>1, Copied
  <2>3. QED
    BY <2>2 DEF Keeps, Readable
<1>5. Works(t)'
  BY <1>1 DEF Works
<1>6. CopyInv' /\ HushOK'
  BY <1>1, <1>3, <1>4, <1>5, HandlerStep DEF ConfigInv, StoreInv
<1>7. QED
  BY <1>2, <1>3, <1>6 DEF ConfigInv

\* What is known of a thread in clear_mutes.
LEMMA Sweeper ==
    ASSUME ConfigInv, NEW t \in {"events", "main"}, task[t].at # "idle"
    PROVE  /\ t \in Threads \ Conn /\ TaskOK /\ Works(t) /\ CopiesTypeOK
           /\ task[t].ask.op = (IF t = "main" THEN "boot" ELSE "unlock")
           /\ task[t].cleared \in SUBSET Pkg
           /\ StepsOf(task[t].ask.op) = {"list", "forget", "columns", "update", "rename", "answer",
                                         "failed", "unreadable"}
           /\ life # "up" => mutes = Unmuted
           /\ task[t].clean => \A p \in Pkg : task[t].was[<<p, "mute">>] # None => SweepOK(t, p)
<1>1. t \in Threads \ Conn /\ TaskOK /\ Works(t) /\ CopiesTypeOK
  BY Parties DEF ConfigInv, StoreInv, CopyInv, Works
<1>2. task[t].ask.op = (IF t = "main" THEN "boot" ELSE "unlock") /\ task[t].cleared \in SUBSET Pkg
  BY <1>1, TouchedOK, WorkOK
<1>3. StepsOf(task[t].ask.op) = {"list", "forget", "columns", "update", "rename", "answer",
                                 "failed", "unreadable"}
  BY <1>2 DEF StepsOf
<1>4. QED
  BY <1>1, <1>2, <1>3 DEF ConfigInv, CopyInv, LifeOK, ProgressOK

LEMMA ListMutesOK ==
    ASSUME ConfigInv, NEW t \in {"events", "main"}, ListMutes(t)
    PROVE  ConfigInv' /\ GoesOn(t, task'[t])
<1> DEFINE op == task[t].ask.op
           ps == {p \in Pkg : /\ Ends(op, file.doc[<<p, "mute">>])
                              /\ \E f \in App(p) : file.doc[f] # Default[f]}
           k == IF Readable THEN [task[t] EXCEPT !.at = "forget", !.cleared = ps]
                ELSE [task[t] EXCEPT !.at = "unreadable"]
<1>0. task[t].at = "list" /\ task' = [task EXCEPT ![t] = k]
      /\ UNCHANGED <<life, file, temp, mutes, column, level, android, ingest, said, edited>>
  BY DEF ListMutes
<1>1. /\ t \in Threads \ Conn /\ TaskOK /\ Works(t) /\ CopiesTypeOK
      /\ life # "up" => mutes = Unmuted
      /\ {"forget", "unreadable"} \subseteq StepsOf(op)
      /\ op \in {"unlock", "boot"}
      /\ task[t].clean => \A p \in Pkg : task[t].was[<<p, "mute">>] # None => SweepOK(t, p)
  BY <1>0, Sweeper
<1>2. /\ k \in TaskState(t) /\ k.at = (IF Readable THEN "forget" ELSE "unreadable")
      /\ k.ask = task[t].ask /\ k.clean = task[t].clean /\ k.was = task[t].was
      /\ Readable => k.cleared = ps
  <2>1. \A to \in {"forget", "unreadable"} : [task[t] EXCEPT !.at = to] \in TaskState(t)
    BY <1>1, NewPlaceOK
  <2>2. task[t] \in TaskState(t) /\ ps \in SUBSET Pkg
    BY <1>1 DEF TaskOK
  <2>3. QED
    BY <2>1, <2>2 DEF TaskState
<1>3. task'[t] = k
  BY <1>0, <1>1 DEF TaskOK
<1>4. ASSUME NEW p \in Pkg, task[t].clean, task[t].was[<<p, "mute">>] # None
      PROVE  SweepOK(t, p)'
  <2> DEFINE w == task[t].was[<<p, "mute">>]
  <2>1. /\ DocIs(<<p, "mute">>, w) /\ mutes[p] = (IF op = "boot" THEN "none" ELSE w)
        /\ ColumnIs(p, w)
    BY <1>0, <1>1, <1>4 DEF SweepOK
  <2>2. Readable /\ file.doc[<<p, "mute">>] = w
    BY <2>1 DEF DocIs
  <2>3. w # "none" => \E f \in App(p) : file.doc[f] # Default[f]
    <3>1. <<p, "mute">> \in App(p) /\ <<p, "mute">> \in Field
      BY Fields
    <3>2. Default[<<p, "mute">>] = "none"
      BY <3>1 DEF Default
    <3>3. QED
      BY <2>2, <3>1, <3>2
  <2>4. IF p \in ps THEN Left(op, w) = "none" ELSE Left(op, w) = w
    <3>1. CASE p \in ps
      BY <2>2, <3>1 DEF Left
    <3>2. CASE p \notin ps
      <4>1. Ends(op, w) => w = "none"
        BY <2>2, <2>3, <3>2
      <4>2. QED
        BY <3>2, <4>1 DEF Left
    <3>3. QED
      BY <3>1, <3>2
  <2>5. k.at = "forget" /\ k.cleared = ps
    BY <1>2, <2>2
  <2>6. DocIs(<<p, "mute">>, w)' /\ ColumnIs(p, w)' /\ mutes' = mutes /\ w' = w
    BY <1>0, <1>2, <1>3, <2>1 DEF DocIs, Readable, ColumnIs
  <2> HIDE DEF ps, k
  <2>7. QED
    BY <1>2, <1>3, <2>1, <2>4, <2>5, <2>6 DEF SweepOK, DocIs, ColumnIs
<1>5. CopiesTypeOK'
  BY <1>0, <1>1 DEF CopiesTypeOK
<1> HIDE DEF k
<1>6. QED
  BY <1>0, <1>1, <1>2, <1>4, <1>5, SweepKeeps

LEMMA ForgetMutesOK ==
    ASSUME ConfigInv, NEW t \in {"events", "main"}, ForgetMutes(t)
    PROVE  ConfigInv' /\ GoesOn(t, task'[t])
<1> DEFINE op == task[t].ask.op
           ps == {p \in Pkg : mutes[p] # "none" /\ Ends(op, mutes[p])}
           cleared == task[t].cleared \cup ps
           to == IF cleared = {} THEN "answer" ELSE "columns"
           k == [task[t] EXCEPT !.at = to, !.cleared = cleared]
<1>0. task[t].at = "forget"
      /\ mutes' = [p \in Pkg |-> IF p \in ps THEN "none" ELSE mutes[p]]
      /\ UNCHANGED <<life, file, temp, column, level, android, ingest, said, edited>>
  BY DEF ForgetMutes
<1>1. /\ t \in Threads \ Conn /\ TaskOK /\ Works(t) /\ CopiesTypeOK
      /\ life # "up" => mutes = Unmuted
      /\ {"answer", "columns"} \subseteq StepsOf(op) /\ task[t].cleared \in SUBSET Pkg
      /\ op \in {"unlock", "boot"}
      /\ task[t].clean => \A p \in Pkg : task[t].was[<<p, "mute">>] # None => SweepOK(t, p)
  BY <1>0, Sweeper
<1>2. task' = [task EXCEPT ![t] = k] /\ task'[t] = k
  BY <1>1 DEF ForgetMutes, TaskOK, TaskState
<1>3. /\ k \in TaskState(t) /\ k.at = to
      /\ k.ask = task[t].ask /\ k.clean = task[t].clean /\ k.was = task[t].was
      /\ k.cleared = cleared
  <2>1. [task[t] EXCEPT !.at = to] \in TaskState(t)
    BY <1>1, NewPlaceOK
  <2>2. task[t] \in TaskState(t) /\ cleared \in SUBSET Pkg
    BY <1>1 DEF TaskOK
  <2> HIDE DEF to, cleared
  <2>3. QED
    BY <2>1, <2>2 DEF TaskState
<1>4. ASSUME NEW p \in Pkg, task[t].clean, task[t].was[<<p, "mute">>] # None
      PROVE  SweepOK(t, p)'
  <2> DEFINE w == task[t].was[<<p, "mute">>]
             left == Left(op, w)
  <2>1. /\ DocIs(<<p, "mute">>, w) /\ mutes[p] = (IF op = "boot" THEN "none" ELSE w)
        /\ ColumnIs(p, w)
        /\ IF p \in task[t].cleared THEN left = "none" ELSE left = w
    BY <1>0, <1>1, <1>4 DEF SweepOK
  <2>2. mutes'[p] = left
    <3>1. op = "boot" => left = "none" /\ mutes[p] = "none"
      BY <2>1 DEF Left, Ends
    <3>2. op = "unlock" => mutes[p] = w
      BY <2>1
    <3>3. QED
      BY <1>0, <1>1, <3>1, <3>2 DEF Left
  <2>3. IF p \in cleared THEN left = "none" ELSE left = w
    <3>1. p \in ps => left = "none"
      <4>1. p \in ps => op = "unlock" /\ mutes[p] = w /\ Ends(op, w)
        BY <1>1, <2>1
      <4>2. QED
        BY <4>1 DEF Left
    <3>2. QED
      BY <2>1, <3>1
  <2>4. to = "answer" => left = w
    BY <2>3
  <2>5. DocIs(<<p, "mute">>, w)' /\ ColumnIs(p, w)' /\ w' = w /\ left' = left
    <3>1. w' = w /\ task'[t].ask = task[t].ask
      BY <1>2, <1>3
    <3>2. QED
      BY <1>0, <2>1, <3>1 DEF DocIs, Readable, ColumnIs
  <2>6. to \in {"answer", "columns"} /\ task'[t].at = to /\ task'[t].cleared = cleared
        /\ task'[t].ask = task[t].ask /\ task'[t].was = task[t].was
    BY <1>2, <1>3
  <2> HIDE DEF to, cleared, ps, k
  <2>7. QED
    BY <2>2, <2>3, <2>4, <2>5, <2>6 DEF SweepOK, DocIs, ColumnIs
<1>5. CopiesTypeOK'
  BY <1>0, <1>1 DEF CopiesTypeOK
<1>6. life # "up" => mutes' = Unmuted
  BY <1>0, <1>1 DEF Unmuted
<1>7. k.at \notin {"idle", "rename"}
  BY <1>3
<1> HIDE DEF k
<1>8. QED
  BY <1>0, <1>1, <1>2, <1>3, <1>4, <1>5, <1>6, <1>7, SweepKeeps

LEMMA ClearColumnsOK ==
    ASSUME ConfigInv, NEW t \in {"events", "main"}, ClearColumns(t)
    PROVE  ConfigInv' /\ GoesOn(t, task'[t])
<1>0. /\ task[t].at = "columns"
      /\ UNCHANGED <<life, file, temp, mutes, level, android, ingest, said, edited>>
  BY DEF ClearColumns, Step
<1>1. /\ t \in Threads \ Conn /\ TaskOK /\ Works(t) /\ CopiesTypeOK
      /\ life # "up" => mutes = Unmuted
      /\ {"update", "failed"} \subseteq StepsOf(task[t].ask.op)
      /\ task[t].clean => \A p \in Pkg : task[t].was[<<p, "mute">>] # None => SweepOK(t, p)
  BY <1>0, Sweeper
<1>2. PICK ps \in SUBSET task[t].cleared :
        /\ column' = [p \in Pkg |-> IF p \in ps THEN Marked(p, FALSE) ELSE column[p]]
        /\ Step(t, "columns", IF ps = task[t].cleared THEN "update" ELSE "failed")
  BY DEF ClearColumns
<1> DEFINE to == IF ps = task[t].cleared THEN "update" ELSE "failed"
<1>3. /\ task'[t] \in TaskState(t) /\ task'[t].at = to
      /\ task' = [task EXCEPT ![t] = task'[t]]
      /\ task'[t].ask = task[t].ask /\ task'[t].cleared = task[t].cleared
      /\ task'[t].clean = task[t].clean /\ task'[t].was = task[t].was
  BY <1>1, <1>2, StepOK
<1>4. ASSUME NEW p \in Pkg, task[t].clean, task[t].was[<<p, "mute">>] # None
      PROVE  SweepOK(t, p)'
  <2> DEFINE w == task[t].was[<<p, "mute">>]
             left == Left(task[t].ask.op, w)
  <2>1. /\ DocIs(<<p, "mute">>, w) /\ mutes[p] = left /\ ColumnIs(p, w)
        /\ IF p \in task[t].cleared THEN left = "none" ELSE left = w
    BY <1>0, <1>1, <1>4 DEF SweepOK
  <2>2. to = "update" => ColumnIs(p, left)'
    <3>1. left' = left
      BY <1>3
    <3>2. p \in ps => TRUE \notin column'[p]
      BY <1>2 DEF Marked
    <3>3. p \notin ps => column'[p] = column[p]
      BY <1>2
    <3>4. QED
      BY <2>1, <3>1, <3>2, <3>3 DEF ColumnIs
  <2>3. DocIs(<<p, "mute">>, w)' /\ w' = w /\ left' = left /\ mutes' = mutes
    BY <1>0, <1>3, <2>1 DEF DocIs, Readable
  <2>4. to \in {"update", "failed"}
    OBVIOUS
  <2> HIDE DEF to
  <2>5. QED
    BY <1>3, <2>1, <2>2, <2>3, <2>4 DEF SweepOK, DocIs, ColumnIs
<1>5. CopiesTypeOK'
  BY <1>0, <1>1, <1>2 DEF CopiesTypeOK
<1>6. life # "up" => mutes' = Unmuted
  BY <1>0, <1>1
<1>7. QED
  BY <1>0, <1>1, <1>3, <1>4, <1>5, <1>6, SweepKeeps

-----------------------------------------------------------------------------
(* ConfigStore::update.                                                    *)

LEMMA UpdateFailsOK ==
    ASSUME ConfigInv, NEW t \in Threads, UpdateFails(t)
    PROVE  ConfigInv' /\ GoesOn(t, task'[t])
<1>0. /\ TaskOK /\ Works(t) /\ Step(t, "rename", "failed") /\ task[t].at = "rename"
      /\ UNCHANGED <<life, file, mutes, column, level, android, ingest, said, edited>>
  BY DEF ConfigInv, StoreInv, UpdateFails, Step, Works
<1>1. "failed" \in StepsOf(task[t].ask.op) \ {"rename"}
  BY DEF StepsOf
<1>2. task'[t].at = "failed"
  BY <1>0, <1>1, StepOK
<1>3. RequestOK(t)' /\ \A p \in Pkg : SweepOK(t, p)'
  BY <1>2 DEF RequestOK, Stored, SweepOK
<1>4. CopiesTypeOK' /\ (life # "up" => mutes' = Unmuted)
  BY <1>0 DEF ConfigInv, CopyInv, CopiesTypeOK, LifeOK
<1>5. \A f \in Field : Keeps(f)
  BY <1>0, Untouched
<1>6. QED
  BY <1>0, <1>1, <1>3, <1>4, <1>5, StepKeeps

\* The new document: the touched fields apart it is the old one.
LEMMA NewDocument ==
    ASSUME StoreInv, NEW t \in Threads, Works(t)
    PROVE  LET new == Normalized(Apply(Change(t), Recovered)) IN
           /\ Bounded(new) /\ new # Corrupt
           /\ \A f \in Field \ DOMAIN Change(t) : new[f] = Recovered[f]
           /\ \A f \in DOMAIN Change(t) \ {<<All, "kept">>} : new[f] = Change(t)[f]
<1> DEFINE new == Normalized(Apply(Change(t), Recovered))
<1>1. Bounded(Recovered)
  BY RecoveredOK DEF StoreInv
<1>2. DOMAIN Change(t) \subseteq Field /\ \A f \in DOMAIN Change(t) : Change(t)[f] \in Values(f)
  BY ChangeOK DEF StoreInv, Works
<1>3. /\ Bounded(new)
      /\ \A f \in Field \ DOMAIN Change(t) : new[f] = Recovered[f]
      /\ \A f \in DOMAIN Change(t) \ {<<All, "kept">>} : new[f] = Change(t)[f]
  BY <1>1, <1>2, UpdatedOK
<1> HIDE DEF new
<1>4. new # Corrupt
  BY <1>3, ConfigAssumption DEF Bounded
<1>5. QED
  BY <1>3, <1>4 DEF new

LEMMA PrepareOK ==
    ASSUME ConfigInv, NEW t \in Threads, Prepare(t)
    PROVE  /\ ConfigInv' /\ Recovered' = Recovered
           /\ file'.doc \in {file.doc, Recovered} /\ file'.kept = file.kept
           /\ task' = [task EXCEPT ![t] = task'[t]] /\ task'[t].at = "rename"
           /\ Change(t)' = Change(t)
<1> DEFINE new == Normalized(Apply(Change(t), Recovered))
           k == [task[t] EXCEPT !.at = "rename", !.got = new]
<1>0. /\ StoreInv /\ TaskOK /\ Works(t) /\ task[t].at = "update" /\ ~Locked
      /\ UNCHANGED <<life, mutes, column, level, android, ingest, said, edited>>
      /\ temp' = [doc |-> new, synced |-> TRUE]
  BY DEF ConfigInv, StoreInv, Prepare, Works
<1>1. Bounded(new) /\ new # Corrupt
  BY <1>0, NewDocument
<1>2. task' = [task EXCEPT ![t] = k] /\ task'[t] = k
  BY <1>0 DEF Prepare, TaskOK, TaskState
<1>3. /\ k \in TaskState(t) /\ k.at = "rename" /\ k.got = new /\ k.cleared = task[t].cleared
      /\ k.ask = task[t].ask /\ k.clean = task[t].clean /\ k.was = task[t].was
  <2>1. "rename" \in StepsOf(task[t].ask.op)
    BY DEF StepsOf
  <2>2. [task[t] EXCEPT !.at = "rename"] \in TaskState(t)
    BY <1>0, <2>1, NewPlaceOK
  <2>3. new \in Document
    BY <1>1 DEF Bounded
  <2> HIDE DEF new
  <2>4. QED
    BY <1>0, <2>2, <2>3 DEF TaskState, TaskOK
<1> DEFINE fresh == [doc |-> Default, synced |-> TRUE, kept |-> file.kept]
<1>4. /\ file' = file \/ (~Readable /\ file' = fresh)
      /\ Recovered' = Recovered
      /\ file'.doc \in {file.doc, Recovered} /\ file'.kept = file.kept
  <2>1. Default # Corrupt
    BY DefaultOK, ConfigAssumption DEF Bounded
  <2>2. file' = file \/ (~Readable /\ file' = fresh)
    BY <1>0 DEF Prepare, StoreInv, FileOK
  <2>3. CASE file' = file
    BY <2>3 DEF Recovered, Readable
  <2>4. CASE ~Readable /\ file' = fresh
    BY <2>1, <2>4 DEF Recovered, Readable
  <2>5. QED
    BY <2>2, <2>3, <2>4
<1>5. Change(t)' = Change(t)
  BY <1>2, <1>3 DEF Change
<1> HIDE DEF new, k
<1>6. TaskOK'
  BY <1>0, <1>2, <1>3 DEF TaskOK
<1>7. FileOK'
  <2>1. CASE file' = file
    BY <1>0, <2>1 DEF StoreInv, FileOK
  <2>2. CASE file' = fresh
    BY <1>0, <2>2, DefaultOK DEF StoreInv, FileOK, Sound
  <2>3. QED
    BY <1>4, <2>1, <2>2
<1>8. WriterOK'
  <2>1. \A u \in Threads : task'[u].at = "rename" => u = t
    BY <1>0, <1>2 DEF Locked, TaskOK
  <2>2. task'[t].got = Normalized(Apply(Change(t), Recovered))'
    BY <1>2, <1>3, <1>4, <1>5 DEF new, Normalized, Apply
  <2>3. temp' = [doc |-> task'[t].got, synced |-> TRUE]
    BY <1>0, <1>2, <1>3
  <2>4. QED
    BY <2>1, <2>2, <2>3 DEF WriterOK
<1>9. \A f \in Field : Keeps(f)
  BY <1>0, <1>4 DEF Keeps, Readable
<1>10. task[t].clean /\ t \in Conn => RequestOK(t)'
  <2> SUFFICES ASSUME task[t].clean, t \in Conn PROVE RequestOK(t)'
    OBVIOUS
  <2>1. RequestOK(t)
    BY <1>0 DEF ConfigInv, CopyInv, ProgressOK
  <2> DEFINE a == task[t].ask
             on == a.set[<<All, "takeover">>]
  <2>2. task'[t].at = "rename" /\ task'[t].ask = a
    BY <1>2, <1>3
  <2>3. a.op = "mute" => MuteIs(a.on, a.set[<<a.on, "mute">>])'
    <3>1. a.op = "mute" => MuteIs(a.on, a.set[<<a.on, "mute">>])
      BY <1>0, <2>1 DEF RequestOK
    <3>2. QED
      BY <1>0, <2>2, <3>1 DEF MuteIs, ColumnIs
  <2>4. a.op = "takeover" => (on => ~android.anr) /\ android.hide = on
    BY <1>0, <2>1 DEF RequestOK
  <2>5. QED
    BY <1>0, <2>2, <2>3, <2>4 DEF RequestOK, Stored
<1>11. task[t].clean /\ t \notin Conn =>
            \A p \in Pkg : task[t].was[<<p, "mute">>] # None => SweepOK(t, p)'
  <2> SUFFICES ASSUME task[t].clean, t \notin Conn, NEW p \in Pkg,
                      task[t].was[<<p, "mute">>] # None
               PROVE  SweepOK(t, p)'
    OBVIOUS
  <2>1. SweepOK(t, p)
    BY <1>0 DEF ConfigInv, CopyInv, ProgressOK
  <2>2. Keeps(<<p, "mute">>)
    BY <1>9, Fields
  <2>3. \A v : DocIs(<<p, "mute">>, v) => DocIs(<<p, "mute">>, v)'
    BY <2>2 DEF Keeps, DocIs
  <2>4. QED
    BY <1>0, <1>2, <1>3, <2>1, <2>3 DEF SweepOK, ColumnIs
<1>12. CopiesTypeOK' /\ (life # "up" => mutes' = Unmuted)
  BY <1>0 DEF ConfigInv, CopyInv, CopiesTypeOK, LifeOK
<1>13. CopyInv' /\ HushOK'
  <2>1. Works(t)'
    BY <1>2, <1>3 DEF Works
  <2>2. /\ task' = [task EXCEPT ![t] = task'[t]] /\ task'[t].ask = task[t].ask
        /\ task'[t].clean = task[t].clean /\ task'[t].was = task[t].was
    BY <1>2, <1>3
  <2>3. QED
    BY <1>0, <1>6, <1>9, <1>10, <1>11, <1>12, <2>1, <2>2, HandlerStep DEF ConfigInv
<1>14. QED
  BY <1>2, <1>3, <1>4, <1>5, <1>6, <1>7, <1>8, <1>13 DEF ConfigInv, StoreInv

LEMMA RenameOK ==
    ASSUME ConfigInv, NEW t \in Threads, Rename(t)
    PROVE  /\ ConfigInv' /\ Recovered' = Normalized(Apply(Change(t), Recovered))
           /\ file'.doc = Recovered' /\ file'.kept = file.kept
           /\ task' = [task EXCEPT ![t] = task'[t]] /\ task'[t].at # "rename"
<1> DEFINE new == Normalized(Apply(Change(t), Recovered))
           a == task[t].ask
           to == AfterUpdate(a.op)
<1>0. /\ StoreInv /\ TaskOK /\ Works(t) /\ task[t].at = "rename" /\ Step(t, "rename", to)
      /\ file' = [doc |-> temp.doc, synced |-> temp.synced, kept |-> file.kept]
      /\ UNCHANGED <<life, mutes, column, level, android, ingest, said, edited>>
  BY DEF ConfigInv, StoreInv, Rename, Works, Step
<1>1. /\ Bounded(new) /\ new # Corrupt
      /\ \A f \in Field \ DOMAIN Change(t) : new[f] = Recovered[f]
      /\ \A f \in DOMAIN Change(t) \ {<<All, "kept">>} : new[f] = Change(t)[f]
  BY <1>0, NewDocument
<1>2. file' = [doc |-> new, synced |-> TRUE, kept |-> file.kept] /\ task[t].got = new
  <2>1. temp = [doc |-> task[t].got, synced |-> TRUE] /\ task[t].got = new
    BY <1>0 DEF StoreInv, WriterOK
  <2> HIDE DEF new
  <2>2. temp.doc = new /\ temp.synced = TRUE
    BY <2>1
  <2>3. QED
    BY <1>0, <2>1, <2>2
<1>3. /\ Readable' /\ Recovered' = new /\ FileOK' /\ file'.doc = new
      /\ file'.kept = file.kept
  <2> HIDE DEF new
  <2>1. file'.doc = new /\ file'.kept = file.kept
    BY <1>2
  <2>2. Readable' /\ Recovered' = new
    BY <1>1, <2>1 DEF Readable, Recovered
  <2>3. FileOK'
    BY <1>0, <1>1, <1>2, <2>1 DEF StoreInv, FileOK, Sound
  <2>4. QED
    BY <2>1, <2>2, <2>3
<1>4. to \in StepsOf(a.op) /\ to \in {"level", "apply", "answer"}
  BY <1>0, WorkOK DEF AfterUpdate, StepsOf
<1>5. /\ task'[t] \in TaskState(t) /\ task'[t].at = to
      /\ task' = [task EXCEPT ![t] = task'[t]]
      /\ task'[t].ask = a /\ task'[t].got = task[t].got /\ task'[t].cleared = task[t].cleared
      /\ task'[t].clean = task[t].clean /\ task'[t].was = task[t].was
  BY <1>0, <1>4, StepOK
<1> HIDE DEF new, to
<1>6. TaskOK' /\ WriterOK'
  <2>1. \A u \in Threads : task'[u].at # "rename"
    BY <1>0, <1>4, <1>5 DEF StoreInv, WriterOK, TaskOK
  <2>2. QED
    BY <1>0, <1>5, <2>1 DEF WriterOK, TaskOK
<1>7. \A f \in Field \ Touched(a) : Keeps(f)
  <2>1. DOMAIN Change(t) \subseteq Touched(a)
    BY <1>0, TouchedOK
  <2>2. Readable => Recovered = file.doc
    BY DEF Recovered
  <2>3. QED
    BY <1>0, <1>1, <1>3, <2>1, <2>2 DEF Keeps
<1>8. task[t].clean /\ t \in Conn => RequestOK(t)'
  <2> SUFFICES ASSUME task[t].clean, t \in Conn PROVE RequestOK(t)'
    OBVIOUS
  <2>1. RequestOK(t) /\ a \in Asked
    BY <1>0, TouchedOK DEF ConfigInv, CopyInv, ProgressOK
  <2>2. a.op \in {"global", "app", "mute", "takeover"} /\ Change(t) = a.set
    BY <1>0, <2>1, AskedOK, ChangeOK DEF Works
  <2>3. \A f : DocIs(f, task[t].got[f])'
    BY <1>2, <1>3, <1>5 DEF DocIs
  <2>4. CASE a.op \in {"global", "app"}
    <3>1. to = (IF a.op = "global" THEN "level" ELSE "apply")
      BY <2>4 DEF to, AfterUpdate
    <3>2. QED
      BY <1>5, <2>3, <2>4, <3>1 DEF RequestOK
  <2>5. CASE a.op = "mute"
    <3>1. to = "answer"
      BY <2>5 DEF to, AfterUpdate
    <3>2. <<a.on, "mute">> \in DOMAIN Change(t) \ {<<All, "kept">>}
      BY <2>1, <2>2, <2>5, AskedOK
    <3>3. task[t].got[<<a.on, "mute">>] = a.set[<<a.on, "mute">>]
      BY <1>1, <1>2, <2>2, <3>2
    <3>4. MuteIs(a.on, a.set[<<a.on, "mute">>])
      BY <1>0, <2>1, <2>5 DEF RequestOK
    <3>5. MuteIs(a.on, task[t].got[<<a.on, "mute">>])'
      BY <1>0, <1>5, <3>3, <3>4 DEF MuteIs, ColumnIs
    <3>6. QED
      BY <1>5, <2>3, <2>5, <3>1, <3>5 DEF RequestOK
  <2>6. CASE a.op = "takeover"
    <3>1. to = "answer"
      BY <2>6 DEF to, AfterUpdate
    <3>2. <<All, "takeover">> \in DOMAIN Change(t) \ {<<All, "kept">>}
      BY <2>1, <2>2, <2>6, AskedOK
    <3>3. task[t].got[<<All, "takeover">>] = a.set[<<All, "takeover">>]
      BY <1>1, <1>2, <2>2, <3>2
    <3>4. /\ a.set[<<All, "takeover">>] => ~android.anr
          /\ android.hide = a.set[<<All, "takeover">>]
      BY <1>0, <2>1, <2>6 DEF RequestOK
    <3>5. QED
      BY <1>0, <1>5, <2>3, <2>6, <3>1, <3>3, <3>4 DEF RequestOK
  <2>7. QED
    BY <2>2, <2>4, <2>5, <2>6
<1>9. task[t].clean /\ t \notin Conn =>
            \A p \in Pkg : task[t].was[<<p, "mute">>] # None => SweepOK(t, p)'
  <2> SUFFICES ASSUME task[t].clean, t \notin Conn, NEW p \in Pkg,
                      task[t].was[<<p, "mute">>] # None
               PROVE  SweepOK(t, p)'
    OBVIOUS
  <2> DEFINE w == task[t].was[<<p, "mute">>]
             left == Left(a.op, w)
  <2>1. a.op \in {"unlock", "boot"} /\ a \notin Asked
    BY <1>0, TouchedOK
  <2>2. Change(t) = [f \in task[t].cleared \X {"mute"} |-> "none"]
    BY <1>0, <2>1, ChangeOK DEF Works
  <2>3. to = "answer"
    BY <2>1 DEF to, AfterUpdate
  <2>4. /\ DocIs(<<p, "mute">>, w) /\ mutes[p] = left /\ ColumnIs(p, left)
        /\ IF p \in task[t].cleared THEN left = "none" ELSE left = w
    BY <1>0 DEF ConfigInv, CopyInv, ProgressOK, SweepOK
  <2>5. new[<<p, "mute">>] = left
    <3>1. CASE p \in task[t].cleared
      <4>1. <<p, "mute">> \in DOMAIN Change(t) /\ Change(t)[<<p, "mute">>] = "none"
        BY <2>2, <3>1
      <4>2. <<p, "mute">> # <<All, "kept">>
        OBVIOUS
      <4>3. QED
        BY <1>1, <2>4, <3>1, <4>1, <4>2
    <3>2. CASE p \notin task[t].cleared
      <4>1. <<p, "mute">> \notin DOMAIN Change(t) /\ <<p, "mute">> \in Field
        BY <2>2, <3>2, Fields
      <4>2. Recovered[<<p, "mute">>] = w
        BY <2>4 DEF DocIs, Recovered
      <4>3. QED
        BY <1>1, <2>4, <3>2, <4>1, <4>2
    <3>3. QED
      BY <3>1, <3>2
  <2>6. /\ DocIs(<<p, "mute">>, left)' /\ ColumnIs(p, left)' /\ mutes'[p] = left
        /\ w' = w /\ left' = left
    BY <1>0, <1>3, <1>5, <2>4, <2>5 DEF DocIs, ColumnIs
  <2>7. QED
    BY <1>5, <2>3, <2>6 DEF SweepOK, DocIs, ColumnIs
<1>10. CopiesTypeOK' /\ (life # "up" => mutes' = Unmuted)
  BY <1>0 DEF ConfigInv, CopyInv, CopiesTypeOK, LifeOK
<1>11. CopyInv' /\ HushOK'
  <2>1. Works(t)'
    BY <1>4, <1>5 DEF Works
  <2>2. QED
    BY <1>0, <1>5, <1>6, <1>7, <1>8, <1>9, <1>10, <2>1, HandlerStep DEF ConfigInv
<1>12. QED
  BY <1>3, <1>4, <1>5, <1>6, <1>11 DEF ConfigInv, StoreInv, new

-----------------------------------------------------------------------------
(* The beginning and the end of a handler.                                 *)

\* Nobody takes the lock.
NoNewWriter ==
    \A u \in Threads : task'[u].at = "rename" => task[u].at = "rename" /\ Change(u)' = Change(u)

LEMMA WorkTouches ==
    ASSUME NEW t \in Threads, NEW a \in Work(t)
    PROVE  Touched(a) \subseteq Field
<1>1. CASE a \in Asked
  <2>1. CASE a.op \in {"global", "takeover"}
    <3>1. Touched(a) \subseteq DOMAIN a.set \cup {<<All, "debug">>}
      BY <2>1 DEF Touched
    <3>2. QED
      BY <1>1, <3>1, AskedOK, Fields
  <2>2. CASE a.op \in {"app", "mute"}
    <3>1. Touched(a) = App(a.on)
      BY <2>2 DEF Touched
    <3>2. QED
      BY <1>1, <2>2, <3>1, AskedOK, Fields
  <2>3. QED
    BY <1>1, <2>1, <2>2, AskedOK
<1>2. CASE a \in {Unlock, Boot}
  <2>1. Touched(a) = {<<p, "mute">> : p \in Pkg}
    BY <1>2 DEF Touched, Unlock, Boot
  <2>2. QED
    BY <2>1, Fields
<1>3. QED
  BY <1>1, <1>2 DEF Work

LEMMA BeginOK ==
    ASSUME ConfigInv, NEW t \in Threads, ~Works(t), NEW a \in Work(t), Begin(t, a),
           UNCHANGED <<file, temp, mutes, column, android, edited>>,
           \/ life = "up" /\ life' = "up" /\ t # "main" /\ level' = level
           \/ /\ life = "down" /\ life' = "starting" /\ t = "main"
              /\ Readable => level' = file.doc[<<All, "debug">>]
    PROVE  ConfigInv' /\ NoNewWriter
<1> DEFINE fs == Touched(a)
           k == task'[t]
<1>0. TaskOK /\ FileOK /\ WriterOK /\ LifeOK /\ CopiesTypeOK /\ SaidOK /\ QuietOK /\ AloneOK
      /\ ProgressOK /\ HushOK
  BY DEF ConfigInv, StoreInv, CopyInv
<1>1. FirstStep(a.op) \in StepsOf(a.op) \ {"idle", "rename"}
      /\ a.op \in {"global", "app", "mute", "takeover", "unlock", "boot"}
      /\ FirstStep(a.op) \in UNION {StepsOf(op) : op \in {"global", "app", "mute", "takeover",
                                                          "boot"}}
  <2>1. a.op \in {"global", "app", "mute", "takeover", "unlock", "boot"}
    BY AskedOK DEF Work, Unlock, Boot
  <2>2. FirstStep(a.op) \in StepsOf(a.op) \ {"idle", "rename"}
    BY <2>1 DEF FirstStep, StepsOf
  <2>3. StepsOf("unlock") = StepsOf("boot")
    BY DEF StepsOf
  <2>4. QED
    BY <2>1, <2>2, <2>3
<1>2. /\ k = [Idle EXCEPT !.at = FirstStep(a.op), !.ask = a,
                          !.was = IF t \in Conn THEN @ ELSE said,
                          !.clean = \A e \in Threads \ {t} : ~Busy(e, fs)]
      /\ \A d \in Threads \ {t} : task'[d] = [task[d] EXCEPT !.clean = @ /\ ~Busy(d, fs)]
      /\ task' = [d \in Threads |-> task'[d]]
  BY DEF Begin
<1>3. /\ k.at = FirstStep(a.op) /\ k.ask = a /\ k.was = (IF t \in Conn THEN Default ELSE said)
      /\ k.clean = (\A e \in Threads \ {t} : ~Busy(e, fs)) /\ k \in TaskState(t)
  <2>1. Default \in Document /\ said \in Document
    BY <1>0, DefaultOK DEF Bounded, CopiesTypeOK
  <2>2. a \in Asked \cup {Unlock, Boot, [op |-> "none"]}
    BY DEF Work
  <2> DEFINE clean == \A e \in Threads \ {t} : ~Busy(e, fs)
             was == IF t \in Conn THEN Default ELSE said
  <2>3. k = [at |-> FirstStep(a.op), ask |-> a, got |-> Default, cleared |-> {},
             clean |-> clean, was |-> was]
    BY <1>2 DEF Idle
  <2>4. clean \in BOOLEAN /\ was \in Document
    BY <2>1
  <2> HIDE DEF clean, was, k
  <2>5. k \in TaskState(t)
    BY <1>1, <2>1, <2>2, <2>3, <2>4 DEF TaskState
  <2>6. QED
    BY <2>3, <2>5 DEF clean, was
<1>4. \A d \in Threads \ {t} :
        /\ task'[d] \in TaskState(d)
        /\ task'[d].at = task[d].at /\ task'[d].ask = task[d].ask /\ task'[d].got = task[d].got
        /\ task'[d].cleared = task[d].cleared /\ task'[d].was = task[d].was
        /\ task'[d].clean = (task[d].clean /\ ~Busy(d, fs))
        /\ task'[d].clean => task'[d] = task[d]
  <2> TAKE d \in Threads \ {t}
  <2>1. /\ task'[d] = [task[d] EXCEPT !.clean = @ /\ ~Busy(d, fs)]
        /\ task[d] \in TaskState(d)
    BY <1>0, <1>2 DEF TaskOK
  <2>2. task[d].clean \in BOOLEAN /\ (task[d].clean /\ ~Busy(d, fs)) \in BOOLEAN
    BY <2>1 DEF TaskState
  <2>3. /\ task'[d].at = task[d].at /\ task'[d].ask = task[d].ask /\ task'[d].got = task[d].got
        /\ task'[d].cleared = task[d].cleared /\ task'[d].was = task[d].was
        /\ task'[d].clean = (task[d].clean /\ ~Busy(d, fs))
    BY <2>1 DEF TaskState
  <2>4. task'[d] \in TaskState(d)
    BY <2>1, <2>2 DEF TaskState
  <2>5. task'[d].clean => task'[d] = task[d]
    <3>1. task'[d].clean => task[d].clean = TRUE /\ (task[d].clean /\ ~Busy(d, fs)) = TRUE
      BY <2>2, <2>3
    <3>2. task[d] = [task[d] EXCEPT !.clean = task[d].clean]
      BY <2>1 DEF TaskState
    <3>3. QED
      BY <2>1, <3>1, <3>2
  <2>6. QED
    BY <2>3, <2>4, <2>5
<1>5. said' = [f \in Field |-> IF f \in fs THEN None ELSE said[f]]
  BY DEF Begin
<1>6. ingest' = [ingest EXCEPT !.hushed = @ /\ fs \cap App(ingest.of.pkg) = {}]
  BY DEF Begin
<1> HIDE DEF k
<1>7. TaskOK' /\ Works(t)' /\ \A d \in Threads \ {t} : Works(d)' <=> Works(d)
  BY <1>1, <1>2, <1>3, <1>4 DEF TaskOK, Works, k
<1>8. FileOK' /\ Recovered' = Recovered
  BY <1>0 DEF FileOK, Readable, Recovered
<1>9. NoNewWriter
  BY <1>1, <1>3, <1>4 DEF NoNewWriter, Change, k
<1>10. WriterOK'
  BY <1>0, <1>1, <1>3, <1>4, <1>8, <1>9 DEF WriterOK, NoNewWriter, k
<1>11. LifeOK'
  BY <1>0, <1>7, Parties DEF LifeOK
<1>12. CopiesTypeOK'
  <2>1. said' \in Document
    <3> DEFINE value == Nat \cup BOOLEAN \cup Scope \cup Mode \cup {None}
    <3>1. said \in [Field -> value] /\ None \in value
      BY <1>0 DEF CopiesTypeOK, Document
    <3> HIDE DEF value
    <3>2. said' \in [Field -> value]
      BY <1>5, <3>1
    <3>3. QED
      BY <3>2 DEF Document, value
  <2>2. QED
    BY <1>0, <2>1 DEF CopiesTypeOK
<1>13. fs \subseteq Field
  BY WorkTouches
<1>14. AloneOK'
  <2> SUFFICES ASSUME NEW u \in Threads, NEW v \in Threads, u # v, Works(u)', task'[u].clean,
                      Works(v)'
               PROVE  Touched(task'[u].ask) \cap Touched(task'[v].ask) = {}
    BY DEF AloneOK, Touched
  <2>1. CASE u = t
    <3>1. ~Busy(v, fs) /\ Works(v) /\ v # t
      BY <1>3, <1>7, <2>1 DEF k
    <3>2. task'[u].ask = a /\ task'[v].ask = task[v].ask
      BY <1>3, <1>4, <2>1, <3>1 DEF k
    <3>3. QED
      BY <3>1, <3>2 DEF Busy, Works
  <2>2. CASE v = t
    <3>1. ~Busy(u, fs) /\ Works(u) /\ u # t
      BY <1>4, <1>7, <2>2
    <3>2. task'[v].ask = a /\ task'[u].ask = task[u].ask
      BY <1>3, <1>4, <2>2, <3>1 DEF k
    <3>3. QED
      BY <3>1, <3>2 DEF Busy, Works
  <2>3. CASE u # t /\ v # t
    BY <1>0, <1>4, <1>7, <2>3 DEF AloneOK
  <2>4. QED
    BY <2>1, <2>2, <2>3
<1>15. QuietOK'
  <2> SUFFICES ASSUME NEW u \in Threads, Works(u)', NEW f \in Touched(task'[u].ask)
               PROVE  said'[f] = None
    BY DEF QuietOK, Touched
  <2>1. CASE u = t
    BY <1>3, <1>5, <1>13, <2>1 DEF k
  <2>2. CASE u # t
    <3>1. Works(u) /\ f \in Touched(task[u].ask)
      BY <1>4, <1>7, <2>2
    <3>2. said[f] = None /\ f \in Field
      BY <1>0, <3>1, TouchedOK DEF QuietOK
    <3>3. QED
      BY <1>5, <3>2
  <2>3. QED
    BY <2>1, <2>2
<1>16. SaidOK'
  <2> SUFFICES ASSUME NEW f \in Field, said'[f] # None
               PROVE  /\ DocIs(f, said[f])'
                      /\ f[2] = "mute" => /\ ColumnIs(f[1], said[f])'
                                          /\ life' = "up" => mutes'[f[1]] = said'[f]
                      /\ f[2] = "debug" /\ life' # "down" => level' = said'[f]
                      /\ f[2] = "takeover" =>
                            android'.hide = said'[f] /\ (said'[f] => ~android'.anr)
    BY DEF SaidOK, DocIs, ColumnIs, Readable
  <2>1. said'[f] = said[f] /\ said[f] # None
    BY <1>5
  <2>2. /\ DocIs(f, said[f])
        /\ f[2] = "mute" => ColumnIs(f[1], said[f]) /\ (life = "up" => mutes[f[1]] = said[f])
        /\ f[2] = "debug" /\ life # "down" => level = said[f]
        /\ f[2] = "takeover" => android.hide = said[f] /\ (said[f] => ~android.anr)
    BY <1>0, <2>1 DEF SaidOK
  <2>3. f[2] = "debug" => level' = said[f]
    BY <2>2, Copied DEF DocIs
  <2>4. DocIs(f, said[f])' /\ (f[2] = "mute" => ColumnIs(f[1], said[f])')
    BY <2>1, <2>2 DEF DocIs, Readable, ColumnIs
  <2>5. QED
    BY <2>1, <2>2, <2>3, <2>4
<1>17. ProgressOK'
  <2> SUFFICES ASSUME NEW u \in Threads, Works(u)', task'[u].clean
               PROVE  IF u \in Conn THEN RequestOK(u)'
                      ELSE \A p \in Pkg : task'[u].was[<<p, "mute">>] # None => SweepOK(u, p)'
    BY DEF ProgressOK
  <2>1. CASE u # t
    <3>1. Works(u) /\ task[u].clean /\ task'[u] = task[u]
      BY <1>4, <1>7, <2>1
    <3>2. life = "up" /\ level' = level
      BY <1>0, <2>1, <3>1 DEF LifeOK
    <3>3. \A f \in Field : Keeps(f)
      BY <3>2, Untouched
    <3>4. Touched(task[u].ask) \subseteq Field
      BY <1>0, <3>1, TouchedOK
    <3>5. CASE u \in Conn
      BY <1>0, <3>1, <3>3, <3>4, <3>5, RequestKept DEF ProgressOK
    <3>6. CASE u \notin Conn
      <4>1. \A p \in Pkg : Keeps(<<p, "mute">>)
        BY <3>3, Fields
      <4>2. QED
        BY <1>0, <3>1, <3>6, <4>1, SweepKept DEF ProgressOK
    <3>7. QED
      BY <3>5, <3>6
  <2>2. CASE u = t /\ t \in Conn
    <3>1. a \in Asked /\ a.op \in {"global", "app", "mute", "takeover"}
      BY <2>2, Parties, AskedOK DEF Work
    <3>2. FirstStep(a.op) = (CASE a.op = "global" -> "before" [] a.op = "app" -> "update"
                               [] a.op = "mute" -> "apply" [] OTHER -> "anr")
      BY <3>1 DEF FirstStep
    <3>3. RequestOK(t)'
      BY <1>3, <3>1, <3>2 DEF RequestOK, Stored, k
    <3>4. QED
      BY <2>2, <3>3
  <2>3. CASE u = t /\ t \notin Conn
    <3>1. a.op = (IF t = "main" THEN "boot" ELSE "unlock") /\ k.was = said /\ k.at = "list"
      <4>1. t = "main" \/ t = "events"
        BY <2>3 DEF Threads
      <4>2. a.op = (IF t = "main" THEN "boot" ELSE "unlock")
        BY <4>1 DEF Work, Unlock, Boot
      <4>3. QED
        BY <1>3, <2>3, <4>2 DEF FirstStep
    <3>2. ASSUME NEW p \in Pkg, said[<<p, "mute">>] # None
          PROVE  SweepOK(t, p)'
      <4> DEFINE w == said[<<p, "mute">>]
      <4>1. <<p, "mute">> \in Field
        BY Fields
      <4>2. DocIs(<<p, "mute">>, w) /\ ColumnIs(p, w) /\ (life = "up" => mutes[p] = w)
        BY <1>0, <3>2, <4>1 DEF SaidOK
      <4>3. Readable' /\ file'.doc[<<p, "mute">>] = w /\ (w = "none" => TRUE \notin column'[p])
        BY <4>2 DEF DocIs, Readable, ColumnIs
      <4>4. mutes'[p] = (IF a.op = "boot" THEN "none" ELSE w)
        <5>1. life = "down" => mutes[p] = "none"
          BY <1>0 DEF LifeOK, Unmuted
        <5>2. QED
          BY <3>1, <4>2, <5>1
      <4>5. task'[t].was[<<p, "mute">>] = w /\ task'[t].at = "list" /\ task'[t].ask = a
        BY <1>3, <3>1 DEF k
      <4> HIDE DEF w
      <4>6. QED
        BY <4>3, <4>4, <4>5 DEF SweepOK, DocIs, ColumnIs
    <3>3. QED
      BY <2>3, <3>1, <3>2 DEF k
  <2>4. QED
    BY <2>1, <2>2, <2>3
<1>18. HushOK'
  <2>1. /\ ingest'.at = ingest.at /\ ingest'.of = ingest.of /\ ingest'.notify = ingest.notify
        /\ ingest'.hushed = (ingest.hushed /\ fs \cap App(ingest.of.pkg) = {})
        /\ ingest' = [at |-> ingest'.at, of |-> ingest'.of, notify |-> ingest'.notify,
                      hushed |-> ingest'.hushed]
        /\ ingest.of.pkg \in Pkg
    BY <1>0, <1>6 DEF HushOK
  <2>2. ASSUME ingest'.hushed
        PROVE  /\ life' = "up" /\ ingest'.at # "alert"
               /\ ingest'.at # "idle" /\ ingest'.notify
                    => said'[<<ingest'.of.pkg, "mute">>] \in {"unlock", "restart"}
    <3>1. /\ life = "up" /\ ingest.at # "alert"
          /\ ingest.at # "idle" /\ ingest.notify
              => said[<<ingest.of.pkg, "mute">>] \in {"unlock", "restart"}
      BY <1>0, <2>1, <2>2 DEF HushOK
    <3>2. <<ingest.of.pkg, "mute">> \notin fs /\ <<ingest.of.pkg, "mute">> \in Field
      BY <2>1, <2>2, Fields
    <3>3. QED
      BY <1>5, <2>1, <3>1, <3>2
  <2>3. QED
    BY <2>1, <2>2 DEF HushOK
<1>19. QED
  BY <1>7, <1>8, <1>9, <1>10, <1>11, <1>12, <1>14, <1>15, <1>16, <1>17, <1>18
     DEF ConfigInv, StoreInv, CopyInv

LEMMA GoesOnQuietly ==
    ASSUME StoreInv, NEW t \in Threads, NEW k, GoesOn(t, k)
    PROVE  NoNewWriter /\ file' = file
<1>1. task'[t] = k /\ \A u \in Threads \ {t} : task'[u] = task[u]
  BY DEF StoreInv, TaskOK, GoesOn
<1>2. QED
  BY <1>1 DEF NoNewWriter, GoesOn, Change

\* What an undisturbed thread says in the end is in force.
LEMMA ToldOK ==
    ASSUME ConfigInv, NEW t \in Threads, task[t].at = "answer", task[t].clean,
           NEW f \in Touched(task[t].ask), Told(t, f) # None
    PROVE  /\ DocIs(f, Told(t, f))
           /\ f[2] = "mute" => mutes[f[1]] = Told(t, f) /\ ColumnIs(f[1], Told(t, f))
           /\ f[2] = "debug" => level = Told(t, f)
           /\ f[2] = "takeover" => android.hide = Told(t, f) /\ (Told(t, f) => ~android.anr)
<1> DEFINE a == task[t].ask
<1>0. TaskOK /\ Works(t) /\ ProgressOK
  BY DEF ConfigInv, StoreInv, CopyInv, Works
<1>1. f \in Field
  BY <1>0, TouchedOK
<1>2. CASE t \in Conn
  <2>1. a \in Asked /\ RequestOK(t)
    BY <1>0, <1>2, TouchedOK DEF ProgressOK
  <2>2. a.op \in {"global", "app", "mute", "takeover"}
    BY <2>1, AskedOK
  <2>3. Told(t, f) = task[t].got[f]
    BY <2>2 DEF Told
  <2>4. DocIs(f, Told(t, f))
    BY <2>1, <2>3 DEF RequestOK, Stored
  <2>5. ASSUME f[2] = "mute" PROVE mutes[f[1]] = Told(t, f) /\ ColumnIs(f[1], Told(t, f))
    <3>1. a.op \in {"app", "mute"} /\ f[1] = a.on
      <4>1. a.op # "takeover" /\ a.op # "global"
        <5>1. f # <<All, "takeover">> /\ f # <<All, "debug">>
          BY <2>5
        <5>2. a.op = "global" => f \in Global
          BY <1>0, <1>2, <2>1, <5>1, TouchedOK, AskedOK
        <5>3. f \notin Global
          BY <2>5 DEF Global, Switch
        <5>4. a.op = "takeover" => f = <<All, "takeover">>
          BY <1>0, <1>2, TouchedOK
        <5>5. QED
          BY <5>1, <5>2, <5>3, <5>4
      <4>2. a.op \in {"app", "mute"} /\ f \in App(a.on)
        BY <1>0, <1>2, <2>2, <4>1, TouchedOK
      <4>3. QED
        BY <4>2 DEF App
    <3>2. f = <<a.on, "mute">>
      BY <1>1, <2>5, <3>1, Copied
    <3>3. QED
      BY <2>1, <2>3, <3>1, <3>2 DEF RequestOK, MuteIs
  <2>6. ASSUME f[2] = "debug" PROVE level = Told(t, f)
    <3>1. f = <<All, "debug">>
      BY <1>1, <2>6, Copied
    <3>2. a.op = "global"
      <4>1. a.op \in {"app", "mute"} => f \in App(a.on)
        BY <1>0, <1>2, TouchedOK
      <4>2. a.op = "takeover" => f = <<All, "takeover">>
        BY <1>0, <1>2, TouchedOK
      <4>3. QED
        BY <2>2, <2>6, <4>1, <4>2 DEF App
    <3>3. QED
      BY <2>1, <2>3, <3>1, <3>2 DEF RequestOK
  <2>7. ASSUME f[2] = "takeover"
        PROVE  android.hide = Told(t, f) /\ (Told(t, f) => ~android.anr)
    <3>1. f = <<All, "takeover">>
      BY <1>1, <2>7, Copied
    <3>2. a.op = "takeover"
      <4>1. a.op \in {"app", "mute"} => f \in App(a.on)
        BY <1>0, <1>2, TouchedOK
      <4>2. a.op = "global" => f \in DOMAIN a.set \cup {<<All, "debug">>}
        BY <1>0, <1>2, TouchedOK
      <4>3. a.op = "global" => f \notin DOMAIN a.set
        BY <2>1, <3>1, AskedOK
      <4>4. QED
        BY <2>2, <2>7, <4>1, <4>2, <4>3 DEF App
    <3>3. QED
      BY <2>1, <2>3, <3>1, <3>2 DEF RequestOK
  <2>8. QED
    BY <2>4, <2>5, <2>6, <2>7
<1>3. CASE t \notin Conn
  <2>1. a.op \in {"unlock", "boot"} /\ f \in Pkg \X {"mute"}
    BY <1>0, <1>3, TouchedOK
  <2>2. PICK p \in Pkg : f = <<p, "mute">>
    BY <2>1
  <2> DEFINE w == task[t].was[<<p, "mute">>]
  <2>3. w # None /\ Told(t, f) = Left(a.op, w)
    <3>1. CASE a.op = "unlock"
      <4>1. Told(t, f) = IF w = "unlock" THEN "none" ELSE w
        BY <2>2, <3>1 DEF Told
      <4>2. Left(a.op, w) = IF w = "unlock" THEN "none" ELSE w
        BY <3>1 DEF Left, Ends
      <4>3. None # "unlock"
        BY ConfigAssumption DEF Scope
      <4>4. QED
        BY <4>1, <4>2, <4>3
    <3>2. CASE a.op = "boot"
      <4>1. Told(t, f) = IF w = None THEN None ELSE "none"
        BY <2>2, <3>2 DEF Told
      <4>2. Left(a.op, w) = "none"
        BY <3>2 DEF Left, Ends
      <4>3. QED
        BY <4>1, <4>2
    <3>3. QED
      BY <2>1, <3>1, <3>2
  <2>4. SweepOK(t, p)
    BY <1>0, <1>3, <2>3 DEF ProgressOK
  <2>5. DocIs(f, Told(t, f)) /\ mutes[p] = Told(t, f) /\ ColumnIs(p, Told(t, f))
    BY <2>2, <2>3, <2>4 DEF SweepOK
  <2>6. QED
    BY <2>2, <2>5
<1>4. QED
  BY <1>2, <1>3

\* A thread ends: said' is what it says, if anything, of what it touched.
LEMMA EndOK ==
    ASSUME ConfigInv, NEW t \in Threads, Works(t), task' = [task EXCEPT ![t] = Idle],
           UNCHANGED <<file, temp, mutes, column, level, android, ingest, edited>>,
           IF t = "main" THEN life' \in {"up", "down"} ELSE life' = life,
           said' \in Document,
           \A f \in Field : \/ said'[f] = said[f]
                            \/ /\ f \in Touched(task[t].ask) /\ task[t].clean
                               /\ task[t].at = "answer" /\ said'[f] = Told(t, f)
    PROVE  ConfigInv' /\ GoesOn(t, task'[t])
<1>0. TaskOK /\ LifeOK /\ CopiesTypeOK /\ SaidOK /\ QuietOK /\ AloneOK /\ ProgressOK /\ HushOK
  BY DEF ConfigInv, StoreInv, CopyInv
<1>1. task'[t] = Idle /\ ~Works(t)' /\ GoesOn(t, task'[t])
  BY <1>0, IdleOK DEF TaskOK, Works, GoesOn
<1>2. \A u \in Threads \ {t} : task'[u] = task[u] /\ (Works(u)' <=> Works(u))
  BY <1>0 DEF TaskOK, Works
<1>3. StoreInv'
  BY <1>1, GoesOnOK DEF ConfigInv
<1>4. LifeOK'
  BY <1>0, <1>1, <1>2, Parties DEF LifeOK
<1>5. AloneOK'
  BY <1>0, <1>1, <1>2 DEF AloneOK
<1>6. QuietOK'
  <2> SUFFICES ASSUME NEW u \in Threads, Works(u)', NEW f \in Touched(task'[u].ask)
               PROVE  said'[f] = None
    BY DEF QuietOK
  <2>1. u # t /\ Works(u) /\ task'[u] = task[u]
    BY <1>1, <1>2
  <2>2. said[f] = None /\ f \in Field
    BY <1>0, <2>1, TouchedOK DEF QuietOK
  <2>3. task[t].clean => f \notin Touched(task[t].ask)
    BY <1>0, <2>1 DEF AloneOK
  <2>4. QED
    BY <2>2, <2>3
<1>7. SaidOK'
  <2> SUFFICES ASSUME NEW f \in Field, said'[f] # None
               PROVE  /\ DocIs(f, said[f])'
                      /\ f[2] = "mute" => /\ ColumnIs(f[1], said[f])'
                                          /\ life' = "up" => mutes'[f[1]] = said'[f]
                      /\ f[2] = "debug" /\ life' # "down" => level' = said'[f]
                      /\ f[2] = "takeover" =>
                            android'.hide = said'[f] /\ (said'[f] => ~android'.anr)
    BY DEF SaidOK, DocIs, ColumnIs, Readable
  <2>1. CASE said'[f] = said[f]
    <3>1. /\ DocIs(f, said[f])
          /\ f[2] = "mute" => ColumnIs(f[1], said[f]) /\ (life = "up" => mutes[f[1]] = said[f])
          /\ f[2] = "debug" /\ life # "down" => level = said[f]
          /\ f[2] = "takeover" => android.hide = said[f] /\ (said[f] => ~android.anr)
      BY <1>0, <2>1 DEF SaidOK
    <3>2. DocIs(f, said[f])' /\ (f[2] = "mute" => ColumnIs(f[1], said[f])')
      BY <2>1, <3>1 DEF DocIs, Readable, ColumnIs
    <3>3. life' # "down" => life # "down"
      BY <1>0 DEF LifeOK
    <3>4. f[2] = "mute" /\ life' = "up" => life = "up"
      <4>1. t = "main" /\ f[2] = "mute" => f \in Touched(task[t].ask)
        BY <1>0, Parties, TouchedOK, Copied
      <4>2. t = "main" /\ f[2] = "mute" => said[f] = None
        BY <1>0, <4>1 DEF QuietOK
      <4>3. QED
        BY <2>1, <4>2
    <3>5. QED
      BY <2>1, <3>1, <3>2, <3>3, <3>4
  <2>2. CASE /\ f \in Touched(task[t].ask) /\ task[t].clean
             /\ task[t].at = "answer" /\ said'[f] = Told(t, f)
    <3> DEFINE v == Told(t, f)
    <3>1. /\ DocIs(f, v)
          /\ f[2] = "mute" => mutes[f[1]] = v /\ ColumnIs(f[1], v)
          /\ f[2] = "debug" => level = v
          /\ f[2] = "takeover" => android.hide = v /\ (v => ~android.anr)
      BY <2>2, ToldOK
    <3>2. v = said'[f]
      BY <2>2
    <3> HIDE DEF v
    <3>3. DocIs(f, said[f])' /\ (f[2] = "mute" => ColumnIs(f[1], said[f])')
      BY <3>1, <3>2 DEF DocIs, Readable, ColumnIs
    <3>4. QED
      BY <3>1, <3>2, <3>3
  <2>3. QED
    BY <2>1, <2>2
<1>8. ProgressOK'
  <2> SUFFICES ASSUME NEW u \in Threads, Works(u)', task'[u].clean
               PROVE  IF u \in Conn THEN RequestOK(u)'
                      ELSE \A p \in Pkg : task'[u].was[<<p, "mute">>] # None => SweepOK(u, p)'
    BY DEF ProgressOK
  <2>1. u # t /\ Works(u) /\ task[u].clean /\ task'[u] = task[u]
    BY <1>1, <1>2
  <2>2. \A f \in Field : Keeps(f)
    BY Untouched
  <2>3. Touched(task[u].ask) \subseteq Field
    BY <1>0, <2>1, TouchedOK
  <2>4. CASE u \in Conn
    BY <1>0, <2>1, <2>2, <2>3, <2>4, RequestKept DEF ProgressOK
  <2>5. CASE u \notin Conn
    <3>1. \A p \in Pkg : Keeps(<<p, "mute">>)
      BY <2>2, Fields
    <3>2. QED
      BY <1>0, <2>1, <2>5, <3>1, SweepKept DEF ProgressOK
  <2>6. QED
    BY <2>4, <2>5
<1>9. HushOK'
  <2> DEFINE m == <<ingest.of.pkg, "mute">>
  <2>1. ingest.of.pkg \in Pkg /\ m \in Field
    BY <1>0, Fields DEF HushOK
  <2>2. said[m] # None => said'[m] = said[m]
    BY <1>0, <2>1 DEF QuietOK
  <2>3. None \notin {"unlock", "restart"}
    BY ConfigAssumption DEF Scope
  <2>4. ingest.hushed => life' = "up"
    BY <1>0 DEF HushOK, LifeOK
  <2>5. QED
    BY <1>0, <2>1, <2>2, <2>3, <2>4 DEF HushOK
<1>10. QED
  BY <1>0, <1>1, <1>3, <1>4, <1>5, <1>6, <1>7, <1>8, <1>9 DEF ConfigInv, CopyInv, CopiesTypeOK

LEMMA FailOK ==
    ASSUME ConfigInv, NEW t \in Threads, Fail(t)
    PROVE  ConfigInv' /\ GoesOn(t, task'[t])
<1>1. Works(t) /\ task' = [task EXCEPT ![t] = Idle]
      /\ UNCHANGED <<file, temp, mutes, column, level, android, ingest, said, edited>>
      /\ IF t = "main" THEN life' \in {"up", "down"} ELSE life' = life
  BY DEF Fail, Works
<1>2. said' \in Document
  BY <1>1 DEF ConfigInv, CopyInv, CopiesTypeOK
<1>3. QED
  BY <1>1, <1>2, EndOK

LEMMA AnswerOK ==
    ASSUME ConfigInv, NEW t \in Threads, Answer(t)
    PROVE  ConfigInv' /\ GoesOn(t, task'[t])
<1> DEFINE v == [f \in Field |->
                IF task[t].clean /\ f \in Touched(task[t].ask) THEN Told(t, f) ELSE said[f]]
<1>1. /\ Works(t) /\ task' = [task EXCEPT ![t] = Idle] /\ task[t].at = "answer"
      /\ UNCHANGED <<file, temp, mutes, column, level, android, ingest, edited>>
      /\ IF t = "main" THEN life' \in {"up", "down"} ELSE life' = life
      /\ said' = v
  BY DEF Answer, Works
<1>2. \A f \in Field : v[f] \in Nat \cup BOOLEAN \cup Scope \cup Mode \cup {None}
  <2> TAKE f \in Field
  <2>1. task[t].got \in Document /\ task[t].was \in Document /\ said \in Document
    BY <1>1, WorkOK DEF ConfigInv, StoreInv, CopyInv, CopiesTypeOK
  <2>2. \/ Told(t, f) \in {"none", None, task[t].was[f]} \/ Told(t, f) = task[t].got[f]
    BY DEF Told
  <2>3. \A d \in Document : d[f] \in Nat \cup BOOLEAN \cup Scope \cup Mode \cup {None}
    BY DEF Document
  <2>4. Told(t, f) \in Nat \cup BOOLEAN \cup Scope \cup Mode \cup {None}
    <3>1. task[t].got[f] \in Nat \cup BOOLEAN \cup Scope \cup Mode \cup {None}
      BY <2>1, <2>3
    <3>2. task[t].was[f] \in Nat \cup BOOLEAN \cup Scope \cup Mode \cup {None}
      BY <2>1, <2>3
    <3>3. QED
      BY <2>2, <3>1, <3>2 DEF Scope
  <2>5. said[f] \in Nat \cup BOOLEAN \cup Scope \cup Mode \cup {None}
    BY <2>1, <2>3
  <2>6. QED
    BY <2>4, <2>5
<1>3. \A f \in Field : \/ v[f] = said[f]
                       \/ /\ f \in Touched(task[t].ask) /\ task[t].clean
                          /\ task[t].at = "answer" /\ v[f] = Told(t, f)
  BY <1>1
<1>4. v \in Document
  BY <1>2 DEF Document
<1> HIDE DEF v
<1>5. QED
  BY <1>1, <1>3, <1>4, EndOK

LEMMA AskOK ==
    ASSUME ConfigInv, NEW c \in Conn, NEW a \in Asked, Ask(c, a)
    PROVE  ConfigInv' /\ NoNewWriter
<1>1. c \in Threads /\ c # "main" /\ c # "events"
  BY Parties
<1>2. a \in Work(c) /\ ~Works(c)
  BY <1>1 DEF Work, Ask, Works
<1>3. /\ Begin(c, a) /\ life = "up" /\ life' = "up" /\ level' = level
      /\ UNCHANGED <<file, temp, mutes, column, android, edited>>
  BY DEF Ask
<1>4. QED
  BY <1>1, <1>2, <1>3, BeginOK

LEMMA UnlockedOK ==
    ASSUME ConfigInv, Unlocked
    PROVE  ConfigInv' /\ NoNewWriter
<1>1. "events" \in Threads /\ Unlock \in Work("events") /\ ~Works("events")
  BY Parties DEF Work, Unlocked, Works
<1>2. /\ Begin("events", Unlock) /\ life = "up" /\ life' = "up" /\ level' = level
      /\ UNCHANGED <<file, temp, mutes, column, android, edited>>
  BY DEF Unlocked, Unlock
<1>3. QED
  BY <1>1, <1>2, BeginOK

LEMMA StartOK ==
    ASSUME ConfigInv, Start
    PROVE  ConfigInv' /\ NoNewWriter
<1>1. /\ life = "down" /\ life' = "starting" /\ Begin("main", Boot)
      /\ level' = (Readable /\ file.doc[<<All, "debug">>])
      /\ UNCHANGED <<file, temp, column, android, edited>> /\ mutes' = Unmuted
  BY DEF Start, Boot
<1>2. mutes' = mutes /\ "main" \in Threads /\ ~Works("main") /\ Boot \in Work("main")
  BY <1>1, Parties DEF ConfigInv, CopyInv, LifeOK, Work
<1>3. Readable => level' = file.doc[<<All, "debug">>]
  <2>1. Readable => file.doc[<<All, "debug">>] \in BOOLEAN
    BY Fields DEF ConfigInv, StoreInv, FileOK, Sound, Readable, Bounded, Values
  <2>2. QED
    BY <1>1, <2>1
<1>4. QED
  BY <1>1, <1>2, <1>3, BeginOK

-----------------------------------------------------------------------------
(* The ingest thread.                                                      *)

\* Nothing but the ingest thread, the marks of a new group and what is kept changes.
LEMMA IngestKeeps ==
    ASSUME ConfigInv, HushOK', CopiesTypeOK',
           UNCHANGED <<life, temp, mutes, level, android, task, said, edited>>,
           file'.doc = file.doc, FileOK',
           \A p \in Pkg : TRUE \notin column[p] => TRUE \notin column'[p]
    PROVE  ConfigInv'
<1>0. TaskOK /\ FileOK /\ WriterOK /\ LifeOK /\ CopiesTypeOK /\ SaidOK /\ QuietOK /\ AloneOK
      /\ ProgressOK
  BY DEF ConfigInv, StoreInv, CopyInv
<1>1. StoreInv'
  BY <1>0 DEF StoreInv, TaskOK, FileOK, WriterOK, Readable, Recovered, Change
<1>2. LifeOK' /\ QuietOK' /\ AloneOK'
  BY <1>0 DEF LifeOK, QuietOK, AloneOK, Works
<1>3. \A f \in Field : Keeps(f)
  BY Copied DEF Keeps, Readable
<1>4. SaidOK'
  <2> SUFFICES ASSUME NEW f \in Field, said[f] # None
               PROVE  /\ DocIs(f, said[f])'
                      /\ f[2] = "mute" => /\ ColumnIs(f[1], said[f])'
                                          /\ life = "up" => mutes[f[1]] = said[f]
                      /\ f[2] = "debug" /\ life # "down" => level = said[f]
                      /\ f[2] = "takeover" => android.hide = said[f] /\ (said[f] => ~android.anr)
    BY DEF SaidOK, DocIs, ColumnIs, Readable
  <2>1. QED
    BY <1>0, <1>3 DEF SaidOK, Keeps, DocIs, ColumnIs
<1>5. ProgressOK'
  <2> SUFFICES ASSUME NEW u \in Threads, Works(u), task[u].clean
               PROVE  IF u \in Conn THEN RequestOK(u)'
                      ELSE \A p \in Pkg : task[u].was[<<p, "mute">>] # None => SweepOK(u, p)'
    BY DEF ProgressOK, Works
  <2>1. CASE u \in Conn
    <3>1. Touched(task[u].ask) \subseteq Field
      BY <1>0, TouchedOK
    <3>2. QED
      BY <1>0, <1>3, <2>1, <3>1, RequestKept DEF ProgressOK
  <2>2. CASE u \notin Conn
    <3>1. \A p \in Pkg : Keeps(<<p, "mute">>)
      BY <1>3, Fields
    <3>2. QED
      BY <1>0, <2>2, <3>1, SweepKept DEF ProgressOK
  <2>3. QED
    BY <2>1, <2>2
<1>6. QED
  BY <1>1, <1>2, <1>4, <1>5 DEF ConfigInv, CopyInv

\* An application that is silent is excluded from the records, is never notified of, or is muted.
LEMMA SilentOK ==
    ASSUME ConfigInv, NEW p \in Pkg, Silenced(p), NEW r, r.pkg = p,
           Readable, ShouldRecord(file.doc, r), ShouldNotify(file.doc, r)
    PROVE  said[<<p, "mute">>] \in {"unlock", "restart"}
<1>0. /\ SaidOK /\ <<p, "ignore">> \in Field /\ <<p, "mode">> \in Field
      /\ None # TRUE /\ None # "nothing"
  BY Fields, ConfigAssumption DEF ConfigInv, CopyInv, Mode
<1>1. said[<<p, "ignore">>] # TRUE
  <2>1. ~file.doc[<<p, "ignore">>]
    BY DEF ShouldRecord
  <2>2. QED
    BY <1>0, <2>1 DEF SaidOK, DocIs
<1>2. said[<<p, "mode">>] # "nothing"
  <2>1. EffectiveNotifyMode(file.doc, p) # "nothing" /\ ~file.doc[<<p, "ignore">>]
    BY DEF ShouldNotify, ShouldRecord
  <2>2. file.doc[<<p, "mode">>] # "nothing"
    BY <1>0, <2>1 DEF EffectiveNotifyMode
  <2>3. QED
    BY <1>0, <2>2 DEF SaidOK, DocIs
<1>3. QED
  BY <1>1, <1>2 DEF Silenced

LEMMA IngestLoadOK ==
    ASSUME ConfigInv, NEW r \in Crashes, IngestLoad(r)
    PROVE  ConfigInv'
<1>1. /\ life = "up" /\ Readable /\ ShouldRecord(file.doc, r)
      /\ ingest' = [at |-> "insert", of |-> r, notify |-> ShouldNotify(file.doc, r),
                    hushed |-> Silenced(r.pkg)]
      /\ UNCHANGED <<life, file, temp, mutes, column, level, android, task, said, edited>>
  BY DEF IngestLoad
<1>2. r.pkg \in Pkg
  BY ConfigAssumption
<1>3. Silenced(r.pkg) /\ ShouldNotify(file.doc, r)
        => said[<<r.pkg, "mute">>] \in {"unlock", "restart"}
  BY <1>1, <1>2, SilentOK
<1>4. HushOK'
  BY <1>1, <1>2, <1>3 DEF HushOK
<1>5. CopiesTypeOK'
  BY <1>1 DEF ConfigInv, CopyInv, CopiesTypeOK
<1>6. FileOK'
  BY <1>1 DEF ConfigInv, StoreInv, FileOK
<1>7. QED
  BY <1>1, <1>4, <1>5, <1>6, IngestKeeps

LEMMA IngestInsertOK ==
    ASSUME ConfigInv, IngestInsert
    PROVE  ConfigInv'
<1> DEFINE p == ingest.of.pkg
<1>0. CopiesTypeOK /\ HushOK /\ p \in Pkg
  BY DEF ConfigInv, CopyInv, HushOK
<1>1. /\ UNCHANGED <<life, file, temp, mutes, level, android, task, said, edited>>
      /\ column' = [column EXCEPT ![p] = @ \cup {FALSE}] \/ column' = column
      /\ ingest.at = "insert"
      /\ ingest' \in {[ingest EXCEPT !.at = "decide"], Rested}
  BY DEF IngestInsert
<1>2. \A q \in Pkg : TRUE \notin column[q] => TRUE \notin column'[q]
  BY <1>0, <1>1 DEF CopiesTypeOK
<1>3. CopiesTypeOK'
  BY <1>0, <1>1 DEF CopiesTypeOK
<1>4. HushOK'
  BY <1>0, <1>1 DEF HushOK, Rested
<1>5. FileOK'
  BY <1>1 DEF ConfigInv, StoreInv, FileOK
<1>6. QED
  BY <1>1, <1>2, <1>3, <1>4, <1>5, IngestKeeps

LEMMA IngestDecideOK ==
    ASSUME ConfigInv, IngestDecide
    PROVE  ConfigInv'
<1> DEFINE p == ingest.of.pkg
<1>0. CopiesTypeOK /\ HushOK /\ SaidOK /\ p \in Pkg
  BY DEF ConfigInv, CopyInv, HushOK
<1>1. /\ UNCHANGED <<life, file, temp, mutes, column, level, android, task, said, edited>>
      /\ ingest.at = "decide"
      /\ ingest' = IF ingest.notify /\ mutes[p] = "none"
                   THEN [ingest EXCEPT !.at = "alert"] ELSE Rested
  BY DEF IngestDecide
<1>2. ingest.hushed /\ ingest.notify => mutes[p] # "none"
  <2>1. ingest.hushed /\ ingest.notify => life = "up" /\ said[<<p, "mute">>] \in {"unlock", "restart"}
    BY <1>0, <1>1 DEF HushOK
  <2>2. <<p, "mute">> \in Field /\ None \notin {"unlock", "restart"}
    BY <1>0, Fields, ConfigAssumption DEF Scope
  <2>3. QED
    BY <1>0, <2>1, <2>2 DEF SaidOK
<1>3. HushOK'
  BY <1>0, <1>1, <1>2 DEF HushOK, Rested
<1>4. CopiesTypeOK'
  BY <1>0, <1>1 DEF CopiesTypeOK
<1>5. FileOK'
  BY <1>1 DEF ConfigInv, StoreInv, FileOK
<1>6. QED
  BY <1>1, <1>3, <1>4, <1>5, IngestKeeps

LEMMA IngestAlertOK ==
    ASSUME ConfigInv, IngestAlert
    PROVE  ConfigInv'
<1>0. CopiesTypeOK /\ HushOK
  BY DEF ConfigInv, CopyInv
<1>1. /\ UNCHANGED <<life, file, temp, mutes, column, level, android, task, said, edited>>
      /\ ingest' = Rested
  BY DEF IngestAlert
<1>2. HushOK'
  BY <1>0, <1>1 DEF HushOK, Rested
<1>3. CopiesTypeOK'
  BY <1>0, <1>1 DEF CopiesTypeOK
<1>4. FileOK'
  BY <1>1 DEF ConfigInv, StoreInv, FileOK
<1>5. QED
  BY <1>1, <1>2, <1>3, <1>4, IngestKeeps

LEMMA StutterOK ==
    ASSUME ConfigInv, UNCHANGED cfVars
    PROVE  ConfigInv' /\ NoNewWriter /\ file' = file /\ edited' = edited
<1>1. HushOK' /\ CopiesTypeOK'
  BY DEF ConfigInv, CopyInv, HushOK, CopiesTypeOK, cfVars
<1>2. ConfigInv'
  BY <1>1, IngestKeeps DEF cfVars, ConfigInv, StoreInv, FileOK
<1>3. QED
  BY <1>2 DEF NoNewWriter, Change, cfVars

-----------------------------------------------------------------------------
(* Death, the world and the initial state.                                 *)

LEMMA DieOK ==
    ASSUME ConfigInv, Die
    PROVE  ConfigInv' /\ NoNewWriter /\ file' = file /\ edited' = edited
<1>0. TaskOK /\ FileOK /\ LifeOK /\ CopiesTypeOK /\ SaidOK /\ HushOK
  BY DEF ConfigInv, StoreInv, CopyInv
<1>1. /\ life' = "down" /\ mutes' = Unmuted /\ task' = [t \in Threads |-> Idle]
      /\ UNCHANGED <<column, level, android, said, edited>>
      /\ ingest' = Rested
      /\ file' = file
  BY DEF Die, Forgotten
<1>2. \A t \in Threads : task'[t] = Idle /\ task'[t].at = "idle" /\ Idle \in TaskState(t)
  BY <1>1, IdleOK
<1>3. TaskOK'
  BY <1>1, <1>2 DEF TaskOK
<1>4. FileOK'
  BY <1>0, <1>1 DEF FileOK
<1>5. WriterOK' /\ NoNewWriter
  BY <1>2 DEF WriterOK, NoNewWriter
<1>6. LifeOK' /\ AloneOK' /\ QuietOK' /\ ProgressOK'
  BY <1>1, <1>2, Parties DEF LifeOK, AloneOK, QuietOK, ProgressOK, Works
<1>7. CopiesTypeOK'
  BY <1>0, <1>1 DEF CopiesTypeOK, Unmuted
<1>8. SaidOK'
  BY <1>0, <1>1 DEF SaidOK, DocIs, Readable, ColumnIs
<1>9. HushOK'
  BY <1>0, <1>1 DEF HushOK, Rested
<1>10. QED
  BY <1>1, <1>3, <1>4, <1>5, <1>6, <1>7, <1>8, <1>9 DEF ConfigInv, StoreInv, CopyInv

LEMMA PowerFailsOK ==
    ASSUME ConfigInv, PowerFails
    PROVE  /\ ConfigInv' /\ (\A t \in Threads : task'[t].at # "rename")
           /\ file'.doc = file.kept /\ file'.kept = file.kept /\ edited' = edited
<1>0. TaskOK /\ FileOK /\ LifeOK /\ CopiesTypeOK /\ HushOK
  BY DEF ConfigInv, StoreInv, CopyInv
<1>1. /\ life' = "down" /\ mutes' = Unmuted /\ task' = [t \in Threads |-> Idle]
      /\ said' = [f \in Field |-> None] /\ column' \in [Pkg -> SUBSET BOOLEAN]
      /\ UNCHANGED <<level, android, edited>>
      /\ ingest' = Rested
      /\ file' = [doc |-> file.kept, synced |-> TRUE, kept |-> file.kept]
  BY DEF PowerFails, Forgotten
<1>2. \A t \in Threads : task'[t] = Idle /\ task'[t].at = "idle" /\ Idle \in TaskState(t)
  BY <1>1, IdleOK
<1>3. TaskOK' /\ WriterOK'
  BY <1>1, <1>2 DEF TaskOK, WriterOK
<1>4. FileOK'
  BY <1>0, <1>1 DEF FileOK, Sound
<1>5. LifeOK' /\ AloneOK' /\ QuietOK' /\ ProgressOK'
  BY <1>1, <1>2, Parties DEF LifeOK, AloneOK, QuietOK, ProgressOK, Works
<1>6. CopiesTypeOK' /\ SaidOK'
  BY <1>0, <1>1 DEF CopiesTypeOK, SaidOK, Unmuted, Document
<1>7. HushOK'
  BY <1>0, <1>1 DEF HushOK, Rested
<1>8. QED
  BY <1>1, <1>2, <1>3, <1>4, <1>5, <1>6, <1>7 DEF ConfigInv, StoreInv, CopyInv

LEMMA WriteBackOK ==
    ASSUME ConfigInv, WriteBack
    PROVE  /\ ConfigInv' /\ task' = task /\ edited' = edited
           /\ file'.doc = file.doc /\ file'.kept = file.doc
<1>0. FileOK /\ CopiesTypeOK /\ HushOK
  BY DEF ConfigInv, StoreInv, CopyInv
<1>1. /\ file' = [doc |-> file.doc, synced |-> TRUE, kept |-> file.doc]
      /\ UNCHANGED <<life, temp, mutes, column, level, android, task, ingest, said, edited>>
  <2>1. file' = [file EXCEPT !.kept = IF file.synced THEN file.doc ELSE Corrupt]
    BY DEF WriteBack
  <2>2. file.synced = TRUE
    BY <1>0 DEF FileOK
  <2>3. file' = [file EXCEPT !.kept = file.doc]
    BY <2>1, <2>2
  <2>4. PICK d, k : file = [doc |-> d, synced |-> TRUE, kept |-> k]
    BY <1>0 DEF FileOK
  <2>5. file' = [doc |-> d, synced |-> TRUE, kept |-> d] /\ file.doc = d
    BY <2>3, <2>4
  <2>6. QED
    BY <2>5 DEF WriteBack
<1>2. FileOK' /\ HushOK' /\ CopiesTypeOK'
  BY <1>0, <1>1 DEF FileOK, Sound, HushOK, CopiesTypeOK
<1>3. QED
  BY <1>1, <1>2, IngestKeeps

LEMMA EditOK ==
    ASSUME ConfigInv, Edit
    PROVE  ConfigInv'
<1>0. TaskOK /\ FileOK /\ LifeOK /\ CopiesTypeOK /\ HushOK
  BY DEF ConfigInv, StoreInv, CopyInv
<1>1. /\ task' = [t \in Threads |-> [task[t] EXCEPT !.clean = FALSE]]
      /\ file' = [doc |-> Corrupt, synced |-> TRUE, kept |-> file.kept]
      /\ said' = [f \in Field |-> None]
      /\ ingest' = [ingest EXCEPT !.hushed = FALSE]
      /\ UNCHANGED <<life, temp, mutes, column, level, android>>
      /\ \A t \in Threads : task[t].at # "rename"
  BY <1>0 DEF Edit, Locked, FileOK
<1>2. \A t \in Threads :
        /\ task'[t] \in TaskState(t) /\ task'[t].at = task[t].at /\ task'[t].ask = task[t].ask
        /\ task'[t].clean = FALSE
  BY <1>0, <1>1 DEF TaskOK, TaskState
<1>3. TaskOK'
  BY <1>1, <1>2 DEF TaskOK
<1>4. FileOK' /\ WriterOK'
  BY <1>0, <1>1, <1>2 DEF FileOK, Sound, WriterOK
<1>5. LifeOK'
  BY <1>0, <1>1, <1>2, Parties DEF LifeOK, Works
<1>6. CopiesTypeOK'
  BY <1>0, <1>1 DEF CopiesTypeOK, Document
<1>7. AloneOK' /\ ProgressOK'
  BY <1>2 DEF AloneOK, ProgressOK
<1>8. QuietOK' /\ SaidOK'
  <2>1. \A f \in Field : said'[f] = None
    BY <1>1
  <2>2. \A t \in Threads : Works(t)' => Works(t) /\ Touched(task'[t].ask) \subseteq Field
    BY <1>0, <1>2, TouchedOK DEF Works
  <2>3. QED
    BY <2>1, <2>2 DEF QuietOK, SaidOK, Touched
<1>9. HushOK'
  BY <1>0, <1>1 DEF HushOK
<1>10. QED
  BY <1>3, <1>4, <1>5, <1>6, <1>7, <1>8, <1>9 DEF ConfigInv, StoreInv, CopyInv

LEMMA ConfigInitOK == ConfigInit => ConfigInv
<1> SUFFICES ASSUME ConfigInit PROVE ConfigInv
  OBVIOUS
<1>1. \A t \in Threads : task[t] = Idle /\ task[t].at = "idle" /\ Idle \in TaskState(t)
  BY IdleOK DEF ConfigInit
<1>2. TaskOK /\ WriterOK
  BY <1>1 DEF ConfigInit, TaskOK, WriterOK
<1>3. FileOK
  BY DefaultOK DEF ConfigInit, FileOK, Sound
<1>4. LifeOK /\ AloneOK /\ QuietOK /\ ProgressOK
  BY <1>1, Parties DEF ConfigInit, LifeOK, AloneOK, QuietOK, ProgressOK, Works
<1>5. CopiesTypeOK /\ SaidOK
  BY DEF ConfigInit, CopiesTypeOK, SaidOK, Unmuted, Document
<1>6. HushOK
  BY ConfigAssumption DEF ConfigInit, HushOK
<1>7. QED
  BY <1>2, <1>3, <1>4, <1>5, <1>6 DEF ConfigInv, StoreInv, CopyInv

-----------------------------------------------------------------------------
(* The theorems.                                                           *)

\* A step that takes no lock and leaves the document as it is.
Quiet == NoNewWriter /\ file' = file /\ edited' = edited

LEMMA EveryStep ==
    ASSUME ConfigInv, [ConfigNext]_cfVars
    PROVE  /\ ConfigInv'
           /\ Quiet \/ Edit \/ WriteBack \/ PowerFails \/ \E t \in Threads : Prepare(t) \/ Rename(t)
<1>0. ASSUME NEW t \in Threads, GoesOn(t, task'[t]) PROVE Quiet
  BY <1>0, GoesOnQuietly DEF ConfigInv, Quiet, GoesOn
<1>1. ASSUME NEW c \in Conn, Request(c) PROVE ConfigInv' /\ Quiet
  <2>1. CASE \E a \in Asked : Ask(c, a)
    <3>1. ConfigInv' /\ NoNewWriter
      BY <2>1, AskOK
    <3>2. QED
      BY <2>1, <3>1 DEF Quiet, Ask
  <2>2. ASSUME ~\E a \in Asked : Ask(c, a) PROVE ConfigInv' /\ GoesOn(c, task'[c])
    BY <1>1, <2>2, BeforeOK, SetLevelOK, ApplyMuteOK, TakeoverOK DEF Request
  <2>3. QED
    BY <1>0, <2>1, <2>2, Parties
<1>2. ASSUME NEW t \in {"events", "main"}, ClearMutes(t) PROVE ConfigInv' /\ Quiet
  <2>1. ConfigInv' /\ GoesOn(t, task'[t])
    BY <1>2, ListMutesOK, ForgetMutesOK, ClearColumnsOK DEF ClearMutes
  <2>2. QED
    BY <1>0, <2>1, Parties
<1>3. ASSUME NEW t \in Threads, UpdateConfig(t) \/ Answer(t) \/ Fail(t)
      PROVE  ConfigInv' /\ (Quiet \/ Prepare(t) \/ Rename(t))
  <2>1. CASE Prepare(t)
    BY <2>1, PrepareOK
  <2>2. CASE Rename(t)
    BY <2>2, RenameOK
  <2>3. CASE UpdateFails(t) \/ Answer(t) \/ Fail(t)
    BY <1>0, <2>3, UpdateFailsOK, AnswerOK, FailOK
  <2>4. QED
    BY <1>3, <2>1, <2>2, <2>3 DEF UpdateConfig
<1>4. ASSUME Unlocked PROVE ConfigInv' /\ Quiet
  BY <1>4, UnlockedOK DEF Quiet, Unlocked
<1>5. ASSUME Ingest PROVE ConfigInv' /\ Quiet
  <2>1. ConfigInv'
    BY <1>5, IngestLoadOK, IngestInsertOK, IngestDecideOK, IngestAlertOK DEF Ingest
  <2>2. UNCHANGED <<file, task, edited>>
    BY <1>5 DEF Ingest, IngestLoad, IngestInsert, IngestDecide, IngestAlert
  <2>3. QED
    BY <2>1, <2>2 DEF Quiet, NoNewWriter, Change
<1>6. ASSUME Start PROVE ConfigInv' /\ Quiet
  BY <1>6, StartOK DEF Quiet, Start
<1>7. ASSUME Die PROVE ConfigInv' /\ Quiet
  BY <1>7, DieOK DEF Quiet
<1>8. ASSUME UNCHANGED cfVars PROVE ConfigInv' /\ Quiet
  BY <1>8, StutterOK DEF Quiet
<1>9. QED
  BY <1>1, <1>2, <1>3, <1>4, <1>5, <1>6, <1>7, <1>8, EditOK,
     WriteBackOK, PowerFailsOK DEF ConfigNext

\* The invariant holds of every state: the file is always whole and in bounds, one thread at a time
\* holds the lock and has in its temporary file what it wants of the document, and what an
\* undisturbed handler of core.rs has done so far is in the copies it has written.
THEOREM ConfigInvariance == ConfigSpec => []ConfigInv
<1>1. ConfigInv /\ [ConfigNext]_cfVars => ConfigInv'
  BY EveryStep
<1>2. QED
  BY <1>1, ConfigInitOK, PTL DEF ConfigSpec

\* For every set of packages, connections and requests, with failing writes, deaths at any step and
\* edits of the file: what dispatch answered a client is in force in the document, in the mutes
\* of memory and of the index, in the log level and in Android, until somebody else touches it.
THEOREM AnswersAreInForce == ConfigSpec => []AnsweredIsInForce
<1>1. ConfigInv => AnsweredIsInForce
  <2> SUFFICES ASSUME ConfigInv, life = "up", NEW f \in Field, said[f] # None
               PROVE  /\ Readable /\ file.doc[f] = said[f]
                      /\ f[2] = "mute" => /\ mutes[f[1]] = said[f]
                                          /\ said[f] = "none" => TRUE \notin column[f[1]]
                      /\ f[2] = "debug" => level = said[f]
                      /\ f[2] = "takeover" =>
                            android.hide = said[f] /\ (said[f] => ~android.anr)
    BY DEF AnsweredIsInForce
  <2>1. QED
    BY DEF ConfigInv, CopyInv, SaidOK, DocIs, ColumnIs
<1>2. QED
  BY <1>1, ConfigInvariance, PTL

\* For every set of packages, connections, requests and crashes: an application that a client was
\* told is ignored, muted or set to nothing makes no alert (should_notify, is_muted, notify).
THEOREM SilenceIsKept == ConfigSpec => []SilencedAppsStaySilent
<1>1. ConfigInv => SilencedAppsStaySilent
  BY DEF ConfigInv, HushOK, SilencedAppsStaySilent
<1>2. QED
  BY <1>1, ConfigInvariance, PTL

\* What the threads at the lock want, as the abstract document sees it.
Wanted == [t \in Threads |-> IF task[t].at = "rename" THEN Change(t) ELSE None]

LEMMA PrepareWants ==
    ASSUME ConfigInv, NEW t \in Threads, Prepare(t)
    PROVE  Doc!Want(t)
<1>0. TaskOK /\ task[t].at = "update" /\ edited' = edited
  BY DEF ConfigInv, StoreInv, Prepare
<1>1. /\ file'.doc \in {file.doc, Recovered} /\ file'.kept = file.kept
      /\ Change(t)' = Change(t) /\ task'[t].at = "rename"
      /\ \A u \in Threads \ {t} : task'[u] = task[u]
  BY <1>0, PrepareOK DEF TaskOK
<1>2. Wanted[t] = None
  BY <1>0 DEF Wanted
<1>3. \A u \in Threads \ {t} : Change(u)' = Change(u)
  BY <1>1 DEF Change
<1>4. Wanted' = [Wanted EXCEPT ![t] = Change(t)]
  BY <1>1, <1>3 DEF Wanted
<1>5. Change(t) \in {a.set : a \in Asked} \cup
                     {[f \in ps \X {"mute"} |-> "none"] : ps \in SUBSET Pkg}
  BY <1>0, ChangeOK
<1>6. QED
  BY <1>0, <1>1, <1>2, <1>4, <1>5 DEF Doc!Want, Doc!Legible, Recovered, Readable, Wanted

LEMMA RenameCommits ==
    ASSUME ConfigInv, NEW t \in Threads, Rename(t)
    PROVE  Doc!Commit(t)
<1>0. TaskOK /\ FileOK /\ task[t].at = "rename" /\ edited' = edited
  BY DEF ConfigInv, StoreInv, Rename
<1>1. /\ file'.doc = Normalized(Apply(Change(t), Recovered)) /\ task'[t].at # "rename"
      /\ file'.kept = file.kept
      /\ \A u \in Threads \ {t} : task'[u] = task[u]
  BY <1>0, RenameOK DEF TaskOK
<1>2. Change(t) # None /\ Wanted[t] = Change(t)
  BY <1>0, ChangeOK DEF Wanted
<1>3. \A u \in Threads \ {t} : Change(u)' = Change(u)
  BY <1>1 DEF Change
<1>4. Wanted' = [Wanted EXCEPT ![t] = None]
  BY <1>1, <1>3 DEF Wanted
<1>5. Doc!Patched(Recovered, Change(t)) = Apply(Change(t), Recovered)
  BY <1>0, RecoveredOK DEF Doc!Patched, Apply, Bounded, Document
<1>6. Doc!Legible(file.doc) = Recovered
  BY DEF Doc!Legible, Recovered, Readable
<1>7. QED
  BY <1>0, <1>1, <1>2, <1>4, <1>5, <1>6 DEF Doc!Commit, Wanted

LEMMA EditSpoils ==
    ASSUME ConfigInv, Edit
    PROVE  Doc!Spoil
<1>0. TaskOK /\ edited' = TRUE /\ ~edited
      /\ file' = [doc |-> Corrupt, synced |-> TRUE, kept |-> file.kept]
      /\ task' = [t \in Threads |-> [task[t] EXCEPT !.clean = FALSE]]
  BY DEF ConfigInv, StoreInv, FileOK, Edit
<1>1. file'.doc = Corrupt /\ file'.kept = file.kept
  BY <1>0
<1>2. \A t \in Threads : /\ task'[t].at = task[t].at /\ task'[t].ask = task[t].ask
                          /\ task'[t].cleared = task[t].cleared
  BY <1>0 DEF TaskOK, TaskState
<1>3. Wanted' = Wanted
  BY <1>2 DEF Wanted, Change
<1>4. QED
  BY <1>0, <1>1, <1>3 DEF Doc!Spoil, Wanted

LEMMA WriteBackKeeps ==
    ASSUME ConfigInv, WriteBack
    PROVE  Doc!Keep
<1>1. task' = task /\ edited' = edited /\ file'.doc = file.doc /\ file'.kept = file.doc
  BY WriteBackOK
<1>2. Wanted' = Wanted
  BY <1>1 DEF Wanted, Change
<1>3. QED
  BY <1>1, <1>2 DEF Doc!Keep, Wanted

LEMMA PowerIsLost ==
    ASSUME ConfigInv, PowerFails
    PROVE  Doc!LosePower
  BY PowerFailsOK DEF Doc!LosePower

LEMMA QuietGivesUp ==
    ASSUME Quiet
    PROVE  Doc!GiveUp
<1> DEFINE cs == {t \in Threads : task'[t].at # "rename"}
<1>1. Wanted' = [t \in Threads |-> IF t \in cs THEN None ELSE Wanted[t]]
  BY DEF Quiet, NoNewWriter, Wanted
<1>2. cs \in SUBSET Threads
  OBVIOUS
<1> HIDE DEF cs
<1>3. QED
  BY <1>1, <1>2 DEF Doc!GiveUp, Wanted, Quiet

\* ConfigStore implements an atomic document for every set of packages, connections and requests:
\* updates of several threads take effect whole and one after the other, no death of the process
\* loses one, neither a death nor a failing write at any step leaves half of one, and a power failure
\* brings back the whole document that was written back last (save, write_then_sync).
THEOREM StoreIsAtomic == ConfigSpec => ConfigIsAtomic
<1>1. ConfigInit => Doc!ADInit
  <2> SUFFICES ASSUME ConfigInit PROVE Doc!ADInit
    OBVIOUS
  <2>1. /\ file.doc = Default /\ file.kept = Default
        /\ \A t \in Threads : task[t].at # "rename"
    BY DEF ConfigInit, Idle
  <2>2. QED
    BY <2>1 DEF ConfigInit, Doc!ADInit
<1>2. ConfigInv /\ [ConfigNext]_cfVars => [Doc!ADNext]_Doc!adVars
  <2> SUFFICES ASSUME ConfigInv, [ConfigNext]_cfVars PROVE Doc!ADNext
    OBVIOUS
  <2>1. QED
    BY EveryStep, PrepareWants, RenameCommits, EditSpoils, WriteBackKeeps, PowerIsLost,
       QuietGivesUp DEF Doc!ADNext
<1>3. QED
  BY <1>1, <1>2, ConfigInvariance, PTL DEF ConfigSpec, ConfigIsAtomic, Doc!ADSpec

=============================================================================
