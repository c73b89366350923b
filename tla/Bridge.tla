------------------------------- MODULE Bridge --------------------------------
(***************************************************************************)
(* How the daemon reaches the Android framework: a Java process, the       *)
(* bridge, that posts and removes notifications, answers package queries   *)
(* and starts activities.  Four parts run side by side:                    *)
(*                                                                         *)
(*  - callers (the ingest thread posts, manager connections dismiss) go    *)
(*    through BridgeBroker::request of bridge_broker.rs: check, register,  *)
(*    send, wait for at most three seconds;                                *)
(*  - the listener thread of server.rs serves one connection at a time,    *)
(*    with a writer thread for the commands of the session;                *)
(*  - the supervisor of cch_bridge_supervisor keeps a process running;     *)
(*  - the processes, CrashCatcherBridge.java, connect, greet and answer.   *)
(*                                                                         *)
(* A step ends wherever the code lets go of a lock or touches another      *)
(* atomic.  Durations are left out: a wait may end at any moment, and a    *)
(* backoff lasts any finite time.  Every peer is a bridge process (the uid *)
(* check of handle_bridge always passes) and no lock is poisoned.          *)
(***************************************************************************)
EXTENDS Naturals, Sequences, FiniteSets

CONSTANTS
    Caller,        \* threads that call the broker
    Record,        \* records that may have a notification
    Package,       \* packages that may be queried
    Asked,         \* commands the callers give
    Proc,          \* bound: bridge processes alive at a time
    Conn,          \* bound: sockets in use at a time
    MaxRequests,   \* bound: request ids used in one life of the daemon
    None           \* no connection, no reply, no child

ASSUME BridgeAssumption ==
    /\ MaxRequests \in Nat /\ IsFiniteSet(Caller)
    /\ None \notin Conn \cup Proc
    /\ \A cmd \in Asked :
        \/ cmd.op \in {"post", "cancel"} /\ cmd.on \in Record
        \/ cmd.op = "query" /\ cmd.on \in Package
        \/ cmd.op = "start" /\ cmd.on = None

VARIABLES
    connected, sender, pending, nextId, packageCache,  \* BridgeBroker
    call,           \* each caller's position in BridgeBroker::request
    chan, chanOpen, \* the command channel of the session; its receiver lives
    server,         \* the listener thread
    backlog,        \* connections the listener has not accepted
    link,           \* the two directions and the two ends of each socket
    bridge,         \* the Java processes
    supervisor,     \* the supervisor thread and its child
    shown           \* notifications on the screen

broker  == <<connected, sender, pending, nextId, packageCache>>
channel == <<chan, chanOpen>>
brVars  == <<broker, call, channel, server, backlog, link, bridge, supervisor, shown>>

-----------------------------------------------------------------------------
\* BridgeCommand.  StartActivity has no effect a property speaks of.
Command ==
    [op : {"post", "cancel"}, on : Record] \cup [op : {"query"}, on : Package]
        \cup [op : {"start"}, on : {None}]

\* The kind of BridgeEvent each method of the broker accepts as its answer.
ReplyTo(cmd) ==
    CASE cmd.op \in {"post", "cancel"} -> "NotificationResult"
      [] cmd.op = "query"              -> "PackageInfoResult"
      [] cmd.op = "start"              -> "ActivityResult"

\* BridgeEvent: ok stands for error being null, on is the package of a PackageInfoResult.
Reply == [id : 1 .. MaxRequests, type : {"NotificationResult", "PackageInfoResult", "ActivityResult"},
          ok : BOOLEAN, on : Record \cup Package \cup {None}]

Hello == [id |-> 0, type |-> "Hello", ok |-> TRUE, on |-> None]

Idle     == [at |-> "idle", id |-> 0, cmd |-> None, got |-> None]
FreeLink == [far |-> FALSE, near |-> FALSE, commands |-> <<>>, events |-> <<>>]

BridgeInit ==
    /\ connected = FALSE /\ sender = None /\ pending = {} /\ nextId = 1 /\ packageCache = {}
    /\ call = [c \in Caller |-> Idle]
    /\ chan = <<>> /\ chanOpen = FALSE
    /\ server = [at |-> "accept", on |-> None, last |-> TRUE]
    /\ backlog = <<>>
    /\ link = [k \in Conn |-> FreeLink]
    /\ bridge = [p \in Proc |-> [at |-> "down", on |-> None]]
    /\ supervisor = [at |-> "starting", child |-> None]
    /\ shown = {}

-----------------------------------------------------------------------------
(* The callers: query_package, start_activity, post_notification and
   cancel_notification are one request each. *)

\* The entry of pending that a call makes: its id, and the sender of its reply channel.
Entry(c) == [id |-> call[c].id, to |-> c]

\* Whether a call comes back before it reaches `request`.
Cached(cmd) == cmd.op = "query" /\ cmd.on \in packageCache

\* is_connected is false: the caller gets "not connected".  The id is spent.
Refused(c, cmd) ==
    /\ call[c].at = "idle" /\ nextId <= MaxRequests
    /\ ~Cached(cmd) /\ ~connected
    /\ nextId' = nextId + 1
    /\ UNCHANGED <<connected, sender, pending, packageCache, call, channel, server, backlog, link,
                   bridge, supervisor, shown>>

\* Mutant: the connection is not looked at.
BeginUnchecked(c, cmd) ==
    /\ call[c].at = "idle" /\ nextId <= MaxRequests
    /\ ~Cached(cmd)
    /\ call' = [call EXCEPT ![c] = [at |-> "register", id |-> nextId, cmd |-> cmd, got |-> None]]
    /\ nextId' = nextId + 1
    /\ UNCHANGED <<connected, sender, pending, packageCache, channel, server, backlog, link, bridge,
                   supervisor, shown>>

Begin(c, cmd) ==
    /\ call[c].at = "idle" /\ nextId <= MaxRequests
    /\ ~Cached(cmd) /\ connected
    /\ call' = [call EXCEPT ![c] = [at |-> "register", id |-> nextId, cmd |-> cmd, got |-> None]]
    /\ nextId' = nextId + 1
    /\ UNCHANGED <<connected, sender, pending, packageCache, channel, server, backlog, link, bridge,
                   supervisor, shown>>

Register(c) ==
    /\ call[c].at = "register"
    /\ pending' = pending \cup {Entry(c)}
    /\ call' = [call EXCEPT ![c].at = "send"]
    /\ UNCHANGED <<connected, sender, nextId, packageCache, channel, server, backlog, link, bridge,
                   supervisor, shown>>

\* No sender: `?` returns from under the lock, and the entry stays in pending.
\* No receiver: the entry is taken back.
Send(c) ==
    /\ call[c].at = "send"
    /\ \/ /\ sender = None
          /\ call' = [call EXCEPT ![c] = Idle]
          /\ UNCHANGED <<pending, chan>>
       \/ /\ sender # None /\ ~chanOpen
          /\ pending' = pending \ {Entry(c)}
          /\ call' = [call EXCEPT ![c] = Idle]
          /\ UNCHANGED chan
       \/ /\ sender # None /\ chanOpen
          /\ chan' = Append(chan, [id |-> call[c].id, cmd |-> call[c].cmd])
          /\ call' = [call EXCEPT ![c].at = "wait"]
          /\ UNCHANGED pending
    /\ UNCHANGED <<connected, sender, nextId, packageCache, chanOpen, server, backlog, link, bridge,
                   supervisor, shown>>

Answered(c) ==
    /\ call[c].at = "wait" /\ call[c].got # None
    /\ call' = [call EXCEPT ![c] = Idle]
    /\ UNCHANGED <<broker, channel, server, backlog, link, bridge, supervisor, shown>>

\* Mutant: recv without a timeout.
GiveUpWhenDropped(c) ==
    /\ call[c].at = "wait" /\ call[c].got = None /\ Entry(c) \notin pending
    /\ call' = [call EXCEPT ![c] = Idle]
    /\ UNCHANGED <<broker, channel, server, backlog, link, bridge, supervisor, shown>>

\* recv_timeout fails: three seconds are over, or detach dropped the other end.
GiveUp(c) ==
    /\ call[c].at = "wait" /\ call[c].got = None
    /\ pending' = pending \ {Entry(c)}
    /\ call' = [call EXCEPT ![c] = Idle]
    /\ UNCHANGED <<connected, sender, nextId, packageCache, channel, server, backlog, link, bridge,
                   supervisor, shown>>

-----------------------------------------------------------------------------
(* Sockets.  What the peer has not read stays readable after a close; a slot
   is free again when both ends are closed. *)

Released(l) == IF l.far \/ l.near THEN l ELSE FreeLink

CloseNear(k) == Released([link[k] EXCEPT !.near = FALSE, !.events = <<>>])
CloseFar(k)  == Released([link[k] EXCEPT !.far = FALSE, !.commands = <<>>])

-----------------------------------------------------------------------------
(* The listener thread: bridge_accept_loop and handle_bridge. *)

At(step) == server.at = step
Goto(step) == server' = [server EXCEPT !.at = step]

Accept ==
    /\ At("accept") /\ backlog # <<>>
    /\ server' = [at |-> "hello", on |-> Head(backlog), last |-> FALSE]
    /\ backlog' = Tail(backlog)
    /\ UNCHANGED <<broker, call, channel, link, bridge, supervisor, shown>>

\* handle_bridge returns an error before there is a session: the stream is dropped and
\* only the detach of bridge_accept_loop runs.
Hangup ==
    /\ server' = [server EXCEPT !.at = "disconnect", !.last = TRUE]
    /\ link' = [link EXCEPT ![server.on] = CloseNear(server.on)]

\* The peer is gone before its first frame.
NoHello ==
    /\ At("hello") /\ link[server.on].events = <<>> /\ ~link[server.on].far
    /\ Hangup
    /\ UNCHANGED <<broker, call, channel, backlog, bridge, supervisor, shown>>

\* The first frame is a hello, and BridgeBroker::attach makes a new channel, whose receiver
\* handle_bridge holds.
Attach ==
    /\ At("hello") /\ link[server.on].events # <<>>
    /\ Head(link[server.on].events) = Hello
    /\ link' = [link EXCEPT ![server.on].events = Tail(@)]
    /\ sender' = server.on /\ connected' = FALSE
    /\ chan' = <<>> /\ chanOpen' = TRUE
    /\ Goto("greet")
    /\ UNCHANGED <<pending, nextId, packageCache, call, backlog, bridge, supervisor, shown>>

\* handle_event(Hello).
Greet ==
    /\ At("greet")
    /\ connected' = TRUE
    /\ Goto("spawn")
    /\ UNCHANGED <<sender, pending, nextId, packageCache, call, channel, backlog, link, bridge,
                   supervisor, shown>>

\* The stream is cloned and the writer thread started.
SpawnWriter ==
    /\ At("spawn")
    /\ Goto("serve")
    /\ UNCHANGED <<broker, call, channel, backlog, link, bridge, supervisor, shown>>

\* One of the two fails: `?` drops the receiver and the stream.
SpawnFails ==
    /\ At("spawn")
    /\ chan' = <<>> /\ chanOpen' = FALSE
    /\ Hangup
    /\ UNCHANGED <<broker, call, backlog, bridge, supervisor, shown>>

\* Mutant: the id of the reply is not looked at.
RegisteredAny(e) == pending

\* finish_request: the event goes to the channel registered under its id, if there is one
\* and if its caller still holds the other end.
Registered(e) == {entry \in pending : entry.id = e.id}

Delivered(e) ==
    [c \in Caller |-> IF Entry(c) \in Registered(e) THEN [call[c] EXCEPT !.got = e] ELSE call[c]]

\* Whether the event brings a package for the cache.
Caches(e) == e.type = "PackageInfoResult" /\ e.ok

\* handle_event for the three results.
HandleEvent ==
    /\ At("serve") /\ link[server.on].events # <<>>
    /\ LET e == Head(link[server.on].events) IN
        /\ packageCache' = IF Caches(e) THEN packageCache \cup {e.on} ELSE packageCache
        /\ call' = Delivered(e)
        /\ pending' = pending \ Registered(e)
    /\ link' = [link EXCEPT ![server.on].events = Tail(@)]
    /\ UNCHANGED <<connected, sender, nextId, channel, server, backlog, bridge, supervisor, shown>>

\* The read fails: the peer closed the socket, or it was reset.
SessionEnds ==
    /\ At("serve") /\ ~link[server.on].far
    /\ link[server.on].events = <<>>
    /\ Goto("disconnect")
    /\ UNCHANGED <<broker, call, channel, backlog, link, bridge, supervisor, shown>>

\* BridgeBroker::detach, one step per field.
Disconnect ==
    /\ At("disconnect")
    /\ connected' = FALSE
    /\ Goto("unplug")
    /\ UNCHANGED <<sender, pending, nextId, packageCache, call, channel, backlog, link, bridge,
                   supervisor, shown>>

\* Mutant: the broker keeps the sender.
UnplugNothing ==
    /\ At("unplug")
    /\ Goto("clear")
    /\ UNCHANGED <<broker, call, channel, backlog, link, bridge, supervisor, shown>>

Unplug ==
    /\ At("unplug")
    /\ sender' = None
    /\ Goto("clear")
    /\ UNCHANGED <<connected, pending, nextId, packageCache, call, channel, backlog, link, bridge,
                   supervisor, shown>>

\* Mutant: the waiting requests are not released.
ClearNothing ==
    /\ At("clear")
    /\ server' = IF server.last THEN [at |-> "accept", on |-> None, last |-> TRUE]
                 ELSE [server EXCEPT !.at = "join"]
    /\ UNCHANGED <<broker, call, channel, backlog, link, bridge, supervisor, shown>>

Clear ==
    /\ At("clear")
    /\ pending' = {}
    /\ server' = IF server.last THEN [at |-> "accept", on |-> None, last |-> TRUE]
                 ELSE [server EXCEPT !.at = "join"]
    /\ UNCHANGED <<connected, sender, nextId, packageCache, call, channel, backlog, link, bridge,
                   supervisor, shown>>

\* The writer is joined, the stream dropped, and bridge_accept_loop detaches again.
Join ==
    /\ At("join") /\ ~chanOpen
    /\ Hangup
    /\ UNCHANGED <<broker, call, channel, backlog, bridge, supervisor, shown>>

\* The writer thread: one command to the socket, or the end of the thread when the
\* write fails or when the sender is gone and the channel empty.
Writer ==
    /\ server.at \in {"serve", "disconnect", "unplug", "clear", "join"} /\ ~server.last
    /\ chanOpen
    /\ \/ /\ chan # <<>> /\ link[server.on].far
          /\ link' = [link EXCEPT ![server.on].commands = Append(@, Head(chan))]
          /\ chan' = Tail(chan) /\ UNCHANGED chanOpen
       \/ /\ chan # <<>> /\ ~link[server.on].far
          /\ chan' = <<>> /\ chanOpen' = FALSE /\ UNCHANGED link
       \/ /\ chan = <<>> /\ sender = None
          /\ chanOpen' = FALSE /\ UNCHANGED <<chan, link>>
    /\ UNCHANGED <<broker, call, server, backlog, bridge, supervisor, shown>>

-----------------------------------------------------------------------------
(* The bridge processes: runForever, runConnection and handle. *)

Connect(p) ==
    /\ bridge[p].at = "idle"
    /\ \E k \in Conn :
        /\ link[k] = FreeLink
        /\ link' = [link EXCEPT ![k].far = TRUE, ![k].near = TRUE]
        /\ backlog' = Append(backlog, k)
        /\ bridge' = [bridge EXCEPT ![p] = [at |-> "hello", on |-> k]]
    /\ UNCHANGED <<broker, call, channel, server, supervisor, shown>>

Drop(p) ==
    /\ link' = [link EXCEPT ![bridge[p].on] = CloseFar(bridge[p].on)]
    /\ bridge' = [bridge EXCEPT ![p] = [at |-> "idle", on |-> None]]

\* The hello is written, or the daemon has closed the socket and the write fails.
SayHello(p) ==
    /\ bridge[p].at = "hello"
    /\ \/ /\ link[bridge[p].on].near
          /\ link' = [link EXCEPT ![bridge[p].on].events = Append(@, Hello)]
          /\ bridge' = [bridge EXCEPT ![p].at = "loop"]
       \/ /\ ~link[bridge[p].on].near
          /\ Drop(p)
    /\ UNCHANGED <<broker, call, channel, server, backlog, supervisor, shown>>

\* What the framework shows after a command that worked.
Effect(cmd) ==
    CASE cmd.op = "post"   -> shown \cup {cmd.on}
      [] cmd.op = "cancel" -> shown \ {cmd.on}
      [] OTHER             -> shown

\* handle: the command works or throws, and is answered if the daemon still listens.
\* Otherwise the write throws, and runForever starts over.
Handle(p) ==
    /\ bridge[p].at = "loop" /\ link[bridge[p].on].commands # <<>>
    /\ LET k == bridge[p].on
           m == Head(link[k].commands) IN
        /\ \E ok \in BOOLEAN :
            /\ shown' = IF ok THEN Effect(m.cmd) ELSE shown
            /\ \/ /\ link[k].near
                  /\ link' = [link EXCEPT
                        ![k].commands = Tail(@),
                        ![k].events = Append(@, [id |-> m.id, type |-> ReplyTo(m.cmd), ok |-> ok,
                                                 on |-> m.cmd.on])]
                  /\ UNCHANGED bridge
               \/ /\ ~link[k].near
                  /\ Drop(p)
    /\ UNCHANGED <<broker, call, channel, server, backlog, supervisor>>

\* End of file: everything was read and the daemon has closed the socket.
Eof(p) ==
    /\ bridge[p].at = "loop"
    /\ link[bridge[p].on].commands = <<>> /\ ~link[bridge[p].on].near
    /\ Drop(p)
    /\ UNCHANGED <<broker, call, channel, server, backlog, supervisor, shown>>

\* The process is killed.  What it has shown stays.
Die(p) ==
    /\ bridge[p].at # "down"
    /\ link' = IF bridge[p].on = None THEN link
               ELSE [link EXCEPT ![bridge[p].on] = CloseFar(bridge[p].on)]
    /\ bridge' = [bridge EXCEPT ![p] = [at |-> "down", on |-> None]]
    /\ UNCHANGED <<broker, call, channel, server, backlog, supervisor, shown>>

-----------------------------------------------------------------------------
(* The supervisor: supervise and wait_for_child. *)

Spawn(p) ==
    /\ supervisor.at = "starting" /\ bridge[p].at = "down"
    /\ bridge' = [bridge EXCEPT ![p].at = "idle"]
    /\ supervisor' = [at |-> "running", child |-> p]
    /\ UNCHANGED <<broker, call, channel, server, backlog, link, shown>>

\* app_process does not start.
SpawnError ==
    /\ supervisor.at = "starting"
    /\ supervisor' = [at |-> "backoff", child |-> None]
    /\ UNCHANGED <<broker, call, channel, server, backlog, link, bridge, shown>>

\* try_wait reports the exit, or fails while the child is still running.
ChildLost ==
    /\ supervisor.at = "running"
    /\ supervisor' = [at |-> "backoff", child |-> None]
    /\ UNCHANGED <<broker, call, channel, server, backlog, link, bridge, shown>>

BackoffOver ==
    /\ supervisor.at = "backoff"
    /\ supervisor' = [supervisor EXCEPT !.at = "starting"]
    /\ UNCHANGED <<broker, call, channel, server, backlog, link, bridge, shown>>

\* The daemon is killed and started again: processes live on with a closed socket.
DaemonRestart ==
    /\ connected' = FALSE /\ sender' = None /\ pending' = {} /\ nextId' = 1 /\ packageCache' = {}
    /\ call' = [c \in Caller |-> Idle]
    /\ chan' = <<>> /\ chanOpen' = FALSE
    /\ server' = [at |-> "accept", on |-> None, last |-> TRUE]
    /\ backlog' = <<>>
    /\ link' = [k \in Conn |-> CloseNear(k)]
    /\ supervisor' = [at |-> "starting", child |-> None]
    /\ UNCHANGED <<bridge, shown>>

-----------------------------------------------------------------------------
CallerStep(c) ==
    \/ Register(c) \/ Send(c) \/ Answered(c) \/ GiveUp(c)

ServerStep ==
    \/ Accept \/ NoHello \/ Attach \/ Greet \/ SpawnWriter \/ HandleEvent \/ SessionEnds
    \/ Disconnect \/ Unplug \/ Clear \/ Join

ProcStep(p) == Connect(p) \/ SayHello(p) \/ Eof(p)

BridgeNext ==
    \/ \E c \in Caller : CallerStep(c) \/ \E cmd \in Asked : Begin(c, cmd) \/ Refused(c, cmd)
    \/ ServerStep \/ SpawnFails \/ Writer
    \/ \E p \in Proc : ProcStep(p) \/ Handle(p) \/ Die(p) \/ Spawn(p)
    \/ SpawnError \/ ChildLost \/ BackoffOver
    \/ DaemonRestart

BridgeSafetySpec == BridgeInit /\ [][BridgeNext]_brVars

\* Threads keep running and a wait ends; a process connects again as long as it lives, and
\* one of the supervisor's attempts to start it succeeds.  Nothing says that the bridge
\* ever gets to a command, that a process dies or that the writer thread fails to start.
BridgeFairness ==
    /\ \A c \in Caller : WF_brVars(CallerStep(c))
    /\ WF_brVars(ServerStep) /\ SF_brVars(SpawnWriter)
    /\ WF_brVars(Writer)
    /\ \A p \in Proc : WF_brVars(ProcStep(p))
    /\ WF_brVars(BackoffOver) /\ SF_brVars(\E p \in Proc : Spawn(p))
    /\ WF_brVars(ChildLost /\ bridge[supervisor.child].at = "down")

BridgeSpec == BridgeSafetySpec /\ BridgeFairness

-----------------------------------------------------------------------------
(* Properties. *)

\* The reply a caller is handed answers the request it made: never a late reply to an
\* earlier request, a reply another process gave in an earlier session, or one that was
\* asked for in an earlier life of the daemon, whose ids are used again.  It is what keeps
\* "bridge returned the wrong reply type" of bridge_broker.rs from happening.
AnswersMatch ==
    \A c \in Caller : call[c].got # None =>
        /\ call[c].got.id = call[c].id
        /\ call[c].got.type = ReplyTo(call[c].cmd)
        /\ call[c].got.on = call[c].cmd.on

\* The ids on their way in the session the listener serves.
Ids(messages) == {messages[i].id : i \in DOMAIN messages}
Travelling == Ids(chan) \cup Ids(link[server.on].commands) \cup Ids(link[server.on].events)

\* A caller that waits and still has an entry in pending will be answered or released
\* without the help of the timeout: its command or the reply to it is on its way in the
\* session being served, or that session is over and detach has yet to clear the entry.
\* Nobody is left waiting on a session that is gone, however request and detach interleave.
NoCallWaitsInVain ==
    \A c \in Caller :
        call[c].at = "wait" /\ call[c].got = None /\ Entry(c) \in pending =>
            /\ server.on # None
            /\ \/ server.at \in {"disconnect", "unplug", "clear"}
               \/ ~link[server.on].far
               \/ call[c].id \in Travelling

\* The entries a caller has left behind: request returns without taking its entry back when
\* it finds no sender.
Orphans(c) == {entry \in pending : entry.to = c /\ entry # Entry(c)}

\* pending cannot grow without bound: a caller leaves at most one entry behind in an
\* outage, because its next call is refused, and the next detach removes it.
LeaksAreBounded ==
    \A c \in Caller : Cardinality(Orphans(c)) <= IF server.at = "clear" THEN 2 ELSE 1

\* Every call into the broker returns, whatever the bridge does (the ingest thread is
\* one of the callers, and records no crash while it waits).
EveryCallReturns == \A c \in Caller : call[c].at # "idle" ~> call[c].at = "idle"

\* A process that is busy with a command of a session that is over; the model has a place
\* for Cardinality(Proc) of them.
LeftBehind == {p \in Proc : bridge[p].at = "loop" /\ ~link[bridge[p].on].near}

\* The bridge comes back: unless processes, the daemon or the start of the writer thread
\* fail for ever, or each process the model has room for hangs in a command, the broker is
\* connected again and again.
BridgeComesBack ==
    \/ []<>connected
    \/ []<><<SpawnFails \/ DaemonRestart \/ \E p \in Proc : Die(p)>>_brVars
    \/ <>[](LeftBehind = Proc)

=============================================================================
