---------------------------- MODULE Bridge_proofs ----------------------------
(***************************************************************************)
(* The bridge broker, for every number of callers, processes and sockets:  *)
(* replies answer the requests they are handed to, no caller waits on a    *)
(* session that is gone, and a caller leaves at most one entry behind in   *)
(* an outage.                                                              *)
(***************************************************************************)
EXTENDS Bridge, FiniteSetTheorems, TLAPS

-----------------------------------------------------------------------------
(* The invariant. *)

Message == [id : 1 .. MaxRequests, cmd : Asked]

Event == [id : 0 .. MaxRequests, type : {"Hello", "NotificationResult", "PackageInfoResult",
          "ActivityResult"}, ok : BOOLEAN, on : Record \cup Package \cup {None}]

Socket == [far : BOOLEAN, near : BOOLEAN, commands : Seq(Message), events : Seq(Event)]

CallState == [at : {"idle", "register", "send", "wait"}, id : 0 .. MaxRequests,
              cmd : Asked \cup {None}, got : Event \cup {None}]

Busy(c) == call[c].at # "idle"

\* A command that travels, or the reply to it, finds the call that made it, or none.  It does not
\* find one that has yet to be sent, and no other one: ids are not used twice.
CommandOK(m) ==
    /\ m.id < nextId
    /\ \A c \in Caller : Busy(c) /\ call[c].id = m.id => call[c].at = "wait" /\ call[c].cmd = m.cmd

EventOK(e) ==
    /\ e.id < nextId
    /\ \A c \in Caller : Busy(c) /\ call[c].id = e.id =>
        call[c].at = "wait" /\ e.type = ReplyTo(call[c].cmd) /\ e.on = call[c].cmd.on

Commands == {m \in Message : CommandOK(m)}
Events   == {e \in Event : EventOK(e)}

BrokerTypeOK ==
    /\ connected \in BOOLEAN /\ sender \in Conn \cup {None}
    /\ nextId \in 1 .. MaxRequests + 1
    /\ pending \subseteq [id : 1 .. nextId - 1, to : Caller] /\ IsFiniteSet(pending)
    /\ call \in [Caller -> CallState]

ServerTypeOK ==
    /\ chanOpen \in BOOLEAN
    /\ server \in [at : {"accept", "hello", "greet", "spawn", "serve", "disconnect", "unplug",
                         "clear", "join"}, on : Conn \cup {None}, last : BOOLEAN]
    /\ backlog \in Seq(Conn)
    /\ link \in [Conn -> Socket]
    /\ bridge \in [Proc -> [at : {"down", "idle", "hello", "loop"}, on : Conn \cup {None}]]
    /\ \A p \in Proc : bridge[p].at \in {"hello", "loop"} => bridge[p].on \in Conn

CallsOK ==
    /\ \A c \in Caller :
        /\ ~Busy(c) => call[c] = Idle
        /\ Busy(c) => call[c].id \in 1 .. nextId - 1 /\ call[c].cmd \in Asked
        /\ call[c].got # None =>
            /\ call[c].at = "wait" /\ Entry(c) \notin pending
            /\ call[c].got.id = call[c].id /\ call[c].got.type = ReplyTo(call[c].cmd)
            /\ call[c].got.on = call[c].cmd.on
    /\ \A c, d \in Caller : Busy(c) /\ Busy(d) /\ call[c].id = call[d].id => c = d

\* What travels on sockets the daemon holds open, and so in this life of it.
WordsOK ==
    /\ chan \in Seq(Commands)
    /\ \A k \in Conn : link[k].near => link[k].commands \in Seq(Commands)
                                       /\ link[k].events \in Seq(Events)

PhaseOK ==
    /\ connected => server.at \in {"spawn", "serve", "disconnect"} /\ sender # None
    /\ server.at \in {"greet", "spawn", "serve"} => sender # None /\ ~server.last
    /\ sender # None => server.at \in {"greet", "spawn", "serve", "disconnect", "unplug"}
    /\ server.last => server.at \in {"accept", "disconnect", "unplug", "clear"}
    /\ server.at = "accept" <=> server.on = None
    /\ server.at = "accept" => server.last

\* The daemon's ends of the sockets in the backlog and of the one it serves are open.
SocketsOK ==
    /\ ~server.last => link[server.on].near /\ \A i \in DOMAIN backlog : backlog[i] # server.on
    /\ \A i \in DOMAIN backlog : link[backlog[i]].near
    /\ \A i, j \in DOMAIN backlog : backlog[i] = backlog[j] => i = j

Waits(c) == call[c].at = "wait" /\ call[c].got = None /\ Entry(c) \in pending

WaitsOK ==
    \A c \in Caller : Waits(c) =>
        \/ server.at \in {"disconnect", "unplug", "clear"}
        \/ /\ server.at \in {"greet", "spawn", "serve"}
           /\ ~link[server.on].far \/ call[c].id \in Travelling

\* A caller that began while the bridge was connected may still leave its entry behind.
Armed(c) == call[c].at \in {"register", "send"}

Bound(c) ==
    IF sender # None THEN 1
    ELSE IF server.at = "clear" THEN (IF Armed(c) THEN 1 ELSE 2) ELSE (IF Armed(c) THEN 0 ELSE 1)

LeaksOK == \A c \in Caller : Cardinality(Orphans(c)) <= Bound(c)

BridgeInv ==
    /\ BrokerTypeOK /\ ServerTypeOK /\ CallsOK /\ WordsOK /\ PhaseOK /\ SocketsOK /\ WaitsOK
    /\ LeaksOK

-----------------------------------------------------------------------------
(* Sequences and sockets. *)

LEMMA SeqMono ==
    ASSUME NEW S, NEW T, S \subseteq T, NEW s \in Seq(S)
    PROVE  s \in Seq(T)
  OBVIOUS

LEMMA IdsEmpty == Ids(<<>>) = {}
  BY DEF Ids

LEMMA IdsAppend ==
    ASSUME NEW S, NEW s \in Seq(S), NEW x \in S
    PROVE  Ids(Append(s, x)) = Ids(s) \cup {x.id}
<1>1. /\ DOMAIN Append(s, x) = DOMAIN s \cup {Len(s) + 1} /\ Append(s, x)[Len(s) + 1] = x
      /\ \A i \in DOMAIN s : Append(s, x)[i] = s[i]
  OBVIOUS
<1>2. QED
  BY <1>1 DEF Ids

LEMMA IdsHead ==
    ASSUME NEW S, NEW s \in Seq(S), s # <<>>
    PROVE  Ids(s) = {Head(s).id} \cup Ids(Tail(s))
<1>1. /\ \A i \in DOMAIN Tail(s) : i + 1 \in DOMAIN s /\ Tail(s)[i] = s[i + 1]
      /\ \A i \in DOMAIN s \ {1} : i - 1 \in DOMAIN Tail(s) /\ Tail(s)[i - 1] = s[i]
      /\ 1 \in DOMAIN s /\ Head(s) = s[1]
  OBVIOUS
<1>2. Ids(s) \subseteq {Head(s).id} \cup Ids(Tail(s))
  <2> SUFFICES ASSUME NEW i \in DOMAIN s PROVE s[i].id \in {Head(s).id} \cup Ids(Tail(s))
    BY DEF Ids
  <2>1. CASE i = 1
    BY <1>1, <2>1
  <2>2. CASE i # 1
    BY <1>1, <2>2 DEF Ids
  <2>3. QED
    BY <2>1, <2>2
<1>3. {Head(s).id} \cup Ids(Tail(s)) \subseteq Ids(s)
  BY <1>1 DEF Ids
<1>4. QED
  BY <1>2, <1>3

\* What is left of a socket when one end is closed.
LEMMA SocketOK ==
    ASSUME ServerTypeOK, NEW k \in Conn
    PROVE  /\ link[k] \in Socket /\ FreeLink \in Socket
           /\ CloseNear(k) \in Socket /\ ~CloseNear(k).near
           /\ CloseFar(k) \in Socket /\ ~CloseFar(k).far /\ CloseFar(k).near = link[k].near
           /\ link[k].near => CloseFar(k).events = link[k].events /\ CloseFar(k).commands = <<>>
<1>1. link[k] \in Socket /\ FreeLink \in Socket
  BY DEF ServerTypeOK, FreeLink, Socket
<1>2. CloseNear(k) \in Socket /\ ~CloseNear(k).near
  BY <1>1 DEF CloseNear, Released, FreeLink, Socket
<1>3. /\ CloseFar(k) \in Socket /\ ~CloseFar(k).far /\ CloseFar(k).near = link[k].near
      /\ link[k].near => CloseFar(k).events = link[k].events /\ CloseFar(k).commands = <<>>
  BY <1>1 DEF CloseFar, Released, FreeLink, Socket
<1>4. QED
  BY <1>1, <1>2, <1>3

\* What travels stays in order while calls end, go on or begin with a new id.
LEMMA WordsGrow ==
    ASSUME nextId \in Nat, nextId' \in Nat, nextId <= nextId',
           \A c \in Caller : Busy(c)' =>
                \/ /\ Busy(c) /\ call'[c].id = call[c].id /\ call'[c].cmd = call[c].cmd
                   /\ call[c].at = "wait" => call'[c].at = "wait"
                \/ call'[c].id \in Nat /\ call'[c].id >= nextId
    PROVE  Commands \subseteq Commands' /\ Events \subseteq Events'
<1>1. ASSUME NEW m \in Message, CommandOK(m) PROVE CommandOK(m)'
  BY <1>1 DEF CommandOK, Message
<1>2. ASSUME NEW e \in Event, EventOK(e) PROVE EventOK(e)'
  BY <1>2 DEF EventOK, Event
<1>3. QED
  BY <1>1, <1>2 DEF Commands, Events

LEMMA WordsKept ==
    ASSUME WordsOK, Commands \subseteq Commands', Events \subseteq Events',
           chan' \in Seq(Commands'), link' = link
    PROVE  WordsOK'
<1>1. \A k \in Conn : link[k].near => link[k].commands \in Seq(Commands')
                                       /\ link[k].events \in Seq(Events')
  BY SeqMono DEF WordsOK
<1>2. QED
  BY <1>1 DEF WordsOK

-----------------------------------------------------------------------------
(* The callers. *)

LEMMA Constants == None \notin Conn /\ None \notin Proc /\ MaxRequests \in Nat
  BY BridgeAssumption

LEMMA IdsKept ==
    ASSUME NEW m \in Nat, NEW n \in Nat, m <= n
    PROVE  1 .. m - 1 \subseteq 1 .. n - 1
  OBVIOUS

LEMMA EntryOK ==
    ASSUME BridgeInv, NEW c \in Caller
    PROVE  /\ ~Busy(c) => Entry(c) \notin pending /\ call[c] = Idle
           /\ [id |-> nextId, to |-> c] \notin pending /\ [id |-> 0, to |-> c] \notin pending
           /\ Busy(c) => Entry(c) \in [id : 1 .. nextId - 1, to : Caller]
           /\ Entry(c) = [id |-> call[c].id, to |-> c]
           /\ IsFiniteSet(Orphans(c)) /\ Cardinality(Orphans(c)) \in Nat
<1>1. /\ \A e \in pending : e.id \in 1 .. nextId - 1
      /\ nextId \in 1 .. MaxRequests + 1
  BY DEF BridgeInv, BrokerTypeOK
<1>2. [id |-> nextId, to |-> c].id = nextId /\ [id |-> 0, to |-> c].id = 0
  OBVIOUS
<1>3. Orphans(c) \subseteq pending
  BY DEF Orphans
<1>4. IsFiniteSet(Orphans(c)) /\ Cardinality(Orphans(c)) \in Nat
  BY <1>3, FS_Subset, FS_CardinalityType DEF BridgeInv, BrokerTypeOK
<1>5. ~Busy(c) => Entry(c) = [id |-> 0, to |-> c] /\ call[c] = Idle
  BY DEF BridgeInv, CallsOK, Entry, Idle
<1>6. Busy(c) => Entry(c) \in [id : 1 .. nextId - 1, to : Caller]
  BY DEF BridgeInv, CallsOK, Entry
<1>7. [id |-> nextId, to |-> c] \notin pending /\ [id |-> 0, to |-> c] \notin pending
  BY <1>1, <1>2, Constants
<1>8. QED
  BY <1>4, <1>5, <1>6, <1>7 DEF Entry

\* A step of a caller: it goes to k, having taken its entry in or out of pending, or not.
LEMMA CallerKeeps ==
    ASSUME BridgeInv, NEW c \in Caller, NEW k \in CallState,
           UNCHANGED <<connected, sender, chanOpen, server, backlog, link, bridge>>,
           call' = [call EXCEPT ![c] = k],
           k.got = None, k.at = "idle" => k = Idle,
           \/ nextId' = nextId /\ k.at = "idle"
           \/ nextId' = nextId /\ Busy(c) /\ k.id = call[c].id /\ k.cmd = call[c].cmd
              /\ call[c].at # "wait"
           \/ /\ nextId <= MaxRequests /\ nextId' = nextId + 1 /\ k.id = nextId
              /\ k.cmd \in Asked,
           \/ pending' = pending
           \/ pending' = pending \ {Entry(c)}
           \/ pending' = pending \cup {Entry(c)} /\ Busy(c),
           \/ chan' = chan
           \/ /\ Busy(c) /\ k.at = "wait" /\ k.id = call[c].id /\ nextId' = nextId
              /\ chan' = Append(chan, [id |-> call[c].id, cmd |-> call[c].cmd]),
           \/ k.at # "wait"
           \/ /\ server.at \in {"greet", "spawn", "serve", "disconnect", "unplug"}
              /\ Busy(c) /\ call[c].id = k.id
              /\ chan' = Append(chan, [id |-> call[c].id, cmd |-> call[c].cmd]),
           Cardinality(Orphans(c)') <= Bound(c)'
    PROVE  BridgeInv'
<1>0. /\ BrokerTypeOK /\ ServerTypeOK /\ CallsOK /\ WordsOK /\ PhaseOK /\ SocketsOK /\ WaitsOK
      /\ LeaksOK
  BY DEF BridgeInv
<1>1. call'[c] = k /\ \A d \in Caller \ {c} : call'[d] = call[d]
  BY <1>0 DEF BrokerTypeOK
<1>2. nextId' \in 1 .. MaxRequests + 1 /\ nextId <= nextId' /\ nextId \in Nat /\ nextId' \in Nat
  BY <1>0, Constants DEF BrokerTypeOK
<1>3. BrokerTypeOK'
  <2>1. 1 .. nextId - 1 \subseteq 1 .. nextId' - 1
    BY <1>2, IdsKept
  <2>2. Busy(c) => Entry(c) \in [id : 1 .. nextId' - 1, to : Caller]
    BY <2>1, EntryOK
  <2>3. pending' \subseteq [id : 1 .. nextId' - 1, to : Caller]
    BY <1>0, <2>1, <2>2 DEF BrokerTypeOK
  <2>4. IsFiniteSet(pending \ {Entry(c)}) /\ IsFiniteSet(pending \cup {Entry(c)})
    BY <1>0, FS_Subset, FS_AddElement DEF BrokerTypeOK
  <2>5. IsFiniteSet(pending')
    BY <1>0, <2>4 DEF BrokerTypeOK
  <2>6. call' \in [Caller -> CallState]
    BY <1>0 DEF BrokerTypeOK
  <2>7. QED
    BY <1>0, <1>2, <2>3, <2>5, <2>6 DEF BrokerTypeOK
<1>4. Commands \subseteq Commands' /\ Events \subseteq Events'
  <2>1. \A d \in Caller : Busy(d)' =>
            \/ /\ Busy(d) /\ call'[d].id = call[d].id /\ call'[d].cmd = call[d].cmd
               /\ call[d].at = "wait" => call'[d].at = "wait"
            \/ call'[d].id \in Nat /\ call'[d].id >= nextId
    BY <1>1, <1>2 DEF Busy
  <2>2. QED
    BY <1>2, <2>1, WordsGrow
<1>5. Busy(c)' => k.id \in 1 .. nextId' - 1 /\ k.cmd \in Asked
  <2>1. CASE k.at = "idle"
    BY <1>1, <2>1 DEF Busy
  <2>2. CASE nextId' = nextId /\ Busy(c) /\ k.id = call[c].id /\ k.cmd = call[c].cmd
    BY <1>0, <2>2 DEF CallsOK
  <2>3. CASE nextId' = nextId + 1 /\ k.id = nextId /\ k.cmd \in Asked
    <3>1. nextId \in 1 .. nextId' - 1
      BY <1>0, <1>2, <2>3, Constants DEF BrokerTypeOK
    <3>2. QED
      BY <2>3, <3>1
  <2>4. QED
    BY <2>1, <2>2, <2>3
<1>6. \A d \in Caller \ {c} : /\ Entry(d)' = Entry(d) /\ (Busy(d)' <=> Busy(d))
                              /\ Entry(d) \in pending' <=> Entry(d) \in pending
                              /\ (Waits(d)' <=> Waits(d)) /\ Orphans(d)' = Orphans(d)
                              /\ Bound(d)' = Bound(d)
  <2> TAKE d \in Caller \ {c}
  <2>1. Entry(d)' = Entry(d) /\ Entry(d).to = d /\ Entry(c).to = c
    BY <1>1 DEF Entry
  <2>2. \A e : e.to = d => (e \in pending' <=> e \in pending)
    BY <2>1
  <2>3. Orphans(d)' = Orphans(d)
    BY <2>1, <2>2 DEF Orphans
  <2>4. Entry(d) \in pending' <=> Entry(d) \in pending
    BY <2>1, <2>2
  <2>5. QED
    BY <1>1, <2>1, <2>3, <2>4 DEF Busy, Waits, Bound, Armed
<1>7. CallsOK'
  <2>1. ASSUME NEW d \in Caller
        PROVE  /\ ~Busy(d)' => call'[d] = Idle
               /\ Busy(d)' => call'[d].id \in 1 .. nextId' - 1 /\ call'[d].cmd \in Asked
               /\ call'[d].got # None =>
                    /\ call'[d].at = "wait" /\ Entry(d)' \notin pending'
                    /\ call'[d].got.id = call'[d].id /\ call'[d].got.type = ReplyTo(call'[d].cmd)
                    /\ call'[d].got.on = call'[d].cmd.on
    <3>1. CASE d = c
      BY <1>1, <1>5, <3>1 DEF Busy
    <3>2. CASE d # c
      <4>1. Busy(d) => call[d].id \in 1 .. nextId' - 1
        BY <1>0, <1>2 DEF CallsOK
      <4>2. QED
        BY <1>0, <1>1, <1>6, <3>2, <4>1 DEF CallsOK
    <3>3. QED
      BY <3>1, <3>2
  <2>2. ASSUME NEW d \in Caller, NEW e \in Caller, Busy(d)', Busy(e)',
               call'[d].id = call'[e].id, d # e
        PROVE  FALSE
    <3>1. ASSUME NEW x \in Caller \ {c}, Busy(x)', Busy(c)', call'[x].id = call'[c].id
          PROVE  FALSE
      <4>1. Busy(x) /\ call[x].id = k.id /\ call[x].id \in 1 .. nextId - 1
        BY <1>0, <1>1, <1>6, <3>1 DEF CallsOK
      <4>2. k.at # "idle"
        BY <1>1, <3>1 DEF Busy
      <4>3. k.id # nextId
        BY <1>2, <4>1
      <4>4. Busy(c) /\ k.id = call[c].id
        BY <4>2, <4>3
      <4>5. QED
        BY <1>0, <4>1, <4>4 DEF CallsOK
    <3>2. CASE d = c \/ e = c
      BY <2>2, <3>1, <3>2
    <3>3. CASE d # c /\ e # c
      BY <1>0, <1>1, <1>6, <2>2, <3>3 DEF CallsOK
    <3>4. QED
      BY <3>2, <3>3
  <2>3. QED
    BY <2>1, <2>2 DEF CallsOK
<1>8. WordsOK'
  <2>1. chan \in Seq(Commands')
    BY <1>0, <1>4, SeqMono DEF WordsOK
  <2>2. CASE chan' = chan
    BY <1>0, <1>4, <2>1, <2>2, WordsKept
  <2>3. CASE /\ Busy(c) /\ k.at = "wait" /\ k.id = call[c].id /\ nextId' = nextId
             /\ chan' = Append(chan, [id |-> call[c].id, cmd |-> call[c].cmd])
    <3> DEFINE m == [id |-> call[c].id, cmd |-> call[c].cmd]
    <3>1. m \in Message /\ m.id < nextId /\ m.id = call[c].id /\ m.cmd = call[c].cmd
      BY <1>0, <1>2, <2>3, Constants DEF CallsOK, Message, BrokerTypeOK
    <3>2. k.cmd = call[c].cmd
      BY <1>0, <1>2, <2>3 DEF CallsOK
    <3>3. ASSUME NEW d \in Caller, Busy(d)', call'[d].id = m.id
          PROVE  call'[d].at = "wait" /\ call'[d].cmd = m.cmd
      <4>1. d = c
        BY <1>0, <1>1, <1>6, <2>3, <3>1, <3>3 DEF CallsOK
      <4>2. QED
        BY <1>1, <2>3, <3>1, <3>2, <4>1
    <3> HIDE DEF m
    <3>4. m \in Commands'
      BY <2>3, <3>1, <3>3 DEF Commands, CommandOK
    <3>5. chan' \in Seq(Commands')
      BY <2>1, <2>3, <3>4 DEF m
    <3>6. QED
      BY <1>0, <1>4, <3>5, WordsKept
  <2>4. QED
    BY <2>2, <2>3
<1>9. ServerTypeOK' /\ PhaseOK' /\ SocketsOK'
  BY <1>0 DEF ServerTypeOK, PhaseOK, SocketsOK
<1>10. WaitsOK'
  <2>1. Ids(chan) \subseteq Ids(chan')
    <3>1. CASE chan' = chan
      BY <3>1
    <3>2. CASE Busy(c) /\ chan' = Append(chan, [id |-> call[c].id, cmd |-> call[c].cmd])
      <4>1. [id |-> call[c].id, cmd |-> call[c].cmd] \in Message
        BY <1>0, <1>2, <3>2, Constants DEF CallsOK, Message
      <4>2. chan \in Seq(Message)
        BY <1>0, SeqMono DEF WordsOK, Commands
      <4>3. QED
        BY <3>2, <4>1, <4>2, IdsAppend
    <3>3. QED
      BY <3>1, <3>2
  <2>2. Travelling \subseteq Travelling'
    BY <2>1 DEF Travelling
  <2>3. ASSUME NEW d \in Caller \ {c}, Waits(d)'
        PROVE  \/ server.at \in {"disconnect", "unplug", "clear"}
               \/ /\ server.at \in {"greet", "spawn", "serve"}
                  /\ ~link[server.on].far \/ call'[d].id \in Travelling'
    BY <1>0, <1>1, <1>6, <2>2, <2>3 DEF WaitsOK
  <2>4. ASSUME Waits(c)'
        PROVE  \/ server.at \in {"disconnect", "unplug", "clear"}
               \/ /\ server.at \in {"greet", "spawn", "serve"}
                  /\ ~link[server.on].far \/ call'[c].id \in Travelling'
    <3>1. k.at = "wait"
      BY <1>1, <2>4 DEF Waits
    <3>2. /\ server.at \in {"greet", "spawn", "serve", "disconnect", "unplug"}
          /\ Busy(c) /\ call[c].id = k.id
          /\ chan' = Append(chan, [id |-> call[c].id, cmd |-> call[c].cmd])
      BY <3>1
    <3>3. [id |-> call[c].id, cmd |-> call[c].cmd] \in Message /\ chan \in Seq(Message)
      <4>1. call[c].id \in 1 .. MaxRequests /\ call[c].cmd \in Asked
        BY <1>0, <1>2, <3>2, Constants DEF CallsOK, BrokerTypeOK
      <4>2. chan \in Seq(Message)
        BY <1>0, SeqMono DEF WordsOK, Commands
      <4>3. QED
        BY <4>1, <4>2 DEF Message
    <3>4. call'[c].id \in Ids(chan')
      BY <1>1, <3>2, <3>3, IdsAppend
    <3>5. QED
      BY <3>2, <3>4 DEF Travelling
  <2>5. QED
    BY <2>3, <2>4 DEF WaitsOK
<1>11. LeaksOK'
  BY <1>0, <1>6 DEF LeaksOK
<1>12. QED
  BY <1>3, <1>7, <1>8, <1>9, <1>10, <1>11 DEF BridgeInv

LEMMA RefusedOK ==
    ASSUME BridgeInv, NEW c \in Caller, NEW cmd \in Asked, Refused(c, cmd)
    PROVE  BridgeInv'
<1>0. /\ BrokerTypeOK /\ ServerTypeOK /\ CallsOK /\ WordsOK /\ PhaseOK /\ SocketsOK /\ WaitsOK
      /\ LeaksOK
  BY DEF BridgeInv
<1>1. /\ nextId <= MaxRequests /\ nextId' = nextId + 1
      /\ UNCHANGED <<connected, sender, pending, call, chan, chanOpen, server, backlog, link, bridge>>
  BY DEF Refused, channel
<1>2. nextId' \in 1 .. MaxRequests + 1 /\ nextId <= nextId' /\ nextId \in Nat /\ nextId' \in Nat
  BY <1>0, <1>1, Constants DEF BrokerTypeOK
<1>3. 1 .. nextId - 1 \subseteq 1 .. nextId' - 1
  BY <1>2, IdsKept
<1>4. BrokerTypeOK'
  BY <1>0, <1>1, <1>2, <1>3 DEF BrokerTypeOK
<1>5. CallsOK'
  BY <1>0, <1>1, <1>3 DEF CallsOK, Busy, Entry
<1>6. Commands \subseteq Commands' /\ Events \subseteq Events'
  BY <1>1, <1>2, WordsGrow DEF Busy
<1>7. chan' \in Seq(Commands')
  BY <1>0, <1>1, <1>6, SeqMono DEF WordsOK
<1>8. WordsOK'
  BY <1>0, <1>1, <1>6, <1>7, WordsKept
<1>9. ServerTypeOK' /\ PhaseOK' /\ SocketsOK'
  BY <1>0, <1>1 DEF ServerTypeOK, PhaseOK, SocketsOK
<1>10. WaitsOK' /\ LeaksOK'
  BY <1>0, <1>1 DEF WaitsOK, Waits, Entry, Travelling, LeaksOK, Bound, Armed, Orphans
<1>11. QED
  BY <1>4, <1>5, <1>8, <1>9, <1>10 DEF BridgeInv

LEMMA BeginOK ==
    ASSUME BridgeInv, NEW c \in Caller, NEW cmd \in Asked, Begin(c, cmd)
    PROVE  BridgeInv'
<1> DEFINE k == [at |-> "register", id |-> nextId, cmd |-> cmd, got |-> None]
<1>1. /\ ~Busy(c) /\ nextId <= MaxRequests /\ nextId' = nextId + 1 /\ connected
      /\ call' = [call EXCEPT ![c] = k]
      /\ UNCHANGED <<connected, sender, pending, chan, chanOpen, server, backlog, link, bridge>>
  BY DEF Begin, Busy, channel
<1>2. k \in CallState
  BY <1>1, Constants DEF CallState, BridgeInv, BrokerTypeOK
<1>3. /\ k.got = None /\ k.at = "register" /\ k.id = nextId /\ k.cmd = cmd
  OBVIOUS
<1>4. call'[c] = k
  BY <1>1 DEF BridgeInv, BrokerTypeOK
<1> HIDE DEF k
<1>5. Cardinality(Orphans(c)') <= Bound(c)'
  <2>1. Entry(c)' = [id |-> nextId, to |-> c]
    BY <1>3, <1>4 DEF Entry
  <2>2. Entry(c)' \notin pending /\ Entry(c) \notin pending
    BY <1>1, <2>1, EntryOK
  <2>3. Orphans(c)' = Orphans(c)
    BY <1>1, <2>2 DEF Orphans
  <2>4. sender # None
    BY <1>1 DEF BridgeInv, PhaseOK
  <2>5. QED
    BY <1>1, <2>3, <2>4 DEF BridgeInv, LeaksOK, Bound
<1>6. QED
  BY <1>1, <1>2, <1>3, <1>5, CallerKeeps

LEMMA RegisterOK ==
    ASSUME BridgeInv, NEW c \in Caller, Register(c)
    PROVE  BridgeInv'
<1> DEFINE k == [call[c] EXCEPT !.at = "send"]
<1>0. CallsOK /\ call \in [Caller -> CallState] /\ call[c] \in CallState
  BY DEF BridgeInv, BrokerTypeOK
<1>1. /\ Busy(c) /\ call[c].at = "register" /\ nextId' = nextId
      /\ pending' = pending \cup {Entry(c)} /\ call' = [call EXCEPT ![c] = k]
      /\ UNCHANGED <<connected, sender, chan, chanOpen, server, backlog, link, bridge>>
  BY <1>0 DEF Register, Busy, channel
<1>2. /\ k \in CallState /\ k.got = None /\ k.at = "send" /\ k.id = call[c].id
      /\ k.cmd = call[c].cmd
  BY <1>0, <1>1 DEF CallState, CallsOK
<1>3. call'[c] = k
  BY <1>0, <1>1
<1> HIDE DEF k
<1>4. Cardinality(Orphans(c)') <= Bound(c)'
  <2>1. Entry(c)' = Entry(c)
    BY <1>2, <1>3 DEF Entry
  <2>2. Orphans(c)' = Orphans(c)
    BY <1>1, <2>1 DEF Orphans
  <2>3. Bound(c)' = Bound(c)
    BY <1>1, <1>2, <1>3 DEF Bound, Armed
  <2>4. QED
    BY <2>2, <2>3 DEF BridgeInv, LeaksOK
<1>5. QED
  BY <1>1, <1>2, <1>4, CallerKeeps

\* The call ends: its entry is gone, or has just been taken out.
LEMMA EndOK ==
    ASSUME BridgeInv, NEW c \in Caller, Busy(c), call' = [call EXCEPT ![c] = Idle],
           UNCHANGED <<connected, sender, nextId, chan, chanOpen, server, backlog, link, bridge>>,
           ~Armed(c) \/ sender # None,
           pending' = pending \ {Entry(c)}
    PROVE  BridgeInv'
<1>1. call'[c] = Idle /\ Idle \in CallState /\ Idle.got = None /\ Idle.at = "idle"
  BY Constants DEF BridgeInv, BrokerTypeOK, Idle, CallState
<1>2. Cardinality(Orphans(c)') <= Bound(c)'
  <2>1. Entry(c)' = [id |-> 0, to |-> c]
    BY <1>1 DEF Entry, Idle
  <2>2. Orphans(c)' = Orphans(c)
    BY <2>1, EntryOK DEF Orphans
  <2>3. Bound(c)' = Bound(c)
    BY <1>1 DEF Bound, Armed
  <2>4. QED
    BY <2>2, <2>3 DEF BridgeInv, LeaksOK
<1>3. QED
  BY <1>1, <1>2, CallerKeeps

LEMMA SendOK ==
    ASSUME BridgeInv, NEW c \in Caller, Send(c)
    PROVE  BridgeInv'
<1>0. CallsOK /\ call \in [Caller -> CallState] /\ call[c] \in CallState /\ PhaseOK
  BY DEF BridgeInv, BrokerTypeOK
<1>1. /\ Busy(c) /\ call[c].at = "send" /\ nextId' = nextId /\ Armed(c)
      /\ UNCHANGED <<connected, sender, chanOpen, server, backlog, link, bridge>>
  BY <1>0 DEF Send, Busy, Armed
<1>2. CASE sender = None /\ call' = [call EXCEPT ![c] = Idle] /\ UNCHANGED <<pending, chan>>
  <2>1. call'[c] = Idle /\ Idle \in CallState /\ Idle.got = None /\ Idle.at = "idle"
    BY <1>0, <1>2, Constants DEF Idle, CallState
  <2>2. Cardinality(Orphans(c)') <= Bound(c)'
    <3>1. Entry(c)' = [id |-> 0, to |-> c]
      BY <2>1 DEF Entry, Idle
    <3>2. Orphans(c)' \subseteq Orphans(c) \cup {Entry(c)}
      BY <1>2 DEF Orphans
    <3>3. IsFiniteSet(Orphans(c)) /\ Cardinality(Orphans(c)) \in Nat
      BY EntryOK
    <3>4. /\ IsFiniteSet(Orphans(c) \cup {Entry(c)})
          /\ Cardinality(Orphans(c) \cup {Entry(c)}) <= Cardinality(Orphans(c)) + 1
          /\ Cardinality(Orphans(c) \cup {Entry(c)}) \in Nat
      <4>1. IsFiniteSet(Orphans(c) \cup {Entry(c)})
        BY <3>3, FS_AddElement
      <4>2. CASE Entry(c) \in Orphans(c)
        <5>1. Orphans(c) \cup {Entry(c)} = Orphans(c)
          BY <4>2
        <5>2. QED
          BY <3>3, <5>1
      <4>3. CASE Entry(c) \notin Orphans(c)
        <5>1. Cardinality(Orphans(c) \cup {Entry(c)}) = Cardinality(Orphans(c)) + 1
          BY <3>3, <4>3, FS_AddElement
        <5>2. QED
          BY <3>3, <4>1, <5>1
      <4>4. QED
        BY <4>2, <4>3
    <3>5. Cardinality(Orphans(c)') <= Cardinality(Orphans(c) \cup {Entry(c)})
          /\ Cardinality(Orphans(c)') \in Nat
      BY <3>2, <3>4, FS_Subset, FS_CardinalityType
    <3>6. Cardinality(Orphans(c)) <= IF server.at = "clear" THEN 1 ELSE 0
      BY <1>1, <1>2 DEF BridgeInv, LeaksOK, Bound
    <3>7. Bound(c)' = IF server.at = "clear" THEN 2 ELSE 1
      BY <1>1, <1>2, <2>1 DEF Bound, Armed
    <3>8. QED
      BY <3>3, <3>4, <3>5, <3>6, <3>7
  <2>3. QED
    BY <1>1, <1>2, <2>1, <2>2, CallerKeeps
<1>3. CASE /\ sender # None /\ pending' = pending \ {Entry(c)} /\ call' = [call EXCEPT ![c] = Idle]
           /\ UNCHANGED chan
  BY <1>1, <1>3, EndOK
<1>4. CASE /\ sender # None /\ call' = [call EXCEPT ![c].at = "wait"] /\ UNCHANGED pending
           /\ chan' = Append(chan, [id |-> call[c].id, cmd |-> call[c].cmd])
  <2> DEFINE k == [call[c] EXCEPT !.at = "wait"]
  <2>1. /\ k \in CallState /\ k.got = None /\ k.at = "wait" /\ k.id = call[c].id
        /\ k.cmd = call[c].cmd
    BY <1>0, <1>1 DEF CallState, CallsOK
  <2>2. call' = [call EXCEPT ![c] = k] /\ call'[c] = k
    BY <1>0, <1>4
  <2>3. server.at \in {"greet", "spawn", "serve", "disconnect", "unplug"}
    BY <1>0, <1>4 DEF PhaseOK
  <2> HIDE DEF k
  <2>4. Cardinality(Orphans(c)') <= Bound(c)'
    <3>1. Orphans(c)' = Orphans(c)
      BY <1>4, <2>1, <2>2 DEF Orphans, Entry
    <3>2. QED
      BY <1>1, <1>4, <3>1 DEF BridgeInv, LeaksOK, Bound
  <2>5. QED
    BY <1>1, <1>4, <2>1, <2>2, <2>3, <2>4, CallerKeeps
<1>5. QED
  BY <1>2, <1>3, <1>4 DEF Send

LEMMA AnsweredOK ==
    ASSUME BridgeInv, NEW c \in Caller, Answered(c) \/ GiveUp(c)
    PROVE  BridgeInv'
<1>1. /\ Busy(c) /\ ~Armed(c) /\ call' = [call EXCEPT ![c] = Idle]
      /\ UNCHANGED <<connected, sender, nextId, chan, chanOpen, server, backlog, link, bridge>>
  BY DEF Answered, GiveUp, Busy, Armed, broker, channel
<1>2. Answered(c) => Entry(c) \notin pending
  BY DEF Answered, BridgeInv, CallsOK
<1>3. pending' = pending \ {Entry(c)}
  BY <1>2 DEF Answered, GiveUp, broker
<1>4. QED
  BY <1>1, <1>3, EndOK

-----------------------------------------------------------------------------
(* The listener thread and the writer. *)

\* What is said on the sockets the daemon holds open.
Spoken(l) == l.near => l.commands \in Seq(Commands) /\ l.events \in Seq(Events)

\* A step of the listener or the writer that ends no call and clears no entry.
LEMMA ServerKeeps ==
    ASSUME BridgeInv, UNCHANGED <<nextId, call, pending>>,
           connected' \in BOOLEAN, sender' \in Conn \cup {None},
           ServerTypeOK', PhaseOK', SocketsOK',
           chan' \in Seq(Commands), \A k \in Conn : Spoken(link'[k]),
           \A c \in Caller : Waits(c) =>
                \/ server'.at \in {"disconnect", "unplug", "clear"}
                \/ /\ server'.at \in {"greet", "spawn", "serve"}
                   /\ ~link'[server'.on].far \/ call[c].id \in Travelling',
           \A c \in Caller : Bound(c) <= Bound(c)'
    PROVE  BridgeInv'
<1>0. BrokerTypeOK /\ CallsOK /\ LeaksOK
  BY DEF BridgeInv
<1>1. BrokerTypeOK'
  BY <1>0 DEF BrokerTypeOK
<1>2. CallsOK'
  BY <1>0 DEF CallsOK, Busy, Entry
<1>3. Commands' = Commands /\ Events' = Events
  BY DEF Commands, CommandOK, Events, EventOK, Busy
<1>4. WordsOK'
  BY <1>3 DEF WordsOK, Spoken
<1>5. WaitsOK'
  BY DEF WaitsOK, Waits, Entry
<1>6. LeaksOK'
  <2> SUFFICES ASSUME NEW c \in Caller PROVE Cardinality(Orphans(c)') <= Bound(c)'
    BY DEF LeaksOK
  <2>1. Orphans(c)' = Orphans(c)
    BY DEF Orphans, Entry
  <2>2. Cardinality(Orphans(c)) <= Bound(c) /\ Bound(c) <= Bound(c)'
    BY <1>0 DEF LeaksOK
  <2>3. Cardinality(Orphans(c)) \in Nat /\ Bound(c) \in Nat /\ Bound(c)' \in Nat
    BY EntryOK DEF Bound
  <2>4. QED
    BY <2>1, <2>2, <2>3
<1>7. QED
  BY <1>1, <1>2, <1>4, <1>5, <1>6 DEF BridgeInv

LEMMA BoundKept ==
    ASSUME NEW c, call' = call,
           \/ sender' = sender /\ (server'.at = "clear" <=> server.at = "clear")
           \/ server.at # "clear" /\ sender' # None
           \/ server.at # "clear" /\ server'.at = "clear" /\ sender' = None
    PROVE  Bound(c) <= Bound(c)'
<1>1. Armed(c)' <=> Armed(c)
  BY DEF Armed
<1>2. QED
  BY <1>1 DEF Bound

LEMMA Serving ==
    ASSUME BridgeInv
    PROVE  /\ server.at # "accept" => server.on \in Conn
           /\ ~server.last => server.at # "accept" /\ server.on \in Conn /\ link[server.on].near
           /\ \A k \in Conn : link[k] \in Socket /\ Spoken(link[k])
           /\ chan \in Seq(Commands) /\ chan \in Seq(Message)
           /\ link = [k \in Conn |-> link[k]] /\ ServerTypeOK /\ PhaseOK /\ SocketsOK /\ WaitsOK
           /\ connected \in BOOLEAN /\ sender \in Conn \cup {None}
           /\ server = [at |-> server.at, on |-> server.on, last |-> server.last]
           /\ server.last \in BOOLEAN
<1>1. /\ ServerTypeOK /\ PhaseOK /\ SocketsOK /\ WaitsOK /\ WordsOK /\ BrokerTypeOK
  BY DEF BridgeInv
<1>2. /\ server.at # "accept" => server.on \in Conn
      /\ ~server.last => server.at # "accept" /\ server.on \in Conn /\ link[server.on].near
  BY <1>1 DEF PhaseOK, ServerTypeOK, SocketsOK
<1>3. \A k \in Conn : link[k] \in Socket /\ Spoken(link[k])
  BY <1>1, SocketOK DEF WordsOK, Spoken
<1>4. chan \in Seq(Commands) /\ chan \in Seq(Message)
  BY <1>1, SeqMono DEF WordsOK, Commands
<1>5. /\ link = [k \in Conn |-> link[k]]
      /\ server = [at |-> server.at, on |-> server.on, last |-> server.last]
      /\ server.last \in BOOLEAN
  BY <1>1 DEF ServerTypeOK
<1>6. QED
  BY <1>1, <1>2, <1>3, <1>4, <1>5 DEF BrokerTypeOK

\* The listener goes on to another of its steps and leaves the sockets alone.
LEMMA GotoKeeps ==
    ASSUME BridgeInv, UNCHANGED <<nextId, call, pending, bridge, link, backlog, chan, chanOpen>>,
           NEW to \in {"spawn", "serve", "disconnect", "unplug", "clear"}, Goto(to), ~At("accept"),
           connected' \in BOOLEAN, PhaseOK',
           \/ At("greet") \/ At("spawn")
           \/ (At("serve") \/ At("disconnect") \/ At("unplug")) /\ to \notin {"spawn", "serve"},
           sender' = IF to = "clear" THEN None ELSE sender
    PROVE  BridgeInv'
<1>0. ServerTypeOK /\ SocketsOK /\ WaitsOK /\ chan \in Seq(Commands) /\ connected' \in BOOLEAN
      /\ (\A k \in Conn : Spoken(link[k])) /\ sender' \in Conn \cup {None}
  BY Serving
<1>1. server' = [server EXCEPT !.at = to]
  BY DEF Goto
<1>2. server'.at = to /\ server'.on = server.on /\ server'.last = server.last
  BY <1>0, <1>1 DEF ServerTypeOK
<1>3. ServerTypeOK'
  BY <1>0, <1>1 DEF ServerTypeOK
<1>4. SocketsOK'
  BY <1>0, <1>2 DEF SocketsOK
<1>5. ASSUME NEW c \in Caller, Waits(c)
      PROVE  \/ server'.at \in {"disconnect", "unplug", "clear"}
             \/ /\ server'.at \in {"greet", "spawn", "serve"}
                /\ ~link'[server'.on].far \/ call[c].id \in Travelling'
  <2>1. \/ server.at \in {"disconnect", "unplug", "clear"}
        \/ ~link[server.on].far \/ call[c].id \in Travelling
    BY <1>0, <1>5 DEF WaitsOK
  <2>2. Travelling' = Travelling
    BY <1>2 DEF Travelling
  <2>3. to \in {"spawn", "serve"} => server.at \notin {"disconnect", "unplug", "clear"}
    BY DEF At
  <2>4. QED
    BY <1>2, <2>1, <2>2, <2>3
<1>6. \A c \in Caller : Bound(c) <= Bound(c)'
  BY <1>2, BoundKept DEF At
<1>7. QED
  BY <1>0, <1>3, <1>4, <1>5, <1>6, ServerKeeps

LEMMA GreetOK == ASSUME BridgeInv, Greet PROVE BridgeInv'
<1>1. PhaseOK /\ server = [at |-> server.at, on |-> server.on, last |-> server.last]
  BY Serving
<1>2. /\ At("greet") /\ Goto("spawn") /\ connected' = TRUE /\ sender' = sender
      /\ UNCHANGED <<nextId, call, pending, bridge, link, backlog, chan, chanOpen>>
  BY DEF Greet, channel
<1>3. PhaseOK'
  BY <1>1, <1>2 DEF PhaseOK, At, Goto
<1>4. QED
  BY <1>2, <1>3, GotoKeeps DEF At

LEMMA SpawnWriterOK == ASSUME BridgeInv, SpawnWriter PROVE BridgeInv'
<1>1. /\ PhaseOK /\ server = [at |-> server.at, on |-> server.on, last |-> server.last]
      /\ connected \in BOOLEAN
  BY Serving
<1>2. /\ At("spawn") /\ Goto("serve") /\ connected' = connected /\ sender' = sender
      /\ UNCHANGED <<nextId, call, pending, bridge, link, backlog, chan, chanOpen>>
  BY DEF SpawnWriter, channel, broker
<1>3. PhaseOK'
  BY <1>1, <1>2 DEF PhaseOK, At, Goto
<1>4. QED
  BY <1>1, <1>2, <1>3, GotoKeeps DEF At

LEMMA SessionEndsOK == ASSUME BridgeInv, SessionEnds PROVE BridgeInv'
<1>1. /\ PhaseOK /\ server = [at |-> server.at, on |-> server.on, last |-> server.last]
      /\ connected \in BOOLEAN
  BY Serving
<1>2. /\ At("serve") /\ Goto("disconnect") /\ connected' = connected /\ sender' = sender
      /\ UNCHANGED <<nextId, call, pending, bridge, link, backlog, chan, chanOpen>>
  BY DEF SessionEnds, channel, broker
<1>3. PhaseOK'
  BY <1>1, <1>2 DEF PhaseOK, At, Goto
<1>4. QED
  BY <1>1, <1>2, <1>3, GotoKeeps DEF At

LEMMA DisconnectOK == ASSUME BridgeInv, Disconnect PROVE BridgeInv'
<1>1. PhaseOK /\ server = [at |-> server.at, on |-> server.on, last |-> server.last]
  BY Serving
<1>2. /\ At("disconnect") /\ Goto("unplug") /\ connected' = FALSE /\ sender' = sender
      /\ UNCHANGED <<nextId, call, pending, bridge, link, backlog, chan, chanOpen>>
  BY DEF Disconnect, channel
<1>3. PhaseOK'
  BY <1>1, <1>2 DEF PhaseOK, At, Goto
<1>4. QED
  BY <1>2, <1>3, GotoKeeps DEF At

LEMMA UnplugOK == ASSUME BridgeInv, Unplug PROVE BridgeInv'
<1>1. /\ PhaseOK /\ server = [at |-> server.at, on |-> server.on, last |-> server.last]
      /\ connected \in BOOLEAN
  BY Serving
<1>2. /\ At("unplug") /\ Goto("clear") /\ connected' = connected /\ sender' = None
      /\ UNCHANGED <<nextId, call, pending, bridge, link, backlog, chan, chanOpen>>
  BY DEF Unplug, channel
<1>3. PhaseOK'
  BY <1>1, <1>2 DEF PhaseOK, At, Goto
<1>4. QED
  BY <1>1, <1>2, <1>3, GotoKeeps DEF At

LEMMA AcceptOK == ASSUME BridgeInv, Accept PROVE BridgeInv'
<1> DEFINE k == Head(backlog)
<1>0. /\ ServerTypeOK /\ PhaseOK /\ SocketsOK /\ WaitsOK /\ chan \in Seq(Commands)
      /\ (\A j \in Conn : Spoken(link[j])) /\ connected \in BOOLEAN
      /\ sender \in Conn \cup {None}
  BY Serving
<1>1. /\ server.at = "accept" /\ backlog # <<>> /\ backlog' = Tail(backlog)
      /\ server' = [at |-> "hello", on |-> k, last |-> FALSE]
      /\ UNCHANGED <<connected, sender, nextId, call, pending, bridge, link, chan, chanOpen>>
  BY DEF Accept, At, channel, broker
<1>2. /\ backlog \in Seq(Conn) /\ k \in Conn /\ backlog' \in Seq(Conn) /\ k = backlog[1]
      /\ 1 \in DOMAIN backlog
      /\ \A i \in DOMAIN backlog' : /\ i + 1 \in DOMAIN backlog /\ i + 1 # 1
                                    /\ backlog'[i] = backlog[i + 1]
      /\ \A i, j \in DOMAIN backlog' : i + 1 = j + 1 => i = j
  BY <1>0, <1>1 DEF ServerTypeOK
<1> HIDE DEF k
<1>3. ServerTypeOK'
  BY <1>0, <1>1, <1>2 DEF ServerTypeOK
<1>4. PhaseOK'
  BY <1>0, <1>1, <1>2, Constants DEF PhaseOK
<1>5. SocketsOK'
  <2>1. \A i \in DOMAIN backlog' : link[backlog'[i]].near /\ backlog'[i] # k
    BY <1>0, <1>2 DEF SocketsOK
  <2>2. \A i, j \in DOMAIN backlog' : backlog'[i] = backlog'[j] => i = j
    BY <1>0, <1>2 DEF SocketsOK
  <2>3. link[k].near
    BY <1>0, <1>2 DEF SocketsOK
  <2>4. QED
    BY <1>1, <2>1, <2>2, <2>3 DEF SocketsOK
<1>6. \A c \in Caller : ~Waits(c)
  BY <1>0, <1>1 DEF WaitsOK
<1>7. \A c \in Caller : Bound(c) <= Bound(c)'
  BY <1>1, BoundKept
<1>8. QED
  BY <1>0, <1>1, <1>3, <1>4, <1>5, <1>6, <1>7, ServerKeeps

LEMMA AttachOK == ASSUME BridgeInv, Attach PROVE BridgeInv'
<1> DEFINE k == server.on
           l == [link[k] EXCEPT !.events = Tail(@)]
<1>0. /\ ServerTypeOK /\ PhaseOK /\ SocketsOK /\ WaitsOK
      /\ (\A j \in Conn : link[j] \in Socket /\ Spoken(link[j]))
      /\ server = [at |-> server.at, on |-> server.on, last |-> server.last]
      /\ link = [j \in Conn |-> link[j]]
  BY Serving
<1>1. /\ server.at = "hello" /\ link[k].events # <<>> /\ link' = [link EXCEPT ![k] = l]
      /\ sender' = k /\ connected' = FALSE /\ chan' = <<>> /\ chanOpen' = TRUE
      /\ server' = [server EXCEPT !.at = "greet"]
      /\ UNCHANGED <<nextId, call, pending, bridge, backlog>>
  BY DEF Attach, At, Goto
<1>2. k \in Conn /\ ~server.last
  BY <1>1, Serving DEF PhaseOK, ServerTypeOK
<1>3. l \in Socket /\ l.far = link[k].far /\ l.near = link[k].near /\ Spoken(l)
  <2>1. link[k].events \in Seq(Event) /\ Tail(link[k].events) \in Seq(Event)
    BY <1>0, <1>1, <1>2 DEF Socket
  <2>2. link[k].near => Tail(link[k].events) \in Seq(Events)
    BY <1>0, <1>1, <1>2 DEF Spoken
  <2>3. QED
    BY <1>0, <1>2, <2>1, <2>2 DEF Socket, Spoken
<1>4. link'[k] = l /\ \A j \in Conn \ {k} : link'[j] = link[j]
  BY <1>0, <1>1, <1>2
<1> HIDE DEF l
<1>5. ServerTypeOK'
  BY <1>0, <1>1, <1>3 DEF ServerTypeOK
<1>6. server'.at = "greet" /\ server'.on = k /\ server'.last = server.last
  BY <1>0, <1>1
<1>7. PhaseOK'
  BY <1>0, <1>1, <1>2, <1>6, Constants DEF PhaseOK
<1>8. SocketsOK'
  <2>1. \A j \in Conn : link'[j].near = link[j].near
    BY <1>3, <1>4
  <2>2. \A i \in DOMAIN backlog : backlog[i] \in Conn
    BY <1>0 DEF ServerTypeOK
  <2>3. QED
    BY <1>0, <1>1, <1>2, <1>6, <2>1, <2>2 DEF SocketsOK
<1>9. \A c \in Caller : ~Waits(c)
  BY <1>0, <1>1 DEF WaitsOK
<1>10. \A c \in Caller : Bound(c) <= Bound(c)'
  BY <1>1, <1>2, Constants, BoundKept
<1>11. \A j \in Conn : Spoken(link'[j])
  BY <1>0, <1>3, <1>4
<1>12. chan' \in Seq(Commands)
  BY <1>1
<1>13. QED
  BY <1>1, <1>2, <1>5, <1>7, <1>8, <1>9, <1>10, <1>11, <1>12, ServerKeeps

\* The listener drops the stream it serves.
LEMMA HangupOK ==
    ASSUME BridgeInv, ~server.last, Hangup,
           UNCHANGED <<connected, sender, nextId, call, pending, bridge, backlog>>,
           chan' \in {chan, <<>>}, chanOpen' \in BOOLEAN,
           At("hello") \/ At("spawn") \/ At("join")
    PROVE  BridgeInv'
<1> DEFINE k == server.on
<1>0. /\ ServerTypeOK /\ PhaseOK /\ SocketsOK /\ WaitsOK /\ chan \in Seq(Commands)
      /\ (\A j \in Conn : link[j] \in Socket /\ Spoken(link[j])) /\ k \in Conn
      /\ server = [at |-> server.at, on |-> server.on, last |-> server.last]
      /\ link = [j \in Conn |-> link[j]] /\ connected \in BOOLEAN /\ sender \in Conn \cup {None}
  BY Serving
<1>1. /\ server'.at = "disconnect" /\ server'.on = k /\ server'.last = TRUE
      /\ server' = [at |-> "disconnect", on |-> k, last |-> TRUE]
      /\ link'[k] = CloseNear(k) /\ \A j \in Conn \ {k} : link'[j] = link[j]
      /\ link' = [link EXCEPT ![k] = CloseNear(k)]
  BY <1>0 DEF Hangup
<1>2. CloseNear(k) \in Socket /\ ~CloseNear(k).near
  BY <1>0, SocketOK
<1>3. ServerTypeOK'
  BY <1>0, <1>1, <1>2 DEF ServerTypeOK
<1>4. PhaseOK'
  BY <1>0, <1>1, Constants DEF PhaseOK, At
<1>5. SocketsOK'
  <2>1. \A i \in DOMAIN backlog : backlog[i] \in Conn /\ backlog[i] # k
    BY <1>0 DEF ServerTypeOK, SocketsOK
  <2>2. QED
    BY <1>0, <1>1, <2>1 DEF SocketsOK
<1>6. \A j \in Conn : Spoken(link'[j])
  BY <1>0, <1>1, <1>2 DEF Spoken
<1>7. \A c \in Caller : Bound(c) <= Bound(c)'
  BY <1>1, BoundKept DEF At
<1>8. chan' \in Seq(Commands)
  <2>1. <<>> \in Seq(Commands)
    OBVIOUS
  <2>2. QED
    BY <1>0, <2>1
<1>9. QED
  BY <1>0, <1>1, <1>3, <1>4, <1>5, <1>6, <1>7, <1>8, ServerKeeps

LEMMA StreamIsDropped == ASSUME BridgeInv, NoHello \/ SpawnFails \/ Join PROVE BridgeInv'
<1>1. chanOpen \in BOOLEAN /\ PhaseOK
  BY DEF BridgeInv, ServerTypeOK
<1>2. /\ Hangup /\ (At("hello") \/ At("spawn") \/ At("join"))
      /\ UNCHANGED <<connected, sender, nextId, call, pending, bridge, backlog>>
      /\ chan' \in {chan, <<>>} /\ chanOpen' \in BOOLEAN
  BY <1>1 DEF NoHello, SpawnFails, Join, broker, channel
<1>3. ~server.last
  BY <1>1, <1>2 DEF PhaseOK, At
<1>4. QED
  BY <1>2, <1>3, HangupOK

LEMMA WriterOK == ASSUME BridgeInv, Writer PROVE BridgeInv'
<1> DEFINE k == server.on
           m == Head(chan)
           l == [link[k] EXCEPT !.commands = Append(@, m)]
<1>0. /\ ServerTypeOK /\ PhaseOK /\ SocketsOK /\ WaitsOK /\ chan \in Seq(Commands)
      /\ chan \in Seq(Message) /\ link = [j \in Conn |-> link[j]]
      /\ (\A j \in Conn : link[j] \in Socket /\ Spoken(link[j])) /\ k \in Conn
      /\ connected \in BOOLEAN /\ sender \in Conn \cup {None} /\ link[k].near
  BY Serving DEF Writer
<1>1. UNCHANGED <<connected, sender, pending, nextId, call, server, backlog, bridge>>
      /\ ~server.last
  BY DEF Writer, broker
<1>2. \A c \in Caller : Bound(c) <= Bound(c)'
  BY <1>1, BoundKept
<1>3. PhaseOK'
  BY <1>0, <1>1 DEF PhaseOK
<1>4. CASE chan # <<>> /\ chan' = Tail(chan) /\ UNCHANGED chanOpen /\ link' = [link EXCEPT ![k] = l]
  <2>1. /\ m \in Commands /\ m \in Message /\ Tail(chan) \in Seq(Commands)
        /\ Tail(chan) \in Seq(Message)
    BY <1>0, <1>4
  <2>2. link[k].commands \in Seq(Message) /\ link[k].commands \in Seq(Commands)
    BY <1>0 DEF Socket, Spoken
  <2>3. Append(link[k].commands, m) \in Seq(Message) /\ Append(link[k].commands, m) \in Seq(Commands)
    BY <2>1, <2>2
  <2>4. Ids(Append(link[k].commands, m)) = Ids(link[k].commands) \cup {m.id}
    BY <2>1, <2>2, IdsAppend
  <2>5. Ids(chan) = {m.id} \cup Ids(Tail(chan))
    BY <1>0, <1>4, IdsHead
  <2> HIDE DEF m
  <2>6. /\ l \in Socket /\ l.far = link[k].far /\ l.near = link[k].near /\ Spoken(l)
        /\ l.commands = Append(link[k].commands, m) /\ l.events = link[k].events
    BY <1>0, <2>3 DEF Socket, Spoken
  <2>7. link'[k] = l /\ \A j \in Conn \ {k} : link'[j] = link[j]
    BY <1>0, <1>4
  <2> HIDE DEF l
  <2>8. ServerTypeOK'
    BY <1>0, <1>1, <1>4, <2>6 DEF ServerTypeOK
  <2>9. SocketsOK'
    <3>1. \A j \in Conn : link'[j].near = link[j].near
      BY <2>6, <2>7
    <3>2. \A i \in DOMAIN backlog : backlog[i] \in Conn
      BY <1>0 DEF ServerTypeOK
    <3>3. QED
      BY <1>0, <1>1, <3>1, <3>2 DEF SocketsOK
  <2>10. Travelling' = Travelling
    BY <1>1, <1>4, <2>4, <2>5, <2>6, <2>7 DEF Travelling
  <2>11. \A j \in Conn : Spoken(link'[j])
    BY <1>0, <2>6, <2>7
  <2>12. link'[k].far = link[k].far
    BY <2>6, <2>7
  <2>13. chan' \in Seq(Commands)
    BY <1>4, <2>1
  <2>14. \A c \in Caller : Waits(c) =>
                \/ server'.at \in {"disconnect", "unplug", "clear"}
                \/ /\ server'.at \in {"greet", "spawn", "serve"}
                   /\ ~link'[server'.on].far \/ call[c].id \in Travelling'
    BY <1>0, <1>1, <2>10, <2>12 DEF WaitsOK
  <2>15. QED
    BY <1>0, <1>1, <1>2, <1>3, <2>8, <2>9, <2>11, <2>13, <2>14, ServerKeeps
<1>5. CASE /\ chan' = <<>> /\ chanOpen' = FALSE /\ UNCHANGED link
           /\ chan = <<>> \/ ~link[k].far
  <2>1. ServerTypeOK' /\ SocketsOK'
    BY <1>0, <1>1, <1>5 DEF ServerTypeOK, SocketsOK
  <2>2. chan' \in Seq(Commands)
    BY <1>5
  <2>3. link[k].far => Travelling' = Travelling
    BY <1>1, <1>5 DEF Travelling
  <2>4. \A c \in Caller : Waits(c) =>
                \/ server'.at \in {"disconnect", "unplug", "clear"}
                \/ /\ server'.at \in {"greet", "spawn", "serve"}
                   /\ ~link'[server'.on].far \/ call[c].id \in Travelling'
    BY <1>0, <1>1, <1>5, <2>3 DEF WaitsOK
  <2>5. QED
    BY <1>0, <1>1, <1>2, <1>3, <1>5, <2>1, <2>2, <2>4, ServerKeeps
<1>6. QED
  BY <1>4, <1>5 DEF Writer

\* finish_request: the caller that is handed the reply has sent the command it answers.
LEMMA HandleEventOK == ASSUME BridgeInv, HandleEvent PROVE BridgeInv'
<1> DEFINE k == server.on
           e == Head(link[k].events)
           l == [link[k] EXCEPT !.events = Tail(@)]
           hit == {c \in Caller : Entry(c) \in Registered(e)}
<1>0. /\ BrokerTypeOK /\ ServerTypeOK /\ CallsOK /\ WordsOK /\ PhaseOK /\ SocketsOK /\ WaitsOK
      /\ LeaksOK
  BY DEF BridgeInv
<1>1. /\ server.at = "serve" /\ link[k].events # <<>>
      /\ call' = [c \in Caller |-> IF c \in hit THEN [call[c] EXCEPT !.got = e] ELSE call[c]]
      /\ pending' = pending \ Registered(e) /\ link' = [link EXCEPT ![k] = l]
      /\ UNCHANGED <<connected, sender, nextId, chan, chanOpen, server, backlog, bridge>>
  BY DEF HandleEvent, At, channel, Delivered
<1>2. /\ k \in Conn /\ ~server.last /\ link[k].near /\ link[k] \in Socket
      /\ link[k].events \in Seq(Events) /\ link[k].commands \in Seq(Commands)
      /\ link = [j \in Conn |-> link[j]]
  BY <1>0, <1>1, Serving DEF PhaseOK, WordsOK
<1>3. e \in Events /\ e \in Event /\ EventOK(e) /\ Tail(link[k].events) \in Seq(Events)
  BY <1>1, <1>2 DEF Events
<1>4. Ids(link[k].events) = {e.id} \cup Ids(Tail(link[k].events))
  BY <1>1, <1>2, IdsHead
<1> HIDE DEF e
<1>5. /\ l \in Socket /\ l.far = link[k].far /\ l.near = link[k].near
      /\ l.commands = link[k].commands /\ l.events = Tail(link[k].events)
  <2>1. Tail(link[k].events) \in Seq(Event)
    BY <1>3, SeqMono DEF Events
  <2>2. QED
    BY <1>2, <2>1 DEF Socket
<1> HIDE DEF l
<1>6. link'[k] = l /\ \A j \in Conn \ {k} : link'[j] = link[j]
  BY <1>1, <1>2
<1>7. \A c \in Caller : c \in hit <=> Entry(c) \in pending /\ call[c].id = e.id
  BY DEF Registered, Entry
<1>8. \A c \in hit : /\ c \in Caller /\ call[c].id = e.id /\ Busy(c) /\ call[c].at = "wait"
                     /\ e.type = ReplyTo(call[c].cmd) /\ e.on = call[c].cmd.on
  <2> TAKE c \in hit
  <2>1. Busy(c) /\ call[c].id = e.id /\ c \in Caller
    BY <1>7, EntryOK
  <2>2. QED
    BY <1>3, <2>1 DEF EventOK
<1> HIDE DEF hit
<1>9. \A c \in Caller :
          /\ call[c] \in CallState /\ call'[c] \in CallState
          /\ call'[c].at = call[c].at /\ call'[c].id = call[c].id /\ call'[c].cmd = call[c].cmd
          /\ c \in hit => call'[c].got = e
          /\ c \notin hit => call'[c] = call[c]
  <2> TAKE c \in Caller
  <2>1. call[c] \in CallState /\ e \in Event
    BY <1>0, <1>3 DEF BrokerTypeOK
  <2>2. call'[c] = IF c \in hit THEN [call[c] EXCEPT !.got = e] ELSE call[c]
    BY <1>1
  <2>3. QED
    BY <2>1, <2>2 DEF CallState
<1>10. BrokerTypeOK'
  <2>1. call' \in [Caller -> CallState]
    BY <1>1, <1>9
  <2>2. IsFiniteSet(pending')
    BY <1>0, <1>1, FS_Subset DEF BrokerTypeOK
  <2>3. QED
    BY <1>0, <1>1, <2>1, <2>2 DEF BrokerTypeOK
<1>11. ServerTypeOK'
  BY <1>0, <1>1, <1>5 DEF ServerTypeOK
<1>12. \A c \in Caller : /\ Entry(c)' = Entry(c) /\ (Busy(c)' <=> Busy(c))
                         /\ Entry(c)' \in pending' <=> Entry(c) \in pending /\ call[c].id # e.id
  <2> TAKE c \in Caller
  <2>1. Entry(c)' = Entry(c) /\ Entry(c).id = call[c].id
    BY <1>9 DEF Entry
  <2>2. Busy(c)' <=> Busy(c)
    BY <1>9 DEF Busy
  <2>3. QED
    BY <1>1, <2>1, <2>2 DEF Registered
<1>13. CallsOK'
  <2>1. ASSUME NEW c \in Caller
        PROVE  /\ ~Busy(c)' => call'[c] = Idle
               /\ Busy(c)' => call'[c].id \in 1 .. nextId' - 1 /\ call'[c].cmd \in Asked
               /\ call'[c].got # None =>
                    /\ call'[c].at = "wait" /\ Entry(c)' \notin pending'
                    /\ call'[c].got.id = call'[c].id /\ call'[c].got.type = ReplyTo(call'[c].cmd)
                    /\ call'[c].got.on = call'[c].cmd.on
    <3>1. CASE c \in hit
      <4>1. /\ Busy(c) /\ call[c].at = "wait" /\ call[c].id = e.id
            /\ e.type = ReplyTo(call[c].cmd) /\ e.on = call[c].cmd.on
        BY <1>8, <3>1
      <4>2. call'[c].got = e /\ Entry(c)' \notin pending' /\ Busy(c)'
        BY <1>9, <1>12, <3>1, <4>1
      <4>3. call[c].id \in 1 .. nextId - 1 /\ call[c].cmd \in Asked /\ nextId' = nextId
        BY <1>0, <1>1, <4>1 DEF CallsOK
      <4>4. call'[c].at = call[c].at /\ call'[c].id = call[c].id /\ call'[c].cmd = call[c].cmd
        BY <1>9
      <4>5. QED
        BY <4>1, <4>2, <4>3, <4>4
    <3>2. CASE c \notin hit
      BY <1>0, <1>1, <1>9, <1>12, <3>2 DEF CallsOK
    <3>3. QED
      BY <3>1, <3>2
  <2>2. \A c, d \in Caller : Busy(c)' /\ Busy(d)' /\ call'[c].id = call'[d].id => c = d
    BY <1>0, <1>9, <1>12 DEF CallsOK
  <2>3. QED
    BY <2>1, <2>2 DEF CallsOK
<1>14. Commands \subseteq Commands' /\ Events \subseteq Events'
  <2>1. nextId \in Nat /\ nextId' \in Nat /\ nextId <= nextId'
    BY <1>0, <1>1, Constants DEF BrokerTypeOK
  <2>2. \A c \in Caller : Busy(c)' =>
           /\ Busy(c) /\ call'[c].id = call[c].id /\ call'[c].cmd = call[c].cmd
           /\ call[c].at = "wait" => call'[c].at = "wait"
    BY <1>9, <1>12
  <2>3. QED
    BY <2>1, <2>2, WordsGrow
<1>15. WordsOK'
  <2>1. chan' \in Seq(Commands')
    BY <1>0, <1>1, <1>14, SeqMono DEF WordsOK
  <2>2. \A j \in Conn : link'[j].near => link'[j].commands \in Seq(Commands)
                                          /\ link'[j].events \in Seq(Events)
    BY <1>0, <1>2, <1>3, <1>5, <1>6 DEF WordsOK
  <2>3. \A j \in Conn : link'[j].near => link'[j].commands \in Seq(Commands')
                                          /\ link'[j].events \in Seq(Events')
    BY <1>14, <2>2, SeqMono
  <2>4. QED
    BY <2>1, <2>3 DEF WordsOK
<1>16. PhaseOK' /\ SocketsOK'
  <2>1. \A j \in Conn : link'[j].near = link[j].near
    BY <1>5, <1>6
  <2>2. \A i \in DOMAIN backlog : backlog[i] \in Conn
    BY <1>0 DEF ServerTypeOK
  <2>3. QED
    BY <1>0, <1>1, <1>2, <2>1, <2>2 DEF PhaseOK, SocketsOK
<1>17. WaitsOK'
  <2> SUFFICES ASSUME NEW c \in Caller, Waits(c)'
               PROVE  ~link'[k].far \/ call'[c].id \in Travelling'
    BY <1>1 DEF WaitsOK
  <2>1. Waits(c) /\ call[c].id # e.id
    BY <1>7, <1>9, <1>12 DEF Waits
  <2>2. ~link[k].far \/ call[c].id \in Travelling
    BY <1>0, <1>1, <2>1 DEF WaitsOK
  <2>3. Travelling \subseteq Travelling' \cup {e.id}
    BY <1>1, <1>4, <1>5, <1>6 DEF Travelling
  <2>4. QED
    BY <1>5, <1>6, <1>9, <2>1, <2>2, <2>3
<1>18. LeaksOK'
  <2> SUFFICES ASSUME NEW c \in Caller PROVE Cardinality(Orphans(c)') <= Bound(c)'
    BY DEF LeaksOK
  <2>1. Orphans(c)' \subseteq Orphans(c)
    BY <1>1, <1>12 DEF Orphans
  <2>2. IsFiniteSet(Orphans(c)) /\ Cardinality(Orphans(c)) \in Nat
    BY EntryOK
  <2>3. Cardinality(Orphans(c)') <= Cardinality(Orphans(c)) /\ Cardinality(Orphans(c)') \in Nat
    BY <2>1, <2>2, FS_Subset, FS_CardinalityType
  <2>4. Bound(c)' = Bound(c) /\ Bound(c) \in Nat
    BY <1>1, <1>9 DEF Bound, Armed
  <2>5. QED
    BY <1>0, <2>2, <2>3, <2>4 DEF LeaksOK
<1>19. QED
  BY <1>10, <1>11, <1>13, <1>15, <1>16, <1>17, <1>18 DEF BridgeInv

LEMMA ClearOK == ASSUME BridgeInv, Clear PROVE BridgeInv'
<1>0. /\ BrokerTypeOK /\ ServerTypeOK /\ CallsOK /\ WordsOK /\ PhaseOK /\ SocketsOK
      /\ server = [at |-> server.at, on |-> server.on, last |-> server.last]
  BY Serving DEF BridgeInv
<1>1. /\ server.at = "clear" /\ pending' = {}
      /\ server' = IF server.last THEN [at |-> "accept", on |-> None, last |-> TRUE]
                   ELSE [server EXCEPT !.at = "join"]
      /\ UNCHANGED <<connected, sender, nextId, call, chan, chanOpen, backlog, link, bridge>>
  BY DEF Clear, At, channel
<1>2. IF server.last THEN server' = [at |-> "accept", on |-> None, last |-> TRUE]
      ELSE server' = [at |-> "join", on |-> server.on, last |-> FALSE]
  BY <1>0, <1>1, Serving
<1>3. BrokerTypeOK'
  BY <1>0, <1>1, FS_EmptySet DEF BrokerTypeOK
<1>4. ServerTypeOK'
  BY <1>0, <1>1, <1>2 DEF ServerTypeOK
<1>5. CallsOK'
  BY <1>0, <1>1 DEF CallsOK, Busy, Entry
<1>6. WordsOK'
  <2>1. Commands' = Commands /\ Events' = Events
    BY <1>1 DEF Commands, CommandOK, Events, EventOK, Busy
  <2>2. QED
    BY <1>0, <1>1, <2>1 DEF WordsOK
<1>7. PhaseOK' /\ SocketsOK'
  BY <1>0, <1>1, <1>2 DEF PhaseOK, SocketsOK
<1>8. WaitsOK'
  BY <1>1 DEF WaitsOK, Waits
<1>9. LeaksOK'
  <2> SUFFICES ASSUME NEW c \in Caller PROVE Cardinality(Orphans(c)') <= Bound(c)'
    BY DEF LeaksOK
  <2>1. Orphans(c)' = {}
    BY <1>1 DEF Orphans
  <2>2. QED
    BY <2>1, FS_EmptySet DEF Bound
<1>10. QED
  BY <1>3, <1>4, <1>5, <1>6, <1>7, <1>8, <1>9 DEF BridgeInv

-----------------------------------------------------------------------------
(* The bridge processes. *)

ProcState == [at : {"down", "idle", "hello", "loop"}, on : Conn \cup {None}]

ProcsOK(b) ==
    b \in [Proc -> ProcState] /\ \A p \in Proc : b[p].at \in {"hello", "loop"} => b[p].on \in Conn

LEMMA ProcMoves ==
    ASSUME ServerTypeOK, NEW p \in Proc, NEW s \in ProcState,
           s.at \in {"hello", "loop"} => s.on \in Conn
    PROVE  ProcsOK([bridge EXCEPT ![p] = s])
<1>1. bridge \in [Proc -> ProcState]
  BY DEF ServerTypeOK, ProcState
<1>2. [bridge EXCEPT ![p] = s] \in [Proc -> ProcState]
  BY <1>1
<1>3. ASSUME NEW q \in Proc, [bridge EXCEPT ![p] = s][q].at \in {"hello", "loop"}
      PROVE  [bridge EXCEPT ![p] = s][q].on \in Conn
  <2>1. CASE q = p
    BY <1>1, <1>3, <2>1
  <2>2. CASE q # p
    BY <1>1, <1>3, <2>2 DEF ServerTypeOK
  <2>3. QED
    BY <2>1, <2>2
<1>4. QED
  BY <1>2, <1>3 DEF ProcsOK

\* A step of a process: what it hears and says on one socket, which it may have opened.
LEMMA ProcKeeps ==
    ASSUME BridgeInv, UNCHANGED <<connected, sender, pending, nextId, call, chan, chanOpen, server>>,
           ProcsOK(bridge'), NEW k \in Conn, NEW l \in Socket, Spoken(l),
           link' = [link EXCEPT ![k] = l],
           \/ backlog' = backlog /\ l.near = link[k].near
           \/ backlog' = Append(backlog, k) /\ ~link[k].near /\ l.near,
           link[k].near =>
                \/ ~l.far
                \/ /\ l.far = link[k].far
                   /\ Ids(link[k].commands) \cup Ids(link[k].events)
                        \subseteq Ids(l.commands) \cup Ids(l.events)
    PROVE  BridgeInv'
<1>0. /\ ServerTypeOK /\ PhaseOK /\ SocketsOK /\ WaitsOK /\ chan \in Seq(Commands)
      /\ (\A j \in Conn : link[j] \in Socket /\ Spoken(link[j]))
      /\ link = [j \in Conn |-> link[j]] /\ connected \in BOOLEAN /\ sender \in Conn \cup {None}
      /\ (~server.last => server.on \in Conn /\ link[server.on].near)
      /\ backlog \in Seq(Conn)
  BY Serving DEF ServerTypeOK
<1>1. link'[k] = l /\ \A j \in Conn \ {k} : link'[j] = link[j]
  BY <1>0
<1>2. link' \in [Conn -> Socket]
  BY <1>0
<1>3. backlog' \in Seq(Conn)
  BY <1>0
<1>4. ServerTypeOK'
  BY <1>0, <1>2, <1>3 DEF ServerTypeOK, ProcsOK, ProcState
<1>5. PhaseOK'
  BY <1>0 DEF PhaseOK
<1>6. \A j \in Conn : link[j].near => link'[j].near
  BY <1>1
<1>7. SocketsOK'
  <2>1. \A i \in DOMAIN backlog : backlog[i] \in Conn /\ link[backlog[i]].near
    BY <1>0 DEF SocketsOK
  <2>2. CASE backlog' = backlog
    BY <1>0, <1>6, <2>1, <2>2 DEF SocketsOK
  <2>3. CASE backlog' = Append(backlog, k) /\ ~link[k].near /\ l.near
    <3>1. \A i \in DOMAIN backlog' : \/ i \in DOMAIN backlog /\ backlog'[i] = backlog[i]
                                     \/ i = Len(backlog) + 1 /\ backlog'[i] = k
      BY <1>0, <2>3
    <3>2. \A i \in DOMAIN backlog : backlog[i] # k
      BY <2>1, <2>3
    <3>3. ~server.last => k # server.on
      BY <1>0, <2>3
    <3>4. \A i \in DOMAIN backlog' : link'[backlog'[i]].near
      BY <1>1, <1>6, <2>1, <2>3, <3>1
    <3>5. \A i, j \in DOMAIN backlog' : backlog'[i] = backlog'[j] => i = j
      BY <1>0, <3>1, <3>2 DEF SocketsOK
    <3>6. ~server.last => link'[server.on].near /\ \A i \in DOMAIN backlog' : backlog'[i] # server.on
      BY <1>0, <1>6, <3>1, <3>3 DEF SocketsOK
    <3>7. QED
      BY <3>4, <3>5, <3>6 DEF SocketsOK
  <2>4. QED
    BY <2>2, <2>3
<1>8. \A j \in Conn : Spoken(link'[j])
  BY <1>0, <1>1
<1>9. ASSUME NEW c \in Caller, Waits(c)
      PROVE  \/ server'.at \in {"disconnect", "unplug", "clear"}
             \/ /\ server'.at \in {"greet", "spawn", "serve"}
                /\ ~link'[server'.on].far \/ call[c].id \in Travelling'
  <2>1. CASE server.at \in {"disconnect", "unplug", "clear"}
    BY <2>1
  <2>2. CASE server.at \notin {"disconnect", "unplug", "clear"}
    <3>1. /\ server.at \in {"greet", "spawn", "serve"}
          /\ ~link[server.on].far \/ call[c].id \in Travelling
      BY <1>0, <1>9, <2>2 DEF WaitsOK
    <3>2. ~server.last
      BY <1>0, <3>1 DEF PhaseOK
    <3>3. server.on \in Conn /\ link[server.on].near
      BY <1>0, <3>2
    <3>4. CASE server.on = k
      <4>1. ~l.far \/ (l.far = link[k].far /\ Travelling \subseteq Travelling')
        BY <1>1, <3>3, <3>4 DEF Travelling
      <4>2. QED
        BY <1>1, <3>1, <3>4, <4>1
    <3>5. CASE server.on # k
      BY <1>1, <3>1, <3>3, <3>5 DEF Travelling
    <3>6. QED
      BY <3>4, <3>5
  <2>3. QED
    BY <2>1, <2>2
<1>10. \A c \in Caller : Bound(c) <= Bound(c)'
  BY BoundKept
<1>11. QED
  BY <1>0, <1>4, <1>5, <1>7, <1>8, <1>9, <1>10, ServerKeeps

\* A step that leaves the daemon and the sockets alone.
LEMMA Elsewhere ==
    ASSUME BridgeInv, ProcsOK(bridge'),
           UNCHANGED <<connected, sender, pending, nextId, call, chan, chanOpen, server, backlog, link>>
    PROVE  BridgeInv'
<1>0. /\ ServerTypeOK /\ PhaseOK /\ SocketsOK /\ WaitsOK /\ chan \in Seq(Commands)
      /\ (\A j \in Conn : Spoken(link[j]))
      /\ connected \in BOOLEAN /\ sender \in Conn \cup {None}
  BY Serving
<1>1. ServerTypeOK' /\ PhaseOK' /\ SocketsOK'
  BY <1>0 DEF ServerTypeOK, PhaseOK, SocketsOK, ProcsOK, ProcState
<1>2. Travelling' = Travelling
  BY DEF Travelling
<1>3. \A c \in Caller : Bound(c) <= Bound(c)'
  BY BoundKept
<1>4. \A c \in Caller : Waits(c) =>
          \/ server'.at \in {"disconnect", "unplug", "clear"}
          \/ /\ server'.at \in {"greet", "spawn", "serve"}
             /\ ~link'[server'.on].far \/ call[c].id \in Travelling'
  BY <1>0, <1>2 DEF WaitsOK
<1>5. QED
  BY <1>0, <1>1, <1>3, <1>4, ServerKeeps

\* A process closes its socket, or the kernel does when it dies.
LEMMA CloseOK ==
    ASSUME BridgeInv, NEW p \in Proc, NEW s \in ProcState, s.at \in {"idle", "down"},
           bridge[p].on \in Conn, bridge' = [bridge EXCEPT ![p] = s],
           link' = [link EXCEPT ![bridge[p].on] = CloseFar(bridge[p].on)],
           UNCHANGED <<connected, sender, pending, nextId, call, chan, chanOpen, server, backlog>>
    PROVE  BridgeInv'
<1> DEFINE k == bridge[p].on
<1>0. ServerTypeOK /\ k \in Conn /\ Spoken(link[k])
  BY Serving
<1>1. /\ CloseFar(k) \in Socket /\ ~CloseFar(k).far /\ CloseFar(k).near = link[k].near
      /\ link[k].near => CloseFar(k).events = link[k].events /\ CloseFar(k).commands = <<>>
  BY <1>0, SocketOK
<1>2. Spoken(CloseFar(k))
  <2>1. <<>> \in Seq(Commands)
    OBVIOUS
  <2>2. QED
    BY <1>0, <1>1, <2>1 DEF Spoken
<1>3. ProcsOK(bridge')
  BY <1>0, ProcMoves
<1>4. QED
  BY <1>0, <1>1, <1>2, <1>3, ProcKeeps

LEMMA DropOK ==
    ASSUME BridgeInv, NEW p \in Proc, bridge[p].at \in {"hello", "loop"}, Drop(p),
           UNCHANGED <<connected, sender, pending, nextId, call, chan, chanOpen, server, backlog>>
    PROVE  BridgeInv'
<1>1. bridge[p].on \in Conn
  BY DEF BridgeInv, ServerTypeOK
<1>2. [at |-> "idle", on |-> None] \in ProcState
  BY DEF ProcState
<1>3. QED
  BY <1>1, <1>2, CloseOK DEF Drop

LEMMA DieOK == ASSUME BridgeInv, NEW p \in Proc, Die(p) PROVE BridgeInv'
<1> DEFINE s == [at |-> "down", on |-> None]
<1>1. /\ UNCHANGED <<connected, sender, pending, nextId, call, chan, chanOpen, server, backlog>>
      /\ bridge' = [bridge EXCEPT ![p] = s]
  BY DEF Die, broker, channel
<1>2. ServerTypeOK /\ s \in ProcState
  BY DEF BridgeInv, ProcState
<1> HIDE DEF s
<1>3. CASE bridge[p].on = None
  <2>1. ProcsOK(bridge')
    BY <1>1, <1>2, ProcMoves DEF s
  <2>2. link' = link
    BY <1>3 DEF Die
  <2>3. QED
    BY <1>1, <2>1, <2>2, Elsewhere
<1>4. CASE bridge[p].on # None
  <2>1. bridge[p].on \in Conn
    BY <1>2, <1>4 DEF ServerTypeOK
  <2>2. link' = [link EXCEPT ![bridge[p].on] = CloseFar(bridge[p].on)]
    BY <1>4 DEF Die
  <2>3. s.at = "down"
    BY DEF s
  <2>4. QED
    BY <1>1, <1>2, <2>1, <2>2, <2>3, CloseOK
<1>5. QED
  BY <1>3, <1>4

LEMMA SpawnOK == ASSUME BridgeInv, NEW p \in Proc, Spawn(p) PROVE BridgeInv'
<1> DEFINE s == [bridge[p] EXCEPT !.at = "idle"]
<1>1. ServerTypeOK /\ bridge[p] \in ProcState
  BY DEF BridgeInv, ServerTypeOK, ProcState
<1>2. s \in ProcState /\ s.at = "idle"
  BY <1>1 DEF ProcState
<1>3. /\ UNCHANGED <<connected, sender, pending, nextId, call, chan, chanOpen, server, backlog, link>>
      /\ bridge' = [bridge EXCEPT ![p] = s]
  BY DEF Spawn, broker, channel
<1> HIDE DEF s
<1>4. ProcsOK(bridge')
  BY <1>1, <1>2, <1>3, ProcMoves
<1>5. QED
  BY <1>3, <1>4, Elsewhere

LEMMA ConnectOK == ASSUME BridgeInv, NEW p \in Proc, Connect(p) PROVE BridgeInv'
<1>0. ServerTypeOK /\ link = [j \in Conn |-> link[j]]
  BY Serving
<1>1. PICK k \in Conn : /\ link[k] = FreeLink /\ backlog' = Append(backlog, k)
                        /\ link' = [link EXCEPT ![k].far = TRUE, ![k].near = TRUE]
                        /\ bridge' = [bridge EXCEPT ![p] = [at |-> "hello", on |-> k]]
  BY DEF Connect
<1>2. UNCHANGED <<connected, sender, pending, nextId, call, chan, chanOpen, server>>
  BY DEF Connect, broker, channel
<1> DEFINE l == [link[k] EXCEPT !.far = TRUE, !.near = TRUE]
<1>3. link[k] \in Socket /\ ~link[k].near /\ link[k].commands = <<>> /\ link[k].events = <<>>
  BY <1>1 DEF Socket, FreeLink
<1>4. l \in Socket /\ l.near /\ Spoken(l)
  <2>1. l \in Socket /\ l.near /\ l.commands = <<>> /\ l.events = <<>>
    BY <1>3 DEF Socket
  <2>2. <<>> \in Seq(Commands) /\ <<>> \in Seq(Events)
    OBVIOUS
  <2>3. QED
    BY <2>1, <2>2 DEF Spoken
<1>5. link' = [link EXCEPT ![k] = l]
  BY <1>0, <1>1
<1> HIDE DEF l
<1>6. ProcsOK(bridge')
  <2>1. [at |-> "hello", on |-> k] \in ProcState
    BY DEF ProcState
  <2>2. QED
    BY <1>0, <1>1, <2>1, ProcMoves
<1>7. QED
  BY <1>1, <1>2, <1>3, <1>4, <1>5, <1>6, ProcKeeps

LEMMA HelloOK == ASSUME BridgeInv PROVE Hello \in Events /\ Hello \in Event
<1>1. Hello \in Event
  BY Constants DEF Hello, Event
<1>2. Hello.id = 0 /\ nextId \in Nat \ {0}
  BY Constants DEF Hello, BridgeInv, BrokerTypeOK
<1>3. \A c \in Caller : Busy(c) => call[c].id # 0
  BY DEF BridgeInv, CallsOK
<1>4. QED
  BY <1>1, <1>2, <1>3 DEF Events, EventOK

\* A process answers a command with the reply that its caller expects.
LEMMA ReplyOK ==
    ASSUME BridgeInv, NEW m \in Commands, NEW ok \in BOOLEAN
    PROVE  LET r == [id |-> m.id, type |-> ReplyTo(m.cmd), ok |-> ok, on |-> m.cmd.on]
           IN  r \in Events /\ r \in Event
<1> DEFINE r == [id |-> m.id, type |-> ReplyTo(m.cmd), ok |-> ok, on |-> m.cmd.on]
<1>1. m.id \in 1 .. MaxRequests /\ m.cmd \in Asked /\ CommandOK(m)
  BY DEF Commands, Message
<1>2. ReplyTo(m.cmd) \in {"NotificationResult", "PackageInfoResult", "ActivityResult"}
  BY <1>1, BridgeAssumption DEF ReplyTo
<1>3. m.cmd.on \in Record \cup Package \cup {None}
  BY <1>1, BridgeAssumption
<1>4. m.id \in 0 .. MaxRequests
  BY <1>1, Constants
<1>5. r \in Event
  BY <1>2, <1>3, <1>4 DEF Event
<1>6. EventOK(r)
  BY <1>1 DEF EventOK, CommandOK
<1>7. QED
  BY <1>5, <1>6 DEF Events

LEMMA SayHelloOK == ASSUME BridgeInv, NEW p \in Proc, SayHello(p) PROVE BridgeInv'
<1> DEFINE k == bridge[p].on
           l == [link[k] EXCEPT !.events = Append(@, Hello)]
           s == [bridge[p] EXCEPT !.at = "loop"]
<1>0. /\ UNCHANGED <<connected, sender, pending, nextId, call, chan, chanOpen, server, backlog>>
      /\ bridge[p].at = "hello"
  BY DEF SayHello, broker, channel
<1>1. /\ ServerTypeOK /\ k \in Conn /\ bridge[p] \in ProcState /\ link[k] \in Socket
      /\ Spoken(link[k])
  BY <1>0, Serving DEF ServerTypeOK, ProcState
<1>2. CASE link[k].near /\ link' = [link EXCEPT ![k] = l] /\ bridge' = [bridge EXCEPT ![p] = s]
  <2>1. s \in ProcState /\ s.on \in Conn
    BY <1>1 DEF ProcState
  <2> HIDE DEF s
  <2>2. ProcsOK(bridge')
    BY <1>1, <1>2, <2>1, ProcMoves
  <2>3. /\ link[k].events \in Seq(Events) /\ link[k].events \in Seq(Event)
        /\ link[k].commands \in Seq(Commands)
    BY <1>1, <1>2 DEF Spoken, Socket
  <2>4. /\ Append(link[k].events, Hello) \in Seq(Events)
        /\ Append(link[k].events, Hello) \in Seq(Event)
    BY <2>3, HelloOK
  <2>5. Ids(link[k].events) \subseteq Ids(Append(link[k].events, Hello))
    BY <2>3, HelloOK, IdsAppend
  <2>6. /\ l \in Socket /\ l.far = link[k].far /\ l.near = link[k].near /\ Spoken(l)
        /\ l.commands = link[k].commands /\ l.events = Append(link[k].events, Hello)
    BY <1>1, <2>3, <2>4 DEF Socket, Spoken
  <2> HIDE DEF l
  <2>7. QED
    BY <1>0, <1>1, <1>2, <2>2, <2>5, <2>6, ProcKeeps
<1>3. CASE Drop(p)
  BY <1>0, <1>3, DropOK
<1>4. QED
  BY <1>2, <1>3 DEF SayHello

LEMMA EofOK == ASSUME BridgeInv, NEW p \in Proc, Eof(p) PROVE BridgeInv'
<1>1. /\ UNCHANGED <<connected, sender, pending, nextId, call, chan, chanOpen, server, backlog>>
      /\ bridge[p].at = "loop" /\ Drop(p)
  BY DEF Eof, broker, channel
<1>2. QED
  BY <1>1, DropOK

LEMMA HandleOK == ASSUME BridgeInv, NEW p \in Proc, Handle(p) PROVE BridgeInv'
<1> DEFINE k == bridge[p].on
           m == Head(link[k].commands)
           R(ok) == [id |-> m.id, type |-> ReplyTo(m.cmd), ok |-> ok, on |-> m.cmd.on]
<1>0. /\ UNCHANGED <<connected, sender, pending, nextId, call, chan, chanOpen, server, backlog>>
      /\ bridge[p].at = "loop" /\ link[k].commands # <<>>
  BY DEF Handle, broker, channel
<1>1. /\ ServerTypeOK /\ k \in Conn /\ link[k] \in Socket /\ Spoken(link[k])
      /\ link = [j \in Conn |-> link[j]] /\ ProcsOK(bridge)
  BY <1>0, Serving DEF ServerTypeOK, ProcsOK, ProcState
<1>2. \/ \E ok \in BOOLEAN :
            /\ link[k].near /\ bridge' = bridge
            /\ link' = [link EXCEPT ![k].commands = Tail(@), ![k].events = Append(@, R(ok))]
      \/ Drop(p)
  BY DEF Handle
<1>3. ASSUME NEW ok \in BOOLEAN, link[k].near, bridge' = bridge,
             link' = [link EXCEPT ![k].commands = Tail(@), ![k].events = Append(@, R(ok))]
      PROVE  BridgeInv'
  <2> DEFINE r == R(ok)
             l == [link[k] EXCEPT !.commands = Tail(@), !.events = Append(@, r)]
  <2>1. /\ link[k].events \in Seq(Events) /\ link[k].events \in Seq(Event)
        /\ link[k].commands \in Seq(Commands) /\ link[k].commands \in Seq(Message)
    BY <1>1, <1>3 DEF Spoken, Socket
  <2>2. m \in Commands /\ Tail(link[k].commands) \in Seq(Commands)
        /\ Tail(link[k].commands) \in Seq(Message)
    BY <1>0, <2>1
  <2>3. Ids(link[k].commands) = {m.id} \cup Ids(Tail(link[k].commands))
    BY <1>0, <2>1, IdsHead
  <2> HIDE DEF m
  <2>4. r \in Events /\ r \in Event /\ r.id = m.id
    BY <2>2, ReplyOK
  <2>5. link' = [link EXCEPT ![k] = l]
    BY <1>1, <1>3
  <2> HIDE DEF r
  <2>6. Append(link[k].events, r) \in Seq(Events) /\ Append(link[k].events, r) \in Seq(Event)
    BY <2>1, <2>4
  <2>7. Ids(Append(link[k].events, r)) = Ids(link[k].events) \cup {m.id}
    BY <2>1, <2>4, IdsAppend
  <2>8. /\ l \in Socket /\ l.far = link[k].far /\ l.near = link[k].near /\ Spoken(l)
        /\ l.commands = Tail(link[k].commands) /\ l.events = Append(link[k].events, r)
    BY <1>1, <2>2, <2>6 DEF Socket, Spoken
  <2> HIDE DEF l
  <2>9. Ids(link[k].commands) \cup Ids(link[k].events) \subseteq Ids(l.commands) \cup Ids(l.events)
    BY <2>3, <2>7, <2>8
  <2>10. QED
    BY <1>0, <1>1, <1>3, <2>5, <2>8, <2>9, ProcKeeps
<1>4. CASE Drop(p)
  BY <1>0, <1>4, DropOK
<1>5. QED
  BY <1>2, <1>3, <1>4

-----------------------------------------------------------------------------
(* The invariant, and what the runs check. *)

\* A new life of the daemon, the first one included.
LEMMA FreshDaemon ==
    ASSUME connected = FALSE, sender = None, pending = {}, nextId = 1,
           call = [c \in Caller |-> Idle], chan = <<>>, chanOpen = FALSE,
           server = [at |-> "accept", on |-> None, last |-> TRUE], backlog = <<>>,
           link \in [Conn -> Socket], \A k \in Conn : ~link[k].near, ProcsOK(bridge)
    PROVE  BridgeInv
<1>1. Idle \in CallState /\ Idle.at = "idle" /\ Idle.got = None
  BY Constants DEF Idle, CallState
<1>2. \A c \in Caller : call[c] = Idle
  OBVIOUS
<1>3. BrokerTypeOK
  <2>1. connected \in BOOLEAN /\ sender \in Conn \cup {None} /\ IsFiniteSet(pending)
    BY FS_EmptySet
  <2>2. nextId \in 1 .. MaxRequests + 1
    BY Constants
  <2>3. call \in [Caller -> CallState] /\ pending \subseteq [id : 1 .. nextId - 1, to : Caller]
    BY <1>1
  <2>4. QED
    BY <2>1, <2>2, <2>3 DEF BrokerTypeOK
<1>4. ServerTypeOK
  <2>1. server \in [at : {"accept", "hello", "greet", "spawn", "serve", "disconnect", "unplug",
                         "clear", "join"}, on : Conn \cup {None}, last : BOOLEAN]
    OBVIOUS
  <2>2. chanOpen \in BOOLEAN
    OBVIOUS
  <2>3. backlog \in Seq(Conn)
    OBVIOUS
  <2>4. QED
    BY <2>1, <2>2, <2>3 DEF ServerTypeOK, ProcsOK, ProcState
<1>5. CallsOK
  BY <1>1, <1>2 DEF CallsOK, Busy
<1>6. WordsOK
  BY DEF WordsOK
<1>7. PhaseOK /\ SocketsOK
  BY DEF PhaseOK, SocketsOK
<1>8. WaitsOK
  BY <1>1, <1>2 DEF WaitsOK, Waits
<1>9. LeaksOK
  <2> SUFFICES ASSUME NEW c \in Caller PROVE Cardinality(Orphans(c)) <= Bound(c)
    BY DEF LeaksOK
  <2>1. Orphans(c) = {} /\ Bound(c) \in Nat
    BY DEF Orphans, Bound
  <2>2. QED
    BY <2>1, FS_EmptySet
<1>10. QED
  BY <1>3, <1>4, <1>5, <1>6, <1>7, <1>8, <1>9 DEF BridgeInv

LEMMA BridgeStarts == ASSUME BridgeInit PROVE BridgeInv
<1>1. FreeLink \in Socket /\ ~FreeLink.near
  BY DEF FreeLink, Socket
<1>2. ProcsOK(bridge)
  BY DEF BridgeInit, ProcsOK, ProcState
<1>3. link \in [Conn -> Socket] /\ \A k \in Conn : ~link[k].near
  BY <1>1 DEF BridgeInit
<1>4. QED
  BY <1>2, <1>3, FreshDaemon DEF BridgeInit

LEMMA RestartOK == ASSUME BridgeInv, DaemonRestart PROVE BridgeInv'
<1>0. ServerTypeOK
  BY DEF BridgeInv
<1>1. \A k \in Conn : CloseNear(k) \in Socket /\ ~CloseNear(k).near
  BY <1>0, SocketOK
<1>2. link' \in [Conn -> Socket] /\ \A k \in Conn : ~link'[k].near
  BY <1>1 DEF DaemonRestart
<1>3. ProcsOK(bridge')
  BY <1>0 DEF DaemonRestart, ServerTypeOK, ProcsOK, ProcState
<1>4. /\ connected' = FALSE /\ sender' = None /\ pending' = {} /\ nextId' = 1
      /\ call' = [c \in Caller |-> Idle] /\ chan' = <<>> /\ chanOpen' = FALSE
      /\ server' = [at |-> "accept", on |-> None, last |-> TRUE] /\ backlog' = <<>>
  BY DEF DaemonRestart
<1>5. Idle \in CallState /\ Idle.at = "idle" /\ Idle.got = None
  BY Constants DEF Idle, CallState
<1>6. \A c \in Caller : call'[c] = Idle
  BY <1>4
<1>7. BrokerTypeOK' /\ ServerTypeOK'
  <2>1. /\ connected' \in BOOLEAN /\ sender' \in Conn \cup {None} /\ IsFiniteSet(pending')
        /\ chanOpen' \in BOOLEAN
    BY <1>4, FS_EmptySet
  <2>2. nextId' \in 1 .. MaxRequests + 1
    BY <1>4, Constants
  <2>3. call' \in [Caller -> CallState] /\ pending' \subseteq [id : 1 .. nextId' - 1, to : Caller]
    BY <1>4, <1>5
  <2>4. server' \in [at : {"accept", "hello", "greet", "spawn", "serve", "disconnect", "unplug",
                          "clear", "join"}, on : Conn \cup {None}, last : BOOLEAN]
    BY <1>4
  <2>5. backlog' \in Seq(Conn)
    BY <1>4
  <2>6. QED
    BY <1>2, <1>3, <2>1, <2>2, <2>3, <2>4, <2>5
    DEF BrokerTypeOK, ServerTypeOK, ProcsOK, ProcState
<1>8. CallsOK' /\ WordsOK' /\ PhaseOK' /\ SocketsOK' /\ WaitsOK'
  BY <1>2, <1>4, <1>5, <1>6 DEF CallsOK, Busy, WordsOK, PhaseOK, SocketsOK, WaitsOK, Waits
<1>9. LeaksOK'
  <2> SUFFICES ASSUME NEW c \in Caller PROVE Cardinality(Orphans(c)') <= Bound(c)'
    BY DEF LeaksOK
  <2>1. Orphans(c)' = {} /\ Bound(c)' \in Nat
    BY <1>4 DEF Orphans, Bound
  <2>2. QED
    BY <2>1, FS_EmptySet
<1>10. QED
  BY <1>7, <1>8, <1>9 DEF BridgeInv

LEMMA BridgeStep == ASSUME BridgeInv, [BridgeNext]_brVars PROVE BridgeInv'
<1>1. ASSUME NEW c \in Caller, CallerStep(c) PROVE BridgeInv'
  BY <1>1, RegisterOK, SendOK, AnsweredOK DEF CallerStep
<1>2. ASSUME NEW c \in Caller, NEW cmd \in Asked, Begin(c, cmd) \/ Refused(c, cmd)
      PROVE  BridgeInv'
  BY <1>2, BeginOK, RefusedOK
<1>3. CASE ServerStep \/ SpawnFails \/ Writer
  BY <1>3, AcceptOK, StreamIsDropped, AttachOK, GreetOK, SpawnWriterOK, HandleEventOK,
     SessionEndsOK, DisconnectOK, UnplugOK, ClearOK, WriterOK DEF ServerStep
<1>4. ASSUME NEW p \in Proc, ProcStep(p) \/ Handle(p) \/ Die(p) \/ Spawn(p) PROVE BridgeInv'
  BY <1>4, ConnectOK, SayHelloOK, EofOK, HandleOK, DieOK, SpawnOK DEF ProcStep
<1>5. CASE SpawnError \/ ChildLost \/ BackoffOver \/ UNCHANGED brVars
  <2>1. UNCHANGED <<connected, sender, pending, nextId, call, chan, chanOpen, server, backlog, link,
                    bridge>>
    BY <1>5 DEF SpawnError, ChildLost, BackoffOver, brVars, broker, channel
  <2>2. ProcsOK(bridge')
    BY <2>1 DEF BridgeInv, ServerTypeOK, ProcsOK, ProcState
  <2>3. QED
    BY <2>1, <2>2, Elsewhere
<1>6. CASE DaemonRestart
  BY <1>6, RestartOK
<1>7. QED
  BY <1>1, <1>2, <1>3, <1>4, <1>5, <1>6 DEF BridgeNext

\* The broker, the listener, the writer, the processes and the daemon's restarts keep BridgeInv.
THEOREM BridgeInvariance == BridgeSafetySpec => []BridgeInv
  BY BridgeStarts, BridgeStep, PTL DEF BridgeSafetySpec

\* BridgeBroker::finish_request: the reply a caller is handed has the id, the kind and the
\* subject of the request it made, however sessions, processes and lives of the daemon follow
\* one another.
THEOREM RepliesAnswer == BridgeSafetySpec => []AnswersMatch
<1>1. BridgeInv => AnswersMatch
  BY DEF BridgeInv, CallsOK, AnswersMatch
<1>2. QED
  BY <1>1, BridgeInvariance, PTL

\* BridgeBroker::request against detach: a caller that waits with an entry in pending has its
\* command or its reply under way in the session being served, or will be released by it.
THEOREM WaitsEnd == BridgeSafetySpec => []NoCallWaitsInVain
<1>1. ASSUME BridgeInv PROVE NoCallWaitsInVain
  <2> SUFFICES ASSUME NEW c \in Caller, Waits(c)
               PROVE  /\ server.on # None
                      /\ \/ server.at \in {"disconnect", "unplug", "clear"}
                         \/ ~link[server.on].far
                         \/ call[c].id \in Travelling
    BY DEF NoCallWaitsInVain, Waits
  <2>1. \/ server.at \in {"disconnect", "unplug", "clear"}
        \/ /\ server.at \in {"greet", "spawn", "serve"}
           /\ ~link[server.on].far \/ call[c].id \in Travelling
    BY <1>1 DEF BridgeInv, WaitsOK
  <2>2. server.on # None
    BY <1>1, <2>1 DEF BridgeInv, PhaseOK
  <2>3. QED
    BY <2>1, <2>2
<1>2. QED
  BY <1>1, BridgeInvariance, PTL

\* BridgeBroker::request without a sender: a caller leaves one entry behind in an outage, two
\* while detach is about to clear them.
THEOREM LeaksEnd == BridgeSafetySpec => []LeaksAreBounded
<1>1. ASSUME BridgeInv PROVE LeaksAreBounded
  <2> SUFFICES ASSUME NEW c \in Caller
               PROVE  Cardinality(Orphans(c)) <= IF server.at = "clear" THEN 2 ELSE 1
    BY DEF LeaksAreBounded
  <2>1. Cardinality(Orphans(c)) \in Nat /\ Cardinality(Orphans(c)) <= Bound(c)
    BY <1>1, EntryOK DEF BridgeInv, LeaksOK
  <2>2. QED
    BY <2>1 DEF Bound
<1>2. QED
  BY <1>1, BridgeInvariance, PTL

=============================================================================
