------------------------------ MODULE Sessions -------------------------------
(***************************************************************************)
(* The conversation between the manager app and the daemon, and the way a  *)
(* crash text reaches the detail screen.                                   *)
(*                                                                         *)
(* The daemon connects to the manager: each of its slot threads keeps one  *)
(* connection to the manager's socket, waits there for the lane frame, and *)
(* then serves requests after a handshake.  The manager queues incoming    *)
(* connections, takes one when a request needs a channel, and tries a      *)
(* failed request once more on another.  A text is read through a passed   *)
(* descriptor, piece by piece, or, where that does not arrive or cannot be *)
(* read, chunk by chunk through a handle that the daemon registers.        *)
(*                                                                         *)
(* A channel is a slot and a number that tells its connections apart.  The *)
(* manager's requests are serialised by a mutex, so there is one client    *)
(* and at most one frame is in flight.  Authentication is the subject of   *)
(* Packages; here it may be denied.  The shipped manager opens only the    *)
(* control lane.  A text is a sequence of bytes: w > 0 begins a character  *)
(* of w bytes, 0 continues one; in a decoded text w is a character and 0   *)
(* a replacement character.                                                *)
(***************************************************************************)
EXTENDS Integers, Sequences, FiniteSets, SequencesExt, FiniteSetsExt

CONSTANTS
    Slot,        \* the MANAGER_CONNECTION_SLOTS threads
    Capacity,    \* of IncomingDaemonChannels
    Reader,      \* screens that show a text
    Rec,         \* records with a text
    Text,        \* the text of each
    ChunkLen,    \* bytes the manager asks for
    PieceLen,    \* DESCRIPTOR_CHUNK_BYTES
    MaxChunk,    \* MAX_PAYLOAD_CHUNK_BYTES
    MaxFaults,   \* bound: what may go wrong
    MaxLeaks,    \* bound: channels abandoned by a cancelled request
    MaxHandles,  \* bound: handles a daemon issues before the last screen is opened
    Nothing      \* no channel, no frame, no record

ASSUME SessionsAssumption ==
    /\ Capacity \in Nat \ {0} /\ ChunkLen \in Nat \ {0} /\ MaxChunk \in Nat \ {0}
    /\ PieceLen \in Nat \ {0}
    /\ MaxFaults \in Nat /\ MaxLeaks \in Nat /\ MaxHandles \in Nat
    /\ Nothing \notin Slot \X Nat /\ Nothing # [is |-> "rejected"]
    /\ \A r \in Rec : /\ Text[r] \in Seq(0..ChunkLen) /\ Text[r] # <<>>
                      /\ \A i \in DOMAIN Text[r] : Text[r][i] <= MaxChunk /\ Text[r][i] <= 4

VARIABLES
    up,        \* the daemon is running
    slot,      \* what each slot thread does: [at, gen]
    agrees,    \* the two sides speak the same protocol
    held,      \* channels whose end the manager's process has open
    pool,      \* IncomingDaemonChannels
    client,    \* DaemonClient: [at, attempt, channel, greeted, req, settled]
    answer,    \* the frame on its way to the manager
    handles,   \* DaemonCore::payload_handles
    nextHandle,
    readable,  \* records that still have their text
    reader,    \* the flow of each screen
    outcome,   \* how the last request ended
    faults     \* what has gone wrong so far

ssVars == <<up, slot, agrees, held, pool, client, answer, handles, nextHandle, readable,
            reader, outcome, faults>>

Channel(s) == <<s, slot[s].gen>>
Live(ch) == slot[ch[1]].at \notin {"off", "retry"} /\ slot[ch[1]].gen = ch[2]

Fault == faults < MaxFaults /\ faults' = faults + 1

NoRequest == [op |-> "none", by |-> Nothing, rec |-> Nothing, handle |-> 0, offset |-> 0]

Disconnected == [at |-> "idle", attempt |-> 1, channel |-> Nothing, greeted |-> FALSE,
                 req |-> NoRequest, settled |-> FALSE]

Away == [at |-> "away", rec |-> Nothing, handle |-> 0, offset |-> 0, got |-> <<>>,
         carry |-> <<>>, ok |-> FALSE, stale |-> FALSE]

-----------------------------------------------------------------------------
(***************************************************************************)
(* PayloadStore and the manager's reader of a descriptor: cutting and      *)
(* decoding a text.  Positions count from zero.                            *)
(***************************************************************************)
IsCharBoundary(bytes, i) == IF i >= Len(bytes) THEN i = Len(bytes) ELSE bytes[i + 1] # 0

\* Mutant of TruncateUtf8: the cut is made where it falls.
TruncateBytes(bytes, max) == SubSeq(bytes, 1, Min({max, Len(bytes)}))

TruncateUtf8(bytes, max) ==
    LET cuts == {e \in 1..max : IsCharBoundary(bytes, e)}
    IN  IF Len(bytes) <= max THEN bytes
        ELSE SubSeq(bytes, 1, IF cuts = {} THEN max ELSE Max(cuts))

\* Byte i continues a character that begins before it, complete or not.
Continues(bytes, i) ==
    \E j \in 1..i - 1 : j + bytes[j] > i /\ \A k \in j + 1..i : bytes[k] = 0

\* All the bytes of the character that begins at i are there.
Complete(bytes, i) ==
    /\ bytes[i] > 0 /\ i + bytes[i] - 1 <= Len(bytes)
    /\ \A k \in i + 1..i + bytes[i] - 1 : bytes[k] = 0

\* What String::from_utf8_lossy makes of the characters that begin in the
\* first n bytes.
DecodeTo(bytes, n) ==
    LET text[k \in 0..Len(bytes)] ==
            IF k = 0 THEN <<>>
            ELSE IF Continues(bytes, k) THEN text[k - 1]
            ELSE Append(text[k - 1], IF Complete(bytes, k) THEN bytes[k] ELSE 0)
    IN  text[n]

Decode(bytes) == DecodeTo(bytes, Len(bytes))

ReadChunk(bytes, offset, len) ==
    LET start == Min({offset, Len(bytes)})
        end   == Min({start + len, Len(bytes)})
        slice == TruncateUtf8(SubSeq(bytes, start + 1, Len(bytes)), end - start)
    IN  [is |-> "chunk", text |-> Decode(slice), to |-> start + Len(slice),
         eof |-> start + Len(slice) >= Len(bytes)]

\* Mutant of LastCharBoundary: no byte of a piece is held back.
PieceBoundary(bytes) == Len(bytes)

\* The end of the last character of a piece: the walk back over at most four
\* continuing bytes stops at a byte that says how many there should be.
LastCharBoundary(bytes) ==
    LET size == Len(bytes)
        run  == Max({k \in 0..4 : k <= size /\ \A i \in size - k + 1..size : bytes[i] = 0})
        lead == size - run
    IN  IF lead = 0 \/ bytes[lead] <= run + 1 THEN size ELSE lead - 1

-----------------------------------------------------------------------------
(***************************************************************************)
(* The slot threads of the daemon.                                         *)
(***************************************************************************)
\* IncomingDaemonChannels keeps the newest channels.
Offer(queue, ch) ==
    Append(IF Len(queue) < Capacity THEN queue
           ELSE SubSeq(queue, Len(queue) - Capacity + 2, Len(queue)), ch)

\* connect(2), and the accept of the manager's listener.
Connect(s) ==
    LET used  == {ch[2] : ch \in {c \in held : c[1] = s}}
        gen   == Min((1..Cardinality(used) + 1) \ used)
        queue == Offer(pool, <<s, gen>>) IN
    /\ slot[s].at = "retry"
    /\ slot' = [slot EXCEPT ![s] = [at |-> "auth", gen |-> gen]]
    /\ pool' = queue
    /\ held' = (held \ (Range(pool) \ Range(queue))) \cup {<<s, gen>>}
    /\ UNCHANGED <<up, agrees, client, answer, handles, nextHandle, readable, reader, outcome,
                   faults>>

Goes(s, at) == slot' = [slot EXCEPT ![s].at = at]

Unsettled == [client EXCEPT !.settled = FALSE]

\* handle_manager: the peer is the manager, or the connection ends.
Authenticate(s) ==
    /\ slot[s].at = "auth"
    /\ \/ Goes(s, "lane") /\ UNCHANGED <<client, faults>>
       \/ Goes(s, "retry") /\ Fault /\ client' = Unsettled
    /\ UNCHANGED <<up, agrees, held, pool, answer, handles, nextHandle, readable, reader, outcome>>

\* The manager wrote the lane frame on every channel it took from the pool.
ReadLane(s) ==
    /\ slot[s].at = "lane" /\ Channel(s) \in held \ Range(pool)
    /\ Goes(s, "hello")
    /\ UNCHANGED <<up, agrees, held, pool, client, answer, handles, nextHandle, readable, reader,
                   outcome, faults>>

\* A request of the manager is waiting on the channel of this thread.
Asked(s) == client.at = "wait" /\ client.channel = Channel(s) /\ answer = Nothing

\* The first request of a control lane.
Handshake(s) ==
    /\ slot[s].at = "hello" /\ Asked(s) /\ ~client.greeted
    /\ answer' = [is |-> IF agrees THEN "welcome" ELSE "rejected"]
    /\ Goes(s, IF agrees THEN "serve" ELSE "retry")
    /\ UNCHANGED <<up, agrees, held, pool, client, handles, nextHandle, readable, reader, outcome,
                   faults>>

\* The manager closed its end.
HangUp(s) ==
    /\ slot[s].at \in {"lane", "hello", "serve"} /\ Channel(s) \notin held
    /\ Goes(s, "retry")
    /\ UNCHANGED <<up, agrees, held, pool, client, answer, handles, nextHandle, readable, reader,
                   outcome, faults>>

-----------------------------------------------------------------------------
(***************************************************************************)
(* The requests of a reader.                                               *)
(***************************************************************************)
\* payload_location: the row is there and its text was not evicted.
PayloadLocation(r) == r \in readable

\* open_memfd: a copy of the text, which outlives the text and the daemon.
OpenMemfd(r) == Text[r]

\* register_payload_handle
RegisterPayloadHandle(r) ==
    /\ handles' = [h \in DOMAIN handles \cup {nextHandle} |->
                       IF h = nextHandle THEN r ELSE handles[h]]
    /\ nextHandle' = nextHandle + 1

\* send_json_frame_with_fd: the frame arrives, the descriptor may not.
SendFrameWithFd(handle, bytes) ==
    \E fd \in BOOLEAN :
        answer' = [is |-> "opened", handle |-> handle, fd |-> IF fd THEN bytes ELSE <<>>]

\* open_payload_fd, with the handle for a manager that gets no descriptor.
OpenPayload(r) ==
    \/ /\ PayloadLocation(r)
       /\ RegisterPayloadHandle(r)
       /\ SendFrameWithFd(nextHandle, OpenMemfd(r))
    \/ /\ ~PayloadLocation(r)
       /\ answer' = [is |-> "rejected"] /\ UNCHANGED <<handles, nextHandle>>

ReadPayload(h, offset) ==
    /\ answer' = IF h \in DOMAIN handles /\ PayloadLocation(handles[h])
                 THEN ReadChunk(Text[handles[h]], offset, Min({ChunkLen, MaxChunk}))
                 ELSE [is |-> "rejected"]
    /\ UNCHANGED <<handles, nextHandle>>

ClosePayload(h) ==
    /\ handles' = [x \in DOMAIN handles \ {h} |-> handles[x]]
    /\ answer' = [is |-> "closed"] /\ UNCHANGED nextHandle

\* One request after the handshake.  An answer that does not fit a frame ends
\* the connection instead.
Dispatch(s) ==
    /\ slot[s].at = "serve" /\ Asked(s) /\ client.greeted
    /\ \/ /\ CASE client.req.op = "open"  -> OpenPayload(client.req.rec)
               [] client.req.op = "read"  -> ReadPayload(client.req.handle, client.req.offset)
               [] client.req.op = "close" -> ClosePayload(client.req.handle)
          /\ UNCHANGED <<slot, client, faults>>
       \/ /\ client.req.op = "read" /\ Fault
          /\ Goes(s, "retry") /\ client' = Unsettled
          /\ UNCHANGED <<answer, handles, nextHandle>>
    /\ UNCHANGED <<up, agrees, held, pool, readable, reader, outcome>>

-----------------------------------------------------------------------------
(***************************************************************************)
(* The manager: payloadText of a screen, over DaemonClient.                *)
(***************************************************************************)
View(rd, r) ==
    /\ reader[rd].at \in {"away", "shown", "failed"} /\ nextHandle <= MaxHandles
    /\ reader' = [reader EXCEPT ![rd] = [Away EXCEPT !.at = "opening", !.rec = r]]
    /\ UNCHANGED <<up, slot, agrees, held, pool, client, answer, handles, nextHandle, readable,
                   outcome, faults>>

RequestOf(rd) ==
    [op |-> CASE reader[rd].at = "opening" -> "open"
              [] reader[rd].at = "reading" -> "read"
              [] reader[rd].at = "closing" -> "close",
     by |-> rd, rec |-> reader[rd].rec, handle |-> reader[rd].handle, offset |-> reader[rd].offset]

\* DaemonClient::request takes the mutex, and a channel if there is none.
Ask(rd) ==
    /\ client.at = "idle" /\ reader[rd].at \in {"opening", "reading", "closing"}
    /\ client' = [client EXCEPT !.at = IF client.channel = Nothing THEN "take" ELSE "wait",
                                !.attempt = 1, !.req = RequestOf(rd),
                                !.settled = pool # <<>> /\ \A ch \in Range(pool) : Live(ch)]
    /\ UNCHANGED <<up, slot, agrees, held, pool, answer, handles, nextHandle, readable, reader,
                   outcome, faults>>

\* openLocked: the lane frame and the handshake.
Take ==
    /\ client.at = "take" /\ pool # <<>>
    /\ client' = [client EXCEPT !.at = "wait", !.channel = Head(pool), !.greeted = FALSE]
    /\ pool' = Tail(pool) /\ answer' = Nothing
    /\ UNCHANGED <<up, slot, agrees, held, handles, nextHandle, readable, reader, outcome, faults>>

\* What the answer to its request makes of a screen.
After(flow, a) ==
    CASE flow.at = "opening" /\ a.is = "opened" ->
            [flow EXCEPT !.at = IF a.fd # <<>> THEN "streaming" ELSE "reading",
                         !.handle = a.handle]
      [] flow.at = "reading" /\ a.is = "chunk" ->
            [flow EXCEPT !.at = IF a.eof \/ a.to <= flow.offset THEN "closing" ELSE "reading",
                         !.got = @ \o a.text, !.offset = a.to, !.ok = a.eof]
      [] flow.at = "reading" /\ a.is # "chunk" -> [flow EXCEPT !.at = "closing"]
      [] flow.at = "closing" -> [flow EXCEPT !.at = IF flow.ok THEN "shown" ELSE "failed"]
      [] OTHER -> [flow EXCEPT !.at = "failed"]

\* One read of the descriptor, of any count: what may be the beginning of a
\* character is held back for the next one.
StreamPiece(rd) ==
    LET flow  == reader[rd]
        bytes == OpenMemfd(flow.rec) IN
    /\ flow.at = "streaming" /\ flow.offset < Len(bytes)
    /\ \E count \in 1..Min({PieceLen, Len(bytes) - flow.offset}) :
        LET combined == flow.carry \o SubSeq(bytes, flow.offset + 1, flow.offset + count)
            safeEnd  == LastCharBoundary(combined)
        IN  reader' = [reader EXCEPT ![rd] =
                [flow EXCEPT !.offset = flow.offset + count,
                             !.got    = flow.got \o Decode(SubSeq(combined, 1, safeEnd)),
                             !.carry  = SubSeq(combined, safeEnd + 1, Len(combined))]]
    /\ UNCHANGED <<up, slot, agrees, held, pool, client, answer, handles, nextHandle, readable,
                   outcome, faults>>

\* The end of the descriptor: what was held back is shown.  The handle is neither
\* used nor closed.
StreamEnd(rd) ==
    LET flow == reader[rd] IN
    /\ flow.at = "streaming" /\ flow.offset = Len(OpenMemfd(flow.rec))
    /\ reader' = [reader EXCEPT ![rd] =
            [flow EXCEPT !.at = "shown", !.got = flow.got \o Decode(flow.carry), !.carry = <<>>,
                         !.handle = 0, !.stale = FALSE]]
    /\ UNCHANGED <<up, slot, agrees, held, pool, client, answer, handles, nextHandle, readable,
                   outcome, faults>>

\* The descriptor cannot be read: the handle is used instead, unless a part of the
\* text is on the screen already.
StreamFails(rd) ==
    LET flow == reader[rd] IN
    /\ flow.at = "streaming" /\ Fault
    /\ reader' = [reader EXCEPT ![rd] =
            [flow EXCEPT !.at = IF flow.offset > 0 THEN "failed" ELSE "reading", !.carry = <<>>]]
    /\ UNCHANGED <<up, slot, agrees, held, pool, client, answer, handles, nextHandle, readable,
                   outcome>>

\* The request is over: the mutex is released.
Return(c, a, how) ==
    /\ client' = [c EXCEPT !.at = "idle", !.req = NoRequest, !.settled = FALSE]
    /\ reader' = [reader EXCEPT ![client.req.by] = After(@, a)]
    /\ outcome' = how

Closed(c) == [c EXCEPT !.channel = Nothing, !.greeted = FALSE]

\* A refused handshake is not tried again, and its channel is closed.
Receive ==
    /\ client.at = "wait" /\ answer # Nothing
    /\ answer' = Nothing
    /\ \/ /\ client.greeted /\ held' = held
          /\ Return(client, answer, "answered")
       \/ /\ ~client.greeted /\ answer.is = "welcome"
          /\ client' = [client EXCEPT !.greeted = TRUE]
          /\ UNCHANGED <<held, reader, outcome>>
       \/ /\ ~client.greeted /\ answer.is = "rejected"
          /\ held' = held \ {client.channel}
          /\ Return(Closed(client), answer, "answered")
    /\ UNCHANGED <<up, slot, agrees, pool, handles, nextHandle, readable, faults>>

\* Mutant of Failure: the request is not tried again.
FailureIsFinal ==
    /\ held' = held \ {client.channel} /\ answer' = Nothing
    /\ Return(Closed(client), [is |-> "rejected"], "failed")

\* Mutant of Failure: an error of the socket passes the handler by.
FailureKeepsChannel ==
    /\ held' = held /\ answer' = Nothing
    /\ Return(client, [is |-> "rejected"], "failed")

\* The request is tried once more on another channel.
Failure ==
    /\ held' = held \ {client.channel} /\ answer' = Nothing
    /\ IF client.attempt = 1
       THEN /\ client' = [Closed(client) EXCEPT !.at = "take", !.attempt = 2]
            /\ UNCHANGED <<reader, outcome>>
       ELSE Return(Closed(client), [is |-> "rejected"], "failed")

\* A connection is on its way: CHANNEL_WAIT_MILLIS is five times MANAGER_RETRY_DELAY.
ConnectsSoon == up /\ \E s \in Slot : slot[s].at = "retry" \/ Channel(s) \notin held

\* Mutant of Fails: the end of the stream is taken for a slow answer.
FailsOnTimeout ==
    /\ client.at = "take" /\ pool = <<>> /\ ~ConnectsSoon
    /\ Failure
    /\ UNCHANGED <<up, slot, agrees, pool, handles, nextHandle, readable, faults>>

\* No connection came within CHANNEL_WAIT_MILLIS, or the channel's peer is gone.
\* An answer that was sent before is still read.
Fails ==
    /\ \/ client.at = "take" /\ pool = <<>> /\ ~ConnectsSoon
       \/ client.at = "wait" /\ answer = Nothing /\ ~Live(client.channel)
    /\ Failure
    /\ UNCHANGED <<up, slot, agrees, pool, handles, nextHandle, readable, faults>>

-----------------------------------------------------------------------------
(***************************************************************************)
(* What goes wrong.                                                        *)
(***************************************************************************)
\* A screen has a handle of this daemon, or the answer with it is on the way.
HasHandle(rd) ==
    \/ reader[rd].handle # 0
    \/ answer # Nothing /\ answer.is = "opened" /\ client.req.by = rd

\* The daemon dies.
Die ==
    /\ up /\ up' = FALSE /\ Fault
    /\ slot' = [s \in Slot |-> [slot[s] EXCEPT !.at = "off"]]
    /\ handles' = <<>> /\ nextHandle' = 1
    /\ client' = Unsettled
    /\ reader' = [rd \in Reader |-> [reader[rd] EXCEPT !.stale = HasHandle(rd)]]
    /\ UNCHANGED <<agrees, held, pool, answer, readable, outcome>>

\* The launcher starts another.
Start ==
    /\ ~up /\ up' = TRUE
    /\ slot' = [s \in Slot |-> [slot[s] EXCEPT !.at = "retry"]]
    /\ UNCHANGED <<agrees, held, pool, client, answer, handles, nextHandle, readable, reader,
                   outcome, faults>>

\* The manager's process dies; the next one may be another version.
ManagerDies ==
    /\ Fault /\ agrees' \in BOOLEAN
    /\ held' = {} /\ pool' = <<>> /\ client' = Disconnected /\ answer' = Nothing
    /\ reader' = [rd \in Reader |-> Away] /\ outcome' = "none"
    /\ UNCHANGED <<up, slot, handles, nextHandle, readable>>

\* The user leaves while openLocked waits: a channel that arrives is never closed.
Cancel ==
    /\ client.at = "take" /\ pool # <<>> /\ Fault
    /\ Cardinality(held \ (Range(pool) \cup {client.channel})) < MaxLeaks
    /\ pool' = Tail(pool) /\ answer' = Nothing
    /\ Return(client, [is |-> "rejected"], "cancelled")
    /\ UNCHANGED <<up, slot, agrees, held, handles, nextHandle, readable>>

\* Retention or the user removes a text.
Evict(r) ==
    /\ r \in readable /\ Fault /\ readable' = readable \ {r}
    /\ UNCHANGED <<up, slot, agrees, held, pool, client, answer, handles, nextHandle, reader,
                   outcome>>

SlotStep(s) == Connect(s) \/ Authenticate(s) \/ ReadLane(s) \/ Handshake(s) \/ HangUp(s) \/ Dispatch(s)

SsInit ==
    /\ up = TRUE /\ slot = [s \in Slot |-> [at |-> "retry", gen |-> 1]]
    /\ agrees \in BOOLEAN /\ held = {} /\ pool = <<>> /\ client = Disconnected /\ answer = Nothing
    /\ handles = <<>> /\ nextHandle = 1 /\ readable = Rec
    /\ reader = [rd \in Reader |-> Away] /\ outcome = "none" /\ faults = 0

SsNext ==
    \/ \E s \in Slot : SlotStep(s)
    \/ \E rd \in Reader : Ask(rd) \/ \E r \in Rec : View(rd, r)
    \/ \E rd \in Reader : StreamPiece(rd) \/ StreamEnd(rd) \/ StreamFails(rd)
    \/ Take \/ Receive \/ Fails
    \/ Die \/ Start \/ ManagerDies \/ Cancel
    \/ \E r \in Rec : Evict(r)

\* The threads of both sides keep running, and the launcher restarts the daemon.
SsFairness ==
    /\ \A s \in Slot : WF_ssVars(SlotStep(s))
    /\ WF_ssVars(Take) /\ WF_ssVars(Receive) /\ WF_ssVars(Fails) /\ WF_ssVars(Start)

SsSpec == SsInit /\ [][SsNext]_ssVars /\ SsFairness

-----------------------------------------------------------------------------
(***************************************************************************)
(* A text that is shown is the text of the record that was opened, each    *)
(* character once and none broken by a cut: however the descriptor was     *)
(* read in pieces, or the handle in chunks after the descriptor failed,    *)
(* whatever happened in between, and, where the handle was used, as long   *)
(* as the daemon that registered it lived (payloadText, lastCharBoundary,  *)
(* read_chunk and payload_handles).                                        *)
(***************************************************************************)
ShownTextIsWhole ==
    \A rd \in Reader :
        reader[rd].at = "shown" /\ ~reader[rd].stale
            => reader[rd].got = Decode(Text[reader[rd].rec])

(***************************************************************************)
(* One retry is enough: a request that begins while the pool holds a       *)
(* connection and no dead one is answered, unless something breaks before  *)
(* it ends.  The channel the client still has may be dead.                 *)
(***************************************************************************)
OneRetryIsEnough ==
    [][client.settled /\ client'.at = "idle" /\ client.at # "idle" => outcome' # "failed"]_ssVars

(***************************************************************************)
(* Every request ends, so the mutex of DaemonClient is released: there is  *)
(* no timeout on an answer, only the end of the stream.                    *)
(***************************************************************************)
EveryRequestEnds == client.at # "idle" ~> client.at = "idle"

(***************************************************************************)
(* After the last fault the manager gets through: requests do not go on    *)
(* failing, because connections that were closed, and one that was         *)
(* abandoned, do not use up the slots of the daemon.                       *)
(***************************************************************************)
FailuresStop ==
    <>[][client.at # "idle" /\ client'.at = "idle" => outcome' # "failed"]_ssVars

=============================================================================
