--------------------------- MODULE Sessions_proofs ----------------------------
(***************************************************************************)
(* One retry is enough, and a text that is shown is whole, for every       *)
(* number of slot threads, capacity of the pool, screens, records, texts   *)
(* and faults.                                                             *)
(***************************************************************************)
EXTENDS Sessions, FiniteSetTheorems, SequenceTheorems, WellFoundedInduction, TLAPS

-----------------------------------------------------------------------------
(* The invariant. *)

\* A thread, and the number of one of its connections.
Chan == Slot \X Nat

SlotState == [at : {"off", "retry", "auth", "lane", "hello", "serve"}, gen : Nat]

\* Every thread of a dead daemon is gone.
SlotsOK ==
    /\ up \in BOOLEAN /\ slot \in [Slot -> SlotState]
    /\ ~up => \A s \in Slot : slot[s].at = "off"

\* The channels of the pool are open at the manager's end and told apart.
PoolOK ==
    /\ held \subseteq Chan /\ IsFiniteSet(held)
    /\ pool \in Seq(Chan) /\ Range(pool) \subseteq held
    /\ \A i, j \in 1..Len(pool) : pool[i] = pool[j] => i = j

\* The client's channel is open and is not in the pool any more.
ClientOK ==
    /\ client = [at |-> client.at, attempt |-> client.attempt, channel |-> client.channel,
                 greeted |-> client.greeted, req |-> client.req, settled |-> client.settled]
    /\ client.at \in {"idle", "take", "wait"} /\ client.settled \in BOOLEAN
    /\ client.channel # Nothing => client.channel \in held \ Range(pool)
    /\ client.at = "wait" => client.channel \in held \ Range(pool)

PoolIsLive == pool # <<>> /\ \A ch \in Range(pool) : Live(ch)

Refused == answer # Nothing /\ answer.is = "rejected" /\ ~client.greeted

\* While nothing has broken, there is a live channel for the attempt that is
\* left, or the attempt under way is on one.
RetryOK ==
    client.settled =>
        /\ client.at = "take" => PoolIsLive
        /\ client.at = "wait" =>
            (client.attempt = 1 /\ PoolIsLive) \/ Live(client.channel) \/ Refused

SsInv == SlotsOK /\ PoolOK /\ ClientOK /\ RetryOK

-----------------------------------------------------------------------------
(* Channels. *)

LEMMA FirstOf ==
    ASSUME NEW T, T \subseteq Nat, T # {}
    PROVE  \E x \in T : \A y \in T : x <= y
<1> DEFINE N == Nat
           R == OpToRel(<, Nat)
<1>1. IsWellFoundedOn(R, N) /\ T \subseteq N
  BY NatLessThanWellFounded
<1>2. R = {p \in Nat \X Nat : p[1] < p[2]}
  BY DEF OpToRel
<1> HIDE DEF R, N
<1>3. PICK x \in T : \A y \in T : ~(<<y, x>> \in R)
  BY <1>1, WFMin
<1>4. ASSUME NEW y \in T PROVE x <= y
  <2>1. x \in Nat /\ y \in Nat
    OBVIOUS
  <2>2. ~(y < x)
    BY <1>2, <1>3, <2>1
  <2>3. QED
    BY <2>1, <2>2
<1>5. QED
  BY <1>4

LEMMA LeastNumber ==
    ASSUME NEW T, T \subseteq Nat, T # {}
    PROVE  Min(T) \in T
  BY FirstOf DEF Min

\* A number below Cardinality(used) + 2 is free.
LEMMA FreeNumber ==
    ASSUME NEW used, IsFiniteSet(used)
    PROVE  LET free == (1..Cardinality(used) + 1) \ used
           IN  Min(free) \in Nat /\ Min(free) \notin used
<1> DEFINE n    == Cardinality(used)
           free == (1..n + 1) \ used
<1>1. n \in Nat
  BY FS_CardinalityType
<1> HIDE DEF n
<1>2. free # {}
  <2> SUFFICES ASSUME free = {} PROVE FALSE
    OBVIOUS
  <2>1. (1..n + 1) \in SUBSET used
    OBVIOUS
  <2>2. Cardinality(1..n + 1) <= n
    BY <2>1, FS_Subset DEF n
  <2>3. Cardinality(1..n + 1) = n + 1
    BY <1>1, FS_Interval
  <2>4. QED
    BY <1>1, <2>2, <2>3
<1>3. free \subseteq Nat
  BY <1>1
<1>4. Min(free) \in free
  BY <1>2, <1>3, LeastNumber
<1>5. QED
  BY <1>3, <1>4 DEF n

\* Taking the oldest channel.
LEMMA TakenFromPool ==
    ASSUME PoolOK, pool # <<>>
    PROVE  /\ Head(pool) \in Range(pool) /\ Head(pool) \notin Range(Tail(pool))
           /\ Tail(pool) \in Seq(Chan) /\ Range(Tail(pool)) \subseteq Range(pool)
           /\ \A i, j \in 1..Len(Tail(pool)) : Tail(pool)[i] = Tail(pool)[j] => i = j
<1>1. /\ pool \in Seq(Chan) /\ Len(pool) \in Nat /\ Len(pool) >= 1
      /\ \A i, j \in 1..Len(pool) : pool[i] = pool[j] => i = j
  BY DEF PoolOK
<1>2. /\ Tail(pool) \in Seq(Chan) /\ Len(Tail(pool)) = Len(pool) - 1
      /\ \A i \in 1..Len(Tail(pool)) : i + 1 \in 1..Len(pool) /\ Tail(pool)[i] = pool[i + 1]
      /\ Head(pool) = pool[1]
  BY <1>1
<1>3. /\ Range(pool) = {pool[i] : i \in 1..Len(pool)}
      /\ Range(Tail(pool)) = {Tail(pool)[i] : i \in 1..Len(Tail(pool))}
  <2>1. DOMAIN pool = 1..Len(pool) /\ DOMAIN Tail(pool) = 1..Len(Tail(pool))
    BY <1>1, <1>2
  <2>2. QED
    BY <2>1 DEF Range
<1>4. Head(pool) \in Range(pool)
  BY <1>1, <1>2, <1>3
<1>5. Range(Tail(pool)) \subseteq Range(pool)
  BY <1>2, <1>3
<1>6. \A i \in 1..Len(Tail(pool)) : Tail(pool)[i] # pool[1]
  BY <1>1, <1>2
<1>7. \A i, j \in 1..Len(Tail(pool)) : Tail(pool)[i] = Tail(pool)[j] => i = j
  <2> SUFFICES ASSUME NEW i \in 1..Len(Tail(pool)), NEW j \in 1..Len(Tail(pool)),
                      Tail(pool)[i] = Tail(pool)[j]
               PROVE  i = j
    OBVIOUS
  <2>1. i + 1 = j + 1
    BY <1>1, <1>2
  <2>2. QED
    BY <2>1
<1>8. QED
  BY <1>2, <1>3, <1>4, <1>5, <1>6, <1>7

LEMMA Appended ==
    ASSUME NEW S, NEW s \in Seq(S), NEW e \in S
    PROVE  /\ Append(s, e) \in Seq(S) /\ Len(Append(s, e)) = Len(s) + 1 /\ Append(s, e) # <<>>
           /\ \A i \in 1..Len(s) : Append(s, e)[i] = s[i]
           /\ Append(s, e)[Len(s) + 1] = e
  OBVIOUS

\* A pool takes a new channel, and lets the oldest go when it is full.
LEMMA OfferedToPool ==
    ASSUME PoolOK, NEW ch \in Chan, ch \notin Range(pool)
    PROVE  LET queue == Offer(pool, ch)
           IN  /\ queue \in Seq(Chan) /\ queue # <<>>
               /\ Range(queue) \subseteq Range(pool) \cup {ch}
               /\ \A i, j \in 1..Len(queue) : queue[i] = queue[j] => i = j
<1> DEFINE kept == IF Len(pool) < Capacity THEN pool
                   ELSE SubSeq(pool, Len(pool) - Capacity + 2, Len(pool))
           off  == IF Len(pool) < Capacity THEN 0 ELSE Len(pool) - Capacity + 1
           queue == Append(kept, ch)
<1>1. /\ pool \in Seq(Chan) /\ Len(pool) \in Nat /\ Capacity \in Nat /\ Capacity >= 1
      /\ \A i, j \in 1..Len(pool) : pool[i] = pool[j] => i = j
  BY SessionsAssumption DEF PoolOK
<1>2. off \in Nat /\ off <= Len(pool)
  BY <1>1
<1>3. /\ kept \in Seq(Chan) /\ Len(kept) = Len(pool) - off
      /\ \A i \in 1..Len(kept) : i + off \in 1..Len(pool) /\ kept[i] = pool[i + off]
  <2>1. CASE Len(pool) < Capacity
    BY <1>1, <2>1
  <2>2. CASE ~(Len(pool) < Capacity)
    <3>1. kept = SubSeq(pool, off + 1, Len(pool)) /\ off + 1 >= 1
      BY <1>1, <1>2, <2>2
    <3> HIDE DEF kept, off
    <3>2. Len(kept) = Len(pool) - off /\ kept \in Seq(Chan)
      BY <1>1, <1>2, <3>1
    <3>3. QED
      BY <1>1, <1>2, <3>1, <3>2
  <2>3. QED
    BY <2>1, <2>2
<1>4. Offer(pool, ch) = queue
  BY DEF Offer
<1> HIDE DEF kept, off
<1>5. /\ queue \in Seq(Chan) /\ Len(queue) = Len(kept) + 1 /\ queue # <<>>
      /\ \A i \in 1..Len(kept) : queue[i] = kept[i]
      /\ queue[Len(kept) + 1] = ch
  <2>1. kept \in Seq(Chan)
    BY <1>3
  <2>2. QED
    BY <2>1, Appended
<1> HIDE DEF queue
<1>6. \A i \in 1..Len(queue) : i \in 1..Len(kept) \/ i = Len(kept) + 1
  BY <1>3, <1>5
<1>7. \A i \in 1..Len(kept) : kept[i] \in Range(pool) /\ kept[i] # ch
  BY <1>1, <1>3 DEF Range
<1>8. Range(queue) \subseteq Range(pool) \cup {ch}
  BY <1>5, <1>6, <1>7 DEF Range
<1>9. ASSUME NEW i \in 1..Len(queue), NEW j \in 1..Len(queue), queue[i] = queue[j]
      PROVE  i = j
  <2>1. CASE i \in 1..Len(kept) /\ j \in 1..Len(kept)
    <3>1. pool[i + off] = pool[j + off] /\ i + off \in 1..Len(pool) /\ j + off \in 1..Len(pool)
      BY <1>3, <1>5, <1>9, <2>1
    <3>2. i + off = j + off
      BY <1>1, <3>1
    <3>3. QED
      BY <1>2, <3>2
  <2>2. CASE ~(i \in 1..Len(kept) /\ j \in 1..Len(kept))
    BY <1>5, <1>6, <1>7, <1>9, <2>2
  <2>3. QED
    BY <2>1, <2>2
<1>10. QED
  BY <1>4, <1>5, <1>8, <1>9

-----------------------------------------------------------------------------
(* The steps of a slot thread. *)

\* A step that leaves the manager alone, and breaks no channel but the one it
\* has just refused.
LEMMA QuietOK ==
    ASSUME SsInv, SlotsOK', UNCHANGED <<held, pool, client>>, Refused => Refused',
           \A ch \in held : Live(ch) =>
                Live(ch)' \/ (ch = client.channel /\ ch \notin Range(pool) /\ Refused')
    PROVE  SsInv'
<1>1. PoolOK /\ ClientOK /\ RetryOK /\ Range(pool) \subseteq held
  BY DEF SsInv, PoolOK
<1>2. PoolOK' /\ ClientOK'
  BY <1>1 DEF PoolOK, ClientOK
<1>3. PoolIsLive => PoolIsLive'
  BY <1>1 DEF PoolIsLive
<1>4. client.at = "wait" => (Live(client.channel) => Live(client.channel)' \/ Refused')
  BY <1>1 DEF ClientOK, Live
<1>5. RetryOK'
  BY <1>1, <1>3, <1>4 DEF RetryOK
<1>6. QED
  BY <1>2, <1>5 DEF SsInv

\* A step that may break anything is noted.
LEMMA UnsettledOK ==
    ASSUME SsInv, SlotsOK', UNCHANGED <<held, pool>>, client' = Unsettled
    PROVE  SsInv'
<1>1. PoolOK /\ ClientOK
  BY DEF SsInv
<1>2. /\ client'.at = client.at /\ client'.channel = client.channel /\ client'.settled = FALSE
      /\ client' = [at |-> client'.at, attempt |-> client'.attempt, channel |-> client'.channel,
                    greeted |-> client'.greeted, req |-> client'.req, settled |-> client'.settled]
  BY <1>1 DEF Unsettled, ClientOK
<1>3. PoolOK' /\ ClientOK'
  BY <1>1, <1>2 DEF PoolOK, ClientOK
<1>4. RetryOK'
  BY <1>2 DEF RetryOK
<1>5. QED
  BY <1>3, <1>4 DEF SsInv

LEMMA Moved ==
    ASSUME SlotsOK, NEW s \in Slot, slot[s].at # "off", UNCHANGED up,
           NEW at \in {"retry", "lane", "hello", "serve"}, Goes(s, at)
    PROVE  /\ SlotsOK' /\ slot'[s].at = at /\ slot'[s].gen = slot[s].gen
           /\ \A x \in Slot : x # s => slot'[x] = slot[x]
  BY DEF SlotsOK, Goes, SlotState

\* A thread that moves on without giving up its connection.
LEMMA MovedOn ==
    ASSUME SsInv, NEW s \in Slot, slot[s].at # "off", UNCHANGED <<up, held, pool, client>>,
           NEW at \in {"lane", "hello", "serve"}, Goes(s, at), Refused => Refused'
    PROVE  SsInv'
<1>1. SlotsOK /\ PoolOK
  BY DEF SsInv
<1>2. /\ SlotsOK' /\ slot'[s].at = at /\ slot'[s].gen = slot[s].gen
      /\ \A x \in Slot : x # s => slot'[x] = slot[x]
  BY <1>1, Moved
<1>3. \A ch \in held : Live(ch) => Live(ch)'
  BY <1>1, <1>2 DEF Live, PoolOK, Chan
<1>4. QED
  BY <1>2, <1>3, QuietOK

LEMMA AuthenticateOK ==
    ASSUME SsInv, NEW s \in Slot, Authenticate(s)
    PROVE  SsInv'
<1>1. SlotsOK /\ slot[s].at # "off" /\ UNCHANGED <<up, held, pool, answer>>
  BY DEF SsInv, Authenticate
<1>2. CASE Goes(s, "lane") /\ UNCHANGED <<client, faults>>
  <2>1. Refused => Refused'
    BY <1>1, <1>2 DEF Refused
  <2>2. QED
    BY <1>1, <1>2, <2>1, MovedOn
<1>3. CASE Goes(s, "retry") /\ client' = Unsettled
  <2>1. SlotsOK'
    BY <1>1, <1>3, Moved
  <2>2. QED
    BY <1>1, <1>3, <2>1, UnsettledOK
<1>4. QED
  BY <1>2, <1>3 DEF Authenticate

LEMMA ReadLaneOK ==
    ASSUME SsInv, NEW s \in Slot, ReadLane(s)
    PROVE  SsInv'
<1>1. /\ slot[s].at # "off" /\ Goes(s, "hello")
      /\ UNCHANGED <<up, held, pool, client, answer>>
  BY DEF ReadLane
<1>2. Refused => Refused'
  BY <1>1 DEF Refused
<1>3. QED
  BY <1>1, <1>2, MovedOn

LEMMA HandshakeOK ==
    ASSUME SsInv, NEW s \in Slot, Handshake(s)
    PROVE  SsInv'
<1>1. /\ SlotsOK /\ PoolOK /\ ClientOK /\ slot[s].at # "off" /\ answer = Nothing
      /\ UNCHANGED <<up, held, pool, client>> /\ ~client.greeted
      /\ client.at = "wait" /\ client.channel = Channel(s)
  BY DEF SsInv, Handshake, Asked
<1>2. ~Refused
  BY <1>1 DEF Refused
<1>3. CASE agrees
  <2>1. Goes(s, "serve")
    BY <1>3 DEF Handshake
  <2>2. QED
    BY <1>1, <1>2, <2>1, MovedOn
<1>4. CASE ~agrees
  <2>1. Goes(s, "retry") /\ answer' = [is |-> "rejected"]
    BY <1>4 DEF Handshake
  <2>2. Refused'
    BY <1>1, <2>1, SessionsAssumption DEF Refused
  <2>3. /\ SlotsOK' /\ slot'[s].gen = slot[s].gen
        /\ \A x \in Slot : x # s => slot'[x] = slot[x]
    BY <1>1, <2>1, Moved
  <2>4. ASSUME NEW ch \in held, Live(ch)
        PROVE  Live(ch)' \/ (ch = client.channel /\ ch \notin Range(pool))
    <3>1. ch \in Chan /\ client.channel \notin Range(pool)
      BY <1>1 DEF PoolOK, ClientOK
    <3>2. CASE ch[1] = s
      BY <1>1, <2>4, <3>1, <3>2 DEF Live, Chan, Channel
    <3>3. CASE ch[1] # s
      BY <2>3, <2>4, <3>1, <3>3 DEF Live, Chan
    <3>4. QED
      BY <3>2, <3>3
  <2>5. QED
    BY <1>1, <2>2, <2>3, <2>4, QuietOK
<1>5. QED
  BY <1>3, <1>4

LEMMA HangUpOK ==
    ASSUME SsInv, NEW s \in Slot, HangUp(s)
    PROVE  SsInv'
<1>1. /\ SlotsOK /\ PoolOK /\ slot[s].at # "off" /\ Channel(s) \notin held /\ Goes(s, "retry")
      /\ UNCHANGED <<up, held, pool, client, answer>>
  BY DEF SsInv, HangUp
<1>2. Refused => Refused'
  BY <1>1 DEF Refused
<1>3. SlotsOK' /\ \A x \in Slot : x # s => slot'[x] = slot[x]
  BY <1>1, Moved
<1>4. ASSUME NEW ch \in held, Live(ch) PROVE Live(ch)'
  <2>1. ch \in Chan
    BY <1>1 DEF PoolOK
  <2>2. ch[1] # s
    BY <1>1, <1>4, <2>1 DEF Live, Chan, Channel
  <2>3. QED
    BY <1>3, <1>4, <2>1, <2>2 DEF Live, Chan
<1>5. QED
  BY <1>1, <1>2, <1>3, <1>4, QuietOK

\* Nothing the connections are about has changed.
LEMMA ElsewhereOK ==
    ASSUME SsInv, UNCHANGED <<up, slot, held, pool, client>>, Refused => Refused'
    PROVE  SsInv'
<1>1. SlotsOK'
  BY DEF SsInv, SlotsOK
<1>2. \A ch \in held : Live(ch) => Live(ch)'
  BY DEF Live
<1>3. QED
  BY <1>1, <1>2, QuietOK

LEMMA DispatchOK ==
    ASSUME SsInv, NEW s \in Slot, Dispatch(s)
    PROVE  SsInv'
<1>1. /\ SlotsOK /\ slot[s].at = "serve" /\ answer = Nothing /\ UNCHANGED <<up, held, pool>>
  BY DEF SsInv, Dispatch, Asked
<1>2. CASE UNCHANGED <<slot, client, faults>>
  BY <1>1, <1>2, ElsewhereOK DEF Refused
<1>3. CASE Goes(s, "retry") /\ client' = Unsettled
  <2>1. SlotsOK'
    BY <1>1, <1>3, Moved
  <2>2. QED
    BY <1>1, <1>3, <2>1, UnsettledOK
<1>4. QED
  BY <1>2, <1>3 DEF Dispatch

LEMMA ConnectOK ==
    ASSUME SsInv, NEW s \in Slot, Connect(s)
    PROVE  SsInv'
<1> DEFINE ours == {c \in held : c[1] = s}
           used == {ch[2] : ch \in ours}
           gen  == Min((1..Cardinality(used) + 1) \ used)
           new  == <<s, gen>>
<1>1. /\ SlotsOK /\ PoolOK /\ ClientOK /\ RetryOK
      /\ slot[s].at = "retry" /\ slot' = [slot EXCEPT ![s] = [at |-> "auth", gen |-> gen]]
      /\ pool' = Offer(pool, new)
      /\ held' = (held \ (Range(pool) \ Range(pool'))) \cup {new}
      /\ UNCHANGED <<up, client, answer>>
  BY DEF SsInv, Connect
<1>2. IsFiniteSet(used)
  <2> DEFINE f == [c \in ours |-> c[2]]
  <2>1. IsFiniteSet(ours)
    BY <1>1, FS_Subset DEF PoolOK
  <2>2. f \in Surjection(ours, used)
    BY DEF Surjection
  <2> HIDE DEF f, ours, used
  <2>3. QED
    BY <2>1, <2>2, FS_Surjection
<1>3. gen \in Nat /\ gen \notin used
  <2> HIDE DEF used
  <2>1. QED
    BY <1>2, FreeNumber
<1>4. new \in Chan /\ new \notin held
  <2> HIDE DEF gen
  <2>1. new \in Chan /\ new[1] = s /\ new[2] = gen
    BY <1>3 DEF Chan
  <2>2. new \in held => new \in ours
    BY <2>1
  <2>3. new \in ours => gen \in used
    BY <2>1
  <2>4. QED
    BY <1>3, <2>1, <2>2, <2>3
<1> HIDE DEF gen, new, used, ours
<1>5. /\ pool' \in Seq(Chan) /\ pool' # <<>> /\ Range(pool') \subseteq Range(pool) \cup {new}
      /\ \A i, j \in 1..Len(pool') : pool'[i] = pool'[j] => i = j
  <2>1. new \notin Range(pool)
    BY <1>1, <1>4 DEF PoolOK
  <2>2. QED
    BY <1>1, <1>4, <2>1, OfferedToPool
<1>6. SlotsOK'
  <2>1. up
    BY <1>1 DEF SlotsOK
  <2>2. QED
    BY <1>1, <1>3, <2>1 DEF SlotsOK, SlotState
<1>7. PoolOK'
  <2>1. IsFiniteSet(held')
    <3>1. IsFiniteSet(held \ (Range(pool) \ Range(pool')))
      BY <1>1, FS_Subset DEF PoolOK
    <3>2. QED
      BY <1>1, <3>1, FS_AddElement
  <2>2. held' \subseteq Chan /\ Range(pool') \subseteq held'
    BY <1>1, <1>4, <1>5 DEF PoolOK
  <2>3. QED
    BY <1>5, <2>1, <2>2 DEF PoolOK
<1>8. \A ch : ch \in held \ Range(pool) => ch \in held' \ Range(pool')
  BY <1>1, <1>4, <1>5
<1>9. ClientOK'
  BY <1>1, <1>8 DEF ClientOK
<1>10. \A ch \in held : Live(ch) => Live(ch)'
  BY <1>1 DEF Live, PoolOK, SlotsOK, Chan
<1>11. slot'[s].at = "auth" /\ slot'[s].gen = gen /\ new[1] = s /\ new[2] = gen
  BY <1>1 DEF SlotsOK, new
<1>12. PoolIsLive => PoolIsLive'
  <2> SUFFICES ASSUME PoolIsLive, NEW ch \in Range(pool') PROVE Live(ch)'
    BY <1>5 DEF PoolIsLive
  <2>1. CASE ch = new
    BY <1>11, <2>1 DEF Live
  <2>2. CASE ch \in Range(pool)
    BY <1>1, <1>10, <2>2 DEF PoolIsLive, PoolOK
  <2>3. QED
    BY <1>5, <2>1, <2>2
<1>13. client.at = "wait" => (Live(client.channel) => Live(client.channel)')
  BY <1>1, <1>10 DEF ClientOK, Live
<1>14. RetryOK'
  BY <1>1, <1>12, <1>13 DEF RetryOK, Refused
<1>15. QED
  BY <1>6, <1>7, <1>9, <1>14 DEF SsInv

-----------------------------------------------------------------------------
(* The steps of the manager. *)

\* The client's request is over.
LEMMA IdleOK ==
    ASSUME SlotsOK', PoolOK', NEW c, NEW r,
           c = [at |-> c.at, attempt |-> c.attempt, channel |-> c.channel,
                greeted |-> c.greeted, req |-> c.req, settled |-> c.settled],
           client' = [c EXCEPT !.at = "idle", !.req = r, !.settled = FALSE],
           c.channel # Nothing => c.channel \in held' \ Range(pool')
    PROVE  SsInv'
<1>1. /\ client'.at = "idle" /\ client'.settled = FALSE /\ client'.channel = c.channel
      /\ client' = [at |-> client'.at, attempt |-> client'.attempt, channel |-> client'.channel,
                    greeted |-> client'.greeted, req |-> client'.req, settled |-> client'.settled]
  OBVIOUS
<1>2. ClientOK' /\ RetryOK'
  BY <1>1 DEF ClientOK, RetryOK
<1>3. QED
  BY <1>2 DEF SsInv

LEMMA ClosedShape ==
    ASSUME ClientOK, NEW c, c = Closed(client)
    PROVE  /\ c.channel = Nothing /\ c.settled = client.settled /\ c.req = client.req
           /\ c = [at |-> c.at, attempt |-> c.attempt, channel |-> c.channel,
                   greeted |-> c.greeted, req |-> c.req, settled |-> c.settled]
<1>1. client = [at |-> client.at, attempt |-> client.attempt, channel |-> client.channel,
                greeted |-> client.greeted, req |-> client.req, settled |-> client.settled]
  BY DEF ClientOK
<1>2. c = [client EXCEPT !.channel = Nothing, !.greeted = FALSE]
  BY DEF Closed
<1>3. QED
  BY <1>1, <1>2

LEMMA AskOK ==
    ASSUME SsInv, NEW rd \in Reader, Ask(rd)
    PROVE  SsInv'
<1>1. /\ SlotsOK /\ PoolOK /\ ClientOK /\ client.at = "idle"
      /\ UNCHANGED <<up, slot, held, pool>>
      /\ client' = [client EXCEPT !.at = IF client.channel = Nothing THEN "take" ELSE "wait",
                                  !.attempt = 1, !.req = RequestOf(rd),
                                  !.settled = pool # <<>> /\ \A ch \in Range(pool) : Live(ch)]
  BY DEF SsInv, Ask
<1>2. /\ client'.at = (IF client.channel = Nothing THEN "take" ELSE "wait")
      /\ client'.channel = client.channel /\ client'.attempt = 1
      /\ client'.settled = (pool # <<>> /\ \A ch \in Range(pool) : Live(ch))
      /\ client' = [at |-> client'.at, attempt |-> client'.attempt, channel |-> client'.channel,
                    greeted |-> client'.greeted, req |-> client'.req, settled |-> client'.settled]
  BY <1>1 DEF ClientOK
<1>3. SlotsOK' /\ PoolOK'
  BY <1>1 DEF SlotsOK, PoolOK
<1>4. client'.settled = PoolIsLive /\ client'.settled \in BOOLEAN
  BY <1>2 DEF PoolIsLive
<1>5. ClientOK'
  BY <1>1, <1>2, <1>4 DEF ClientOK
<1>6. PoolIsLive => PoolIsLive'
  BY <1>1 DEF PoolIsLive, Live
<1>7. RetryOK'
  BY <1>2, <1>4, <1>6 DEF RetryOK
<1>8. QED
  BY <1>3, <1>5, <1>7 DEF SsInv

LEMMA TakeOK ==
    ASSUME SsInv, Take
    PROVE  SsInv'
<1>1. /\ SlotsOK /\ PoolOK /\ ClientOK /\ RetryOK /\ client.at = "take" /\ pool # <<>>
      /\ client' = [client EXCEPT !.at = "wait", !.channel = Head(pool), !.greeted = FALSE]
      /\ pool' = Tail(pool) /\ UNCHANGED <<up, slot, held>>
  BY DEF SsInv, Take
<1>2. /\ client'.at = "wait" /\ client'.channel = Head(pool) /\ client'.settled = client.settled
      /\ client' = [at |-> client'.at, attempt |-> client'.attempt, channel |-> client'.channel,
                    greeted |-> client'.greeted, req |-> client'.req, settled |-> client'.settled]
  BY <1>1 DEF ClientOK
<1>3. /\ Head(pool) \in Range(pool) /\ Head(pool) \notin Range(pool')
      /\ pool' \in Seq(Chan) /\ Range(pool') \subseteq Range(pool)
      /\ \A i, j \in 1..Len(pool') : pool'[i] = pool'[j] => i = j
  BY <1>1, TakenFromPool
<1>4. SlotsOK' /\ PoolOK'
  BY <1>1, <1>3 DEF SlotsOK, PoolOK
<1>5. ClientOK'
  BY <1>1, <1>2, <1>3 DEF ClientOK, PoolOK
<1>6. client.settled => Live(Head(pool))
  BY <1>1, <1>3 DEF RetryOK, PoolIsLive
<1>7. RetryOK'
  BY <1>1, <1>2, <1>6 DEF RetryOK, Live
<1>8. QED
  BY <1>4, <1>5, <1>7 DEF SsInv

LEMMA ReceiveOK ==
    ASSUME SsInv, Receive
    PROVE  SsInv'
<1>1. /\ SlotsOK /\ PoolOK /\ ClientOK /\ RetryOK /\ client.at = "wait" /\ answer # Nothing
      /\ UNCHANGED <<up, slot, pool>>
  BY DEF SsInv, Receive
<1>2. SlotsOK'
  BY <1>1 DEF SlotsOK
<1>3. CASE client.greeted /\ held' = held /\ Return(client, answer, "answered")
  <2>1. PoolOK' /\ (client.channel # Nothing => client.channel \in held' \ Range(pool'))
    BY <1>1, <1>3 DEF PoolOK, ClientOK
  <2>2. QED
    BY <1>1, <1>2, <1>3, <2>1, IdleOK DEF Return, ClientOK
<1>4. CASE /\ ~client.greeted /\ answer.is = "welcome"
           /\ client' = [client EXCEPT !.greeted = TRUE] /\ held' = held
  <2>1. /\ client'.at = client.at /\ client'.channel = client.channel
        /\ client'.attempt = client.attempt /\ client'.settled = client.settled
        /\ client' = [at |-> client'.at, attempt |-> client'.attempt, channel |-> client'.channel,
                    greeted |-> client'.greeted, req |-> client'.req, settled |-> client'.settled]
    BY <1>1, <1>4 DEF ClientOK
  <2>2. PoolOK' /\ ClientOK'
    BY <1>1, <1>4, <2>1 DEF PoolOK, ClientOK
  <2>3. ~Refused /\ (PoolIsLive => PoolIsLive')
    BY <1>1, <1>4 DEF Refused, PoolIsLive, Live
  <2>4. Live(client.channel) => Live(client.channel)'
    BY <1>1, <2>1 DEF Live
  <2>5. RetryOK'
    BY <1>1, <2>1, <2>3, <2>4 DEF RetryOK
  <2>6. QED
    BY <1>2, <2>2, <2>5 DEF SsInv
<1>5. CASE held' = held \ {client.channel} /\ Return(Closed(client), answer, "answered")
  <2> DEFINE c == Closed(client)
  <2>1. /\ c.channel = Nothing
        /\ c = [at |-> c.at, attempt |-> c.attempt, channel |-> c.channel,
                greeted |-> c.greeted, req |-> c.req, settled |-> c.settled]
    BY <1>1, ClosedShape
  <2>2. PoolOK'
    BY <1>1, <1>5, FS_Subset DEF PoolOK, ClientOK
  <2>3. client' = [c EXCEPT !.at = "idle", !.req = NoRequest, !.settled = FALSE]
    BY <1>5 DEF Return
  <2> HIDE DEF c
  <2>4. QED
    BY <1>2, <2>1, <2>2, <2>3, IdleOK
<1>6. QED
  BY <1>3, <1>4, <1>5 DEF Receive

\* A request does not fail for good while it is settled.
LEMMA SettledFailure ==
    ASSUME SsInv, Fails, client.settled
    PROVE  client.attempt = 1 /\ client.at = "wait" /\ PoolIsLive
  BY DEF SsInv, RetryOK, Fails, PoolIsLive, Refused

LEMMA FailsOK ==
    ASSUME SsInv, Fails
    PROVE  SsInv'
<1>1. /\ SlotsOK /\ PoolOK /\ ClientOK /\ RetryOK /\ UNCHANGED <<up, slot, pool>>
      /\ held' = held \ {client.channel} /\ Failure /\ client.at \in {"take", "wait"}
  BY DEF SsInv, Fails, Failure
<1>2. client.channel \notin Range(pool)
  <2>1. Nothing \notin Range(pool)
    BY <1>1, SessionsAssumption DEF PoolOK, Chan
  <2>2. QED
    BY <1>1, <2>1 DEF ClientOK
<1> DEFINE c == Closed(client)
<1>3. /\ c.channel = Nothing /\ c.settled = client.settled
      /\ c = [at |-> c.at, attempt |-> c.attempt, channel |-> c.channel,
              greeted |-> c.greeted, req |-> c.req, settled |-> c.settled]
  BY <1>1, ClosedShape
<1>4. SlotsOK' /\ PoolOK'
  <2>1. IsFiniteSet(held')
    BY <1>1, FS_Subset DEF PoolOK
  <2>2. QED
    BY <1>1, <1>2, <2>1 DEF SlotsOK, PoolOK
<1>5. CASE client.attempt = 1
  <2>1. client' = [c EXCEPT !.at = "take", !.attempt = 2]
    BY <1>1, <1>5 DEF Failure
  <2> HIDE DEF c
  <2>2. /\ client'.at = "take" /\ client'.channel = Nothing /\ client'.settled = client.settled
        /\ client' = [at |-> client'.at, attempt |-> client'.attempt, channel |-> client'.channel,
                    greeted |-> client'.greeted, req |-> client'.req, settled |-> client'.settled]
    BY <1>3, <2>1
  <2>3. ClientOK'
    BY <1>1, <2>2 DEF ClientOK
  <2>4. PoolIsLive => PoolIsLive'
    BY <1>1 DEF PoolIsLive, Live
  <2>5. RetryOK'
    BY <2>2, <2>4, SettledFailure DEF RetryOK
  <2>6. QED
    BY <1>4, <2>3, <2>5 DEF SsInv
<1>6. CASE client.attempt # 1
  <2>1. client' = [c EXCEPT !.at = "idle", !.req = NoRequest, !.settled = FALSE]
    BY <1>1, <1>6 DEF Failure, Return
  <2> HIDE DEF c
  <2>2. QED
    BY <1>3, <1>4, <2>1, IdleOK
<1>7. QED
  BY <1>5, <1>6

-----------------------------------------------------------------------------
(* What goes wrong. *)

LEMMA DieOK ==
    ASSUME SsInv, Die
    PROVE  SsInv'
<1>1. /\ SlotsOK /\ slot' = [s \in Slot |-> [slot[s] EXCEPT !.at = "off"]] /\ up' = FALSE
      /\ UNCHANGED <<held, pool>> /\ client' = Unsettled
  BY DEF SsInv, Die
<1>2. SlotsOK'
  BY <1>1 DEF SlotsOK, SlotState
<1>3. QED
  BY <1>1, <1>2, UnsettledOK

LEMMA StartOK ==
    ASSUME SsInv, Start
    PROVE  SsInv'
<1>1. /\ SlotsOK /\ PoolOK /\ ~up /\ up' = TRUE
      /\ slot' = [s \in Slot |-> [slot[s] EXCEPT !.at = "retry"]]
      /\ UNCHANGED <<held, pool, client, answer>>
  BY DEF SsInv, Start
<1>2. SlotsOK' /\ (Refused => Refused')
  BY <1>1 DEF SlotsOK, SlotState, Refused
<1>3. \A ch \in held : ~Live(ch)
  BY <1>1 DEF SlotsOK, PoolOK, Chan, Live
<1>4. QED
  BY <1>1, <1>2, <1>3, QuietOK

LEMMA ManagerDiesOK ==
    ASSUME SsInv, ManagerDies
    PROVE  SsInv'
<1>1. /\ SlotsOK /\ UNCHANGED <<up, slot>> /\ held' = {} /\ pool' = <<>> /\ client' = Disconnected
  BY DEF SsInv, ManagerDies
<1>2. SlotsOK'
  BY <1>1 DEF SlotsOK
<1>3. Range(pool') = {} /\ IsFiniteSet(held')
  BY <1>1, FS_EmptySet DEF Range
<1>4. PoolOK'
  BY <1>1, <1>3 DEF PoolOK
<1>5. client'.at = "idle" /\ client'.channel = Nothing /\ client'.settled = FALSE
  BY <1>1 DEF Disconnected
<1>6. ClientOK' /\ RetryOK'
  BY <1>1, <1>5 DEF ClientOK, RetryOK, Disconnected
<1>7. QED
  BY <1>2, <1>4, <1>6 DEF SsInv

LEMMA CancelOK ==
    ASSUME SsInv, Cancel
    PROVE  SsInv'
<1>1. /\ SlotsOK /\ PoolOK /\ ClientOK /\ pool # <<>> /\ pool' = Tail(pool)
      /\ UNCHANGED <<up, slot, held>>
      /\ client' = [client EXCEPT !.at = "idle", !.req = NoRequest, !.settled = FALSE]
  BY DEF SsInv, Cancel, Return
<1>2. /\ pool' \in Seq(Chan) /\ Range(pool') \subseteq Range(pool)
      /\ \A i, j \in 1..Len(pool') : pool'[i] = pool'[j] => i = j
  BY <1>1, TakenFromPool
<1>3. SlotsOK' /\ PoolOK'
  BY <1>1, <1>2 DEF SlotsOK, PoolOK
<1>4. client.channel # Nothing => client.channel \in held' \ Range(pool')
  BY <1>1, <1>2 DEF ClientOK
<1>5. client = [at |-> client.at, attempt |-> client.attempt, channel |-> client.channel,
                greeted |-> client.greeted, req |-> client.req, settled |-> client.settled]
  BY <1>1 DEF ClientOK
<1>6. QED
  BY <1>1, <1>3, <1>4, <1>5, IdleOK

-----------------------------------------------------------------------------
LEMMA SsInitOK == SsInit => SsInv
<1> SUFFICES ASSUME SsInit PROVE SsInv
  OBVIOUS
<1>1. /\ up = TRUE /\ slot = [s \in Slot |-> [at |-> "retry", gen |-> 1]]
      /\ held = {} /\ pool = <<>> /\ client = Disconnected
  BY DEF SsInit
<1>2. SlotsOK
  BY <1>1 DEF SlotsOK, SlotState
<1>3. Range(pool) = {} /\ IsFiniteSet(held)
  BY <1>1, FS_EmptySet DEF Range
<1>4. PoolOK
  BY <1>1, <1>3 DEF PoolOK
<1>5. client.at = "idle" /\ client.channel = Nothing /\ client.settled = FALSE
  BY <1>1 DEF Disconnected
<1>6. ClientOK /\ RetryOK
  BY <1>1, <1>5 DEF ClientOK, RetryOK, Disconnected
<1>7. QED
  BY <1>2, <1>4, <1>6 DEF SsInv

LEMMA SsStepOK == SsInv /\ [SsNext]_ssVars => SsInv'
<1> SUFFICES ASSUME SsInv, [SsNext]_ssVars PROVE SsInv'
  OBVIOUS
<1>1. CASE \E s \in Slot : SlotStep(s)
  BY <1>1, ConnectOK, AuthenticateOK, ReadLaneOK, HandshakeOK, HangUpOK, DispatchOK DEF SlotStep
<1>2. CASE \E rd \in Reader : Ask(rd)
  BY <1>2, AskOK
<1>3. CASE \E rd \in Reader : \E r \in Rec : View(rd, r)
  <2>1. UNCHANGED <<up, slot, held, pool, client, answer>>
    BY <1>3 DEF View
  <2>2. QED
    BY <2>1, ElsewhereOK DEF Refused
<1>4. CASE Take
  BY <1>4, TakeOK
<1>5. CASE Receive
  BY <1>5, ReceiveOK
<1>6. CASE Fails
  BY <1>6, FailsOK
<1>7. CASE Die
  BY <1>7, DieOK
<1>8. CASE Start
  BY <1>8, StartOK
<1>9. CASE ManagerDies
  BY <1>9, ManagerDiesOK
<1>10. CASE Cancel
  BY <1>10, CancelOK
<1>11. CASE \E r \in Rec : Evict(r)
  <2>1. UNCHANGED <<up, slot, held, pool, client, answer>>
    BY <1>11 DEF Evict
  <2>2. QED
    BY <2>1, ElsewhereOK DEF Refused
<1>12. CASE UNCHANGED ssVars
  <2>1. UNCHANGED <<up, slot, held, pool, client, answer>>
    BY <1>12 DEF ssVars
  <2>2. QED
    BY <2>1, ElsewhereOK DEF Refused
<1>13. CASE \E rd \in Reader : StreamPiece(rd) \/ StreamEnd(rd) \/ StreamFails(rd)
  <2>1. UNCHANGED <<up, slot, held, pool, client, answer>>
    BY <1>13 DEF StreamPiece, StreamEnd, StreamFails
  <2>2. QED
    BY <2>1, ElsewhereOK DEF Refused
<1>14. QED
  BY <1>1, <1>2, <1>3, <1>4, <1>5, <1>6, <1>7, <1>8, <1>9, <1>10, <1>11, <1>12, <1>13 DEF SsNext

(***************************************************************************)
(* The pool holds each open channel at most once and never the one the     *)
(* client uses, and a request that began with a live pool has a live       *)
(* channel for the attempt it has left (IncomingDaemonChannels,            *)
(* DaemonClient and the slot threads of the daemon).                       *)
(***************************************************************************)
THEOREM SessionsInvariance == SsSpec => []SsInv
<1>1. SsInit => SsInv
  BY SsInitOK
<1>2. SsInv /\ [SsNext]_ssVars => SsInv'
  BY SsStepOK
<1>3. QED
  BY <1>1, <1>2, PTL DEF SsSpec

\* How a request may end in one step.
LEMMA SettledStep ==
    ASSUME SsInv, SsNext, client.settled, client.at # "idle", client'.at = "idle"
    PROVE  outcome' # "failed"
<1>0. ClientOK
  BY DEF SsInv
<1>1. CASE Receive
  <2>1. CASE outcome' = "answered"
    BY <2>1
  <2>2. CASE client' = [client EXCEPT !.greeted = TRUE]
    <3>1. client'.at = client.at
      BY <1>0, <2>2 DEF ClientOK
    <3>2. QED
      BY <3>1
  <2>3. QED
    BY <1>1, <2>1, <2>2 DEF Receive, Return
<1>2. CASE Fails
  <2>1. client.attempt = 1
    BY <1>2, SettledFailure
  <2>2. client' = [Closed(client) EXCEPT !.at = "take", !.attempt = 2]
    BY <1>2, <2>1 DEF Fails, Failure
  <2> DEFINE c == Closed(client)
  <2>3. c = [at |-> c.at, attempt |-> c.attempt, channel |-> c.channel,
             greeted |-> c.greeted, req |-> c.req, settled |-> c.settled]
    BY <1>0, ClosedShape
  <2>4. client' = [c EXCEPT !.at = "take", !.attempt = 2]
    BY <2>2
  <2> HIDE DEF c
  <2>5. client'.at = "take"
    BY <2>3, <2>4
  <2>6. QED
    BY <2>5
<1>3. CASE Cancel
  BY <1>3 DEF Cancel, Return
<1>4. CASE ManagerDies
  BY <1>4 DEF ManagerDies
<1>5. CASE client' = client
  BY <1>5
<1>6. CASE client' = Unsettled
  <2>1. client'.at = client.at
    BY <1>0, <1>6 DEF Unsettled, ClientOK
  <2>2. QED
    BY <2>1
<1>7. CASE Take
  <2>1. client'.at = "wait"
    BY <1>0, <1>7 DEF Take, ClientOK
  <2>2. QED
    BY <2>1
<1>8. CASE \E s \in Slot : SlotStep(s)
  <2>1. client' = client \/ client' = Unsettled
    BY <1>8 DEF SlotStep, Connect, Authenticate, ReadLane, Handshake, HangUp, Dispatch
  <2>2. QED
    BY <1>5, <1>6, <2>1
<1>9. CASE \E rd \in Reader : Ask(rd)
  BY <1>9 DEF Ask
<1>10. CASE \E rd \in Reader : \E r \in Rec : View(rd, r)
  BY <1>5, <1>10 DEF View
<1>11. CASE Die \/ Start \/ \E r \in Rec : Evict(r)
  BY <1>5, <1>6, <1>11 DEF Die, Start, Evict
<1>12. CASE \E rd \in Reader : StreamPiece(rd) \/ StreamEnd(rd) \/ StreamFails(rd)
  BY <1>5, <1>12 DEF StreamPiece, StreamEnd, StreamFails
<1>13. QED
  BY <1>1, <1>2, <1>3, <1>4, <1>7, <1>8, <1>9, <1>10, <1>11, <1>12 DEF SsNext

(***************************************************************************)
(* One retry is enough: a request that began while the pool held only live *)
(* connections does not fail unless something broke in the meantime,       *)
(* whatever channel the client still had (DaemonClient::request).          *)
(***************************************************************************)
THEOREM OneRetry == SsSpec => OneRetryIsEnough
<1>1. ASSUME SsInv, [SsNext]_ssVars
      PROVE  [client.settled /\ client'.at = "idle" /\ client.at # "idle"
                => outcome' # "failed"]_ssVars
  <2>1. CASE SsNext
    BY <1>1, <2>1, SettledStep
  <2>2. CASE UNCHANGED ssVars
    BY <2>2
  <2>3. QED
    BY <1>1, <2>1, <2>2
<1>2. QED
  BY <1>1, SessionsInvariance, PTL DEF SsSpec, OneRetryIsEnough

-----------------------------------------------------------------------------
(* Decoding a text piece by piece. *)

\* The text up to byte k, from the text up to the byte before.
Grown(bytes, k, before) ==
    IF Continues(bytes, k) THEN before
    ELSE Append(before, IF Complete(bytes, k) THEN bytes[k] ELSE 0)

LEMMA DecodingDefined ==
    ASSUME NEW bytes \in Seq(Nat)
    PROVE  \E f : f = [k \in 0..Len(bytes) |->
                          IF k = 0 THEN <<>> ELSE Grown(bytes, k, f[k - 1])]
<1> DEFINE G(f, k) == IF k = 0 THEN <<>> ELSE Grown(bytes, k, f[k - 1])
           Defined(m) == \E f : f = [k \in 0..m |-> G(f, k)]
           Bad == {m \in 0..Len(bytes) : ~Defined(m)}
<1>1. Len(bytes) \in Nat
  OBVIOUS
<1>2. Defined(0)
  <2> DEFINE f == [k \in 0..0 |-> <<>>]
  <2>1. f = [k \in 0..0 |-> G(f, k)]
    OBVIOUS
  <2>2. QED
    BY <2>1
<1>3. ASSUME NEW m \in Nat, Defined(m)
      PROVE  Defined(m + 1)
  <2>1. PICK g : g = [k \in 0..m |-> G(g, k)]
    BY <1>3
  <2> DEFINE f == [k \in 0..m + 1 |-> IF k <= m THEN g[k] ELSE Grown(bytes, m + 1, g[m])]
  <2>2. ASSUME NEW k \in 0..m + 1
        PROVE  f[k] = G(f, k)
    <3>1. CASE k = 0
      <4>1. f[0] = g[0] /\ g[0] = <<>>
        BY <2>1
      <4>2. QED
        BY <3>1, <4>1
    <3>2. CASE k \in 1..m
      <4>1. g[k] = Grown(bytes, k, g[k - 1])
        BY <2>1, <3>2
      <4>2. f[k] = g[k] /\ f[k - 1] = g[k - 1]
        BY <3>2
      <4>3. QED
        BY <3>2, <4>1, <4>2
    <3>3. CASE k = m + 1
      BY <3>3
    <3>4. QED
      BY <2>2, <3>1, <3>2, <3>3
  <2>3. f = [k \in 0..m + 1 |-> f[k]]
    OBVIOUS
  <2>4. f = [k \in 0..m + 1 |-> G(f, k)]
    <3> HIDE DEF f, G
    <3>1. QED
      BY <2>2, <2>3
  <2>5. QED
    BY <2>4
<1> HIDE DEF Defined
<1>4. Bad = {}
  <2> SUFFICES ASSUME Bad # {} PROVE FALSE
    OBVIOUS
  <2>0. Bad \subseteq Nat
    BY <1>1
  <2>1. PICK m \in Bad : \A y \in Bad : m <= y
    <3> HIDE DEF Bad
    <3>1. QED
      BY <2>0, FirstOf
  <2>2. m # 0 /\ m \in Nat
    BY <1>2
  <2>3. m - 1 \in 0..Len(bytes) /\ m - 1 \notin Bad
    BY <1>1, <2>1, <2>2
  <2>4. Defined(m - 1)
    BY <2>3
  <2>5. Defined((m - 1) + 1)
    BY <1>3, <2>2, <2>4
  <2>6. QED
    BY <2>1, <2>2, <2>5
<1>5. Defined(Len(bytes))
  BY <1>1, <1>4
<1>6. QED
  BY <1>5 DEF Defined

LEMMA DecodeToSteps ==
    ASSUME NEW bytes \in Seq(Nat)
    PROVE  /\ DecodeTo(bytes, 0) = <<>>
           /\ \A k \in 1..Len(bytes) :
                 DecodeTo(bytes, k) = Grown(bytes, k, DecodeTo(bytes, k - 1))
<1> DEFINE G(f, k) == IF k = 0 THEN <<>> ELSE Grown(bytes, k, f[k - 1])
           d == CHOOSE f : f = [k \in 0..Len(bytes) |-> G(f, k)]
<1>1. d = [k \in 0..Len(bytes) |-> G(d, k)]
  BY DecodingDefined
<1>2. \A n : DecodeTo(bytes, n) = d[n]
  BY DEF DecodeTo, Grown
<1> HIDE DEF d
<1>3. d[0] = <<>>
  BY <1>1
<1>4. ASSUME NEW k \in 1..Len(bytes)
      PROVE  d[k] = Grown(bytes, k, d[k - 1])
  <2>1. Len(bytes) \in Nat /\ k \in 0..Len(bytes) /\ k # 0
    OBVIOUS
  <2>2. d[k] = G(d, k)
    BY <1>1, <2>1
  <2>3. QED
    BY <2>1, <2>2
<1>5. QED
  BY <1>2, <1>3, <1>4

LEMMA DecodeToType ==
    ASSUME NEW bytes \in Seq(Nat)
    PROVE  \A k \in 0..Len(bytes) : DecodeTo(bytes, k) \in Seq(Nat)
<1> DEFINE Bad == {m \in 0..Len(bytes) : DecodeTo(bytes, m) \notin Seq(Nat)}
<1>1. Len(bytes) \in Nat /\ Bad \subseteq Nat
  OBVIOUS
<1>2. Bad = {}
  <2> SUFFICES ASSUME Bad # {} PROVE FALSE
    OBVIOUS
  <2>1. PICK m \in Bad : \A y \in Bad : m <= y
    <3> HIDE DEF Bad
    <3>1. QED
      BY <1>1, FirstOf
  <2>2. m # 0 /\ m \in Nat /\ m \in 1..Len(bytes)
    <3>1. DecodeTo(bytes, 0) \in Seq(Nat)
      BY DecodeToSteps, EmptySeq
    <3>2. m # 0 /\ m \in 0..Len(bytes)
      BY <3>1
    <3>3. QED
      BY <1>1, <3>2
  <2>3. m - 1 \in 0..Len(bytes) /\ m - 1 \notin Bad
    BY <1>1, <2>1, <2>2
  <2>4. DecodeTo(bytes, m - 1) \in Seq(Nat)
    BY <2>3
  <2>5. bytes[m] \in Nat
    BY <2>2
  <2>6. DecodeTo(bytes, m) = Grown(bytes, m, DecodeTo(bytes, m - 1))
    BY <2>2, DecodeToSteps
  <2> DEFINE before == DecodeTo(bytes, m - 1)
             e == IF Complete(bytes, m) THEN bytes[m] ELSE 0
  <2>7. e \in Nat
    BY <2>5
  <2>8. DecodeTo(bytes, m) = before \/ DecodeTo(bytes, m) = Append(before, e)
    BY <2>6 DEF Grown
  <2> HIDE DEF before, e
  <2>9. DecodeTo(bytes, m) \in Seq(Nat)
    <3>1. before \in Seq(Nat)
      BY <2>4 DEF before
    <3>2. Append(before, e) \in Seq(Nat)
      BY <2>7, <3>1, Appended
    <3>3. QED
      BY <2>8, <3>1, <3>2
  <2>10. QED
    BY <2>9
<1>3. QED
  BY <1>2

LEMMA AppendedLater ==
    ASSUME NEW x \in Seq(Nat), NEW y \in Seq(Nat), NEW e \in Nat
    PROVE  x \o Append(y, e) = Append(x \o y, e)
  OBVIOUS

\* No character of the text goes across position at.
Fresh(bytes, at) == at < Len(bytes) => ~Continues(bytes, at + 1)

LEMMA SliceFacts ==
    ASSUME NEW bytes \in Seq(Nat), NEW from \in 0..Len(bytes), NEW to \in from..Len(bytes)
    PROVE  LET s == SubSeq(bytes, from + 1, to)
           IN  /\ s \in Seq(Nat) /\ Len(s) = to - from
               /\ \A i \in 1..to - from : s[i] = bytes[from + i]
<1> DEFINE s == SubSeq(bytes, from + 1, to)
<1>1. Len(bytes) \in Nat /\ from \in Nat /\ to \in Nat /\ to <= Len(bytes) /\ from <= to
  OBVIOUS
<1>2. \A i \in from + 1..to : bytes[i] \in Nat
  BY <1>1
<1>3. /\ s \in Seq(Nat) /\ Len(s) = IF from + 1 <= to THEN to - (from + 1) + 1 ELSE 0
      /\ \A i \in 1..to - (from + 1) + 1 : s[i] = bytes[(from + 1) + i - 1]
  <2>1. from + 1 \in Int /\ to \in Int
    BY <1>1
  <2>2. QED
    BY <1>2, <2>1, SubSeqProperties
<1> HIDE DEF s
<1>4. to - (from + 1) + 1 = to - from /\ \A i \in 1..to - from : (from + 1) + i - 1 = from + i
  BY <1>1
<1>5. Len(s) = to - from
  BY <1>1, <1>3
<1>6. \A i \in 1..to - from : s[i] = bytes[from + i]
  BY <1>3, <1>4
<1>7. QED
  BY <1>3, <1>5, <1>6 DEF s

LEMMA SliceContinues ==
    ASSUME NEW bytes \in Seq(Nat), NEW from \in 0..Len(bytes), NEW to \in from..Len(bytes),
           Fresh(bytes, from), NEW k \in 1..to - from
    PROVE  Continues(SubSeq(bytes, from + 1, to), k) <=> Continues(bytes, from + k)
<1> DEFINE s == SubSeq(bytes, from + 1, to)
<1>0. Len(bytes) \in Nat /\ from \in Nat /\ to \in Nat /\ k \in Nat /\ 1 <= k /\ from + k <= to
      /\ to <= Len(bytes)
  OBVIOUS
<1>1. /\ s \in Seq(Nat) /\ Len(s) = to - from
      /\ \A i \in 1..to - from : s[i] = bytes[from + i]
  BY SliceFacts
<1>2. \A i \in 1..Len(bytes) : bytes[i] \in Nat
  OBVIOUS
<1> HIDE DEF s
<1>3. ASSUME Continues(s, k)
      PROVE  Continues(bytes, from + k)
  <2>1. PICK j \in 1..k - 1 : j + s[j] > k /\ \A l \in j + 1..k : s[l] = 0
    BY <1>3 DEF Continues
  <2>2. from + j \in 1..(from + k) - 1 /\ s[j] = bytes[from + j] /\ bytes[from + j] \in Nat
    BY <1>0, <1>1, <1>2
  <2>3. (from + j) + bytes[from + j] > from + k
    <3> DEFINE w == bytes[from + j]
    <3>1. w \in Nat /\ j + w > k /\ j \in Nat
      BY <2>1, <2>2
    <3> HIDE DEF w
    <3>2. (from + j) + w > from + k
      BY <1>0, <3>1
    <3>3. QED
      BY <3>2 DEF w
  <2>4. ASSUME NEW l \in (from + j) + 1..from + k
        PROVE  bytes[l] = 0
    <3>1. l - from \in j + 1..k /\ l - from \in 1..to - from /\ from + (l - from) = l
      BY <1>0
    <3>2. QED
      BY <1>1, <2>1, <3>1
  <2>5. QED
    BY <2>2, <2>3, <2>4 DEF Continues
<1>4. ASSUME Continues(bytes, from + k)
      PROVE  Continues(s, k)
  <2>1. PICK j \in 1..(from + k) - 1 :
            j + bytes[j] > from + k /\ \A l \in j + 1..from + k : bytes[l] = 0
    BY <1>4 DEF Continues
  <2>2. j > from
    <3> SUFFICES ASSUME j <= from PROVE FALSE
      BY <1>0
    <3>1. j \in 1..(from + 1) - 1 /\ bytes[j] \in Nat
      BY <1>0, <1>2
    <3>2. j + bytes[j] > from + 1
      BY <1>0, <2>1, <3>1
    <3>3. \A l \in j + 1..from + 1 : bytes[l] = 0
      BY <1>0, <2>1
    <3>4. Continues(bytes, from + 1)
      BY <3>1, <3>2, <3>3 DEF Continues
    <3>5. QED
      BY <1>0, <3>4 DEF Fresh
  <2>3. /\ j - from \in 1..k - 1 /\ j - from \in 1..to - from
        /\ s[j - from] = bytes[from + (j - from)] /\ from + (j - from) = j
        /\ bytes[j] \in Nat
    BY <1>0, <1>1, <1>2, <2>2
  <2>4. (j - from) + s[j - from] > k
    BY <1>0, <2>1, <2>3
  <2>5. ASSUME NEW l \in (j - from) + 1..k
        PROVE  s[l] = 0
    <3>1. from + l \in j + 1..from + k /\ l \in 1..to - from
      BY <1>0, <2>2
    <3>2. QED
      BY <1>1, <2>1, <3>1
  <2>6. QED
    BY <2>3, <2>4, <2>5 DEF Continues
<1>5. QED
  BY <1>3, <1>4 DEF s

LEMMA SliceComplete ==
    ASSUME NEW bytes \in Seq(Nat), NEW from \in 0..Len(bytes), NEW to \in from..Len(bytes),
           Fresh(bytes, to), NEW k \in 1..to - from
    PROVE  Complete(SubSeq(bytes, from + 1, to), k) <=> Complete(bytes, from + k)
<1> DEFINE s == SubSeq(bytes, from + 1, to)
           w == bytes[from + k]
<1>0. Len(bytes) \in Nat /\ from \in Nat /\ to \in Nat /\ k \in Nat /\ 1 <= k /\ from + k <= to
      /\ to <= Len(bytes)
  OBVIOUS
<1>1. /\ s \in Seq(Nat) /\ Len(s) = to - from
      /\ \A i \in 1..to - from : s[i] = bytes[from + i]
  BY SliceFacts
<1>2. w \in Nat /\ s[k] = w
  BY <1>0, <1>1
<1> HIDE DEF s
<1>3. ASSUME Complete(s, k)
      PROVE  Complete(bytes, from + k)
  <2>1. w > 0 /\ k + w - 1 <= to - from /\ \A l \in k + 1..k + w - 1 : s[l] = 0
    BY <1>1, <1>2, <1>3 DEF Complete
  <2> HIDE DEF w
  <2>2. (from + k) + w - 1 <= Len(bytes)
    BY <1>0, <1>2, <2>1
  <2>3. ASSUME NEW l \in (from + k) + 1..(from + k) + w - 1
        PROVE  bytes[l] = 0
    <3>1. l - from \in k + 1..k + w - 1 /\ l - from \in 1..to - from /\ from + (l - from) = l
      BY <1>0, <1>2, <2>1
    <3>2. QED
      BY <1>1, <2>1, <3>1
  <2>4. QED
    BY <2>1, <2>2, <2>3 DEF Complete, w
<1>4. ASSUME Complete(bytes, from + k)
      PROVE  Complete(s, k)
  <2>1. /\ w > 0 /\ (from + k) + w - 1 <= Len(bytes)
        /\ \A l \in (from + k) + 1..(from + k) + w - 1 : bytes[l] = 0
    BY <1>4 DEF Complete
  <2>2. k + w - 1 <= to - from
    <3> SUFFICES ASSUME k + w - 1 > to - from PROVE FALSE
      BY <1>0, <1>2
    <3> HIDE DEF w
    <3>1. from + k \in 1..(to + 1) - 1 /\ (from + k) + w > to + 1 /\ to < Len(bytes)
      BY <1>0, <1>2, <2>1
    <3>2. \A l \in (from + k) + 1..to + 1 : bytes[l] = 0
      BY <1>0, <1>2, <2>1, <3>1
    <3>3. Continues(bytes, to + 1)
      BY <3>1, <3>2 DEF Continues, w
    <3>4. QED
      BY <3>1, <3>3 DEF Fresh
  <2> HIDE DEF w
  <2>3. ASSUME NEW l \in k + 1..k + w - 1
        PROVE  s[l] = 0
    <3>1. from + l \in (from + k) + 1..(from + k) + w - 1 /\ l \in 1..to - from
      BY <1>0, <1>2, <2>2
    <3>2. QED
      BY <1>1, <2>1, <3>1
  <2>4. QED
    BY <1>1, <1>2, <2>1, <2>2, <2>3 DEF Complete
<1>5. QED
  BY <1>3, <1>4 DEF s

\* A text that is cut between characters decodes to its pieces.
LEMMA DecodedInPieces ==
    ASSUME NEW bytes \in Seq(Nat), NEW from \in 0..Len(bytes), NEW to \in from..Len(bytes),
           Fresh(bytes, from), Fresh(bytes, to)
    PROVE  DecodeTo(bytes, from) \o Decode(SubSeq(bytes, from + 1, to)) = DecodeTo(bytes, to)
<1> DEFINE s == SubSeq(bytes, from + 1, to)
           Agrees(m) == DecodeTo(bytes, from + m) = DecodeTo(bytes, from) \o DecodeTo(s, m)
           Bad == {m \in 0..to - from : ~Agrees(m)}
<1>0. Len(bytes) \in Nat /\ from \in Nat /\ to \in Nat /\ from <= to /\ to <= Len(bytes)
  OBVIOUS
<1>1. /\ s \in Seq(Nat) /\ Len(s) = to - from
      /\ \A i \in 1..to - from : s[i] = bytes[from + i]
  BY SliceFacts
<1>2. \A k \in 1..to - from : /\ Continues(s, k) <=> Continues(bytes, from + k)
                              /\ Complete(s, k) <=> Complete(bytes, from + k)
  BY SliceContinues, SliceComplete
<1> HIDE DEF s
<1>3. DecodeTo(bytes, from) \in Seq(Nat)
  BY <1>0, DecodeToType
<1>4. Agrees(0)
  <2>1. DecodeTo(s, 0) = <<>>
    BY <1>1, DecodeToSteps
  <2>2. DecodeTo(bytes, from) \o <<>> = DecodeTo(bytes, from)
    BY <1>3
  <2>3. from + 0 = from
    BY <1>0
  <2>4. QED
    BY <2>1, <2>2, <2>3
<1>5. ASSUME NEW m \in 1..to - from, Agrees(m - 1)
      PROVE  Agrees(m)
  <2> DEFINE e == IF Complete(s, m) THEN s[m] ELSE 0
             mine == DecodeTo(s, m - 1)
             before == DecodeTo(bytes, from)
             theirs == DecodeTo(bytes, from + m - 1)
  <2>1. m \in 1..Len(s) /\ from + m \in 1..Len(bytes) /\ from + (m - 1) = from + m - 1
        /\ m - 1 \in 0..Len(s)
    BY <1>0, <1>1
  <2>2. DecodeTo(s, m) = Grown(s, m, mine)
    BY <1>1, <2>1, DecodeToSteps
  <2>3. DecodeTo(bytes, from + m) = Grown(bytes, from + m, theirs)
    BY <2>1, DecodeToSteps
  <2>4. mine \in Seq(Nat) /\ e \in Nat /\ theirs = before \o mine
    <3>1. mine \in Seq(Nat)
      BY <1>1, <2>1, DecodeToType
    <3>2. e \in Nat
      <4>1. s[m] \in Nat
        BY <1>1, <2>1, ElementOfSeq
      <4>2. QED
        BY <4>1
    <3>3. QED
      BY <1>5, <2>1, <3>1, <3>2
  <2>5. Grown(s, m, mine) = IF Continues(s, m) THEN mine ELSE Append(mine, e)
    BY DEF Grown
  <2>6. Grown(bytes, from + m, theirs) = IF Continues(s, m) THEN theirs ELSE Append(theirs, e)
    BY <1>1, <1>2 DEF Grown
  <2> HIDE DEF e, mine, before, theirs
  <2>7. before \o Append(mine, e) = Append(before \o mine, e)
    BY <1>3, <2>4, AppendedLater DEF before
  <2>8. DecodeTo(bytes, from + m) = before \o DecodeTo(s, m)
    BY <2>2, <2>3, <2>4, <2>5, <2>6, <2>7
  <2>9. QED
    BY <2>8 DEF before
<1> HIDE DEF Agrees
<1>6. Bad = {}
  <2> SUFFICES ASSUME Bad # {} PROVE FALSE
    OBVIOUS
  <2>0. Bad \subseteq Nat
    BY <1>0
  <2>1. PICK m \in Bad : \A y \in Bad : m <= y
    <3> HIDE DEF Bad
    <3>1. QED
      BY <2>0, FirstOf
  <2>2. m # 0 /\ m \in 1..to - from
    BY <1>0, <1>4
  <2>3. m - 1 \in 0..to - from /\ m - 1 \notin Bad
    BY <1>0, <2>1, <2>2
  <2>4. QED
    BY <1>5, <2>1, <2>2, <2>3
<1>7. Agrees(to - from)
  BY <1>0, <1>6
<1>8. DecodeTo(bytes, from + (to - from)) = DecodeTo(bytes, from) \o DecodeTo(s, to - from)
  BY <1>7 DEF Agrees
<1>9. from + (to - from) = to
  BY <1>0
<1>10. Decode(s) = DecodeTo(s, to - from)
  BY <1>1 DEF Decode
<1>11. QED
  BY <1>8, <1>9, <1>10 DEF s

LEMMA LesserOf ==
    ASSUME NEW a \in Nat, NEW b \in Nat
    PROVE  Min({a, b}) = IF a <= b THEN a ELSE b
<1>1. Min({a, b}) \in {a, b} /\ Min({a, b}) <= a /\ Min({a, b}) <= b
  BY DEF Min
<1>2. QED
  BY <1>1

LEMMA LastOf ==
    ASSUME NEW n \in Nat, NEW T, T \subseteq 1..n, T # {}
    PROVE  Max(T) \in T
<1> DEFINE U == {n - e : e \in T}
<1>1. U \subseteq Nat /\ U # {}
  <2>1. ASSUME NEW e \in T PROVE n - e \in Nat
    <3>1. e \in 1..n
      OBVIOUS
    <3>2. QED
      BY <3>1
  <2>2. QED
    BY <2>1
<1>2. PICK u \in U : \A y \in U : u <= y
  <2> HIDE DEF U
  <2>1. QED
    BY <1>1, FirstOf
<1>3. PICK x \in T : u = n - x
  OBVIOUS
<1>4. ASSUME NEW y \in T PROVE y <= x
  <2>1. n - y \in U /\ x \in Nat /\ y \in Nat
    OBVIOUS
  <2>2. n - x <= n - y
    BY <1>2, <1>3, <2>1
  <2>3. QED
    BY <2>1, <2>2
<1>5. QED
  BY <1>4 DEF Max

\* A text is cut between characters, if it begins with one.
LEMMA CutBetweenCharacters ==
    ASSUME NEW bytes \in Seq(Nat), NEW from \in 0..Len(bytes), Fresh(bytes, from),
           NEW len \in Nat \ {0}, \A i \in 1..Len(bytes) : bytes[i] <= len
    PROVE  LET rest == SubSeq(bytes, from + 1, Len(bytes))
               max  == IF from + len <= Len(bytes) THEN len ELSE Len(bytes) - from
           IN  \E to \in from..Len(bytes) :
                  /\ TruncateUtf8(rest, max) = SubSeq(bytes, from + 1, to)
                  /\ Fresh(bytes, to)
<1> DEFINE rest == SubSeq(bytes, from + 1, Len(bytes))
           max  == IF from + len <= Len(bytes) THEN len ELSE Len(bytes) - from
           cuts == {e \in 1..len : IsCharBoundary(rest, e)}
           c    == IF cuts = {} THEN len ELSE Max(cuts)
<1>0. Len(bytes) \in Nat /\ from \in Nat /\ from <= Len(bytes) /\ len \in Nat /\ len >= 1
  OBVIOUS
<1>1. /\ rest \in Seq(Nat) /\ Len(rest) = Len(bytes) - from
      /\ \A i \in 1..Len(bytes) - from : rest[i] = bytes[from + i]
  <2>1. Len(bytes) \in from..Len(bytes)
    BY <1>0
  <2>2. QED
    BY <2>1, SliceFacts
<1>2. CASE Len(rest) <= max
  <2>1. TruncateUtf8(rest, max) = SubSeq(bytes, from + 1, Len(bytes))
    BY <1>2 DEF TruncateUtf8
  <2>2. Fresh(bytes, Len(bytes)) /\ Len(bytes) \in from..Len(bytes)
    BY <1>0 DEF Fresh
  <2>3. QED
    BY <2>1, <2>2
<1>3. CASE ~(Len(rest) <= max)
  <2>1. max = len /\ from + len < Len(bytes)
    BY <1>0, <1>1, <1>3
  <2>2. TruncateUtf8(rest, max) = SubSeq(rest, 1, c)
    BY <1>3, <2>1 DEF TruncateUtf8
  <2> HIDE DEF rest, max
  <2>3. c \in 1..len
    <3>1. CASE cuts = {}
      BY <1>0, <3>1
    <3>2. CASE cuts # {}
      <4>1. cuts \subseteq 1..len
        OBVIOUS
      <4> HIDE DEF cuts
      <4>2. Max(cuts) \in cuts
        BY <1>0, <3>2, <4>1, LastOf
      <4>3. QED
        BY <3>2, <4>1, <4>2
    <3>3. QED
      BY <3>1, <3>2
  <2>4. from + c \in from..Len(bytes) /\ c \in Nat /\ from + c < Len(bytes)
    <3> HIDE DEF c
    <3>1. QED
      BY <1>0, <2>1, <2>3
  <2>5. SubSeq(rest, 1, c) = SubSeq(bytes, from + 1, from + c)
    <3>1. /\ from + 1 \in 1..Len(bytes) /\ Len(bytes) \in 1..Len(bytes)
          /\ 1 \in 1..Len(bytes) - (from + 1) + 1 /\ c \in 1..Len(bytes) - (from + 1) + 1
          /\ (from + 1) + 1 - 1 = from + 1 /\ (from + 1) + c - 1 = from + c
      <4> HIDE DEF c
      <4>1. QED
        BY <1>0, <2>1, <2>3
    <3> HIDE DEF c
    <3>2. SubSeq(rest, 1, c) = SubSeq(bytes, (from + 1) + 1 - 1, (from + 1) + c - 1)
      BY <3>1, SubSeqOfSubSeq DEF rest
    <3>3. QED
      BY <3>1, <3>2
  <2>6. Fresh(bytes, from + c)
    <3> SUFFICES ASSUME Continues(bytes, from + c + 1) PROVE FALSE
      BY DEF Fresh
    <3>1. PICK j \in 1..(from + c + 1) - 1 :
              j + bytes[j] > from + c + 1 /\ \A l \in j + 1..from + c + 1 : bytes[l] = 0
      BY DEF Continues
    <3>2. bytes[from + c + 1] = 0 /\ j \in Nat
      <4> HIDE DEF c
      <4>1. QED
        BY <1>0, <2>4, <3>1
    <3>3. CASE cuts # {}
      <4>1. cuts \subseteq 1..len
        OBVIOUS
      <4>2. Max(cuts) \in cuts
        <5> HIDE DEF cuts
        <5>1. QED
          BY <1>0, <3>3, <4>1, LastOf
      <4>3. IsCharBoundary(rest, c)
        BY <3>3, <4>2
      <4> HIDE DEF c, cuts
      <4>4. c < Len(rest) /\ c + 1 \in 1..Len(bytes) - from /\ from + (c + 1) = from + c + 1
        BY <1>0, <1>1, <2>4
      <4>5. rest[c + 1] # 0
        BY <1>1, <2>4, <4>3, <4>4 DEF IsCharBoundary
      <4>6. QED
        BY <1>1, <3>2, <4>4, <4>5
    <3>4. CASE cuts = {}
      <4>1. c = len
        BY <3>4
      <4>2. ASSUME NEW e \in 1..len
            PROVE  bytes[from + e + 1] = 0
        <5>1. ~IsCharBoundary(rest, e)
          BY <3>4
        <5>2. /\ e < Len(rest) /\ e \in Nat /\ e + 1 \in 1..Len(bytes) - from
              /\ from + (e + 1) = from + e + 1
          BY <1>0, <1>1, <2>1
        <5>3. rest[e + 1] = 0
          BY <1>1, <5>1, <5>2 DEF IsCharBoundary
        <5>4. QED
          BY <1>1, <5>2, <5>3
      <4>3. j \in 1..from + len /\ j \in 1..Len(bytes) /\ bytes[j] \in Nat /\ bytes[j] <= len
        <5>1. j \in 1..from + len /\ j \in 1..Len(bytes)
          BY <1>0, <2>1, <3>1, <4>1
        <5>2. QED
          BY <5>1
      <4>4. j + bytes[j] > from + len + 1
        BY <3>1, <4>1
      <4>5. CASE j <= from
        <5>1. j \in 1..(from + 1) - 1 /\ j + bytes[j] > from + 1
          BY <1>0, <4>3, <4>4, <4>5
        <5>2. \A l \in j + 1..from + 1 : bytes[l] = 0
          <6>1. \A l \in j + 1..from + len + 1 : bytes[l] = 0
            BY <3>1, <4>1
          <6>2. QED
            BY <1>0, <3>2, <6>1
        <5>3. Continues(bytes, from + 1)
          BY <5>1, <5>2 DEF Continues
        <5>4. QED
          BY <1>0, <2>1, <5>3 DEF Fresh
      <4>6. CASE j = from + 1
        BY <1>0, <4>3, <4>4, <4>6
      <4>7. CASE j > from + 1
        <5>1. j - (from + 1) \in 1..len /\ from + (j - (from + 1)) + 1 = j
          BY <1>0, <4>3, <4>7
        <5>2. bytes[j] = 0
          BY <4>2, <5>1
        <5>3. QED
          BY <1>0, <4>3, <4>4, <5>2
      <4>8. QED
        BY <1>0, <4>3, <4>5, <4>6, <4>7
    <3>5. QED
      BY <3>3, <3>4
  <2> HIDE DEF c
  <2>7. QED
    BY <2>2, <2>4, <2>5, <2>6 DEF rest, max
<1>4. QED
  BY <1>2, <1>3

\* The walk back of lastCharBoundary stops before a byte that begins a character,
\* or after four bytes.
LEMMA TrailingRun ==
    ASSUME NEW s \in Seq(Nat)
    PROVE  LET run == Max({k \in 0..4 : k <= Len(s) /\ \A i \in Len(s) - k + 1..Len(s) : s[i] = 0})
           IN  /\ run \in 0..4 /\ run <= Len(s) /\ \A i \in Len(s) - run + 1..Len(s) : s[i] = 0
               /\ run < 4 /\ run < Len(s) => s[Len(s) - run] # 0
<1> DEFINE T == {k \in 0..4 : k <= Len(s) /\ \A i \in Len(s) - k + 1..Len(s) : s[i] = 0}
           run == Max(T)
<1>0. Len(s) \in Nat
  OBVIOUS
<1>1. 0 \in T
  BY <1>0
<1>2. \E x \in T : \A y \in T : x >= y
  <2>1. T \subseteq 0..4
    OBVIOUS
  <2> HIDE DEF T
  <2>2. CASE 4 \in T
    BY <2>1, <2>2
  <2>3. CASE 4 \notin T /\ 3 \in T
    BY <2>1, <2>3
  <2>4. CASE 4 \notin T /\ 3 \notin T /\ 2 \in T
    BY <2>1, <2>4
  <2>5. CASE 4 \notin T /\ 3 \notin T /\ 2 \notin T /\ 1 \in T
    BY <2>1, <2>5
  <2>6. CASE 4 \notin T /\ 3 \notin T /\ 2 \notin T /\ 1 \notin T
    BY <1>1, <2>1, <2>6
  <2>7. QED
    BY <2>2, <2>3, <2>4, <2>5, <2>6
<1>3. run \in T /\ \A y \in T : run >= y
  <2> HIDE DEF T
  <2>1. QED
    BY <1>2 DEF Max
<1> HIDE DEF run
<1>4. /\ run \in 0..4 /\ run <= Len(s) /\ \A i \in Len(s) - run + 1..Len(s) : s[i] = 0
  BY <1>3
<1>5. ASSUME run < 4, run < Len(s), s[Len(s) - run] = 0
      PROVE  FALSE
  <2>1. run + 1 \in 0..4 /\ run + 1 <= Len(s) /\ ~(run >= run + 1)
    BY <1>0, <1>4, <1>5
  <2>2. ASSUME NEW i \in Len(s) - (run + 1) + 1..Len(s) PROVE s[i] = 0
    <3>1. i = Len(s) - run \/ i \in Len(s) - run + 1..Len(s)
      BY <1>0, <1>4
    <3>2. QED
      BY <1>4, <1>5, <3>1
  <2>3. run + 1 \in T
    BY <2>1, <2>2
  <2>4. QED
    BY <1>3, <2>1, <2>3
<1>6. QED
  BY <1>4, <1>5 DEF run

\* A piece is cut between characters, if it begins with one.
LEMMA PieceIsFresh ==
    ASSUME NEW bytes \in Seq(Nat), \A i \in 1..Len(bytes) : bytes[i] <= 4,
           NEW start \in 0..Len(bytes), NEW to \in start..Len(bytes), start < to,
           Fresh(bytes, start)
    PROVE  LET cut == LastCharBoundary(SubSeq(bytes, start + 1, to))
           IN  cut \in 0..to - start /\ Fresh(bytes, start + cut)
<1> DEFINE s    == SubSeq(bytes, start + 1, to)
           size == to - start
           run  == Max({k \in 0..4 : k <= Len(s) /\ \A i \in Len(s) - k + 1..Len(s) : s[i] = 0})
           lead == size - run
           cut  == IF lead = 0 \/ s[lead] <= run + 1 THEN size ELSE lead - 1
<1>0. Len(bytes) \in Nat /\ start \in Nat /\ to \in Nat /\ to <= Len(bytes) /\ size \in Nat \ {0}
  OBVIOUS
<1>1. s \in Seq(Nat) /\ Len(s) = size /\ \A i \in 1..size : s[i] = bytes[start + i]
  BY SliceFacts
<1>2. LastCharBoundary(s) = cut
  BY <1>1 DEF LastCharBoundary
<1>3. /\ run \in 0..4 /\ run <= size /\ \A i \in size - run + 1..size : s[i] = 0
      /\ run < 4 /\ run < size => s[size - run] # 0
  <2> HIDE DEF s
  <2>1. QED
    BY <1>1, TrailingRun
<1> HIDE DEF s, run
<1>4. lead \in 0..size
  BY <1>0, <1>3
\* The lead byte begins the character that is held back.
<1>5. CASE ~(lead = 0 \/ s[lead] <= run + 1)
  <2>1. cut = lead - 1 /\ lead \in 1..size /\ start + cut + 1 = start + lead
    BY <1>0, <1>4, <1>5
  <2>2. bytes[start + lead] # 0 /\ s[lead] = bytes[start + lead] /\ start + lead \in 1..Len(bytes)
    <3>1. s[lead] = bytes[start + lead] /\ start + lead \in 1..Len(bytes)
      <4>1. start + lead \in 1..Len(bytes)
        BY <1>0, <2>1
      <4> HIDE DEF lead, size
      <4>2. QED
        BY <1>1, <2>1, <4>1
    <3>2. bytes[start + lead] \in Nat
      BY <3>1, ElementOfSeq
    <3>3. ~(bytes[start + lead] <= run + 1)
      BY <1>5, <2>1, <3>1
    <3>4. QED
      BY <1>3, <3>1, <3>2, <3>3
  <2>3. ~Continues(bytes, start + lead)
    <3> SUFFICES ASSUME Continues(bytes, start + lead) PROVE FALSE
      OBVIOUS
    <3> DEFINE at == start + lead
    <3>1. at \in Nat /\ bytes[at] # 0 /\ Continues(bytes, at)
      BY <2>2
    <3> HIDE DEF at
    <3>2. PICK j \in 1..at - 1 : \A k \in j + 1..at : bytes[k] = 0
      BY <3>1 DEF Continues
    <3>3. at \in j + 1..at
      BY <3>1
    <3>4. QED
      BY <3>1, <3>2, <3>3
  <2>4. cut \in 0..size
    BY <1>0, <2>1
  <2> HIDE DEF lead, cut
  <2>5. Fresh(bytes, start + cut)
    BY <2>1, <2>3 DEF Fresh
  <2>6. QED
    BY <1>2, <2>4, <2>5 DEF s
\* No character goes beyond the piece.
<1>6. CASE lead = 0 \/ s[lead] <= run + 1
  <2>1. cut = size /\ start + size = to /\ size \in 0..size
    BY <1>0, <1>6
  <2>2. ASSUME to < Len(bytes), Continues(bytes, to + 1) PROVE FALSE
    <3>1. PICK j \in 1..to : j + bytes[j] > to + 1 /\ \A k \in j + 1..to + 1 : bytes[k] = 0
      <4>1. (to + 1) - 1 = to
        BY <1>0
      <4>2. QED
        BY <2>2, <4>1 DEF Continues
    <3>2. j \in Nat /\ j <= to /\ j \in 1..Len(bytes) /\ bytes[j] \in Nat /\ bytes[j] <= 4
      <4>1. j \in Nat /\ j <= to /\ j \in 1..Len(bytes)
        BY <1>0
      <4>2. QED
        BY <4>1, ElementOfSeq
    <3>3. CASE j <= start
      <4>1. j + bytes[j] > start + 1 /\ j \in 1..(start + 1) - 1 /\ start < Len(bytes)
        BY <1>0, <3>1, <3>2, <3>3
      <4>2. \A k \in j + 1..start + 1 : k \in j + 1..to + 1
        BY <1>0, <3>2
      <4>3. Continues(bytes, start + 1)
        BY <3>1, <4>1, <4>2 DEF Continues
      <4>4. QED
        BY <4>1, <4>3 DEF Fresh
    <3>4. CASE j > start
      <4> DEFINE p == j - start
      <4>1. p \in 1..size /\ start + p = j /\ s[p] = bytes[j] /\ bytes[j] >= 2 /\ to - j <= 2
        <5>1. p \in 1..size /\ start + p = j
          BY <1>0, <3>2, <3>4
        <5>2. s[p] = bytes[start + p]
          BY <1>1, <5>1
        <5>3. bytes[j] >= 2 /\ to - j <= 2
          BY <1>0, <3>1, <3>2
        <5>4. QED
          BY <5>1, <5>2, <5>3
      <4>2. \A q \in p + 1..size : s[q] = 0
        <5> SUFFICES ASSUME NEW q \in p + 1..size PROVE s[q] = 0
          OBVIOUS
        <5>1. q \in 1..size /\ start + q \in j + 1..to + 1
          BY <1>0, <4>1
        <5>2. QED
          BY <1>1, <3>1, <5>1
      <4> HIDE DEF p
      <4>3. p \notin size - run + 1..size
        BY <1>3, <4>1
      <4>4. p <= lead
        BY <1>0, <1>3, <4>1, <4>3
      <4>5. size - p <= 2
        BY <1>0, <3>2, <4>1
      <4>6. lead = p
        <5>1. CASE p < lead
          <6>1. lead \in p + 1..size /\ run < 4 /\ run < size
            BY <1>0, <1>3, <1>4, <4>1, <4>5, <5>1
          <6>2. QED
            BY <1>3, <4>2, <6>1
        <5>2. QED
          BY <1>4, <4>1, <4>4, <5>1
      <4>7. run = to - j
        BY <1>0, <1>3, <3>2, <4>1, <4>6
      <4>8. bytes[j] <= run + 1
        BY <1>6, <4>1, <4>6
      <4>9. QED
        BY <1>0, <3>1, <3>2, <4>7, <4>8
    <3>5. QED
      BY <1>0, <3>2, <3>3, <3>4
  <2> HIDE DEF cut
  <2>3. Fresh(bytes, start + cut)
    BY <2>1, <2>2 DEF Fresh
  <2>4. QED
    BY <1>2, <2>1, <2>3 DEF s
<1>7. QED
  BY <1>5, <1>6

\* A text is bytes, and a chunk holds at least a character.
LEMMA TextType ==
    ASSUME NEW r \in Rec
    PROVE  /\ ChunkLen \in Nat \ {0} /\ MaxChunk \in Nat \ {0} /\ Text[r] \in Seq(Nat)
           /\ \A i \in 1..Len(Text[r]) :
                Text[r][i] <= ChunkLen /\ Text[r][i] <= MaxChunk /\ Text[r][i] <= 4
<1> DEFINE bytes == Text[r]
<1>1. /\ ChunkLen \in Nat \ {0} /\ MaxChunk \in Nat \ {0} /\ bytes \in Seq(Nat)
      /\ \A i \in 1..Len(bytes) :
            bytes[i] <= ChunkLen /\ bytes[i] <= MaxChunk /\ bytes[i] <= 4
  <2>1. ChunkLen \in Nat \ {0} /\ MaxChunk \in Nat \ {0}
    BY SessionsAssumption
  <2>2. /\ bytes \in Seq(0..ChunkLen)
        /\ \A i \in DOMAIN bytes : bytes[i] <= MaxChunk /\ bytes[i] <= 4
    BY SessionsAssumption
  <2> HIDE DEF bytes
  <2>3. \A i \in 1..Len(bytes) : bytes[i] \in 0..ChunkLen /\ bytes[i] <= MaxChunk /\ bytes[i] <= 4
    <3> DEFINE B == 0..ChunkLen
    <3>1. bytes \in Seq(B)
      BY <2>2
    <3> HIDE DEF B
    <3>2. DOMAIN bytes = 1..Len(bytes) /\ \A i \in 1..Len(bytes) : bytes[i] \in B
      BY <3>1
    <3>3. QED
      BY <2>2, <3>2 DEF B
  <2>4. bytes \in Seq(Nat)
    <3>1. 0..ChunkLen \subseteq Nat
      BY <2>1
    <3> DEFINE B == 0..ChunkLen
    <3> HIDE DEF B
    <3>2. B \subseteq Nat /\ bytes \in Seq(B)
      BY <2>2, <3>1 DEF B
    <3>3. QED
      BY <3>2, SeqMonotonic
  <2>5. QED
    BY <2>1, <2>3, <2>4
<1>2. QED
  BY <1>1

\* read_chunk of a text that has been read up to a character.
LEMMA ChunkOK ==
    ASSUME NEW r \in Rec, NEW offset \in 0..Len(Text[r]), Fresh(Text[r], offset)
    PROVE  LET c == ReadChunk(Text[r], offset, Min({ChunkLen, MaxChunk}))
           IN  /\ c.is = "chunk" /\ c.to \in 0..Len(Text[r]) /\ Fresh(Text[r], c.to)
               /\ DecodeTo(Text[r], offset) \o c.text = DecodeTo(Text[r], c.to)
               /\ c.eof => c.to = Len(Text[r])
<1> DEFINE bytes == Text[r]
           len == Min({ChunkLen, MaxChunk})
           max == IF offset + len <= Len(bytes) THEN len ELSE Len(bytes) - offset
           slice == TruncateUtf8(SubSeq(bytes, offset + 1, Len(bytes)), max)
<1>1. /\ ChunkLen \in Nat \ {0} /\ MaxChunk \in Nat \ {0} /\ bytes \in Seq(Nat)
      /\ \A i \in 1..Len(bytes) : bytes[i] <= ChunkLen /\ bytes[i] <= MaxChunk
  BY TextType
<1>2. offset \in 0..Len(bytes) /\ Fresh(bytes, offset) /\ Len(bytes) \in Nat /\ offset \in Nat
      /\ offset <= Len(bytes)
  BY <1>1
<1>3. len \in Nat \ {0} /\ \A i \in 1..Len(bytes) : bytes[i] <= len
  <2>1. len = IF ChunkLen <= MaxChunk THEN ChunkLen ELSE MaxChunk
    BY <1>1, LesserOf
  <2> HIDE DEF len, bytes
  <2>2. QED
    BY <1>1, <2>1
<1> HIDE DEF bytes, len
<1>4. PICK to \in offset..Len(bytes) :
          slice = SubSeq(bytes, offset + 1, to) /\ Fresh(bytes, to)
  BY <1>1, <1>2, <1>3, CutBetweenCharacters
<1>5. Len(slice) = to - offset /\ to \in 0..Len(bytes) /\ offset + Len(slice) = to
  <2>1. Len(SubSeq(bytes, offset + 1, to)) = to - offset
    BY <1>1, <1>2, SliceFacts
  <2> HIDE DEF slice
  <2>2. QED
    BY <1>2, <1>4, <2>1
<1>6. DecodeTo(bytes, offset) \o Decode(slice) = DecodeTo(bytes, to)
  <2> HIDE DEF slice
  <2>1. QED
    BY <1>1, <1>2, <1>4, DecodedInPieces
<1>7. ReadChunk(bytes, offset, len) =
          [is |-> "chunk", text |-> Decode(slice), to |-> offset + Len(slice),
           eof |-> offset + Len(slice) >= Len(bytes)]
  <2>1. Min({offset, Len(bytes)}) = offset
    BY <1>2, LesserOf
  <2>2. Min({offset + len, Len(bytes)}) = IF offset + len <= Len(bytes) THEN offset + len
                                          ELSE Len(bytes)
    BY <1>2, <1>3, LesserOf
  <2>3. Min({offset + len, Len(bytes)}) - offset = max
    BY <1>2, <1>3, <2>2
  <2> HIDE DEF max
  <2>4. QED
    BY <2>1, <2>3 DEF ReadChunk
<1> HIDE DEF slice
<1>8. to >= Len(bytes) => to = Len(bytes)
  BY <1>2, <1>4
<1>9. ReadChunk(bytes, offset, len) =
          [is |-> "chunk", text |-> Decode(slice), to |-> to, eof |-> to >= Len(bytes)]
  BY <1>5, <1>7
<1> DEFINE c == ReadChunk(bytes, offset, len)
<1>10. c.is = "chunk" /\ c.text = Decode(slice) /\ c.to = to /\ c.eof = (to >= Len(bytes))
  BY <1>9
<1> HIDE DEF c
<1>11. /\ c.is = "chunk" /\ c.to \in 0..Len(bytes) /\ Fresh(bytes, c.to)
       /\ DecodeTo(bytes, offset) \o c.text = DecodeTo(bytes, c.to)
       /\ c.eof => c.to = Len(bytes)
  BY <1>4, <1>5, <1>6, <1>8, <1>10
<1>12. QED
  BY <1>11 DEF c, bytes, len

\* Reading a piece: what is shown is cut between characters, and what is held
\* back is what has been read behind the cut.
LEMMA StreamedOn ==
    ASSUME NEW rec \in Rec, NEW start \in 0..Len(Text[rec]), NEW from \in start..Len(Text[rec]),
           NEW to \in from..Len(Text[rec]), from < to, Fresh(Text[rec], start)
    PROVE  LET bytes    == Text[rec]
               combined == SubSeq(bytes, start + 1, from) \o SubSeq(bytes, from + 1, to)
               cut      == LastCharBoundary(combined)
           IN  \E mid \in start..to :
                /\ SubSeq(combined, cut + 1, Len(combined)) = SubSeq(bytes, mid + 1, to)
                /\ Fresh(bytes, mid)
                /\ DecodeTo(bytes, start) \o Decode(SubSeq(combined, 1, cut)) = DecodeTo(bytes, mid)
<1> DEFINE bytes    == Text[rec]
           a        == SubSeq(bytes, start + 1, from)
           b        == SubSeq(bytes, from + 1, to)
           combined == a \o b
           s        == SubSeq(bytes, start + 1, to)
<1>0. bytes \in Seq(Nat) /\ \A i \in 1..Len(bytes) : bytes[i] <= 4
  BY TextType
<1> HIDE DEF bytes
<1>1. /\ Len(bytes) \in Nat /\ start \in Nat /\ from \in Nat /\ to \in Nat
      /\ start <= from /\ from < to /\ to <= Len(bytes) /\ start < to
  BY <1>0 DEF bytes
<1>2. /\ a \in Seq(Nat) /\ Len(a) = from - start /\ \A i \in 1..from - start : a[i] = bytes[start + i]
      /\ b \in Seq(Nat) /\ Len(b) = to - from /\ \A i \in 1..to - from : b[i] = bytes[from + i]
      /\ s \in Seq(Nat) /\ Len(s) = to - start /\ \A i \in 1..to - start : s[i] = bytes[start + i]
  BY <1>0, <1>1, SliceFacts
<1> HIDE DEF a, b, s
<1>3. combined = s
  <2>0. /\ combined \in Seq(Nat) /\ Len(combined) = Len(a) + Len(b)
        /\ \A i \in 1..Len(a) + Len(b) : combined[i] = IF i <= Len(a) THEN a[i] ELSE b[i - Len(a)]
    BY <1>2, ConcatProperties
  <2> HIDE DEF combined
  <2>1. Len(combined) = Len(s)
    BY <1>1, <1>2, <2>0
  <2>2. ASSUME NEW i \in 1..Len(s) PROVE combined[i] = s[i]
    <3>1. i \in Nat /\ 1 <= i /\ i <= to - start
      BY <1>1, <1>2
    <3>2. CASE i <= from - start
      <4>1. /\ i \in 1..Len(a) + Len(b) /\ i <= Len(a)
            /\ i \in 1..from - start /\ i \in 1..to - start
        BY <1>1, <1>2, <3>1, <3>2
      <4>2. combined[i] = a[i]
        BY <2>0, <4>1
      <4>3. QED
        BY <1>2, <4>1, <4>2
    <3>3. CASE ~(i <= from - start)
      <4> DEFINE p == i - Len(a)
      <4>1. /\ p \in 1..to - from /\ from + p = start + i /\ i \in 1..Len(a) + Len(b)
            /\ ~(i <= Len(a)) /\ i \in 1..to - start
        BY <1>1, <1>2, <3>1, <3>3
      <4>2. combined[i] = b[p]
        BY <2>0, <4>1
      <4> HIDE DEF p
      <4>3. b[p] = bytes[from + p] /\ s[i] = bytes[start + i]
        BY <1>2, <4>1
      <4>4. QED
        BY <4>1, <4>2, <4>3
    <3>4. QED
      BY <3>2, <3>3
  <2>3. QED
    BY <1>2, <2>0, <2>1, <2>2, SeqEqual
<1> HIDE DEF combined
<1> DEFINE cut == LastCharBoundary(s)
           mid == start + cut
<1>4. cut \in 0..to - start /\ Fresh(bytes, mid)
  <2>1. Fresh(bytes, start)
    BY DEF bytes
  <2>2. start \in 0..Len(bytes) /\ to \in start..Len(bytes)
    BY <1>1
  <2>3. QED
    BY <1>0, <1>1, <2>1, <2>2, PieceIsFresh DEF s
<1> HIDE DEF cut
<1>5. mid \in start..to /\ mid \in 0..Len(bytes) /\ cut = mid - start /\ cut \in Nat
  BY <1>1, <1>4
<1> HIDE DEF mid
<1>6. SubSeq(s, cut + 1, Len(s)) = SubSeq(bytes, mid + 1, to)
  <2> DEFINE x == SubSeq(s, cut + 1, Len(s))
             y == SubSeq(bytes, mid + 1, to)
  <2>1. x \in Seq(Nat) /\ Len(x) = Len(s) - cut /\ \A i \in 1..Len(s) - cut : x[i] = s[cut + i]
    <3>1. cut \in 0..Len(s) /\ Len(s) \in cut..Len(s)
      BY <1>1, <1>2, <1>4
    <3>2. QED
      BY <1>2, <3>1, SliceFacts
  <2>2. y \in Seq(Nat) /\ Len(y) = to - mid /\ \A i \in 1..to - mid : y[i] = bytes[mid + i]
    <3>1. mid \in 0..Len(bytes) /\ to \in mid..Len(bytes)
      BY <1>1, <1>5
    <3>2. QED
      BY <1>0, <3>1, SliceFacts
  <2> HIDE DEF x, y
  <2>3. Len(x) = Len(y) /\ Len(y) = to - mid
    BY <1>1, <1>2, <1>5, <2>1, <2>2
  <2>4. ASSUME NEW i \in 1..Len(y) PROVE x[i] = y[i]
    <3>1. /\ i \in 1..to - mid /\ i \in 1..Len(s) - cut /\ cut + i \in 1..to - start
          /\ start + (cut + i) = mid + i
      BY <1>1, <1>2, <1>5, <2>3
    <3>2. x[i] = s[cut + i] /\ s[cut + i] = bytes[start + (cut + i)] /\ y[i] = bytes[mid + i]
      BY <1>2, <2>1, <2>2, <3>1
    <3>3. QED
      BY <3>1, <3>2
  <2>5. x = y
    BY <2>1, <2>2, <2>3, <2>4, SeqEqual
  <2>6. QED
    BY <2>5 DEF x, y
<1>7. SubSeq(s, 1, cut) = SubSeq(bytes, start + 1, mid)
  <2> DEFINE x == SubSeq(s, 0 + 1, cut)
             y == SubSeq(bytes, start + 1, mid)
  <2>1. x \in Seq(Nat) /\ Len(x) = cut - 0 /\ \A i \in 1..cut - 0 : x[i] = s[0 + i]
    <3>1. 0 \in 0..Len(s) /\ cut \in 0..Len(s)
      BY <1>1, <1>2, <1>4
    <3>2. QED
      BY <1>2, <3>1, SliceFacts
  <2>2. y \in Seq(Nat) /\ Len(y) = mid - start /\ \A i \in 1..mid - start : y[i] = bytes[start + i]
    <3>1. start \in 0..Len(bytes) /\ mid \in start..Len(bytes)
      BY <1>1, <1>5
    <3>2. QED
      BY <1>0, <3>1, SliceFacts
  <2>3. x = SubSeq(s, 1, cut)
    OBVIOUS
  <2> HIDE DEF x, y
  <2>4. Len(x) = Len(y) /\ Len(y) = cut
    BY <1>1, <1>5, <2>1, <2>2
  <2>5. ASSUME NEW i \in 1..Len(y) PROVE x[i] = y[i]
    <3>1. i \in 1..cut - 0 /\ i \in 1..mid - start /\ 0 + i = i /\ i \in 1..to - start
      BY <1>1, <1>4, <1>5, <2>4
    <3>2. x[i] = s[0 + i] /\ s[i] = bytes[start + i] /\ y[i] = bytes[start + i]
      BY <1>2, <2>1, <2>2, <3>1
    <3>3. QED
      BY <3>1, <3>2
  <2>6. x = y
    BY <2>1, <2>2, <2>4, <2>5, SeqEqual
  <2>7. QED
    BY <2>3, <2>6 DEF y
<1>8. DecodeTo(bytes, start) \o Decode(SubSeq(bytes, start + 1, mid)) = DecodeTo(bytes, mid)
  <2>1. start \in 0..Len(bytes) /\ mid \in start..Len(bytes) /\ Fresh(bytes, start)
    BY <1>1, <1>5 DEF bytes
  <2>2. QED
    BY <1>0, <1>4, <2>1, DecodedInPieces
<1>9. /\ SubSeq(combined, cut + 1, Len(combined)) = SubSeq(bytes, mid + 1, to)
      /\ DecodeTo(bytes, start) \o Decode(SubSeq(combined, 1, cut)) = DecodeTo(bytes, mid)
      /\ LastCharBoundary(combined) = cut
  BY <1>3, <1>6, <1>7, <1>8 DEF cut
<1>10. QED
  BY <1>4, <1>5, <1>9 DEF combined, a, b, bytes

-----------------------------------------------------------------------------
(* What the screens hold, and what is on its way to them. *)

\* The handles of this daemon.
HandlesOK == nextHandle \in Nat \ {0} /\ DOMAIN handles \subseteq 1..nextHandle - 1

\* This daemon registered the handle, for this record.
Registered(h, r) ==
    h \in 1..nextHandle - 1 /\ (h \in DOMAIN handles => handles[h] = r)

\* A screen has read the text of its record up to a character.
ReadSoFar(flow) ==
    /\ Registered(flow.handle, flow.rec)
    /\ flow.offset \in 0..Len(Text[flow.rec]) /\ Fresh(Text[flow.rec], flow.offset)
    /\ flow.got = DecodeTo(Text[flow.rec], flow.offset)
    /\ flow.ok => flow.offset = Len(Text[flow.rec])

\* A screen has shown the text of its record up to a character, and holds back
\* what it has read behind that.
Streamed(flow) ==
    LET bytes == Text[flow.rec]
    IN  /\ flow.offset \in 0..Len(bytes) /\ flow.ok = FALSE
        /\ \E start \in 0..flow.offset :
            /\ flow.carry = SubSeq(bytes, start + 1, flow.offset)
            /\ Fresh(bytes, start) /\ flow.got = DecodeTo(bytes, start)

FlowOK(flow) ==
    /\ flow = [at |-> flow.at, rec |-> flow.rec, handle |-> flow.handle, offset |-> flow.offset,
               got |-> flow.got, carry |-> flow.carry, ok |-> flow.ok, stale |-> flow.stale]
    /\ flow.at \in {"away", "opening", "streaming", "reading", "closing", "shown", "failed"}
    /\ flow.at \in {"opening", "streaming", "reading", "closing", "shown"} => flow.rec \in Rec
    /\ flow.at = "opening" => /\ flow.offset = 0 /\ flow.got = <<>> /\ flow.carry = <<>>
                              /\ flow.ok = FALSE
    /\ flow.at \in {"streaming", "reading", "closing"} => flow.handle # 0
    /\ flow.at = "streaming" /\ ~flow.stale => Registered(flow.handle, flow.rec)
    /\ flow.at = "streaming" => Streamed(flow)
    /\ flow.at \in {"reading", "closing"} /\ ~flow.stale => ReadSoFar(flow)
    /\ flow.at = "shown" /\ (~flow.stale \/ flow.handle = 0) => flow.got = Decode(Text[flow.rec])

\* A request is the one of a screen that waits for it.
RequestOK ==
    client.at # "idle" =>
        /\ client.req.by \in Reader
        /\ LET flow == reader[client.req.by]
           IN  /\ \/ client.req.op = "open" /\ flow.at = "opening"
                  \/ client.req.op = "read" /\ flow.at = "reading"
                  \/ client.req.op = "close" /\ flow.at = "closing"
               /\ client.req.rec = flow.rec /\ client.req.handle = flow.handle
               /\ client.req.offset = flow.offset

\* What an answer tells the screen.
Opens(flow, a) ==
    /\ a.handle # 0
    /\ ~flow.stale => Registered(a.handle, flow.rec)

Extends(flow, a) ==
    LET bytes == Text[flow.rec]
    IN  /\ a.to \in 0..Len(bytes) /\ Fresh(bytes, a.to)
        /\ DecodeTo(bytes, flow.offset) \o a.text = DecodeTo(bytes, a.to)
        /\ a.eof => a.to = Len(bytes)

Answers(flow, a) ==
    /\ flow.at = "opening" /\ a.is = "opened" => Opens(flow, a)
    /\ flow.at = "reading" /\ a.is = "chunk" /\ ~flow.stale => Extends(flow, a)

AnswerOK ==
    answer # Nothing => client.at = "wait" /\ Answers(reader[client.req.by], answer)

TextInv ==
    /\ HandlesOK /\ RequestOK /\ AnswerOK
    /\ reader = [rd \in Reader |-> reader[rd]] /\ \A rd \in Reader : FlowOK(reader[rd])

\* A step that leaves the screens, the handles and the conversation alone.
LEMMA QuietText ==
    ASSUME TextInv, UNCHANGED <<reader, handles, nextHandle, answer>>,
           client'.at = client.at, client'.req = client.req
    PROVE  TextInv'
<1>1. HandlesOK'
  BY DEF TextInv, HandlesOK
<1>2. RequestOK'
  BY DEF TextInv, RequestOK
<1>3. AnswerOK'
  BY DEF TextInv, AnswerOK, Answers, Opens, Extends, Registered
<1>4. \A rd \in Reader : FlowOK(reader[rd])'
  BY DEF TextInv, FlowOK, ReadSoFar, Streamed, Registered
<1>5. QED
  BY <1>1, <1>2, <1>3, <1>4 DEF TextInv

LEMMA UnsettledKeeps ==
    ASSUME ClientOK, client' = Unsettled
    PROVE  client'.at = client.at /\ client'.req = client.req
  BY DEF Unsettled, ClientOK

LEMMA SlotTextQuiet ==
    ASSUME SsInv, TextInv, NEW s \in Slot,
           Connect(s) \/ Authenticate(s) \/ ReadLane(s) \/ HangUp(s)
    PROVE  TextInv'
<1>1. /\ UNCHANGED <<reader, handles, nextHandle, answer>>
      /\ client' = client \/ client' = Unsettled
  BY DEF Connect, Authenticate, ReadLane, HangUp
<1>2. client'.at = client.at /\ client'.req = client.req
  BY <1>1, UnsettledKeeps DEF SsInv
<1>3. QED
  BY <1>1, <1>2, QuietText

\* A frame that tells no screen anything.
LEMMA HandshakeText ==
    ASSUME TextInv, NEW s \in Slot, Handshake(s)
    PROVE  TextInv'
<1>1. /\ UNCHANGED <<reader, handles, nextHandle, client>> /\ client.at = "wait"
      /\ answer' = [is |-> IF agrees THEN "welcome" ELSE "rejected"]
  BY DEF Handshake, Asked
<1>2. answer'.is \notin {"opened", "chunk"}
  BY <1>1
<1>3. HandlesOK'
  BY <1>1 DEF TextInv, HandlesOK
<1>4. RequestOK'
  BY <1>1 DEF TextInv, RequestOK
<1>5. AnswerOK'
  BY <1>1, <1>2 DEF AnswerOK, Answers
<1>6. \A rd \in Reader : FlowOK(reader[rd])'
  BY <1>1 DEF TextInv, FlowOK, ReadSoFar, Streamed, Registered
<1>7. reader' = [rd \in Reader |-> reader'[rd]]
  BY <1>1 DEF TextInv
<1>8. QED
  BY <1>3, <1>4, <1>5, <1>6, <1>7 DEF TextInv

LEMMA OpenText ==
    ASSUME TextInv, client.at = "wait", answer = Nothing, client.req.op = "open",
           OpenPayload(client.req.rec), UNCHANGED <<client, reader>>
    PROVE  TextInv'
<1> DEFINE by   == client.req.by
           flow == reader[by]
<1>1. /\ HandlesOK /\ by \in Reader /\ FlowOK(flow) /\ flow.at = "opening"
      /\ client.req.rec = flow.rec /\ reader = [rd \in Reader |-> reader[rd]]
  BY DEF TextInv, RequestOK
<1>2. RequestOK'
  BY DEF TextInv, RequestOK
<1>3. CASE RegisterPayloadHandle(flow.rec) /\ SendFrameWithFd(nextHandle, OpenMemfd(flow.rec))
  <2>1. /\ HandlesOK' /\ nextHandle' = nextHandle + 1 /\ nextHandle \in Nat \ {0}
        /\ nextHandle \in 1..nextHandle' - 1
        /\ nextHandle \in DOMAIN handles' => handles'[nextHandle] = flow.rec
        /\ \A h \in 1..nextHandle - 1 :
              /\ h \in DOMAIN handles' <=> h \in DOMAIN handles
              /\ h \in DOMAIN handles => handles'[h] = handles[h]
    <3>1. nextHandle \in Nat \ {0} /\ nextHandle' = nextHandle + 1
      BY <1>1, <1>3 DEF HandlesOK, RegisterPayloadHandle
    <3>2. /\ DOMAIN handles' = DOMAIN handles \cup {nextHandle}
          /\ \A h \in DOMAIN handles \cup {nextHandle} :
                handles'[h] = IF h = nextHandle THEN flow.rec ELSE handles[h]
      BY <1>3 DEF RegisterPayloadHandle
    <3>3. DOMAIN handles \subseteq 1..nextHandle - 1 /\ \A h \in 1..nextHandle - 1 : h # nextHandle
      BY <1>1, <3>1 DEF HandlesOK
    <3>4. HandlesOK'
      BY <3>1, <3>2, <3>3 DEF HandlesOK
    <3> HIDE DEF flow
    <3>5. QED
      BY <3>1, <3>2, <3>3, <3>4
  <2>2. ASSUME NEW rd \in Reader PROVE FlowOK(reader[rd])'
    <3>1. FlowOK(reader[rd]) /\ reader' = reader
      BY DEF TextInv
    <3>2. 1..nextHandle - 1 \subseteq 1..nextHandle' - 1
      BY <2>1
    <3>3. \A h, r : Registered(h, r) => Registered(h, r)'
      BY <2>1, <3>2 DEF Registered
    <3>4. QED
      BY <3>1, <3>3 DEF FlowOK, ReadSoFar, Streamed
  <2>3. AnswerOK'
    <3>1. PICK fd \in BOOLEAN :
              answer' = [is |-> "opened", handle |-> nextHandle,
                         fd |-> IF fd THEN Text[flow.rec] ELSE <<>>]
      BY <1>3 DEF SendFrameWithFd, OpenMemfd
    <3>2. answer'.is = "opened" /\ answer'.handle = nextHandle
      BY <3>1
    <3>3. nextHandle # 0 /\ client' = client /\ reader' = reader
      BY <2>1
    <3>4. Opens(reader[client.req.by], answer)'
      BY <2>1, <3>2, <3>3 DEF Opens, Registered
    <3>5. Answers(reader[client.req.by], answer)'
      BY <3>2, <3>4 DEF Answers
    <3>6. QED
      BY <3>3, <3>5 DEF AnswerOK
  <2>4. QED
    BY <1>1, <1>2, <2>1, <2>2, <2>3 DEF TextInv
<1>4. CASE answer' = [is |-> "rejected"] /\ UNCHANGED <<handles, nextHandle>>
  <2>1. AnswerOK'
    BY <1>4 DEF AnswerOK, Answers
  <2>2. HandlesOK'
    BY <1>1, <1>4 DEF HandlesOK
  <2>3. \A rd \in Reader : FlowOK(reader[rd])'
    BY <1>4 DEF TextInv, FlowOK, ReadSoFar, Streamed, Registered
  <2>4. QED
    BY <1>1, <1>2, <2>1, <2>2, <2>3 DEF TextInv
<1>5. QED
  BY <1>1, <1>3, <1>4 DEF OpenPayload

LEMMA ReadText ==
    ASSUME TextInv, client.at = "wait", answer = Nothing, client.req.op = "read",
           ReadPayload(client.req.handle, client.req.offset), UNCHANGED <<client, reader>>
    PROVE  TextInv'
<1> DEFINE by   == client.req.by
           flow == reader[by]
<1>1. /\ HandlesOK /\ by \in Reader /\ FlowOK(flow) /\ flow.at = "reading" /\ flow.rec \in Rec
      /\ client.req.handle = flow.handle /\ client.req.offset = flow.offset
      /\ reader = [rd \in Reader |-> reader[rd]] /\ UNCHANGED <<handles, nextHandle>>
  BY DEF TextInv, RequestOK, FlowOK, ReadPayload
<1>2. RequestOK'
  BY DEF TextInv, RequestOK
<1>3. HandlesOK' /\ \A rd \in Reader : FlowOK(reader[rd])'
  BY <1>1 DEF TextInv, HandlesOK, FlowOK, ReadSoFar, Streamed, Registered
<1>4. answer' = IF flow.handle \in DOMAIN handles /\ PayloadLocation(handles[flow.handle])
                THEN ReadChunk(Text[handles[flow.handle]], flow.offset, Min({ChunkLen, MaxChunk}))
                ELSE [is |-> "rejected"]
  BY <1>1 DEF ReadPayload
<1>5. ASSUME answer'.is = "chunk", ~flow.stale
      PROVE  Extends(flow, answer')
  <2>1. ReadSoFar(flow)
    BY <1>1, <1>5 DEF FlowOK
  <2>2. /\ flow.handle \in DOMAIN handles => handles[flow.handle] = flow.rec
        /\ flow.offset \in 0..Len(Text[flow.rec]) /\ Fresh(Text[flow.rec], flow.offset)
    BY <2>1 DEF ReadSoFar, Registered
  <2>3. answer' # [is |-> "rejected"]
    BY <1>5
  <2>4. answer' = ReadChunk(Text[flow.rec], flow.offset, Min({ChunkLen, MaxChunk}))
    BY <1>4, <2>2, <2>3
  <2> HIDE DEF flow
  <2>5. QED
    BY <1>1, <2>2, <2>4, ChunkOK DEF Extends
<1>6. answer'.is # "opened"
  <2>1. CASE answer' = [is |-> "rejected"]
    BY <2>1
  <2>2. CASE answer' # [is |-> "rejected"]
    <3>1. answer'.is = "chunk"
      BY <1>4, <2>2 DEF ReadChunk
    <3>2. QED
      BY <3>1
  <2>3. QED
    BY <2>1, <2>2
<1>7. AnswerOK'
  BY <1>5, <1>6 DEF AnswerOK, Answers, Extends
<1>8. QED
  BY <1>1, <1>2, <1>3, <1>7 DEF TextInv

LEMMA CloseText ==
    ASSUME TextInv, client.at = "wait", answer = Nothing,
           ClosePayload(client.req.handle), UNCHANGED <<client, reader>>
    PROVE  TextInv'
<1>1. /\ answer' = [is |-> "closed"] /\ nextHandle' = nextHandle
      /\ DOMAIN handles' \subseteq DOMAIN handles
      /\ \A h \in DOMAIN handles' : handles'[h] = handles[h]
  BY DEF ClosePayload
<1>2. RequestOK'
  BY DEF TextInv, RequestOK
<1>3. HandlesOK'
  BY <1>1 DEF TextInv, HandlesOK
<1>4. AnswerOK'
  BY <1>1 DEF AnswerOK, Answers
<1>5. \A h, r : Registered(h, r) => Registered(h, r)'
  BY <1>1 DEF Registered
<1>6. \A rd \in Reader : FlowOK(reader[rd])'
  BY <1>5 DEF TextInv, FlowOK, ReadSoFar, Streamed
<1>7. QED
  BY <1>2, <1>3, <1>4, <1>6 DEF TextInv

LEMMA DispatchText ==
    ASSUME SsInv, TextInv, NEW s \in Slot, Dispatch(s)
    PROVE  TextInv'
<1>1. client.at = "wait" /\ answer = Nothing /\ UNCHANGED reader
  BY DEF Dispatch, Asked
<1>2. client.req.op \in {"open", "read", "close"}
  BY <1>1 DEF TextInv, RequestOK
<1>3. CASE UNCHANGED client /\ client.req.op = "open" /\ OpenPayload(client.req.rec)
  BY <1>1, <1>3, OpenText
<1>4. CASE /\ UNCHANGED client /\ client.req.op = "read"
           /\ ReadPayload(client.req.handle, client.req.offset)
  BY <1>1, <1>4, ReadText
<1>5. CASE UNCHANGED client /\ client.req.op = "close" /\ ClosePayload(client.req.handle)
  BY <1>1, <1>5, CloseText
<1>6. CASE client' = Unsettled /\ UNCHANGED <<answer, handles, nextHandle>>
  <2>1. client'.at = client.at /\ client'.req = client.req
    BY <1>6, UnsettledKeeps DEF SsInv
  <2>2. QED
    BY <1>1, <1>6, <2>1, QuietText
<1>7. QED
  BY <1>2, <1>3, <1>4, <1>5, <1>6 DEF Dispatch

\* What an answer makes of a screen is right if the answer is.
LEMMA AfterOK ==
    ASSUME NEW flow, FlowOK(flow), flow.at \in {"opening", "reading", "closing"},
           NEW a, Answers(flow, a)
    PROVE  FlowOK(After(flow, a))
<1> DEFINE next == After(flow, a)
<1>0. /\ flow = [at |-> flow.at, rec |-> flow.rec, handle |-> flow.handle,
                 offset |-> flow.offset, got |-> flow.got, carry |-> flow.carry, ok |-> flow.ok, stale |-> flow.stale]
      /\ flow.rec \in Rec
  BY DEF FlowOK
<1>1. CASE flow.at = "opening" /\ a.is = "opened"
  <2> DEFINE at == IF a.fd # <<>> THEN "streaming" ELSE "reading"
  <2>1. next = [flow EXCEPT !.at = at, !.handle = a.handle]
    BY <1>1 DEF After
  <2>2. a.handle # 0 /\ (~flow.stale => Registered(a.handle, flow.rec))
    BY <1>1 DEF Answers, Opens
  <2>3. at \in {"streaming", "reading"}
    OBVIOUS
  <2> HIDE DEF next, at
  <2>4. next = [at |-> at, rec |-> flow.rec, handle |-> a.handle, offset |-> flow.offset,
                got |-> flow.got, carry |-> flow.carry, ok |-> flow.ok, stale |-> flow.stale]
    BY <1>0, <2>1
  <2>5. flow.offset = 0 /\ flow.got = <<>> /\ flow.carry = <<>> /\ flow.ok = FALSE
    BY <1>1 DEF FlowOK
  <2>6. Text[flow.rec] \in Seq(Nat)
    BY <1>0, TextType
  <2>7. /\ Fresh(Text[flow.rec], 0) /\ 0 \in 0..Len(Text[flow.rec])
        /\ DecodeTo(Text[flow.rec], 0) = <<>> /\ SubSeq(Text[flow.rec], 0 + 1, 0) = <<>>
    BY <2>6, DecodeToSteps DEF Fresh, Continues
  <2>8. ~next.stale => ReadSoFar(next)
    BY <2>2, <2>4, <2>5, <2>7 DEF ReadSoFar
  <2>9. Streamed(next)
    BY <2>4, <2>5, <2>7 DEF Streamed
  <2>10. FlowOK(next)
    BY <1>0, <2>2, <2>3, <2>4, <2>8, <2>9 DEF FlowOK
  <2>11. QED
    BY <2>10 DEF next
<1>2. CASE flow.at = "reading" /\ a.is = "chunk"
  <2> DEFINE at == IF a.eof \/ a.to <= flow.offset THEN "closing" ELSE "reading"
  <2>1. next = [flow EXCEPT !.at = at, !.got = @ \o a.text, !.offset = a.to, !.ok = a.eof]
    BY <1>2 DEF After
  <2>2. at \in {"closing", "reading"}
    OBVIOUS
  <2> HIDE DEF next, at
  <2>3. next = [at |-> at, rec |-> flow.rec, handle |-> flow.handle, offset |-> a.to,
                got |-> flow.got \o a.text, carry |-> flow.carry, ok |-> a.eof,
                stale |-> flow.stale]
    BY <1>0, <2>1
  <2>4. ASSUME ~flow.stale PROVE ReadSoFar(next)
    <3>1. ReadSoFar(flow) /\ Extends(flow, a)
      BY <1>2, <2>4 DEF FlowOK, Answers
    <3>2. QED
      BY <2>3, <3>1 DEF ReadSoFar, Extends
  <2>5. flow.handle # 0
    BY <1>2 DEF FlowOK
  <2>6. FlowOK(next)
    BY <1>0, <2>2, <2>3, <2>4, <2>5 DEF FlowOK
  <2>7. QED
    BY <2>6 DEF next
<1>3. CASE flow.at = "reading" /\ a.is # "chunk"
  <2>1. next = [flow EXCEPT !.at = "closing"]
    BY <1>3 DEF After
  <2> HIDE DEF next
  <2>2. next = [at |-> "closing", rec |-> flow.rec, handle |-> flow.handle,
                offset |-> flow.offset, got |-> flow.got, carry |-> flow.carry, ok |-> flow.ok, stale |-> flow.stale]
    BY <1>0, <2>1
  <2>3. flow.handle # 0 /\ (~flow.stale => ReadSoFar(flow))
    BY <1>3 DEF FlowOK
  <2>4. ~next.stale => ReadSoFar(next)
    BY <2>2, <2>3 DEF ReadSoFar
  <2>5. FlowOK(next)
    BY <1>0, <2>2, <2>3, <2>4 DEF FlowOK
  <2>6. QED
    BY <2>5 DEF next
<1>4. CASE flow.at = "closing"
  <2> DEFINE at == IF flow.ok THEN "shown" ELSE "failed"
  <2>1. next = [flow EXCEPT !.at = at]
    BY <1>4 DEF After
  <2>2. at \in {"shown", "failed"} /\ (at = "shown" => flow.ok)
    OBVIOUS
  <2> HIDE DEF next, at
  <2>3. next = [at |-> at, rec |-> flow.rec, handle |-> flow.handle, offset |-> flow.offset,
                got |-> flow.got, carry |-> flow.carry, ok |-> flow.ok, stale |-> flow.stale]
    BY <1>0, <2>1
  <2>4. flow.handle # 0 /\ (~flow.stale => ReadSoFar(flow))
    BY <1>4 DEF FlowOK
  <2>5. at = "shown" /\ ~flow.stale => flow.got = Decode(Text[flow.rec])
    BY <2>2, <2>4 DEF ReadSoFar, Decode
  <2>6. FlowOK(next)
    BY <1>0, <2>2, <2>3, <2>4, <2>5 DEF FlowOK
  <2>7. QED
    BY <2>6 DEF next
<1>5. CASE flow.at = "opening" /\ a.is # "opened"
  <2>1. next = [flow EXCEPT !.at = "failed"]
    BY <1>5 DEF After
  <2> HIDE DEF next
  <2>2. next = [at |-> "failed", rec |-> flow.rec, handle |-> flow.handle,
                offset |-> flow.offset, got |-> flow.got, carry |-> flow.carry, ok |-> flow.ok, stale |-> flow.stale]
    BY <1>0, <2>1
  <2>3. FlowOK(next)
    BY <2>2 DEF FlowOK
  <2>4. QED
    BY <2>3 DEF next
<1>6. QED
  BY <1>1, <1>2, <1>3, <1>4, <1>5

\* The end of a request.
LEMMA ReturnText ==
    ASSUME TextInv, client.at # "idle", UNCHANGED <<handles, nextHandle>>, answer' = Nothing,
           NEW a, Answers(reader[client.req.by], a), client'.at = "idle",
           reader' = [reader EXCEPT ![client.req.by] = After(@, a)]
    PROVE  TextInv'
<1> DEFINE by   == client.req.by
           next == After(reader[by], a)
<1>1. /\ HandlesOK /\ by \in Reader /\ FlowOK(reader[by])
      /\ reader[by].at \in {"opening", "reading", "closing"}
      /\ reader = [rd \in Reader |-> reader[rd]]
  BY DEF TextInv, RequestOK
<1>2. FlowOK(next)
  BY <1>1, AfterOK
<1>3. reader' = [rd \in Reader |-> IF rd = by THEN next ELSE reader[rd]]
  BY <1>1
<1> HIDE DEF next, by
<1>4. \A h, r : Registered(h, r) => Registered(h, r)'
  BY DEF Registered
<1>5. ASSUME NEW rd \in Reader PROVE FlowOK(reader[rd])'
  <2>1. CASE rd = by
    <3>1. reader'[rd] = next
      BY <1>3, <2>1
    <3>2. QED
      BY <1>2, <1>4, <3>1 DEF FlowOK, ReadSoFar, Streamed
  <2>2. CASE rd # by
    <3>1. reader'[rd] = reader[rd] /\ FlowOK(reader[rd])
      BY <1>3, <2>2 DEF TextInv
    <3>2. QED
      BY <1>4, <3>1 DEF FlowOK, ReadSoFar, Streamed
  <2>3. QED
    BY <2>1, <2>2
<1>6. HandlesOK'
  BY <1>1 DEF HandlesOK
<1>7. RequestOK' /\ AnswerOK'
  BY DEF RequestOK, AnswerOK
<1>8. reader' = [rd \in Reader |-> reader'[rd]]
  BY <1>3
<1>9. QED
  BY <1>5, <1>6, <1>7, <1>8 DEF TextInv

\* No answer tells a screen nothing.
LEMMA SilentText ==
    ASSUME TextInv, UNCHANGED <<handles, nextHandle, reader>>, answer' = Nothing,
           client.at # "idle", client'.req = client.req
    PROVE  TextInv'
<1>1. HandlesOK'
  BY DEF TextInv, HandlesOK
<1>2. RequestOK'
  BY DEF TextInv, RequestOK
<1>3. AnswerOK'
  BY DEF AnswerOK
<1>4. \A rd \in Reader : FlowOK(reader[rd])'
  BY DEF TextInv, FlowOK, ReadSoFar, Streamed, Registered
<1>5. QED
  BY <1>1, <1>2, <1>3, <1>4 DEF TextInv

\* A step of one screen that waits for no answer.
LEMMA ScreenText ==
    ASSUME TextInv, NEW rd \in Reader, reader[rd].at \notin {"opening", "reading", "closing"},
           NEW next, FlowOK(next), reader' = [reader EXCEPT ![rd] = next],
           UNCHANGED <<client, answer, handles, nextHandle>>
    PROVE  TextInv'
<1>1. /\ UNCHANGED <<client, answer, handles, nextHandle>>
      /\ reader[rd].at \notin {"opening", "reading", "closing"}
      /\ reader' = [reader EXCEPT ![rd] = next]
      /\ reader = [x \in Reader |-> reader[x]]
  BY DEF TextInv
<1>2. FlowOK(next)
  OBVIOUS
<1>3. reader' = [x \in Reader |-> IF x = rd THEN next ELSE reader[x]]
  BY <1>1
<1>4. \A h, x : Registered(h, x) => Registered(h, x)'
  BY <1>1 DEF Registered
<1>5. ASSUME NEW x \in Reader PROVE FlowOK(reader[x])'
  <2>1. CASE x = rd
    <3>1. reader'[x] = next
      BY <1>3, <2>1
    <3>2. QED
      BY <1>2, <1>4, <3>1 DEF FlowOK, ReadSoFar, Streamed
  <2>2. CASE x # rd
    <3>1. reader'[x] = reader[x] /\ FlowOK(reader[x])
      BY <1>3, <2>2 DEF TextInv
    <3>2. QED
      BY <1>4, <3>1 DEF FlowOK, ReadSoFar, Streamed
  <2>3. QED
    BY <2>1, <2>2
<1>6. HandlesOK'
  BY <1>1 DEF TextInv, HandlesOK
<1>7. client.at # "idle" => client.req.by # rd /\ client.req.by \in Reader
  BY <1>1 DEF TextInv, RequestOK
<1>8. client.at # "idle" => reader'[client.req.by] = reader[client.req.by]
  BY <1>3, <1>7
<1>9. RequestOK'
  BY <1>1, <1>7, <1>8 DEF TextInv, RequestOK
<1>10. AnswerOK'
  <2> SUFFICES ASSUME answer # Nothing PROVE AnswerOK'
    BY <1>1 DEF AnswerOK
  <2>1. /\ client.at = "wait" /\ Answers(reader[client.req.by], answer)
        /\ reader'[client.req.by] = reader[client.req.by]
    BY <1>8 DEF TextInv, AnswerOK
  <2>2. Answers(reader[client.req.by], answer)'
    BY <1>1, <1>4, <2>1 DEF Answers, Opens, Extends
  <2>3. QED
    BY <1>1, <2>1, <2>2 DEF AnswerOK
<1>11. reader' = [x \in Reader |-> reader'[x]]
  BY <1>3
<1>12. QED
  BY <1>5, <1>6, <1>9, <1>10, <1>11 DEF TextInv

LEMMA ViewText ==
    ASSUME TextInv, NEW rd \in Reader, NEW r \in Rec, View(rd, r)
    PROVE  TextInv'
<1> DEFINE next == [Away EXCEPT !.at = "opening", !.rec = r]
<1>1. /\ UNCHANGED <<client, answer, handles, nextHandle>>
      /\ reader[rd].at \in {"away", "shown", "failed"}
      /\ reader' = [reader EXCEPT ![rd] = next]
      /\ reader = [x \in Reader |-> reader[x]]
  BY DEF View, TextInv
<1>2. /\ next = [at |-> next.at, rec |-> next.rec, handle |-> next.handle, offset |-> next.offset,
                 got |-> next.got, carry |-> next.carry, ok |-> next.ok, stale |-> next.stale]
      /\ next.at = "opening" /\ next.rec = r /\ next.offset = 0 /\ next.got = <<>>
      /\ next.carry = <<>> /\ next.ok = FALSE
  <2> DEFINE base == Away
  <2>1. /\ base = [at |-> base.at, rec |-> base.rec, handle |-> base.handle,
                   offset |-> base.offset, got |-> base.got, carry |-> base.carry,
                   ok |-> base.ok, stale |-> base.stale]
        /\ base.offset = 0 /\ base.got = <<>> /\ base.carry = <<>> /\ base.ok = FALSE
    BY DEF Away
  <2>2. next = [base EXCEPT !.at = "opening", !.rec = r]
    OBVIOUS
  <2> HIDE DEF base, next
  <2>3. QED
    BY <2>1, <2>2
<1> HIDE DEF next
<1>3. FlowOK(next)
  BY <1>2 DEF FlowOK
<1>4. QED
  BY <1>1, <1>3, ScreenText

\* The fields of a screen that reads the descriptor, when some are assigned.
LEMMA PieceRecord ==
    ASSUME NEW flow, NEW next, NEW to, NEW shown, NEW rest,
           flow = [at |-> flow.at, rec |-> flow.rec, handle |-> flow.handle, offset |-> flow.offset,
                   got |-> flow.got, carry |-> flow.carry, ok |-> flow.ok, stale |-> flow.stale],
           next = [flow EXCEPT !.offset = to, !.got = shown, !.carry = rest]
    PROVE  next = [at |-> flow.at, rec |-> flow.rec, handle |-> flow.handle, offset |-> to,
                   got |-> shown, carry |-> rest, ok |-> flow.ok, stale |-> flow.stale]
OBVIOUS

LEMMA EndRecord ==
    ASSUME NEW flow, NEW next, NEW shown,
           flow = [at |-> flow.at, rec |-> flow.rec, handle |-> flow.handle, offset |-> flow.offset,
                   got |-> flow.got, carry |-> flow.carry, ok |-> flow.ok, stale |-> flow.stale],
           next = [flow EXCEPT !.at = "shown", !.got = shown, !.carry = <<>>,
                               !.handle = 0, !.stale = FALSE]
    PROVE  next = [at |-> "shown", rec |-> flow.rec, handle |-> 0, offset |-> flow.offset,
                   got |-> shown, carry |-> <<>>, ok |-> flow.ok, stale |-> FALSE]
OBVIOUS

LEMMA FailRecord ==
    ASSUME NEW flow, NEW next, NEW at,
           flow = [at |-> flow.at, rec |-> flow.rec, handle |-> flow.handle, offset |-> flow.offset,
                   got |-> flow.got, carry |-> flow.carry, ok |-> flow.ok, stale |-> flow.stale],
           next = [flow EXCEPT !.at = at, !.carry = <<>>]
    PROVE  next = [at |-> at, rec |-> flow.rec, handle |-> flow.handle, offset |-> flow.offset,
                   got |-> flow.got, carry |-> <<>>, ok |-> flow.ok, stale |-> flow.stale]
OBVIOUS

\* Reading the descriptor, to its end or to an error.
LEMMA StreamText ==
    ASSUME TextInv, NEW rd \in Reader, StreamPiece(rd) \/ StreamEnd(rd) \/ StreamFails(rd)
    PROVE  TextInv'
<1> DEFINE flow  == reader[rd]
           bytes == Text[flow.rec]
<1>1. /\ flow.at = "streaming" /\ FlowOK(flow) /\ UNCHANGED <<client, answer, handles, nextHandle>>
  BY DEF TextInv, StreamPiece, StreamEnd, StreamFails
<1>2. /\ flow = [at |-> flow.at, rec |-> flow.rec, handle |-> flow.handle, offset |-> flow.offset,
                 got |-> flow.got, carry |-> flow.carry, ok |-> flow.ok, stale |-> flow.stale]
      /\ flow.rec \in Rec /\ flow.handle # 0 /\ Streamed(flow)
      /\ ~flow.stale => Registered(flow.handle, flow.rec)
  BY <1>1 DEF FlowOK
<1>3. bytes \in Seq(Nat) /\ Len(bytes) \in Nat
  BY <1>2, TextType
<1>4. PICK start \in 0..flow.offset :
        /\ flow.offset \in 0..Len(bytes) /\ flow.ok = FALSE
        /\ flow.carry = SubSeq(bytes, start + 1, flow.offset)
        /\ Fresh(bytes, start) /\ flow.got = DecodeTo(bytes, start)
  BY <1>2 DEF Streamed
<1>5. ASSUME StreamPiece(rd) PROVE TextInv'
  <2>1. PICK count \in 1..Min({PieceLen, Len(bytes) - flow.offset}) :
          LET combined == flow.carry \o SubSeq(bytes, flow.offset + 1, flow.offset + count)
              safeEnd  == LastCharBoundary(combined)
          IN  reader' = [reader EXCEPT ![rd] =
                  [flow EXCEPT !.offset = flow.offset + count,
                               !.got    = flow.got \o Decode(SubSeq(combined, 1, safeEnd)),
                               !.carry  = SubSeq(combined, safeEnd + 1, Len(combined))]]
    BY <1>5 DEF StreamPiece, OpenMemfd
  <2> DEFINE from == flow.offset
             to   == from + count
             combined == SubSeq(bytes, start + 1, from) \o SubSeq(bytes, from + 1, to)
             safeEnd  == LastCharBoundary(combined)
             shown == flow.got \o Decode(SubSeq(combined, 1, safeEnd))
             rest  == SubSeq(combined, safeEnd + 1, Len(combined))
             next == [flow EXCEPT !.offset = to, !.got = shown, !.carry = rest]
  <2>2. reader' = [reader EXCEPT ![rd] = next]
    BY <1>4, <2>1
  <2>3. to \in 0..Len(bytes) /\ from < to /\ from \in Nat /\ start \in Nat
    <3>1. PieceLen \in Nat /\ Len(bytes) - flow.offset \in Nat
      BY <1>3, <1>4, SessionsAssumption
    <3>2. Min({PieceLen, Len(bytes) - flow.offset}) =
             IF PieceLen <= Len(bytes) - flow.offset THEN PieceLen ELSE Len(bytes) - flow.offset
      BY <3>1, LesserOf
    <3>3. flow.offset \in Nat /\ start \in Nat /\ count \in Nat /\ 1 <= count
          /\ count <= Len(bytes) - flow.offset
      <4> DEFINE most == Min({PieceLen, Len(bytes) - flow.offset})
      <4>1. most \in Nat /\ most <= Len(bytes) - flow.offset /\ count \in 1..most
        <5> HIDE DEF flow, bytes
        <5>1. QED
          BY <2>1, <3>1, <3>2
      <4> HIDE DEF most
      <4>2. QED
        BY <1>4, <4>1
    <3>4. QED
      <4> HIDE DEF flow, bytes
      <4>1. QED
        BY <1>3, <3>3
  <2> HIDE DEF from, to, combined, safeEnd, shown, rest
  <2>4. PICK mid \in start..to :
          /\ rest = SubSeq(bytes, mid + 1, to) /\ Fresh(bytes, mid) /\ shown = DecodeTo(bytes, mid)
    <3>1. /\ start \in 0..Len(bytes) /\ from \in start..Len(bytes) /\ to \in from..Len(bytes)
          /\ from < to
      BY <1>3, <1>4, <2>3 DEF from
    <3>2. \E mid \in start..to :
            /\ SubSeq(combined, safeEnd + 1, Len(combined)) = SubSeq(bytes, mid + 1, to)
            /\ Fresh(bytes, mid)
            /\ DecodeTo(bytes, start) \o Decode(SubSeq(combined, 1, safeEnd)) = DecodeTo(bytes, mid)
      <4> HIDE DEF flow
      <4>1. QED
        BY <1>2, <1>4, <3>1, StreamedOn DEF combined, safeEnd
    <3>3. QED
      BY <1>4, <3>2 DEF rest, shown
  <2>5. next = [at |-> "streaming", rec |-> flow.rec, handle |-> flow.handle, offset |-> to,
                got |-> shown, carry |-> rest, ok |-> flow.ok, stale |-> flow.stale]
    <3> DEFINE f == flow
    <3>1. /\ f = [at |-> f.at, rec |-> f.rec, handle |-> f.handle, offset |-> f.offset,
                  got |-> f.got, carry |-> f.carry, ok |-> f.ok, stale |-> f.stale]
          /\ next = [f EXCEPT !.offset = to, !.got = shown, !.carry = rest] /\ f.at = "streaming"
      BY <1>1, <1>2
    <3> HIDE DEF f, next
    <3>2. next = [at |-> f.at, rec |-> f.rec, handle |-> f.handle, offset |-> to,
                  got |-> shown, carry |-> rest, ok |-> f.ok, stale |-> f.stale]
      BY <3>1, PieceRecord
    <3>3. QED
      BY <3>1, <3>2 DEF f
  <2> HIDE DEF next
  <2>6. Streamed(next)
    <3>1. mid \in 0..to
      BY <2>3, <2>4
    <3>2. QED
      BY <1>4, <2>3, <2>4, <2>5, <3>1 DEF Streamed
  <2>7. FlowOK(next)
    BY <1>2, <2>5, <2>6 DEF FlowOK
  <2>8. QED
    BY <1>1, <2>2, <2>7, ScreenText
<1>6. ASSUME StreamEnd(rd) PROVE TextInv'
  <2> DEFINE shown == flow.got \o Decode(flow.carry)
             next == [flow EXCEPT !.at = "shown", !.got = shown, !.carry = <<>>,
                                  !.handle = 0, !.stale = FALSE]
  <2>1. reader' = [reader EXCEPT ![rd] = next] /\ flow.offset = Len(bytes)
    BY <1>6 DEF StreamEnd, OpenMemfd
  <2>2. shown = Decode(bytes)
    <3>1. start \in 0..Len(bytes) /\ Len(bytes) \in start..Len(bytes)
      BY <1>3, <1>4
    <3>2. Fresh(bytes, Len(bytes))
      BY <1>3 DEF Fresh
    <3>3. DecodeTo(bytes, start) \o Decode(SubSeq(bytes, start + 1, Len(bytes))) = DecodeTo(bytes, Len(bytes))
      <4> HIDE DEF bytes, flow
      <4>1. QED
        BY <1>3, <1>4, <3>1, <3>2, DecodedInPieces
    <3>4. QED
      BY <1>4, <2>1, <3>3 DEF Decode
  <2> HIDE DEF shown
  <2>3. next = [at |-> "shown", rec |-> flow.rec, handle |-> 0, offset |-> flow.offset,
                got |-> shown, carry |-> <<>>, ok |-> flow.ok, stale |-> FALSE]
    BY <1>2, EndRecord
  <2> HIDE DEF next
  <2>4. FlowOK(next)
    BY <1>2, <2>2, <2>3 DEF FlowOK
  <2>5. QED
    BY <1>1, <2>1, <2>4, ScreenText
<1>7. ASSUME StreamFails(rd) PROVE TextInv'
  <2> DEFINE at == IF flow.offset > 0 THEN "failed" ELSE "reading"
             next == [flow EXCEPT !.at = at, !.carry = <<>>]
  <2>1. reader' = [reader EXCEPT ![rd] = next]
    BY <1>7 DEF StreamFails
  <2>2. at \in {"failed", "reading"} /\ (at = "reading" => flow.offset = 0 /\ start = 0)
    BY <1>4
  <2> HIDE DEF at
  <2>3. next = [at |-> at, rec |-> flow.rec, handle |-> flow.handle, offset |-> flow.offset,
                got |-> flow.got, carry |-> <<>>, ok |-> flow.ok, stale |-> flow.stale]
    BY <1>2, FailRecord
  <2> HIDE DEF next
  <2>4. at = "reading" /\ ~next.stale => ReadSoFar(next)
    BY <1>2, <1>4, <2>2, <2>3 DEF ReadSoFar
  <2>5. FlowOK(next)
    BY <1>2, <2>2, <2>3, <2>4 DEF FlowOK
  <2>6. QED
    BY <1>1, <2>1, <2>5, ScreenText
<1>8. QED
  BY <1>5, <1>6, <1>7

LEMMA AskText ==
    ASSUME SsInv, TextInv, NEW rd \in Reader, Ask(rd)
    PROVE  TextInv'
<1>1. /\ UNCHANGED <<answer, handles, nextHandle, reader>> /\ client.at = "idle"
      /\ reader[rd].at \in {"opening", "reading", "closing"} /\ ClientOK
  BY DEF Ask, SsInv
<1>2. answer = Nothing
  BY <1>1 DEF TextInv, AnswerOK
<1>3. client'.req = RequestOf(rd)
  <2> DEFINE at == IF client.channel = Nothing THEN "take" ELSE "wait"
             req == RequestOf(rd)
             ok == pool # <<>> /\ \A ch \in Range(pool) : Live(ch)
  <2>1. client' = [client EXCEPT !.at = at, !.attempt = 1, !.req = req, !.settled = ok]
    BY DEF Ask
  <2> HIDE DEF at, req, ok
  <2>2. client'.req = req
    BY <1>1, <2>1 DEF ClientOK
  <2>3. QED
    BY <2>2 DEF req
<1>4. RequestOK'
  <2>1. /\ client'.req.by = rd /\ client'.req.rec = reader[rd].rec
        /\ client'.req.handle = reader[rd].handle /\ client'.req.offset = reader[rd].offset
    BY <1>3 DEF RequestOf
  <2>2. \/ client'.req.op = "open" /\ reader[rd].at = "opening"
        \/ client'.req.op = "read" /\ reader[rd].at = "reading"
        \/ client'.req.op = "close" /\ reader[rd].at = "closing"
    BY <1>1, <1>3 DEF RequestOf
  <2>3. QED
    BY <1>1, <2>1, <2>2 DEF RequestOK
<1>5. AnswerOK' /\ HandlesOK'
  BY <1>1, <1>2 DEF TextInv, AnswerOK, HandlesOK
<1>6. \A x \in Reader : FlowOK(reader[x])'
  BY <1>1 DEF TextInv, FlowOK, ReadSoFar, Streamed, Registered
<1>7. QED
  BY <1>1, <1>4, <1>5, <1>6 DEF TextInv

LEMMA TakeText ==
    ASSUME SsInv, TextInv, Take
    PROVE  TextInv'
<1>1. /\ UNCHANGED <<handles, nextHandle, reader>> /\ client.at = "take" /\ answer' = Nothing
      /\ client' = [client EXCEPT !.at = "wait", !.channel = Head(pool), !.greeted = FALSE]
  BY DEF Take
<1>2. client'.req = client.req
  BY <1>1 DEF SsInv, ClientOK
<1>3. QED
  BY <1>1, <1>2, SilentText

\* A request that ends with its channel closed.
LEMMA ClosedReturns ==
    ASSUME ClientOK, NEW a, NEW how, Return(Closed(client), a, how)
    PROVE  /\ client'.at = "idle"
           /\ reader' = [reader EXCEPT ![client.req.by] = After(@, a)]
<1> DEFINE c == Closed(client)
<1>1. c = [at |-> c.at, attempt |-> c.attempt, channel |-> c.channel,
           greeted |-> c.greeted, req |-> c.req, settled |-> c.settled]
  BY ClosedShape
<1>2. /\ client' = [c EXCEPT !.at = "idle", !.req = NoRequest, !.settled = FALSE]
      /\ reader' = [reader EXCEPT ![client.req.by] = After(@, a)]
  BY DEF Return
<1> HIDE DEF c
<1>3. client'.at = "idle"
  BY <1>1, <1>2
<1>4. QED
  BY <1>2, <1>3

LEMMA ReceiveText ==
    ASSUME SsInv, TextInv, Receive
    PROVE  TextInv'
<1>1. /\ UNCHANGED <<handles, nextHandle>> /\ client.at = "wait" /\ answer # Nothing
      /\ answer' = Nothing /\ ClientOK /\ Answers(reader[client.req.by], answer)
  BY DEF Receive, SsInv, TextInv, AnswerOK
<1>2. CASE Return(client, answer, "answered")
  <2>1. /\ client'.at = "idle"
        /\ reader' = [reader EXCEPT ![client.req.by] = After(@, answer)]
    BY <1>1, <1>2 DEF Return, ClientOK
  <2>2. QED
    BY <1>1, <2>1, ReturnText
<1>3. CASE client' = [client EXCEPT !.greeted = TRUE] /\ UNCHANGED reader
  <2>1. client'.req = client.req
    BY <1>1, <1>3 DEF ClientOK
  <2>2. QED
    BY <1>1, <1>3, <2>1, SilentText
<1>4. CASE Return(Closed(client), answer, "answered")
  <2>1. /\ client'.at = "idle"
        /\ reader' = [reader EXCEPT ![client.req.by] = After(@, answer)]
    BY <1>1, <1>4, ClosedReturns
  <2>2. QED
    BY <1>1, <2>1, ReturnText
<1>5. QED
  BY <1>2, <1>3, <1>4 DEF Receive

LEMMA FailsText ==
    ASSUME SsInv, TextInv, Fails
    PROVE  TextInv'
<1> DEFINE a == [is |-> "rejected"]
<1>1. /\ UNCHANGED <<handles, nextHandle>> /\ client.at # "idle"
      /\ answer' = Nothing /\ ClientOK /\ Answers(reader[client.req.by], a)
  BY DEF Fails, Failure, SsInv, Answers
<1>2. CASE /\ client' = [Closed(client) EXCEPT !.at = "take", !.attempt = 2]
           /\ UNCHANGED reader
  <2> DEFINE c == Closed(client)
  <2>1. /\ c = [at |-> c.at, attempt |-> c.attempt, channel |-> c.channel,
                greeted |-> c.greeted, req |-> c.req, settled |-> c.settled]
        /\ c.req = client.req
    BY <1>1, ClosedShape
  <2>2. client' = [c EXCEPT !.at = "take", !.attempt = 2]
    BY <1>2
  <2> HIDE DEF c
  <2>3. client'.req = client.req
    BY <2>1, <2>2
  <2>4. QED
    BY <1>1, <1>2, <2>3, SilentText
<1>3. CASE Return(Closed(client), a, "failed")
  <2>1. /\ client'.at = "idle"
        /\ reader' = [reader EXCEPT ![client.req.by] = After(@, a)]
    BY <1>1, <1>3, ClosedReturns
  <2>2. QED
    BY <1>1, <2>1, ReturnText
<1>4. QED
  BY <1>2, <1>3 DEF Fails, Failure

LEMMA CancelText ==
    ASSUME SsInv, TextInv, Cancel
    PROVE  TextInv'
<1> DEFINE a == [is |-> "rejected"]
<1>1. /\ UNCHANGED <<handles, nextHandle>> /\ client.at # "idle"
      /\ answer' = Nothing /\ ClientOK /\ Answers(reader[client.req.by], a)
      /\ Return(client, a, "cancelled")
  BY DEF Cancel, SsInv, Answers
<1>2. /\ client'.at = "idle"
      /\ reader' = [reader EXCEPT ![client.req.by] = After(@, a)]
  BY <1>1 DEF Return, ClientOK
<1>3. QED
  BY <1>1, <1>2, ReturnText

\* A screen with a handle of the daemon that died is marked.
LEMMA DieText ==
    ASSUME SsInv, TextInv, Die
    PROVE  TextInv'
<1>1. /\ handles' = <<>> /\ nextHandle' = 1 /\ UNCHANGED answer
      /\ reader' = [rd \in Reader |-> [reader[rd] EXCEPT !.stale = HasHandle(rd)]]
      /\ client'.at = client.at /\ client'.req = client.req
  BY UnsettledKeeps DEF Die, SsInv
<1>2. HandlesOK'
  BY <1>1 DEF HandlesOK
<1>3. ASSUME NEW rd \in Reader
      PROVE  /\ FlowOK(reader[rd])
             /\ reader'[rd] = [at |-> reader'[rd].at, rec |-> reader'[rd].rec,
                               handle |-> reader'[rd].handle, offset |-> reader'[rd].offset,
                               got |-> reader'[rd].got, carry |-> reader'[rd].carry,
                               ok |-> reader'[rd].ok, stale |-> reader'[rd].stale]
             /\ reader'[rd].at = reader[rd].at /\ reader'[rd].rec = reader[rd].rec
             /\ reader'[rd].handle = reader[rd].handle
             /\ reader'[rd].offset = reader[rd].offset
             /\ reader'[rd].got = reader[rd].got /\ reader'[rd].ok = reader[rd].ok
             /\ reader'[rd].carry = reader[rd].carry
             /\ reader'[rd].stale = HasHandle(rd)
  <2>1. FlowOK(reader[rd])
    BY DEF TextInv
  <2> DEFINE marked == HasHandle(rd)
             old == reader[rd]
             new == reader'[rd]
  <2>2. new = [old EXCEPT !.stale = marked]
    BY <1>1
  <2>3. old = [at |-> old.at, rec |-> old.rec, handle |-> old.handle, offset |-> old.offset,
               got |-> old.got, carry |-> old.carry, ok |-> old.ok, stale |-> old.stale]
    BY <2>1 DEF FlowOK
  <2> HIDE DEF marked, old, new
  <2>4. /\ new = [at |-> new.at, rec |-> new.rec, handle |-> new.handle, offset |-> new.offset,
                  got |-> new.got, carry |-> new.carry, ok |-> new.ok, stale |-> new.stale]
        /\ new.at = old.at /\ new.rec = old.rec /\ new.handle = old.handle
        /\ new.offset = old.offset /\ new.got = old.got /\ new.ok = old.ok
        /\ new.carry = old.carry /\ new.stale = marked
    BY <2>2, <2>3
  <2>5. QED
    BY <2>1, <2>4 DEF marked, old, new
<1>4. ASSUME NEW rd \in Reader PROVE FlowOK(reader[rd])'
  <2>1. reader[rd].handle # 0 => reader'[rd].stale
    BY <1>3 DEF HasHandle
  <2> DEFINE old == reader[rd]
             new == reader'[rd]
  <2>2. /\ new = [at |-> new.at, rec |-> new.rec, handle |-> new.handle, offset |-> new.offset,
                  got |-> new.got, carry |-> new.carry, ok |-> new.ok, stale |-> new.stale]
        /\ new.at = old.at /\ new.rec = old.rec /\ new.handle = old.handle
        /\ new.offset = old.offset /\ new.got = old.got /\ new.ok = old.ok
        /\ new.carry = old.carry
    BY <1>3
  <2>3. /\ old.at \in {"away", "opening", "streaming", "reading", "closing", "shown", "failed"}
        /\ old.at \in {"opening", "streaming", "reading", "closing", "shown"} => old.rec \in Rec
        /\ old.at = "opening" => /\ old.offset = 0 /\ old.got = <<>> /\ old.carry = <<>>
                                 /\ old.ok = FALSE
        /\ old.at \in {"streaming", "reading", "closing"} => old.handle # 0
        /\ old.at = "streaming" => Streamed(old)
        /\ old.at = "shown" /\ old.handle = 0 => old.got = Decode(Text[old.rec])
    BY <1>3 DEF FlowOK
  <2>4. old.handle # 0 => new.stale
    BY <2>1
  <2> HIDE DEF old, new
  <2>5. Streamed(old) => Streamed(new)
    BY <2>2 DEF Streamed
  <2>6. /\ new.at \in {"away", "opening", "streaming", "reading", "closing", "shown", "failed"}
        /\ new.at \in {"opening", "streaming", "reading", "closing", "shown"} => new.rec \in Rec
        /\ new.at = "opening" => /\ new.offset = 0 /\ new.got = <<>> /\ new.carry = <<>>
                                 /\ new.ok = FALSE
        /\ new.at \in {"streaming", "reading", "closing"} => new.handle # 0 /\ new.stale
        /\ new.at = "streaming" => Streamed(new)
        /\ new.at = "shown" /\ (~new.stale \/ new.handle = 0) => new.got = Decode(Text[new.rec])
    BY <2>2, <2>3, <2>4, <2>5
  <2>7. QED
    BY <2>2, <2>6 DEF FlowOK, Streamed, new
<1>5. RequestOK'
  <2> SUFFICES ASSUME client.at # "idle" PROVE RequestOK'
    BY <1>1 DEF RequestOK
  <2>1. client.req.by \in Reader
    BY DEF TextInv, RequestOK
  <2>2. /\ reader'[client.req.by].at = reader[client.req.by].at
        /\ reader'[client.req.by].rec = reader[client.req.by].rec
        /\ reader'[client.req.by].handle = reader[client.req.by].handle
        /\ reader'[client.req.by].offset = reader[client.req.by].offset
    BY <1>3, <2>1
  <2>3. QED
    BY <1>1, <2>1, <2>2 DEF TextInv, RequestOK
<1>6. AnswerOK'
  <2> SUFFICES ASSUME answer # Nothing PROVE AnswerOK'
    BY <1>1 DEF AnswerOK
  <2> DEFINE by == client.req.by
  <2>1. client.at = "wait" /\ by \in Reader /\ Answers(reader[by], answer)
    BY DEF TextInv, AnswerOK, RequestOK
  <2>2. /\ reader'[by].at = reader[by].at /\ reader'[by].rec = reader[by].rec
        /\ reader'[by].stale = HasHandle(by)
    BY <1>3, <2>1
  <2>3. reader[by].at = "opening" /\ answer.is = "opened" => reader'[by].stale
    BY <2>2 DEF HasHandle
  <2>4. reader[by].at = "reading" => reader'[by].stale
    <3>1. reader[by].at = "reading" => reader[by].handle # 0
      BY <1>3, <2>1 DEF FlowOK
    <3>2. QED
      BY <2>2, <3>1 DEF HasHandle
  <2>5. reader[by].at = "opening" /\ answer.is = "opened" =>
            answer.handle # 0
    BY <2>1 DEF Answers, Opens
  <2>6. Answers(reader[client.req.by], answer)'
    BY <1>1, <2>2, <2>3, <2>4, <2>5 DEF Answers, Opens
  <2>7. QED
    BY <1>1, <2>1, <2>6 DEF AnswerOK
<1>7. reader' = [rd \in Reader |-> reader'[rd]]
  BY <1>1
<1>8. QED
  BY <1>2, <1>4, <1>5, <1>6, <1>7 DEF TextInv

LEMMA FreshScreens ==
    ASSUME HandlesOK, client.at = "idle", answer = Nothing, reader = [rd \in Reader |-> Away]
    PROVE  TextInv
<1>1. FlowOK(Away)
  BY DEF FlowOK, Away
<1>2. RequestOK /\ AnswerOK
  BY DEF RequestOK, AnswerOK
<1>3. QED
  BY <1>1, <1>2 DEF TextInv

LEMMA ManagerDiesText ==
    ASSUME TextInv, ManagerDies
    PROVE  TextInv'
<1>1. HandlesOK'
  BY DEF TextInv, HandlesOK, ManagerDies
<1>2. /\ client'.at = "idle" /\ answer' = Nothing /\ reader' = [rd \in Reader |-> Away]
  BY DEF ManagerDies, Disconnected
<1>3. FlowOK(Away)'
  BY DEF FlowOK, Away
<1>4. RequestOK' /\ AnswerOK'
  BY <1>2 DEF RequestOK, AnswerOK
<1>5. QED
  BY <1>1, <1>2, <1>3, <1>4 DEF TextInv, FlowOK

LEMMA TextStep ==
    ASSUME SsInv, TextInv, [SsNext]_ssVars
    PROVE  TextInv'
<1>1. ASSUME NEW s \in Slot, SlotStep(s) PROVE TextInv'
  BY <1>1, SlotTextQuiet, HandshakeText, DispatchText DEF SlotStep
<1>2. ASSUME NEW rd \in Reader, Ask(rd) \/ \E r \in Rec : View(rd, r) PROVE TextInv'
  BY <1>2, AskText, ViewText
<1>3. CASE Take \/ Receive \/ Fails \/ Die \/ ManagerDies \/ Cancel
  BY <1>3, TakeText, ReceiveText, FailsText, DieText, ManagerDiesText, CancelText
<1>4. CASE Start \/ (\E r \in Rec : Evict(r)) \/ UNCHANGED ssVars
  <2>1. UNCHANGED <<reader, handles, nextHandle, answer, client>>
    BY <1>4 DEF Start, Evict, ssVars
  <2>2. QED
    BY <2>1, QuietText
<1>5. CASE \E rd \in Reader : StreamPiece(rd) \/ StreamEnd(rd) \/ StreamFails(rd)
  BY <1>5, StreamText
<1>6. QED
  BY <1>1, <1>2, <1>3, <1>4, <1>5 DEF SsNext

(***************************************************************************)
(* A text that is shown is whole: for any texts, malformed ones too, any   *)
(* chunk that holds a character, any reads of the descriptor and any       *)
(* number of screens, records and faults, decoding the pieces of the       *)
(* descriptor (lastCharBoundary and the bytes held back) or the chunks of  *)
(* the handle (read_chunk) gives what decoding the text whole gives, and a *)
(* handle keeps naming its record for as long as its daemon lives.         *)
(***************************************************************************)
THEOREM ShownText == SsSpec => []ShownTextIsWhole
<1>1. SsInit => TextInv
  <2> SUFFICES ASSUME SsInit PROVE TextInv
    OBVIOUS
  <2>1. HandlesOK
    BY DEF SsInit, HandlesOK
  <2>2. client.at = "idle" /\ answer = Nothing /\ reader = [rd \in Reader |-> Away]
    BY DEF SsInit, Disconnected
  <2>3. QED
    BY <2>1, <2>2, FreshScreens
<1>2. SsInv /\ TextInv /\ [SsNext]_ssVars => TextInv'
  BY TextStep
<1>3. TextInv => ShownTextIsWhole
  BY DEF TextInv, FlowOK, ShownTextIsWhole
<1>4. QED
  BY <1>1, <1>2, <1>3, SessionsInvariance, PTL DEF SsSpec

=============================================================================
