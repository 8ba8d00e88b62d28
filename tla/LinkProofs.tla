------------------------------ MODULE LinkProofs ------------------------------
(* Proofs about EngineLink, for any number of tasks, faults and connections, any *)
(* capacity of the event channel and engines of any version.                    *)
EXTENDS EngineLink, SequenceTheorems, TLAPS

------------------------------------------------------------------------------
(* Sequences of whatever they hold *)

Sequential(s) == s \in Seq({s[k] : k \in DOMAIN s})

LEMMA SeqSequential ==
  ASSUME NEW S, NEW t \in Seq(S) PROVE Sequential(t)
<1> DEFINE R == {t[k] : k \in DOMAIN t}
<1>1. t \in [1 .. Len(t) -> S] /\ DOMAIN t = 1 .. Len(t) /\ Len(t) \in Nat
  BY LenProperties
<1>2. \A k \in 1 .. Len(t) : t[k] \in R
  BY <1>1
<1> HIDE DEF R
<1>3. t \in [1 .. Len(t) -> R]
  BY <1>1, <1>2
<1>4. t \in Seq(R)
  BY <1>1, <1>3, SeqDef
<1>5. QED
  BY <1>4 DEF Sequential, R

LEMMA EmptySequential == Sequential(<<>>)
BY DEF Sequential

LEMMA AppendFacts ==
  ASSUME NEW s, Sequential(s), NEW e
  PROVE  /\ Sequential(Append(s, e))
         /\ Len(s) \in Nat /\ Len(Append(s, e)) = Len(s) + 1
         /\ \A k \in 1 .. Len(s) : Append(s, e)[k] = s[k]
         /\ Append(s, e)[Len(s) + 1] = e
<1> DEFINE S == {s[k] : k \in DOMAIN s} \cup {e}
           t == Append(s, e)
<1>1. s \in Seq(S)
  BY DEF Sequential
<1>2. t \in Seq(S) /\ Len(s) \in Nat /\ Len(t) = Len(s) + 1 /\ DOMAIN t = 1 .. Len(t)
  BY <1>1
<1>3. /\ \A k \in 1 .. Len(s) : t[k] = s[k]
      /\ t[Len(s) + 1] = e
  BY <1>1
<1>4. Sequential(t)
  BY <1>2, SeqSequential
<1>5. QED
  BY <1>2, <1>3, <1>4

LEMMA TailFacts ==
  ASSUME NEW s, Sequential(s), s # <<>>
  PROVE  /\ Sequential(Tail(s))
         /\ Len(s) \in Nat \ {0} /\ Len(Tail(s)) = Len(s) - 1
         /\ \A k \in 1 .. Len(s) - 1 : Tail(s)[k] = s[k + 1]
         /\ Head(s) = s[1]
<1> DEFINE S == {s[k] : k \in DOMAIN s}
           t == Tail(s)
<1>1. s \in Seq(S)
  BY DEF Sequential
<1>2. /\ t \in Seq(S) /\ Len(s) \in Nat \ {0} /\ Len(t) = Len(s) - 1
      /\ DOMAIN t = 1 .. Len(t) /\ Head(s) = s[1]
  BY <1>1
<1>3. \A k \in 1 .. Len(s) - 1 : t[k] = s[k + 1]
  BY <1>1
<1>4. Sequential(t)
  BY <1>2, SeqSequential
<1>5. QED
  BY <1>2, <1>3, <1>4

------------------------------------------------------------------------------
(* The invariant *)

\* A line of the link carries as its id the serial number of its send.
Own(line) == line.id = line.serial

UpOwn(s) == Sequential(s) /\ \A k \in 1 .. Len(s) : Own(s[k])
DownOwn(s) == Sequential(s) /\ \A k \in 1 .. Len(s) : s[k].kind = "response" => Own(s[k])
FeedOwn(s) == Sequential(s) /\ \A k \in 1 .. Len(s) : s[k].kind = "event"

ConnOwn(c) ==
  /\ DOMAIN c = {"up", "reply", "down", "feed", "alive", "lagged"}
  /\ UpOwn(c.up) /\ DownOwn(c.down) /\ FeedOwn(c.feed)
  /\ c.reply # NoReply => Own(c.reply) /\ c.reply.kind = "response"

ConnsOwn(cs) == Sequential(cs) /\ \A c \in 1 .. Len(cs) : ConnOwn(cs[c])

\* So does a pending request, and its place among the pending ones.
PendingOwn(cl) ==
  /\ DOMAIN cl = {"state", "running", "way", "socket", "pending", "sent", "crossed"}
  /\ \A i \in DOMAIN cl.pending : cl.pending[i].serial = i
  /\ ~cl.crossed

\* There is a socket only while the client is connected, and it belongs to a
\* connection of the engine; a refused client has none and awaits none.
SocketIsOpen ==
  /\ client.socket # None => /\ client.state = "connected" /\ client.way = "none"
                             /\ client.socket \in 1 .. Len(conns)
  /\ client.state = "incompatible" => client.socket = None /\ client.way = "none"

LinkInv == PendingOwn(client) /\ SocketIsOpen /\ ConnsOwn(conns)

LEMMA LinkInit == Init => LinkInv
BY EmptySequential DEF Init, LinkInv, PendingOwn, SocketIsOpen, ConnsOwn

------------------------------------------------------------------------------
(* What the operators of the link keep *)

LEMMA Queued ==
  ASSUME NEW s, NEW e
  PROVE  /\ UpOwn(s) /\ Own(e) => UpOwn(Append(s, e))
         /\ DownOwn(s) /\ (e.kind = "response" => Own(e)) => DownOwn(Append(s, e))
         /\ FeedOwn(s) /\ e.kind = "event" => FeedOwn(Append(s, e))
<1>1. ASSUME Sequential(s), NEW k \in 1 .. Len(Append(s, e))
      PROVE  Append(s, e)[k] = e \/ (k \in 1 .. Len(s) /\ Append(s, e)[k] = s[k])
  BY <1>1, AppendFacts
<1>2. Sequential(s) => Sequential(Append(s, e))
  BY AppendFacts
<1>3. QED
  BY <1>1, <1>2 DEF UpOwn, DownOwn, FeedOwn

LEMMA Dequeued ==
  ASSUME NEW s, s # <<>>
  PROVE  /\ UpOwn(s) => UpOwn(Tail(s)) /\ Own(Head(s))
         /\ DownOwn(s) => DownOwn(Tail(s)) /\ (Head(s).kind = "response" => Own(Head(s)))
         /\ FeedOwn(s) => FeedOwn(Tail(s)) /\ Head(s).kind = "event"
<1>1. ASSUME Sequential(s), NEW k \in 1 .. Len(Tail(s))
      PROVE  k + 1 \in 1 .. Len(s) /\ Tail(s)[k] = s[k + 1]
  BY <1>1, TailFacts
<1>2. Sequential(s) => Sequential(Tail(s)) /\ Head(s) = s[1] /\ 1 \in 1 .. Len(s)
  BY TailFacts
<1>3. QED
  BY <1>1, <1>2 DEF UpOwn, DownOwn, FeedOwn

\* Replacing the state of a connection.
LEMMA Replaced ==
  ASSUME NEW cs, ConnsOwn(cs), NEW c, NEW r, c \in 1 .. Len(cs) => ConnOwn(r)
  PROVE  ConnsOwn([cs EXCEPT ![c] = r]) /\ Len([cs EXCEPT ![c] = r]) = Len(cs)
<1> DEFINE S == {cs[k] : k \in DOMAIN cs} \cup {r}
           t == [cs EXCEPT ![c] = r]
<1>1. cs \in Seq(S)
  BY DEF ConnsOwn, Sequential
<1>2. /\ DOMAIN cs = 1 .. Len(cs) /\ cs \in [1 .. Len(cs) -> S] /\ Len(cs) \in Nat
  BY <1>1, LenProperties
<1> HIDE DEF S
<1>3. CASE c \in 1 .. Len(cs)
  <2>1. r \in S
    BY DEF S
  <2>2. /\ t \in Seq(S) /\ Len(t) = Len(cs)
        /\ \A k \in 1 .. Len(cs) : t[k] = IF k = c THEN r ELSE cs[k]
    BY <1>1, <1>3, <2>1, ExceptSeq
  <2>3. QED
    BY <1>3, <2>2, SeqSequential DEF ConnsOwn
<1>4. CASE c \notin 1 .. Len(cs)
  <2>1. t = cs
    BY <1>2, <1>4
  <2>2. QED
    BY <2>1
<1>5. QED
  BY <1>3, <1>4

LEMMA NewConnOwn == ConnOwn(NewConn) /\ ConnOwn(Closed)
<1>1. UpOwn(<<>>) /\ DownOwn(<<>>) /\ FeedOwn(<<>>)
  BY EmptySequential DEF UpOwn, DownOwn, FeedOwn
<1>2. QED
  BY <1>1 DEF NewConn, Closed, ConnOwn

\* A request that is sent.
LEMMA SendingKeeps ==
  ASSUME NEW cl, PendingOwn(cl), NEW what, NEW arg
  PROVE  /\ PendingOwn(Sending(cl, what, arg))
         /\ Sending(cl, what, arg).state = cl.state
         /\ Sending(cl, what, arg).way = cl.way
         /\ Sending(cl, what, arg).socket = cl.socket
<1> DEFINE q == [i \in DOMAIN cl.pending \cup {NextId(cl)} |->
                  IF i = NextId(cl) THEN Request(cl, what, arg) ELSE cl.pending[i]]
           new == Sending(cl, what, arg)
<1>1. /\ DOMAIN new = DOMAIN cl
      /\ new.state = cl.state /\ new.way = cl.way /\ new.socket = cl.socket
      /\ new.pending = q /\ new.crossed = cl.crossed
  BY DEF Sending, PendingOwn
<1>2. \A i \in DOMAIN q : q[i].serial = i
  BY DEF PendingOwn, Request, NextId
<1>3. QED
  BY <1>1, <1>2 DEF PendingOwn

LEMMA WrittenKeeps ==
  ASSUME NEW cs, ConnsOwn(cs), NEW cl, NEW what, NEW arg
  PROVE  /\ ConnsOwn(Written(cs, cl, what, arg))
         /\ Len(Written(cs, cl, what, arg)) = Len(cs)
<1> DEFINE c == cs[cl.socket]
           r == [c EXCEPT !.up = Append(@, Request(cl, what, arg))]
<1>1. Own(Request(cl, what, arg))
  BY DEF Own, Request, NextId
<1>2. ASSUME cl.socket \in 1 .. Len(cs) PROVE ConnOwn(r)
  <2>1. ConnOwn(c)
    BY <1>2 DEF ConnsOwn
  <2>2. UpOwn(Append(c.up, Request(cl, what, arg)))
    BY <1>1, <2>1, Queued DEF ConnOwn
  <2>3. /\ DOMAIN r = DOMAIN c /\ r.up = Append(c.up, Request(cl, what, arg))
        /\ r.reply = c.reply /\ r.down = c.down /\ r.feed = c.feed
    BY <2>1 DEF ConnOwn
  <2>4. QED
    BY <2>1, <2>2, <2>3 DEF ConnOwn
<1>3. Written(cs, cl, what, arg) = [cs EXCEPT ![cl.socket] = r]
  BY DEF Written
<1> HIDE DEF r
<1>4. PICK n : n = cl.socket
  OBVIOUS
<1>5. ConnsOwn([cs EXCEPT ![n] = r]) /\ Len([cs EXCEPT ![n] = r]) = Len(cs)
  BY <1>2, <1>4, Replaced
<1>6. QED
  BY <1>3, <1>4, <1>5

\* A request that is over.
LEMMA WithoutKeeps ==
  ASSUME NEW cl, PendingOwn(cl), NEW ids
  PROVE  /\ PendingOwn(Without(cl, ids))
         /\ Without(cl, ids).state = cl.state /\ Without(cl, ids).way = cl.way
         /\ Without(cl, ids).socket = cl.socket
BY DEF Without, PendingOwn

LEMMA DisconnectedKeeps ==
  ASSUME PendingOwn(client)
  PROVE  /\ PendingOwn(Disconnected(client))
         /\ Disconnected(client).state = "disconnected" /\ Disconnected(client).socket = None
BY WithoutKeeps DEF Disconnected, PendingOwn

------------------------------------------------------------------------------
(* The client *)

\* What the socket held first is heard.
LEMMA HeardKeeps ==
  ASSUME LinkInv, client.socket # None, conns[client.socket].down # <<>>
  PROVE  /\ ConnsOwn(Heard(conns)) /\ Len(Heard(conns)) = Len(conns)
         /\ LET line == Head(conns[client.socket].down)
            IN  line.kind = "response" => Own(line)
<1> DEFINE c == conns[client.socket]
           r == [c EXCEPT !.down = Tail(@)]
<1>1. PICK n \in 1 .. Len(conns) : n = client.socket
  BY DEF LinkInv, SocketIsOpen
<1>2. ConnOwn(c) /\ ConnsOwn(conns)
  BY <1>1 DEF LinkInv, ConnsOwn
<1>3. DownOwn(Tail(c.down)) /\ (Head(c.down).kind = "response" => Own(Head(c.down)))
  BY <1>2, Dequeued DEF ConnOwn
<1>4. ConnOwn(r)
  <2>1. /\ DOMAIN r = DOMAIN c /\ r.up = c.up /\ r.reply = c.reply
        /\ r.down = Tail(c.down) /\ r.feed = c.feed
    BY <1>2 DEF ConnOwn
  <2>2. QED
    BY <1>2, <1>3, <2>1 DEF ConnOwn
<1>5. Heard(conns) = [conns EXCEPT ![n] = r]
  BY <1>1 DEF Heard
<1> HIDE DEF r
<1>6. ConnsOwn([conns EXCEPT ![n] = r]) /\ Len([conns EXCEPT ![n] = r]) = Len(conns)
  BY <1>2, <1>4, Replaced
<1>7. QED
  BY <1>3, <1>5, <1>6

\* A request of the user's, or of the inbox or the summary, that is sent.
LEMMA SendsKeep ==
  ASSUME LinkInv, NEW cs, ConnsOwn(cs), Len(cs) = Len(conns), NEW what, NEW arg,
         client.socket # None,
         client' = Sending(client, what, arg), conns' = Written(cs, client, what, arg)
  PROVE  LinkInv'
<1>1. PendingOwn(client')
  BY SendingKeeps DEF LinkInv
<1>2. ConnsOwn(conns') /\ Len(conns') = Len(conns)
  BY WrittenKeeps
<1>3. client'.socket = client.socket /\ client'.state = client.state /\ client'.way = client.way
  BY SendingKeeps DEF LinkInv
<1>4. SocketIsOpen'
  BY <1>2, <1>3 DEF LinkInv, SocketIsOpen
<1>5. QED
  BY <1>1, <1>2, <1>4 DEF LinkInv

LEMMA DialKeeps ==
  ASSUME LinkInv, Dial PROVE LinkInv'
<1> DEFINE open == [client EXCEPT !.state = "connected", !.way = "none",
                                  !.socket = Len(conns) + 1]
           listed == Sending(open, "list", None)
           cs == Append(conns, NewConn)
           asked == Written(cs, open, "list", None)
<1>1. /\ PendingOwn(open) /\ open.state = "connected" /\ open.way = "none"
      /\ open.socket = Len(conns) + 1
  BY DEF LinkInv, PendingOwn
<1>2. ConnsOwn(cs) /\ Len(cs) = Len(conns) + 1 /\ Len(conns) \in Nat
  <2>1. /\ Sequential(cs) /\ Len(cs) = Len(conns) + 1 /\ Len(conns) \in Nat
        /\ \A k \in 1 .. Len(conns) : cs[k] = conns[k]
        /\ cs[Len(conns) + 1] = NewConn
    BY AppendFacts DEF LinkInv, ConnsOwn
  <2>2. ASSUME NEW k \in 1 .. Len(cs) PROVE ConnOwn(cs[k])
    <3>1. k \in 1 .. Len(conns) \/ k = Len(conns) + 1
      BY <2>1, <2>2
    <3>2. QED
      BY <2>1, <3>1, NewConnOwn DEF LinkInv, ConnsOwn
  <2>3. QED
    BY <2>1, <2>2 DEF ConnsOwn
<1>3. client' = Sending(listed, "health", None) /\ conns' = Written(asked, listed, "health", None)
  BY DEF Dial
<1> HIDE DEF open, cs
<1>4. /\ PendingOwn(listed) /\ listed.state = "connected" /\ listed.way = "none"
      /\ listed.socket = Len(conns) + 1
  BY <1>1, SendingKeeps
<1>5. ConnsOwn(asked) /\ Len(asked) = Len(conns) + 1
  BY <1>2, WrittenKeeps
<1> HIDE DEF listed, asked
<1>6. /\ PendingOwn(client') /\ client'.state = "connected" /\ client'.way = "none"
      /\ client'.socket = Len(conns) + 1
  BY <1>3, <1>4, SendingKeeps
<1>7. ConnsOwn(conns') /\ Len(conns') = Len(conns) + 1
  BY <1>3, <1>5, WrittenKeeps
<1>8. QED
  BY <1>2, <1>6, <1>7 DEF LinkInv, SocketIsOpen

LEMMA LostKeeps ==
  ASSUME LinkInv, TimerFires \/ DialFails \/ ConnectionLost PROVE LinkInv'
<1>1. CASE TimerFires
  <2>1. PendingOwn(client') /\ client'.state = "connecting" /\ client'.socket = None
    BY <1>1 DEF TimerFires, LinkInv, PendingOwn, SocketIsOpen
  <2>2. QED
    BY <1>1, <2>1 DEF TimerFires, LinkInv, SocketIsOpen
<1>2. CASE DialFails
  BY <1>2, DisconnectedKeeps DEF DialFails, LinkInv, SocketIsOpen
<1>3. CASE ConnectionLost
  <2>1. ConnsOwn([conns EXCEPT ![client.socket] = Closed])
    BY Replaced, NewConnOwn DEF LinkInv
  <2>2. QED
    BY <1>3, <2>1, DisconnectedKeeps DEF ConnectionLost, LinkInv, SocketIsOpen
<1>4. QED
  BY <1>1, <1>2, <1>3

\* An answer is to the request of its serial number.
LEMMA ResponseKeeps ==
  ASSUME LinkInv, HearResponse PROVE LinkInv'
<1> DEFINE line == Head(conns[client.socket].down)
           req == client.pending[line.id]
           over == [Without(client, {line.id}) EXCEPT !.crossed = @ \/ line.serial # req.serial]
<1>1. ConnsOwn(conns') /\ Len(conns') = Len(conns) /\ Own(line)
  BY HeardKeeps DEF HearResponse
<1>2. CASE UNCHANGED client
  BY <1>1, <1>2 DEF LinkInv, SocketIsOpen
<1>3. CASE line.id \in DOMAIN client.pending
  <2>1. line.serial = req.serial
    BY <1>1, <1>3 DEF Own, LinkInv, PendingOwn
  <2>2. /\ PendingOwn(Without(client, {line.id}))
        /\ Without(client, {line.id}).socket = client.socket
        /\ Without(client, {line.id}).state = client.state
        /\ Without(client, {line.id}).way = client.way
    BY WithoutKeeps DEF LinkInv
  <2>3. /\ PendingOwn(over) /\ over.socket = client.socket
        /\ over.state = client.state /\ over.way = client.way
    BY <2>1, <2>2 DEF PendingOwn
  <2>4. client' = over \/ client' = Refused(over)
    BY <1>3 DEF HearResponse
  <2> HIDE DEF over
  <2>5. CASE client' = over
    BY <1>1, <2>3, <2>5 DEF LinkInv, SocketIsOpen
  <2>6. CASE client' = Refused(over)
    <3>1. /\ PendingOwn(client') /\ client'.socket = None
          /\ client'.state = "incompatible" /\ client'.way = client.way
      BY <2>3, <2>6 DEF Refused, PendingOwn
    <3>2. client.way = "none"
      BY DEF HearResponse, LinkInv, SocketIsOpen
    <3>3. QED
      BY <1>1, <3>1, <3>2 DEF LinkInv, SocketIsOpen
  <2>7. QED
    BY <2>4, <2>5, <2>6
<1>4. QED
  BY <1>2, <1>3 DEF HearResponse

LEMMA EventKeeps ==
  ASSUME LinkInv, HearEvent PROVE LinkInv'
<1>1. ConnsOwn(Heard(conns)) /\ Len(Heard(conns)) = Len(conns) /\ client.socket # None
  BY HeardKeeps DEF HearEvent
<1>2. CASE /\ client' = Sending(client, "list", None)
           /\ conns' = Written(Heard(conns), client, "list", None)
  BY <1>1, <1>2, SendsKeep
<1>3. CASE conns' = Heard(conns) /\ UNCHANGED client
  BY <1>1, <1>3 DEF LinkInv, SocketIsOpen
<1>4. QED
  BY <1>2, <1>3 DEF HearEvent

LEMMA RequestKeeps ==
  ASSUME LinkInv, RequestTimesOut \/ ResultTimesOut \/ ResultKnown \/ Summarise \/ Retry
  PROVE  LinkInv'
<1>1. CASE RequestTimesOut
  <2>1. PICK i \in DOMAIN client.pending : client' = Without(client, {i})
    BY <1>1 DEF RequestTimesOut
  <2>2. QED
    BY <1>1, <2>1, WithoutKeeps DEF RequestTimesOut, LinkInv, SocketIsOpen
<1>2. CASE UNCHANGED <<client, conns>>
  BY <1>2 DEF LinkInv, SocketIsOpen
<1>3. ASSUME NEW what, NEW arg, Connected, client' = Sending(client, what, arg),
             conns' = Written(conns, client, what, arg)
      PROVE  LinkInv'
  BY <1>3, SendsKeep DEF Connected, LinkInv
<1>4. QED
  BY <1>1, <1>2, <1>3 DEF ResultTimesOut, ResultKnown, Summarise, Retry, TaskSends

------------------------------------------------------------------------------
(* The engine *)

LEMMA DispatchKeeps ==
  ASSUME LinkInv, NEW n \in DOMAIN conns, Dispatch(n) \/ Respond(n) \/ Forward(n)
  PROVE  LinkInv'
<1> DEFINE c == conns[n]
<1>1. ConnsOwn(conns) /\ ConnOwn(c) /\ UNCHANGED client
  <2>1. n \in 1 .. Len(conns)
    BY LenProperties DEF LinkInv, ConnsOwn, Sequential
  <2>2. QED
    BY <2>1 DEF LinkInv, ConnsOwn, Dispatch, Respond, Forward
<1>2. ASSUME NEW r, conns' = [conns EXCEPT ![n] = r], ConnOwn(r) PROVE LinkInv'
  <2>1. ConnsOwn(conns') /\ Len(conns') = Len(conns)
    BY <1>1, <1>2, Replaced
  <2>2. QED
    BY <1>1, <2>1 DEF LinkInv, SocketIsOpen
<1>3. CASE Dispatch(n)
  <2> DEFINE req == Head(c.up)
             body == IF engine.same THEN Body(req) ELSE [kind |-> "mismatch"]
             reply == [kind |-> "response", id |-> req.id, serial |-> req.serial, body |-> body]
             r == [c EXCEPT !.up = Tail(@), !.reply = reply]
  <2>1. UpOwn(Tail(c.up)) /\ Own(req)
    BY <1>1, <1>3, Dequeued DEF Dispatch, ConnOwn
  <2>2. Own(reply) /\ reply.kind = "response"
    BY <2>1 DEF Own
  <2>3. conns' = [conns EXCEPT ![n] = r]
    BY <1>3 DEF Dispatch
  <2> HIDE DEF reply
  <2>4. /\ DOMAIN r = DOMAIN c /\ r.up = Tail(c.up) /\ r.reply = reply
        /\ r.down = c.down /\ r.feed = c.feed
    BY <1>1 DEF ConnOwn
  <2>5. ConnOwn(r)
    BY <1>1, <2>1, <2>2, <2>4 DEF ConnOwn
  <2>6. QED
    BY <1>2, <2>3, <2>5
<1>4. CASE Respond(n)
  <2> DEFINE r == [c EXCEPT !.down = Append(@, c.reply), !.reply = NoReply]
  <2>1. DownOwn(Append(c.down, c.reply))
    BY <1>1, <1>4, Queued DEF Respond, ConnOwn
  <2>2. conns' = [conns EXCEPT ![n] = r]
    BY <1>4 DEF Respond
  <2>3. /\ DOMAIN r = DOMAIN c /\ r.up = c.up /\ r.reply = NoReply
        /\ r.down = Append(c.down, c.reply) /\ r.feed = c.feed
    BY <1>1 DEF ConnOwn
  <2>4. ConnOwn(r)
    BY <1>1, <2>1, <2>3 DEF ConnOwn
  <2>5. QED
    BY <1>2, <2>2, <2>4
<1>5. CASE Forward(n)
  <2> DEFINE r == [c EXCEPT !.down = Append(@, Head(c.feed)), !.feed = Tail(@)]
  <2>1. FeedOwn(Tail(c.feed)) /\ Head(c.feed).kind = "event"
    BY <1>1, <1>5, Dequeued DEF Forward, ConnOwn
  <2>2. DownOwn(Append(c.down, Head(c.feed)))
    BY <1>1, <2>1, Queued DEF ConnOwn
  <2>3. conns' = [conns EXCEPT ![n] = r]
    BY <1>5 DEF Forward
  <2>4. /\ DOMAIN r = DOMAIN c /\ r.up = c.up /\ r.reply = c.reply
        /\ r.down = Append(c.down, Head(c.feed)) /\ r.feed = Tail(c.feed)
    BY <1>1 DEF ConnOwn
  <2>5. ConnOwn(r)
    BY <1>1, <2>1, <2>2, <2>4 DEF ConnOwn
  <2>6. QED
    BY <1>2, <2>3, <2>5
<1>6. QED
  BY <1>3, <1>4, <1>5

\* Changing all connections at once.
LEMMA Mapped ==
  ASSUME LinkInv, UNCHANGED client,
         conns' = [c \in DOMAIN conns |-> conns'[c]],
         \A c \in DOMAIN conns : ConnOwn(conns[c]) => ConnOwn(conns'[c])
  PROVE  LinkInv'
<1>1. DOMAIN conns = 1 .. Len(conns) /\ Len(conns) \in Nat
  BY LenProperties DEF LinkInv, ConnsOwn, Sequential
<1> DEFINE S == {conns'[c] : c \in DOMAIN conns}
<1>2. conns' \in [1 .. Len(conns) -> S]
  BY <1>1
<1>3. conns' \in Seq(S)
  BY <1>1, <1>2, SeqDef
<1>4. Sequential(conns')
  BY <1>3, SeqSequential
<1>5. Len(conns') = Len(conns)
  BY <1>1, <1>2, <1>3
<1>6. ConnsOwn(conns')
  BY <1>1, <1>4, <1>5 DEF ConnsOwn, LinkInv
<1>7. QED
  BY <1>5, <1>6 DEF LinkInv, SocketIsOpen

LEMMA EmitKeeps ==
  ASSUME LinkInv, UNCHANGED client, NEW type, NEW j, NEW meeting, Emit(type, j, meeting)
  PROVE  LinkInv'
<1> DEFINE ev == [kind |-> "event", type |-> type, job |-> j, meeting |-> meeting]
           Fed(c) == IF ~conns[c].alive THEN conns[c]
                     ELSE IF Len(conns[c].feed) < Capacity
                          THEN [conns[c] EXCEPT !.feed = Append(@, ev)]
                          ELSE [conns[c] EXCEPT !.feed = Append(Tail(@), ev), !.lagged = TRUE]
<1>1. conns' = [c \in DOMAIN conns |-> Fed(c)]
  BY DEF Emit
<1>2. ASSUME NEW c \in DOMAIN conns, ConnOwn(conns[c]) PROVE ConnOwn(Fed(c))
  <2>1. FeedOwn(Append(conns[c].feed, ev))
    BY <1>2, Queued DEF ConnOwn
  <2>2. CASE Len(conns[c].feed) < Capacity \/ ~conns[c].alive
    BY <1>2, <2>1, <2>2 DEF ConnOwn
  <2>3. CASE ~(Len(conns[c].feed) < Capacity) /\ conns[c].alive
    <3>1. conns[c].feed # <<>>
      BY <2>3, CapacityAssumption
    <3>2. FeedOwn(Append(Tail(conns[c].feed), ev))
      BY <1>2, <3>1, Dequeued, Queued DEF ConnOwn
    <3>3. QED
      BY <1>2, <2>3, <3>2 DEF ConnOwn
  <2>4. QED
    BY <2>2, <2>3
<1> HIDE DEF Fed
<1>3. /\ conns' = [c \in DOMAIN conns |-> conns'[c]]
      /\ \A c \in DOMAIN conns : conns'[c] = Fed(c)
  BY <1>1
<1>4. QED
  BY <1>2, <1>3, Mapped

LEMMA EngineKeeps ==
  ASSUME LinkInv, \/ \E j \in DOMAIN jobs : JobStarts(j) \/ JobFailsEarly(j)
                                               \/ JobSettles(j) \/ JobReports(j)
                  \/ Crash \/ EngineStarts
  PROVE  LinkInv'
<1>1. CASE UNCHANGED <<client, conns>>
  BY <1>1 DEF LinkInv, SocketIsOpen
<1>2. CASE UNCHANGED client /\ \E type, j, meeting : Emit(type, j, meeting)
  BY <1>2, EmitKeeps
<1>3. CASE Crash
  <2> DEFINE Dead(c) == [conns[c] EXCEPT !.alive = FALSE, !.up = <<>>, !.reply = NoReply,
                                         !.feed = <<>>]
  <2>1. conns' = [c \in DOMAIN conns |-> Dead(c)] /\ UNCHANGED client
    BY <1>3 DEF Crash
  <2>2. UpOwn(<<>>) /\ FeedOwn(<<>>)
    BY EmptySequential DEF UpOwn, FeedOwn
  <2>3. ASSUME NEW c \in DOMAIN conns, ConnOwn(conns[c]) PROVE ConnOwn(Dead(c))
    BY <2>2, <2>3 DEF ConnOwn
  <2> HIDE DEF Dead
  <2>4. /\ conns' = [c \in DOMAIN conns |-> conns'[c]]
        /\ \A c \in DOMAIN conns : conns'[c] = Dead(c)
    BY <2>1
  <2>5. QED
    BY <2>1, <2>3, <2>4, Mapped
<1>4. QED
  BY <1>1, <1>2, <1>3 DEF JobStarts, JobFailsEarly, JobSettles, JobReports, EngineStarts

LEMMA LinkStep == LinkInv /\ [Next]_vars => LinkInv'
<1>1. CASE LinkInv /\ UNCHANGED vars
  BY <1>1 DEF LinkInv, SocketIsOpen, vars
<1>2. QED
  BY <1>1, DialKeeps, LostKeeps, ResponseKeeps, EventKeeps, RequestKeeps, DispatchKeeps,
     EngineKeeps DEF Next, Connecting, Hearing, Timeouts, EngineStep

------------------------------------------------------------------------------
(* Events, jobs and the summary *)

Elems(s) == {s[k] : k \in 1 .. Len(s)}

\* The lines that are on the way to the client.
Lines(c) == Elems(c.down) \cup Elems(c.feed)

\* An event of success names the meeting of its job.
EventOwn(l) ==
  l.kind = "event" /\ l.type = "completed" /\ l.meeting # None =>
    l.job \in DOMAIN jobs /\ jobs[l.job].meeting = l.meeting

EventsOwn == \A c \in 1 .. Len(conns) : \A l \in Lines(conns[c]) : EventOwn(l)

\* A job keeps the meeting it took up.
JobsOwn ==
  /\ Sequential(jobs)
  /\ \A j \in 1 .. Len(jobs) :
       /\ DOMAIN jobs[j] = {"target", "meeting", "at", "ok", "serial"}
       /\ jobs[j].meeting # None => jobs[j].target = jobs[j].meeting

\* The minutes a summary knows of are those of its job.
SummaryOwn ==
  /\ DOMAIN summary = {"at", "serial", "meeting", "result", "foreign"}
  /\ summary.at \in {"mom", "done"} => summary.result \notin {None, Failure}
  /\ summary.result \notin {None, Failure} /\ ~summary.foreign =>
       \E j \in DOMAIN jobs : /\ jobs[j].serial = summary.serial
                              /\ summary.result = jobs[j].meeting

\* What a summary awaits of the engine is the one request that is its own.
SummaryAwaits ==
  \A i \in DOMAIN client.pending :
    client.pending[i].what \in {"submit", "mom"} =>
      /\ summary.at = client.pending[i].what
      /\ \A k \in DOMAIN client.pending :
           client.pending[k].what \in {"submit", "mom"} => k = i

SummaryInv == LinkInv /\ EventsOwn /\ JobsOwn /\ SummaryOwn /\ SummaryAwaits

LEMMA SummaryInit == Init => SummaryInv
<1>1. Init => SummaryOwn
  BY DEF Init, SummaryOwn, Ended
<1>2. QED
  BY <1>1, LinkInit, EmptySequential DEF Init, SummaryInv, EventsOwn, JobsOwn, SummaryAwaits

LEMMA ElemFacts ==
  ASSUME NEW s, Sequential(s), NEW e
  PROVE  /\ Elems(Append(s, e)) \subseteq Elems(s) \cup {e}
         /\ s # <<>> => Elems(Tail(s)) \subseteq Elems(s) /\ Head(s) \in Elems(s)
<1>1. ASSUME NEW k \in 1 .. Len(Append(s, e)) PROVE Append(s, e)[k] \in Elems(s) \cup {e}
  BY <1>1, AppendFacts DEF Elems
<1>2. ASSUME s # <<>>, NEW k \in 1 .. Len(Tail(s)) PROVE Tail(s)[k] \in Elems(s)
  BY <1>2, TailFacts DEF Elems
<1>3. s # <<>> => Head(s) \in Elems(s)
  BY TailFacts DEF Elems
<1>4. QED
  BY <1>1, <1>2, <1>3 DEF Elems

\* No step changes what is said of a job, but that a job takes up a meeting.
LEMMA JobsGrow ==
  ASSUME JobsOwn, Next
  PROVE  /\ JobsOwn'
         /\ \A j \in DOMAIN jobs : /\ j \in DOMAIN jobs'
                                   /\ jobs'[j].serial = jobs[j].serial
                                   /\ jobs[j].meeting # None => jobs'[j].meeting = jobs[j].meeting
<1> DEFINE Grown == /\ JobsOwn'
                    /\ \A j \in DOMAIN jobs :
                         /\ j \in DOMAIN jobs'
                         /\ jobs'[j].serial = jobs[j].serial
                         /\ jobs[j].meeting # None => jobs'[j].meeting = jobs[j].meeting
<1>0. DOMAIN jobs = 1 .. Len(jobs) /\ Len(jobs) \in Nat
  BY LenProperties DEF JobsOwn, Sequential
<1>1. CASE UNCHANGED jobs
  BY <1>1 DEF JobsOwn
<1>2. ASSUME NEW c \in DOMAIN conns, Dispatch(c), ~UNCHANGED jobs PROVE Grown
  <2>1. PICK new \in {NewJob(None, Head(conns[c].up).serial),
                      NewJob(Head(conns[c].up).arg, Head(conns[c].up).serial)} :
               jobs' = jobs \o <<new>> \/ jobs' = jobs \o <<>>
    BY <1>2 DEF Dispatch, Starts
  <2>2. /\ DOMAIN new = {"target", "meeting", "at", "ok", "serial"}
        /\ new.meeting = None
    BY DEF NewJob
  <2> DEFINE S == {jobs[k] : k \in DOMAIN jobs} \cup {new}
  <2>3. jobs \in Seq(S) /\ <<new>> \in Seq(S) /\ Len(<<new>>) = 1 /\ <<new>>[1] = new
    BY DEF JobsOwn, Sequential
  <2>4. jobs \o <<>> = jobs
    BY <2>3, ConcatEmptySeq
  <2>5. jobs' = jobs \o <<new>>
    BY <1>2, <2>1, <2>4
  <2> HIDE DEF S
  <2>6. /\ jobs' \in Seq(S) /\ Len(jobs') = Len(jobs) + 1
        /\ \A k \in 1 .. Len(jobs) + 1 :
             jobs'[k] = IF k <= Len(jobs) THEN jobs[k] ELSE <<new>>[k - Len(jobs)]
    BY <2>3, <2>5, ConcatProperties
  <2>7. /\ \A k \in 1 .. Len(jobs) : jobs'[k] = jobs[k]
        /\ jobs'[Len(jobs) + 1] = new
    BY <1>0, <2>3, <2>6
  <2>8. Sequential(jobs') /\ DOMAIN jobs' = 1 .. Len(jobs) + 1
    BY <1>0, <2>6, SeqSequential, LenProperties
  <2>9. QED
    BY <1>0, <2>2, <2>6, <2>7, <2>8 DEF JobsOwn
<1>3. ASSUME jobs' = [j \in DOMAIN jobs |-> jobs'[j]],
             \A j \in DOMAIN jobs :
               /\ DOMAIN jobs'[j] = DOMAIN jobs[j]
               /\ jobs'[j].serial = jobs[j].serial
               /\ jobs[j].meeting # None => jobs'[j].meeting = jobs[j].meeting
               /\ jobs'[j].meeting # None => jobs'[j].target = jobs'[j].meeting
      PROVE  Grown
  <2> DEFINE S == {jobs'[j] : j \in DOMAIN jobs}
  <2>1. jobs' \in [1 .. Len(jobs) -> S]
    BY <1>0, <1>3
  <2>2. jobs' \in Seq(S)
    BY <1>0, <2>1, SeqDef
  <2>3. Sequential(jobs')
    BY <2>2, SeqSequential
  <2>4. Len(jobs') = Len(jobs) /\ DOMAIN jobs' = DOMAIN jobs
    BY <1>0, <2>1, <2>2
  <2>5. QED
    BY <1>0, <1>3, <2>3, <2>4 DEF JobsOwn
<1>4. ASSUME NEW j \in DOMAIN jobs, JobStarts(j) PROVE Grown
  <2> DEFINE m == IF jobs[j].target = None THEN Len(status) + 1 ELSE jobs[j].target
             r == [jobs[j] EXCEPT !.at = "running", !.target = m, !.meeting = m]
  <2>1. jobs' = [jobs EXCEPT ![j] = r]
    BY <1>4 DEF JobStarts
  <2>2. /\ DOMAIN r = DOMAIN jobs[j] /\ r.serial = jobs[j].serial
        /\ r.meeting = m /\ r.target = m
        /\ jobs[j].meeting # None => jobs[j].meeting = m
    BY <1>0 DEF JobsOwn
  <2> HIDE DEF r, m
  <2>3. /\ jobs' = [k \in DOMAIN jobs |-> jobs'[k]]
        /\ \A k \in DOMAIN jobs : jobs'[k] = IF k = j THEN r ELSE jobs[k]
    BY <2>1
  <2>4. QED
    BY <1>0, <1>3, <2>2, <2>3 DEF JobsOwn
<1>5. ASSUME NEW j \in DOMAIN jobs, JobFailsEarly(j) \/ JobSettles(j) \/ JobReports(j)
      PROVE  Grown
  <2>1. PICK at, ok : \/ jobs' = [jobs EXCEPT ![j].at = at, ![j].ok = ok]
                      \/ jobs' = [jobs EXCEPT ![j].at = at]
    BY <1>5 DEF JobFailsEarly, JobSettles, JobReports
  <2>2. /\ jobs' = [k \in DOMAIN jobs |-> jobs'[k]]
        /\ \A k \in DOMAIN jobs :
             /\ DOMAIN jobs'[k] = DOMAIN jobs[k] /\ jobs'[k].serial = jobs[k].serial
             /\ jobs'[k].meeting = jobs[k].meeting /\ jobs'[k].target = jobs[k].target
    BY <1>0, <2>1 DEF JobsOwn
  <2>3. QED
    BY <1>0, <1>3, <2>2 DEF JobsOwn
<1>6. CASE EngineStarts
  <2>1. /\ jobs' = [k \in DOMAIN jobs |-> jobs'[k]]
        /\ \A k \in DOMAIN jobs :
             /\ DOMAIN jobs'[k] = DOMAIN jobs[k] /\ jobs'[k].serial = jobs[k].serial
             /\ jobs'[k].meeting = jobs[k].meeting /\ jobs'[k].target = jobs[k].target
    BY <1>0, <1>6 DEF EngineStarts, JobsOwn
  <2>2. QED
    BY <1>0, <1>3, <2>1 DEF JobsOwn
<1>7. QED
  BY <1>1, <1>2, <1>4, <1>5, <1>6 DEF Next, Connecting, TimerFires, Dial, DialFails,
     ConnectionLost, Hearing, HearResponse, HearEvent, Timeouts, RequestTimesOut,
     ResultTimesOut, ResultKnown, EngineStep, Respond, Forward, Summarise, Retry, Crash

\* A line that was not on its way before: no event of success, or one of a job that
\* has its meeting.
Fresh(l) ==
  \/ l.kind = "response"
  \/ l.type # "completed"
  \/ l.job \in DOMAIN jobs /\ jobs[l.job].meeting = l.meeting

\* The lines of cs are lines of the connections there are, or fresh.
OnlyFresh(cs) ==
  \A c \in 1 .. Len(cs) : \A l \in Lines(cs[c]) :
    Fresh(l) \/ \E d \in 1 .. Len(conns) : l \in Lines(conns[d])

LEMMA ConnsDomain ==
  ASSUME NEW cs, ConnsOwn(cs)
  PROVE  DOMAIN cs = 1 .. Len(cs) /\ Len(cs) \in Nat
BY LenProperties DEF ConnsOwn, Sequential

LEMMA WrittenSilent ==
  ASSUME NEW cs, ConnsOwn(cs), OnlyFresh(cs), NEW cl, NEW what, NEW arg
  PROVE  OnlyFresh(Written(cs, cl, what, arg))
<1> DEFINE new == Written(cs, cl, what, arg)
<1>1. DOMAIN cs = 1 .. Len(cs) /\ Len(new) = Len(cs)
  BY ConnsDomain, WrittenKeeps
<1>2. \A c \in 1 .. Len(cs) : new[c].down = cs[c].down /\ new[c].feed = cs[c].feed
  BY <1>1 DEF Written, ConnsOwn, ConnOwn
<1>3. QED
  BY <1>1, <1>2 DEF OnlyFresh, Lines

\* One connection is replaced, and whatever it is to say is fresh or known.
LEMMA ReplacedSays ==
  ASSUME ConnsOwn(conns), NEW n, NEW r, n \in 1 .. Len(conns) => ConnOwn(r),
         n \in 1 .. Len(conns) => \A l \in Lines(r) : Fresh(l) \/ l \in Lines(conns[n])
  PROVE  OnlyFresh([conns EXCEPT ![n] = r])
<1> DEFINE new == [conns EXCEPT ![n] = r]
<1>1. DOMAIN conns = 1 .. Len(conns) /\ Len(new) = Len(conns)
  BY ConnsDomain, Replaced
<1>2. \A c \in 1 .. Len(conns) : new[c] = IF c = n THEN r ELSE conns[c]
  BY <1>1
<1> HIDE DEF new
<1>3. QED
  BY <1>1, <1>2 DEF OnlyFresh

LEMMA SilentNow == OnlyFresh(conns)
BY DEF OnlyFresh

LEMMA HeardSays ==
  ASSUME LinkInv, client.socket # None, conns[client.socket].down # <<>>
  PROVE  /\ OnlyFresh(Heard(conns))
         /\ \E d \in 1 .. Len(conns) : Head(conns[client.socket].down) \in Lines(conns[d])
<1> DEFINE c == conns[client.socket]
           r == [c EXCEPT !.down = Tail(@)]
<1>1. PICK n \in 1 .. Len(conns) : n = client.socket
  BY DEF LinkInv, SocketIsOpen
<1>2. ConnOwn(c) /\ ConnsOwn(conns)
  BY <1>1 DEF LinkInv, ConnsOwn
<1>3. Elems(Tail(c.down)) \subseteq Elems(c.down) /\ Head(c.down) \in Elems(c.down)
  BY <1>2, ElemFacts DEF ConnOwn, DownOwn
<1>4. /\ DOMAIN r = DOMAIN c /\ r.up = c.up /\ r.reply = c.reply
      /\ r.down = Tail(c.down) /\ r.feed = c.feed
  BY <1>2 DEF ConnOwn
<1>5. DownOwn(Tail(c.down))
  BY <1>2, Dequeued DEF ConnOwn
<1>6. Heard(conns) = [conns EXCEPT ![n] = r]
  BY <1>1 DEF Heard
<1> HIDE DEF r
<1>7. ConnOwn(r)
  BY <1>2, <1>4, <1>5 DEF ConnOwn
<1>8. \A l \in Lines(r) : l \in Lines(conns[n])
  BY <1>1, <1>3, <1>4 DEF Lines
<1>9. OnlyFresh([conns EXCEPT ![n] = r])
  BY <1>2, <1>7, <1>8, ReplacedSays
<1>10. QED
  BY <1>1, <1>3, <1>6, <1>9 DEF Lines

\* What a step puts on the way to the client.
LEMMA ClientSays ==
  ASSUME LinkInv, Connecting \/ Hearing \/ Timeouts \/ ResultKnown \/ Summarise \/ Retry
  PROVE  OnlyFresh(conns')
<1>0. ConnsOwn(conns)
  BY DEF LinkInv
<1>1. CASE UNCHANGED conns
  BY <1>1, SilentNow DEF OnlyFresh
<1>2. ASSUME NEW what, NEW arg, conns' = Written(conns, client, what, arg)
      PROVE  OnlyFresh(conns')
  BY <1>0, <1>2, SilentNow, WrittenSilent
<1>3. CASE Dial
  <2> DEFINE open == [client EXCEPT !.state = "connected", !.way = "none",
                                    !.socket = Len(conns) + 1]
             listed == Sending(open, "list", None)
             cs == Append(conns, NewConn)
             asked == Written(cs, open, "list", None)
  <2>1. /\ Sequential(cs) /\ Len(cs) = Len(conns) + 1 /\ Len(conns) \in Nat
        /\ \A k \in 1 .. Len(conns) : cs[k] = conns[k]
        /\ cs[Len(conns) + 1] = NewConn
    BY <1>0, AppendFacts DEF ConnsOwn
  <2>2. Lines(NewConn) = {}
    BY DEF NewConn, Lines, Elems
  <2>3. ASSUME NEW k \in 1 .. Len(cs)
        PROVE  cs[k] = NewConn \/ (k \in 1 .. Len(conns) /\ cs[k] = conns[k])
    BY <2>1
  <2>4. ConnsOwn(cs) /\ OnlyFresh(cs)
    BY <1>0, <2>1, <2>2, <2>3, NewConnOwn DEF ConnsOwn, OnlyFresh
  <2>5. conns' = Written(asked, listed, "health", None)
    BY <1>3 DEF Dial
  <2> HIDE DEF open, cs
  <2>6. ConnsOwn(asked) /\ OnlyFresh(asked)
    BY <2>4, WrittenKeeps, WrittenSilent
  <2> HIDE DEF asked, listed
  <2>7. QED
    BY <2>5, <2>6, WrittenSilent
<1>4. CASE ConnectionLost
  <2>1. Lines(Closed) = {}
    BY DEF NewConn, Closed, Lines, Elems
  <2>2. OnlyFresh([conns EXCEPT ![client.socket] = Closed])
    BY <1>0, <2>1, ReplacedSays, NewConnOwn
  <2>3. QED
    BY <1>4, <2>2 DEF ConnectionLost
<1>5. CASE HearResponse
  BY <1>5, HeardSays DEF HearResponse
<1>6. CASE HearEvent
  <2>1. OnlyFresh(Heard(conns)) /\ ConnsOwn(Heard(conns))
    BY <1>6, HeardSays, HeardKeeps DEF HearEvent
  <2>2. QED
    BY <1>6, <2>1, WrittenSilent DEF HearEvent
<1>7. QED
  BY <1>1, <1>2, <1>3, <1>4, <1>5, <1>6 DEF Connecting, TimerFires, DialFails, Hearing,
     Timeouts, RequestTimesOut, ResultTimesOut, ResultKnown, Summarise, Retry, TaskSends

LEMMA EngineSays ==
  ASSUME LinkInv, EngineStep \/ Crash \/ EngineStarts
  PROVE  OnlyFresh(conns')
<1>0. ConnsOwn(conns) /\ DOMAIN conns = 1 .. Len(conns) /\ Len(conns) \in Nat
  BY ConnsDomain DEF LinkInv
<1>1. CASE UNCHANGED conns
  BY <1>1, SilentNow DEF OnlyFresh
<1>2. ASSUME NEW n \in DOMAIN conns, Dispatch(n) \/ Respond(n) \/ Forward(n)
      PROVE  OnlyFresh(conns')
  <2>1. /\ ConnsOwn(conns') /\ ConnOwn(conns[n])
    BY <1>0, <1>2, DispatchKeeps DEF LinkInv, ConnsOwn
  <2>2. /\ \A c \in DOMAIN conns : c # n => conns'[c] = conns[c]
        /\ DOMAIN conns' = DOMAIN conns
    BY <1>2 DEF Dispatch, Respond, Forward
  <2>3. Len(conns') = Len(conns)
    BY <1>0, <2>1, <2>2, ConnsDomain
  <2>4. \A l \in Lines(conns'[n]) : Fresh(l) \/ l \in Lines(conns[n])
    <3>1. CASE Dispatch(n)
      <4>1. conns'[n].down = conns[n].down /\ conns'[n].feed = conns[n].feed
        BY <2>1, <3>1 DEF Dispatch, ConnOwn
      <4>2. QED
        BY <4>1 DEF Lines
    <3>2. CASE Respond(n)
      <4>1. /\ conns'[n].down = Append(conns[n].down, conns[n].reply)
            /\ conns'[n].feed = conns[n].feed
        BY <2>1, <3>2 DEF Respond, ConnOwn
      <4>2. Fresh(conns[n].reply)
        BY <2>1, <3>2 DEF Respond, ConnOwn, Fresh
      <4>3. QED
        BY <2>1, <4>1, <4>2, ElemFacts DEF Lines, ConnOwn, DownOwn
    <3>3. CASE Forward(n)
      <4>1. /\ conns'[n].down = Append(conns[n].down, Head(conns[n].feed))
            /\ conns'[n].feed = Tail(conns[n].feed) /\ conns[n].feed # <<>>
        BY <2>1, <3>3 DEF Forward, ConnOwn
      <4>2. QED
        <5>1. Elems(conns'[n].down) \subseteq Elems(conns[n].down) \cup {Head(conns[n].feed)}
          BY <2>1, <4>1, ElemFacts DEF ConnOwn, DownOwn
        <5>2. /\ Elems(conns'[n].feed) \subseteq Elems(conns[n].feed)
              /\ Head(conns[n].feed) \in Elems(conns[n].feed)
          BY <2>1, <4>1, ElemFacts DEF ConnOwn, FeedOwn
        <5>3. QED
          BY <5>1, <5>2 DEF Lines
    <3>4. QED
      BY <1>2, <3>1, <3>2, <3>3
  <2>5. QED
    BY <1>0, <2>2, <2>3, <2>4 DEF OnlyFresh
<1>3. ASSUME DOMAIN conns' = DOMAIN conns, ConnsOwn(conns'),
             \A c \in DOMAIN conns : \A l \in Lines(conns'[c]) : Fresh(l) \/ l \in Lines(conns[c])
      PROVE  OnlyFresh(conns')
  BY <1>0, <1>3, ConnsDomain DEF OnlyFresh
<1>4. ASSUME NEW type, NEW j, NEW meeting, Emit(type, j, meeting), ConnsOwn(conns'),
             type = "completed" => j \in DOMAIN jobs /\ jobs[j].meeting = meeting
      PROVE  OnlyFresh(conns')
  <2> DEFINE ev == [kind |-> "event", type |-> type, job |-> j, meeting |-> meeting]
  <2>1. Fresh(ev)
    BY <1>4 DEF Fresh
  <2>2. DOMAIN conns' = DOMAIN conns
    BY <1>4 DEF Emit
  <2>3. ASSUME NEW c \in DOMAIN conns
        PROVE  \A l \in Lines(conns'[c]) : Fresh(l) \/ l \in Lines(conns[c])
    <3>0. ConnOwn(conns[c]) /\ Sequential(conns[c].feed)
      BY <1>0, <2>3 DEF ConnsOwn, ConnOwn, FeedOwn
    <3>1. /\ conns'[c].down = conns[c].down
          /\ \/ conns'[c].feed = conns[c].feed
             \/ conns'[c].feed = Append(conns[c].feed, ev)
             \/ /\ conns'[c].feed = Append(Tail(conns[c].feed), ev)
                /\ conns[c].feed # <<>>
      <4>1. conns'[c] = IF ~conns[c].alive THEN conns[c]
                        ELSE IF Len(conns[c].feed) < Capacity
                        THEN [conns[c] EXCEPT !.feed = Append(@, ev)]
                        ELSE [conns[c] EXCEPT !.feed = Append(Tail(@), ev), !.lagged = TRUE]
        BY <1>4, <2>3 DEF Emit
      <4>2. conns[c].feed = <<>> => Len(conns[c].feed) < Capacity
        BY CapacityAssumption
      <4> HIDE DEF ev
      <4>3. QED
        BY <3>0, <4>1, <4>2 DEF ConnOwn
    <3> HIDE DEF ev
    <3>2. Elems(conns'[c].feed) \subseteq Elems(conns[c].feed) \cup {ev}
      <4>1. CASE conns[c].feed # <<>>
        <5>1. /\ Sequential(Tail(conns[c].feed))
              /\ Elems(Tail(conns[c].feed)) \subseteq Elems(conns[c].feed)
          BY <3>0, <4>1, ElemFacts, TailFacts
        <5>2. /\ Elems(Append(conns[c].feed, ev)) \subseteq Elems(conns[c].feed) \cup {ev}
              /\ Elems(Append(Tail(conns[c].feed), ev))
                   \subseteq Elems(Tail(conns[c].feed)) \cup {ev}
          BY <3>0, <5>1, ElemFacts
        <5>3. QED
          BY <3>1, <5>1, <5>2
      <4>2. CASE conns[c].feed = <<>>
        <5>1. Elems(Append(conns[c].feed, ev)) \subseteq Elems(conns[c].feed) \cup {ev}
          BY <3>0, ElemFacts
        <5>2. QED
          BY <3>1, <4>2, <5>1
      <4>3. QED
        BY <4>1, <4>2
    <3>3. QED
      BY <2>1, <3>1, <3>2 DEF Lines
  <2>4. QED
    BY <1>3, <1>4, <2>2, <2>3
<1>5. ASSUME NEW j \in DOMAIN jobs, JobStarts(j) \/ JobReports(j) PROVE OnlyFresh(conns')
  <2>1. ConnsOwn(conns')
    BY <1>5, EngineKeeps DEF LinkInv
  <2>2. CASE JobStarts(j)
    <3>1. \E m : Emit("started", j, m)
      BY <2>2 DEF JobStarts
    <3>2. QED
      BY <1>4, <2>1, <3>1
  <2>3. CASE JobReports(j)
    BY <1>4, <2>1, <2>3 DEF JobReports
  <2>4. QED
    BY <1>5, <2>2, <2>3
<1>6. CASE Crash
  <2>1. ConnsOwn(conns')
    BY <1>6, EngineKeeps DEF LinkInv
  <2>2. DOMAIN conns' = DOMAIN conns
    BY <1>6 DEF Crash
  <2>3. ASSUME NEW c \in DOMAIN conns
        PROVE  \A l \in Lines(conns'[c]) : Fresh(l) \/ l \in Lines(conns[c])
    <3>1. conns'[c].down = conns[c].down /\ conns'[c].feed = <<>>
      BY <1>0, <1>6, <2>3 DEF Crash, ConnsOwn, ConnOwn
    <3>2. QED
      BY <3>1 DEF Lines, Elems
  <2>4. QED
    BY <1>3, <2>1, <2>2, <2>3
<1>7. QED
  BY <1>1, <1>2, <1>5, <1>6 DEF EngineStep, JobFailsEarly, JobSettles, EngineStarts

LEMMA EventsStep ==
  ASSUME SummaryInv, Next PROVE EventsOwn'
<1>1. OnlyFresh(conns')
  BY ClientSays, EngineSays DEF SummaryInv, Next
<1>2. ASSUME NEW l, Fresh(l) \/ EventOwn(l) PROVE (EventOwn(l))'
  BY <1>2, JobsGrow DEF SummaryInv, Fresh, EventOwn
<1>3. QED
  BY <1>1, <1>2 DEF OnlyFresh, SummaryInv, EventsOwn

\* What is pending after a send.
LEMMA SentPending ==
  ASSUME NEW cl, PendingOwn(cl), NEW what, NEW arg
  PROVE  /\ DOMAIN Sending(cl, what, arg).pending = DOMAIN cl.pending \cup {NextId(cl)}
         /\ Sending(cl, what, arg).pending[NextId(cl)].what = what
         /\ \A i \in DOMAIN cl.pending \ {NextId(cl)} :
              Sending(cl, what, arg).pending[i] = cl.pending[i]
<1>1. Sending(cl, what, arg).pending =
        [i \in DOMAIN cl.pending \cup {NextId(cl)} |->
           IF i = NextId(cl) THEN Request(cl, what, arg) ELSE cl.pending[i]]
  BY DEF Sending, PendingOwn
<1>2. QED
  BY <1>1 DEF Request

\* A request of the inbox or of the handshake is none of the summary's.
LEMMA OtherSent ==
  ASSUME NEW cl, PendingOwn(cl), NEW what \in {"list", "health", "retry"}, NEW arg,
         NEW new, new = Sending(cl, what, arg)
  PROVE  \A i \in DOMAIN new.pending :
           new.pending[i].what \in {"submit", "mom"} =>
             i \in DOMAIN cl.pending /\ new.pending[i] = cl.pending[i]
BY SentPending

\* What ends a request of the summary's ends its waiting.
LEMMA OverAwaits ==
  ASSUME SummaryInv, NEW i \in DOMAIN client.pending, NEW body,
         DOMAIN client'.pending = DOMAIN client.pending \ {i},
         \A k \in DOMAIN client'.pending : client'.pending[k] = client.pending[k],
         summary' = SummaryAfter(client.pending[i].what, body), UNCHANGED jobs
  PROVE  SummaryAwaits' /\ SummaryOwn'
<1>1. CASE client.pending[i].what \notin {"submit", "mom"}
  <2>1. UNCHANGED summary
    BY <1>1 DEF SummaryAfter
  <2>2. QED
    BY <2>1 DEF SummaryInv, SummaryAwaits, SummaryOwn
<1>2. CASE client.pending[i].what \in {"submit", "mom"}
  <2>1. SummaryAwaits'
    BY <1>2 DEF SummaryInv, SummaryAwaits
  <2>2. summary.at = client.pending[i].what
    BY <1>2 DEF SummaryInv, SummaryAwaits
  <2>3. \/ summary' = Ended("failed")
        \/ summary' = [summary EXCEPT !.at = "await"]
        \/ summary.at = "mom" /\ summary' = [summary EXCEPT !.at = "done"]
    BY <1>2, <2>2 DEF SummaryAfter
  <2>4. SummaryOwn'
    BY <2>3 DEF SummaryInv, SummaryOwn, Ended
  <2>5. QED
    BY <2>1, <2>4
<1>3. QED
  BY <1>1, <1>2

LEMMA HearingSummary ==
  ASSUME SummaryInv, HearResponse \/ HearEvent \/ RequestTimesOut
  PROVE  SummaryAwaits' /\ SummaryOwn'
<1>0. LinkInv /\ PendingOwn(client)
  BY DEF SummaryInv, LinkInv
<1>1. ASSUME NEW i, NEW k
      PROVE  LET cl == Without(client, {i})
             IN  /\ DOMAIN cl.pending = DOMAIN client.pending \ {i}
                 /\ k \in DOMAIN cl.pending => cl.pending[k] = client.pending[k]
                 /\ DOMAIN cl = DOMAIN client
  BY <1>0 DEF Without, PendingOwn
<1>2. CASE HearResponse
  <2> DEFINE line == Head(conns[client.socket].down)
             req == client.pending[line.id]
             over == [Without(client, {line.id}) EXCEPT
                        !.crossed = @ \/ line.serial # req.serial]
  <2>1. CASE line.id \notin DOMAIN client.pending
    <3>1. UNCHANGED <<client, summary, jobs>>
      BY <1>2, <2>1 DEF HearResponse
    <3> HIDE DEF line
    <3>2. QED
      BY <3>1 DEF SummaryInv, SummaryAwaits, SummaryOwn
  <2>2. CASE line.id \in DOMAIN client.pending
    <3>1. over.pending = Without(client, {line.id}).pending /\ DOMAIN over = DOMAIN client
      BY <1>0, <1>1 DEF PendingOwn
    <3>2. client' = over \/ client' = Refused(over)
      BY <1>2, <2>2 DEF HearResponse
    <3>3. /\ summary' = SummaryAfter(client.pending[line.id].what, line.body)
          /\ UNCHANGED jobs
      BY <1>2, <2>2 DEF HearResponse
    <3> HIDE DEF over
    <3>4. client'.pending = over.pending
      BY <1>0, <3>1, <3>2 DEF Refused, PendingOwn
    <3> HIDE DEF line
    <3>5. /\ DOMAIN client'.pending = DOMAIN client.pending \ {line.id}
          /\ \A k \in DOMAIN client'.pending : client'.pending[k] = client.pending[k]
      <4>1. client'.pending = Without(client, {line.id}).pending
        BY <3>1, <3>4
      <4>2. DOMAIN Without(client, {line.id}).pending = DOMAIN client.pending \ {line.id}
        BY <1>1
      <4>3. ASSUME NEW k \in DOMAIN Without(client, {line.id}).pending
            PROVE  Without(client, {line.id}).pending[k] = client.pending[k]
        BY <1>1
      <4>4. QED
        BY <4>1, <4>2, <4>3
    <3>6. QED
      BY <2>2, <3>3, <3>5, OverAwaits
  <2>3. QED
    BY <2>1, <2>2
<1>3. CASE RequestTimesOut
  <2>1. PICK i \in DOMAIN client.pending :
          /\ client' = Without(client, {i})
          /\ summary' = SummaryAfter(client.pending[i].what, Broken)
          /\ UNCHANGED jobs
    BY <1>3 DEF RequestTimesOut
  <2>2. QED
    BY <1>1, <2>1, OverAwaits
<1>4. CASE HearEvent
  <2> DEFINE ev == Head(conns[client.socket].down)
  <2>1. ev.kind = "event" /\ EventOwn(ev) /\ UNCHANGED jobs
    BY <1>0, <1>4, HeardSays DEF HearEvent, SummaryInv, EventsOwn
  <2>2. summary' = summary \/ (summary.at \in Listening /\ summary' = Listen(summary, ev))
    BY <1>4 DEF HearEvent
  <2>3. SummaryOwn' /\ summary'.at = summary.at
    <3>1. CASE summary' = summary
      BY <2>1, <3>1 DEF SummaryInv, SummaryOwn
    <3>2. CASE /\ summary.at \in Listening /\ summary.result = None
               /\ summary' = Listen(summary, ev)
      <4>1. /\ DOMAIN summary' = DOMAIN summary /\ summary'.at = summary.at
            /\ summary'.serial = summary.serial
            /\ summary'.foreign = (summary.foreign \/ jobs[ev.job].serial # summary.serial)
            /\ summary'.result \notin {None, Failure} =>
                 ev.type = "completed" /\ summary'.result = ev.meeting
        BY <3>2 DEF SummaryInv, SummaryOwn, Listen
      <4> HIDE DEF ev
      <4>2. summary'.at \notin {"mom", "done"}
        BY <3>2, <4>1 DEF Listening
      <4>3. QED
        BY <2>1, <4>1, <4>2 DEF SummaryInv, SummaryOwn, EventOwn
    <3>3. QED
      BY <2>2, <3>1, <3>2 DEF Listen
  <2>4. client' = client \/ client' = Sending(client, "list", None)
    BY <1>4 DEF HearEvent
  <2>5. \A i \in DOMAIN client'.pending :
          client'.pending[i].what \in {"submit", "mom"} =>
            i \in DOMAIN client.pending /\ client'.pending[i] = client.pending[i]
    BY <1>0, <2>4, OtherSent
  <2>6. QED
    BY <2>3, <2>5 DEF SummaryInv, SummaryAwaits
<1>5. QED
  BY <1>2, <1>3, <1>4

LEMMA SummaryStep ==
  ASSUME SummaryInv, Next PROVE SummaryAwaits' /\ SummaryOwn'
<1>0. LinkInv /\ PendingOwn(client) /\ JobsOwn
  BY DEF SummaryInv, LinkInv
<1>1. ASSUME UNCHANGED summary PROVE SummaryOwn'
  BY <1>0, <1>1, JobsGrow DEF SummaryInv, SummaryOwn
<1>2. ASSUME UNCHANGED summary,
             \A i \in DOMAIN client'.pending :
               client'.pending[i].what \in {"submit", "mom"} =>
                 i \in DOMAIN client.pending /\ client'.pending[i] = client.pending[i]
      PROVE  SummaryAwaits' /\ SummaryOwn'
  BY <1>1, <1>2 DEF SummaryInv, SummaryAwaits
<1>3. CASE UNCHANGED <<client, summary>>
  BY <1>2, <1>3
<1>4. CASE TimerFires
  BY <1>0, <1>2, <1>4 DEF TimerFires, PendingOwn
<1>5. CASE Dial
  <2> DEFINE open == [client EXCEPT !.state = "connected", !.way = "none",
                                    !.socket = Len(conns) + 1]
             listed == Sending(open, "list", None)
  <2>1. PendingOwn(open) /\ open.pending = client.pending
    BY <1>0 DEF PendingOwn
  <2>2. client' = Sending(listed, "health", None) /\ UNCHANGED summary
    BY <1>5 DEF Dial
  <2> HIDE DEF open
  <2>3. PendingOwn(listed)
    BY <2>1, SendingKeeps
  <2>4. \A i \in DOMAIN listed.pending :
          listed.pending[i].what \in {"submit", "mom"} =>
            i \in DOMAIN client.pending /\ listed.pending[i] = client.pending[i]
    BY <2>1, OtherSent
  <2> HIDE DEF listed
  <2>5. \A i \in DOMAIN client'.pending :
          client'.pending[i].what \in {"submit", "mom"} =>
            i \in DOMAIN listed.pending /\ client'.pending[i] = listed.pending[i]
    BY <2>2, <2>3, OtherSent
  <2>6. QED
    BY <1>2, <2>2, <2>4, <2>5
<1>6. CASE DialFails \/ ConnectionLost
  <2> DEFINE cl == Without(client, DOMAIN client.pending)
  <2>0. /\ DOMAIN cl = DOMAIN client
        /\ cl.pending = [i \in {} |-> client.pending[i]]
    BY <1>0 DEF Without, PendingOwn
  <2>1. DOMAIN client'.pending = {}
    <3>1. client' = [cl EXCEPT !.state = "disconnected", !.way = "timer", !.socket = None]
      BY <1>6 DEF DialFails, ConnectionLost, Disconnected
    <3> HIDE DEF cl
    <3>2. client'.pending = cl.pending
      BY <1>0, <2>0, <3>1 DEF PendingOwn
    <3>3. QED
      BY <2>0, <3>2
  <2>2. summary' = Ended("failed") \/ UNCHANGED summary
    BY <1>6 DEF DialFails, ConnectionLost
  <2>3. SummaryOwn'
    BY <1>1, <2>2 DEF SummaryOwn, Ended
  <2>4. QED
    BY <2>1, <2>3 DEF SummaryAwaits
<1>7. CASE Summarise \/ ResultKnown \/ ResultTimesOut
  <2>1. \A i \in DOMAIN client.pending : client.pending[i].what \notin {"submit", "mom"}
    BY <1>7 DEF Summarise, ResultKnown, ResultTimesOut, Listening, SummaryInv, SummaryAwaits
  <2>2. CASE Summarise
    <3>1. client' = Sending(client, "submit", None) /\ summary' = Beginning(client.sent + 1)
      BY <2>2 DEF Summarise, TaskSends
    <3>2. SummaryOwn' /\ summary'.at = "submit"
      BY <3>1 DEF SummaryOwn, Beginning, Ended
    <3>3. SummaryAwaits'
      BY <1>0, <2>1, <3>1, <3>2, SentPending DEF SummaryAwaits
    <3>4. QED
      BY <3>2, <3>3
  <2>3. CASE /\ UNCHANGED client
             /\ \E how \in {"deferred", "failed"} : summary' = Ended(how)
    <3>1. \E how \in {"deferred", "failed"} : summary' = Ended(how)
      BY <2>3
    <3>2. SummaryOwn'
      BY <3>1 DEF SummaryOwn, Ended
    <3>3. QED
      BY <2>1, <2>3, <3>2 DEF SummaryAwaits
  <2>4. CASE /\ ResultKnown /\ summary.result # Failure
             /\ client' = Sending(client, "mom", summary.result)
             /\ summary' = [summary EXCEPT !.at = "mom"]
    <3>1. SummaryOwn' /\ summary'.at = "mom"
      BY <2>4 DEF ResultKnown, SummaryInv, SummaryOwn
    <3>2. SummaryAwaits'
      BY <1>0, <2>1, <2>4, <3>1, SentPending DEF SummaryAwaits
    <3>3. QED
      BY <3>1, <3>2
  <2>5. CASE ResultTimesOut
    <3>1. SummaryOwn' /\ UNCHANGED client
      BY <2>5 DEF ResultTimesOut, SummaryOwn, Ended
    <3>2. QED
      BY <2>1, <3>1 DEF SummaryAwaits
  <2>6. ResultKnown => \/ /\ UNCHANGED client
                          /\ \E how \in {"deferred", "failed"} : summary' = Ended(how)
                       \/ /\ summary.result # Failure
                          /\ client' = Sending(client, "mom", summary.result)
                          /\ summary' = [summary EXCEPT !.at = "mom"]
    BY DEF ResultKnown
  <2>7. QED
    BY <1>7, <2>2, <2>3, <2>4, <2>5, <2>6
<1>8. CASE Retry
  <2>1. PICK m : client' = Sending(client, "retry", m) /\ UNCHANGED summary
    BY <1>8 DEF Retry, TaskSends
  <2>2. QED
    BY <1>0, <1>2, <2>1, OtherSent
<1>9. QED
  BY <1>3, <1>4, <1>5, <1>6, <1>7, <1>8, HearingSummary
     DEF Next, Connecting, Hearing, Timeouts, EngineStep, Dispatch, Respond, Forward, JobStarts,
         JobFailsEarly, JobSettles, JobReports, Crash, EngineStarts

LEMMA SummaryInvStep == SummaryInv /\ [Next]_vars => SummaryInv'
<1>1. CASE SummaryInv /\ UNCHANGED vars
  <2>1. LinkInv'
    BY <1>1, LinkStep DEF SummaryInv
  <2>2. QED
    BY <1>1, <2>1 DEF SummaryInv, EventsOwn, EventOwn, JobsOwn, SummaryOwn, SummaryAwaits, vars
<1>2. CASE SummaryInv /\ Next
  BY <1>2, LinkStep, EventsStep, JobsGrow, SummaryStep DEF SummaryInv
<1>3. QED
  BY <1>1, <1>2

------------------------------------------------------------------------------
(* What is pending is on its way *)

\* The connection holds the request of this id, or the response to it.
Holds(c, i) ==
  \/ \E l \in Elems(c.up) : l.id = i
  \/ c.reply # NoReply /\ c.reply.id = i
  \/ \E l \in Elems(c.down) : l.kind = "response" /\ l.id = i

\* While its connection is alive, it holds all that the client waits for.
Served(cl, cs) ==
  cl.socket # None /\ cs[cl.socket].alive =>
    \A i \in DOMAIN cl.pending : Holds(cs[cl.socket], i)

\* Nobody waits while the client is about to dial.
NoneLeft(cl) == cl.way # "none" => DOMAIN cl.pending = {}

ServedInv == LinkInv /\ Served(client, conns) /\ NoneLeft(client)

LEMMA ServedInit == Init => ServedInv
BY LinkInit DEF Init, ServedInv, Served, NoneLeft

LEMMA ElemsExactly ==
  ASSUME NEW s, Sequential(s), NEW e
  PROVE  /\ Elems(Append(s, e)) = Elems(s) \cup {e}
         /\ s # <<>> => Elems(s) = Elems(Tail(s)) \cup {Head(s)}
<1>1. Elems(s) \cup {e} \subseteq Elems(Append(s, e))
  <2>1. /\ Len(s) \in Nat /\ Len(Append(s, e)) = Len(s) + 1
        /\ \A k \in 1 .. Len(s) : Append(s, e)[k] = s[k]
        /\ Append(s, e)[Len(s) + 1] = e
    BY AppendFacts
  <2>2. \A k \in 1 .. Len(s) : k \in 1 .. Len(Append(s, e))
    BY <2>1
  <2>3. Len(s) + 1 \in 1 .. Len(Append(s, e))
    BY <2>1
  <2>4. QED
    BY <2>1, <2>2, <2>3 DEF Elems
<1>2. ASSUME s # <<>> PROVE Elems(s) \subseteq Elems(Tail(s)) \cup {Head(s)}
  <2>1. /\ Len(s) \in Nat \ {0} /\ Len(Tail(s)) = Len(s) - 1
        /\ \A k \in 1 .. Len(s) - 1 : Tail(s)[k] = s[k + 1]
        /\ Head(s) = s[1]
    BY <1>2, TailFacts
  <2>2. ASSUME NEW k \in 1 .. Len(s), k # 1
        PROVE  k - 1 \in 1 .. Len(Tail(s)) /\ Tail(s)[k - 1] = s[k]
    <3>1. k - 1 \in 1 .. Len(s) - 1 /\ (k - 1) + 1 = k
      BY <2>1, <2>2
    <3>2. QED
      BY <2>1, <3>1
  <2>3. QED
    BY <2>1, <2>2 DEF Elems
<1>3. QED
  BY <1>1, <1>2, ElemFacts

\* A request that is sent is on its way; the others still are.
LEMMA SentServed ==
  ASSUME NEW cl, PendingOwn(cl), NEW cs, ConnsOwn(cs), cl.socket \in 1 .. Len(cs),
         Served(cl, cs), cl.socket # None, NEW what, NEW arg
  PROVE  /\ Served(Sending(cl, what, arg), Written(cs, cl, what, arg))
         /\ NoneLeft(cl) /\ cl.way = "none" => NoneLeft(Sending(cl, what, arg))
<1> DEFINE n == cl.socket
           c == cs[n]
           line == Request(cl, what, arg)
           new == Sending(cl, what, arg)
           sent == Written(cs, cl, what, arg)
<1>1. /\ new.socket = n /\ new.way = cl.way
      /\ DOMAIN new.pending = DOMAIN cl.pending \cup {NextId(cl)}
  BY SendingKeeps, SentPending
<1>2. /\ sent[n].up = Append(c.up, line) /\ sent[n].reply = c.reply
      /\ sent[n].down = c.down /\ sent[n].alive = c.alive
  BY ConnsDomain DEF Written, ConnsOwn, ConnOwn
<1>3. Elems(sent[n].up) = Elems(c.up) \cup {line}
  BY <1>2, ElemsExactly DEF ConnsOwn, ConnOwn, UpOwn
<1>4. line.id = NextId(cl)
  BY DEF Request
<1>5. \A i : Holds(c, i) => Holds(sent[n], i)
  BY <1>2, <1>3 DEF Holds
<1>6. Holds(sent[n], NextId(cl))
  BY <1>3, <1>4 DEF Holds
<1> HIDE DEF new, sent, line
<1>7. Served(new, sent)
  BY <1>1, <1>2, <1>5, <1>6 DEF Served
<1>8. cl.way = "none" => NoneLeft(new)
  BY <1>1 DEF NoneLeft
<1>9. QED
  BY <1>7, <1>8 DEF new, sent

LEMMA DialServed ==
  ASSUME ServedInv, Dial PROVE Served(client, conns)' /\ NoneLeft(client)'
<1> DEFINE open == [client EXCEPT !.state = "connected", !.way = "none",
                                  !.socket = Len(conns) + 1]
           listed == Sending(open, "list", None)
           cs == Append(conns, NewConn)
           asked == Written(cs, open, "list", None)
<1>0. LinkInv /\ DOMAIN client.pending = {}
  BY DEF ServedInv, NoneLeft, Dial
<1>1. /\ PendingOwn(open) /\ open.way = "none" /\ open.socket = Len(conns) + 1
      /\ DOMAIN open.pending = {}
  BY <1>0 DEF LinkInv, PendingOwn
<1>2. ConnsOwn(cs) /\ Len(cs) = Len(conns) + 1 /\ Len(conns) \in Nat
  <2>1. /\ Sequential(cs) /\ Len(cs) = Len(conns) + 1 /\ Len(conns) \in Nat
        /\ \A k \in 1 .. Len(conns) : cs[k] = conns[k]
        /\ cs[Len(conns) + 1] = NewConn
    BY <1>0, AppendFacts DEF LinkInv, ConnsOwn
  <2>2. ASSUME NEW k \in 1 .. Len(cs) PROVE ConnOwn(cs[k])
    <3>1. k \in 1 .. Len(conns) \/ k = Len(conns) + 1
      BY <2>1, <2>2
    <3>2. QED
      BY <1>0, <2>1, <3>1, NewConnOwn DEF LinkInv, ConnsOwn
  <2>3. QED
    BY <2>1, <2>2 DEF ConnsOwn
<1>3. client' = Sending(listed, "health", None) /\ conns' = Written(asked, listed, "health", None)
  BY DEF Dial
<1> HIDE DEF open, cs
<1>4. Served(open, cs) /\ NoneLeft(open)
  BY <1>1 DEF Served, NoneLeft
<1>5. open.socket \in 1 .. Len(cs)
  BY <1>1, <1>2
<1>6. CASE open.socket # None
  <2>1. Served(listed, asked) /\ NoneLeft(listed)
    BY <1>1, <1>2, <1>4, <1>5, <1>6, SentServed
  <2>2. /\ PendingOwn(listed) /\ listed.socket = open.socket /\ listed.way = "none"
        /\ ConnsOwn(asked) /\ Len(asked) = Len(cs)
    BY <1>1, <1>2, SendingKeeps, WrittenKeeps
  <2> HIDE DEF listed, asked
  <2>3. QED
    BY <1>3, <1>5, <1>6, <2>1, <2>2, SentServed
<1>7. CASE open.socket = None
  <2>1. /\ PendingOwn(listed) /\ listed.socket = None /\ listed.way = "none"
    BY <1>1, <1>7, SendingKeeps
  <2> HIDE DEF listed, asked
  <2>2. client'.socket = None /\ client'.way = "none"
    BY <1>3, <2>1, SendingKeeps
  <2>3. QED
    BY <2>2 DEF Served, NoneLeft
<1>8. QED
  BY <1>6, <1>7

LEMMA UserServed ==
  ASSUME ServedInv, Summarise \/ Retry \/ ResultKnown \/ ResultTimesOut
  PROVE  Served(client, conns)' /\ NoneLeft(client)'
<1>1. CASE UNCHANGED <<client, conns>>
  BY <1>1 DEF ServedInv, Served, NoneLeft
<1>2. ASSUME NEW what, NEW arg, Connected, client' = Sending(client, what, arg),
             conns' = Written(conns, client, what, arg)
      PROVE  Served(client, conns)' /\ NoneLeft(client)'
  <2>1. client.socket \in 1 .. Len(conns) /\ client.way = "none" /\ client.socket # None
    BY <1>2 DEF Connected, ServedInv, LinkInv, SocketIsOpen
  <2>2. QED
    BY <1>2, <2>1, SentServed DEF ServedInv, LinkInv
<1>3. QED
  BY <1>1, <1>2 DEF ResultTimesOut, ResultKnown, Summarise, Retry, TaskSends

\* A client without a socket, whose requests all ended.
LEMMA LostServed ==
  ASSUME ServedInv, TimerFires \/ DialFails \/ ConnectionLost
  PROVE  Served(client, conns)' /\ NoneLeft(client)'
<1>0. PendingOwn(client) /\ LinkInv
  BY DEF ServedInv, LinkInv
<1>1. CASE TimerFires
  <2>1. client'.pending = client.pending /\ client'.socket = client.socket
    BY <1>0, <1>1 DEF TimerFires, PendingOwn
  <2>2. DOMAIN client.pending = {} /\ client.socket = None
    BY <1>0, <1>1 DEF TimerFires, ServedInv, NoneLeft, LinkInv, SocketIsOpen
  <2>3. QED
    BY <2>1, <2>2 DEF Served, NoneLeft
<1>2. CASE DialFails \/ ConnectionLost
  <2>1. client' = Disconnected(client)
    BY <1>2 DEF DialFails, ConnectionLost
  <2>2. client'.socket = None
    BY <1>0, <2>1, DisconnectedKeeps
  <2>3. DOMAIN client'.pending = {}
    <3>1. Without(client, DOMAIN client.pending).pending = [i \in {} |-> client.pending[i]]
      BY <1>0 DEF Without, PendingOwn
    <3>2. PendingOwn(Without(client, DOMAIN client.pending))
      BY <1>0, WithoutKeeps
    <3>3. client'.pending = Without(client, DOMAIN client.pending).pending
      BY <2>1, <3>2 DEF Disconnected, PendingOwn
    <3>4. QED
      BY <3>1, <3>3
  <2>4. QED
    BY <2>2, <2>3 DEF Served, NoneLeft
<1>3. QED
  BY <1>1, <1>2

\* A line taken from the socket: what it is not the answer to is still on its way.
LEMMA HeardHolds ==
  ASSUME LinkInv, client.socket # None, conns[client.socket].down # <<>>
  PROVE  LET line == Head(conns[client.socket].down)
             c == conns[client.socket]
             d == Heard(conns)[client.socket]
         IN  /\ d.alive = c.alive
             /\ \A i : Holds(c, i) => Holds(d, i) \/ (line.kind = "response" /\ line.id = i)
<1> DEFINE n == client.socket
           c == conns[n]
           d == Heard(conns)[n]
<1>1. n \in 1 .. Len(conns) /\ ConnOwn(c) /\ DOMAIN conns = 1 .. Len(conns)
  BY ConnsDomain DEF LinkInv, SocketIsOpen, ConnsOwn
<1>2. d.up = c.up /\ d.reply = c.reply /\ d.down = Tail(c.down) /\ d.alive = c.alive
  BY <1>1 DEF Heard, ConnOwn
<1>3. Elems(c.down) = Elems(Tail(c.down)) \cup {Head(c.down)}
  BY <1>1, ElemsExactly DEF ConnOwn, DownOwn
<1>4. QED
  BY <1>2, <1>3 DEF Holds

LEMMA ResponseServed ==
  ASSUME ServedInv, HearResponse PROVE Served(client, conns)' /\ NoneLeft(client)'
<1> DEFINE line == Head(conns[client.socket].down)
           req == client.pending[line.id]
           over == [Without(client, {line.id}) EXCEPT !.crossed = @ \/ line.serial # req.serial]
<1>0. /\ LinkInv /\ PendingOwn(client) /\ client.socket # None
      /\ client.way = "none" /\ line.kind = "response" /\ conns' = Heard(conns)
  BY DEF ServedInv, LinkInv, SocketIsOpen, HearResponse
<1>1. /\ conns'[client.socket].alive = conns[client.socket].alive
      /\ \A i : Holds(conns[client.socket], i) =>
                  Holds(conns'[client.socket], i) \/ line.id = i
  BY <1>0, HeardHolds DEF HearResponse
<1> HIDE DEF line
<1>2. CASE line.id \notin DOMAIN client.pending
  <2>1. UNCHANGED client
    BY <1>2 DEF HearResponse, line
  <2>2. QED
    BY <1>0, <1>1, <1>2, <2>1 DEF ServedInv, Served, NoneLeft
<1>3. CASE line.id \in DOMAIN client.pending
  <2>1. client' = over \/ client' = Refused(over)
    BY <1>3 DEF HearResponse, line
  <2>2. /\ PendingOwn(Without(client, {line.id}))
        /\ DOMAIN Without(client, {line.id}).pending = DOMAIN client.pending \ {line.id}
        /\ Without(client, {line.id}).socket = client.socket
        /\ Without(client, {line.id}).way = client.way
    BY <1>0, WithoutKeeps DEF Without, PendingOwn
  <2>3. /\ DOMAIN over.pending = DOMAIN client.pending \ {line.id}
        /\ over.socket = client.socket /\ over.way = client.way
        /\ DOMAIN over = DOMAIN client
    BY <1>0, <2>2 DEF PendingOwn
  <2> HIDE DEF over
  <2>4. CASE client' = over
    BY <1>0, <1>1, <2>3, <2>4 DEF ServedInv, Served, NoneLeft
  <2>5. CASE client' = Refused(over)
    <3>1. client'.socket = None /\ client'.way = "none"
      BY <1>0, <2>3, <2>5 DEF Refused, PendingOwn
    <3>2. QED
      BY <3>1 DEF Served, NoneLeft
  <2>6. QED
    BY <2>1, <2>4, <2>5
<1>4. QED
  BY <1>2, <1>3

LEMMA EventServed ==
  ASSUME ServedInv, HearEvent PROVE Served(client, conns)' /\ NoneLeft(client)'
<1> DEFINE line == Head(conns[client.socket].down)
<1>0. /\ LinkInv /\ PendingOwn(client) /\ client.socket # None /\ client.way = "none"
      /\ line.kind = "event" /\ client.socket \in 1 .. Len(conns)
  BY DEF ServedInv, LinkInv, SocketIsOpen, HearEvent
<1>1. Served(client, Heard(conns)) /\ ConnsOwn(Heard(conns)) /\ Len(Heard(conns)) = Len(conns)
  <2>1. \A i : Holds(conns[client.socket], i) => Holds(Heard(conns)[client.socket], i)
    BY <1>0, HeardHolds DEF HearEvent
  <2>2. Heard(conns)[client.socket].alive = conns[client.socket].alive
    BY <1>0, HeardHolds DEF HearEvent
  <2>3. QED
    BY <1>0, <2>1, <2>2, HeardKeeps DEF ServedInv, Served, HearEvent
<1>2. CASE /\ client' = Sending(client, "list", None)
           /\ conns' = Written(Heard(conns), client, "list", None)
  BY <1>0, <1>1, <1>2, SentServed DEF ServedInv
<1>3. CASE conns' = Heard(conns) /\ UNCHANGED client
  BY <1>1, <1>3 DEF ServedInv, NoneLeft
<1>4. QED
  BY <1>2, <1>3 DEF HearEvent

LEMMA TimeoutServed ==
  ASSUME ServedInv, RequestTimesOut PROVE Served(client, conns)' /\ NoneLeft(client)'
<1>1. PICK i \in DOMAIN client.pending : client' = Without(client, {i}) /\ UNCHANGED conns
  BY DEF RequestTimesOut
<1>2. /\ DOMAIN client'.pending = DOMAIN client.pending \ {i}
      /\ client'.socket = client.socket /\ client'.way = client.way
  BY <1>1, WithoutKeeps DEF Without, ServedInv, LinkInv, PendingOwn
<1>3. QED
  BY <1>1, <1>2 DEF ServedInv, Served, NoneLeft

\* What the engine does on a connection keeps what the connection holds.
LEMMA ConnectionHolds ==
  ASSUME LinkInv, NEW n \in DOMAIN conns, Dispatch(n) \/ Respond(n) \/ Forward(n), NEW i,
         Holds(conns[n], i)
  PROVE  Holds(conns'[n], i) /\ conns'[n].alive = conns[n].alive
<1> DEFINE c == conns[n]
<1>1. ConnOwn(c)
  BY ConnsDomain DEF LinkInv, ConnsOwn
<1>2. CASE Dispatch(n)
  <2>1. /\ conns'[n].up = Tail(c.up) /\ conns'[n].down = c.down
        /\ conns'[n].alive = c.alive /\ c.up # <<>> /\ c.reply = NoReply
        /\ conns'[n].reply.id = Head(c.up).id /\ conns'[n].reply.kind = "response"
    <3> DEFINE b == IF engine.same THEN Body(Head(c.up)) ELSE [kind |-> "mismatch"]
               r == [kind |-> "response", id |-> Head(c.up).id,
                     serial |-> Head(c.up).serial, body |-> b]
    <3>1. conns' = [conns EXCEPT ![n].up = Tail(@), ![n].reply = r]
      BY <1>2 DEF Dispatch
    <3>2. r.id = Head(c.up).id /\ r.kind = "response"
      OBVIOUS
    <3>3. c.alive /\ c.up # <<>> /\ c.reply = NoReply
      BY <1>2 DEF Dispatch
    <3> HIDE DEF r
    <3>4. conns'[n] = [c EXCEPT !.up = Tail(@), !.reply = r]
      BY <3>1
    <3>5. QED
      BY <1>1, <3>2, <3>3, <3>4 DEF ConnOwn
  <2>2. Elems(c.up) = Elems(Tail(c.up)) \cup {Head(c.up)}
    BY <1>1, <2>1, ElemsExactly DEF ConnOwn, UpOwn
  <2>3. conns'[n].reply # NoReply
    BY <2>1 DEF NoReply
  <2>4. QED
    BY <2>1, <2>2, <2>3 DEF Holds
<1>3. CASE Respond(n)
  <2>1. /\ conns'[n].up = c.up /\ conns'[n].down = Append(c.down, c.reply)
        /\ conns'[n].alive = c.alive /\ c.reply.kind = "response"
    BY <1>1, <1>3 DEF Respond, ConnOwn
  <2>2. Elems(conns'[n].down) = Elems(c.down) \cup {c.reply}
    BY <1>1, <2>1, ElemsExactly DEF ConnOwn, DownOwn
  <2>3. QED
    BY <2>1, <2>2 DEF Holds
<1>4. CASE Forward(n)
  <2>1. /\ conns'[n].up = c.up /\ conns'[n].down = Append(c.down, Head(c.feed))
        /\ conns'[n].alive = c.alive /\ conns'[n].reply = c.reply
    BY <1>1, <1>4 DEF Forward, ConnOwn
  <2>2. Elems(conns'[n].down) = Elems(c.down) \cup {Head(c.feed)}
    BY <1>1, <2>1, ElemsExactly DEF ConnOwn, DownOwn
  <2>3. QED
    BY <2>1, <2>2 DEF Holds
<1>5. QED
  BY <1>2, <1>3, <1>4

LEMMA EngineServed ==
  ASSUME ServedInv, EngineStep \/ Crash \/ EngineStarts
  PROVE  Served(client, conns)' /\ NoneLeft(client)'
<1>0. UNCHANGED client /\ LinkInv /\ ConnsOwn(conns) /\ DOMAIN conns = 1 .. Len(conns)
  BY ConnsDomain DEF ServedInv, LinkInv, EngineStep, Dispatch, Respond, Forward, JobStarts,
     JobFailsEarly, JobSettles, JobReports, Crash, EngineStarts
<1>1. NoneLeft(client)'
  BY <1>0 DEF ServedInv, NoneLeft
<1> SUFFICES ASSUME client.socket # None, conns'[client.socket].alive,
                    NEW i \in DOMAIN client.pending
             PROVE  Holds(conns'[client.socket], i)
  BY <1>0, <1>1 DEF Served
<1> DEFINE n == client.socket
<1>2. n \in DOMAIN conns /\ ConnOwn(conns[n])
  BY <1>0 DEF LinkInv, SocketIsOpen, ConnsOwn
<1>3. conns[n].alive => Holds(conns[n], i)
  BY DEF ServedInv, Served
<1>4. ASSUME NEW c \in DOMAIN conns, Dispatch(c) \/ Respond(c) \/ Forward(c)
      PROVE  Holds(conns'[n], i)
  <2>1. CASE c = n
    <3>1. conns[n].alive
      BY <1>4, <2>1 DEF Dispatch, Respond, Forward
    <3>2. QED
      BY <1>0, <1>3, <1>4, <2>1, <3>1, ConnectionHolds
  <2>2. CASE c # n
    <3>1. conns'[n] = conns[n]
      BY <1>2, <1>4, <2>2 DEF Dispatch, Respond, Forward
    <3>2. QED
      BY <1>3, <3>1
  <2>3. QED
    BY <2>1, <2>2
<1>5. ASSUME NEW type, NEW j, NEW meeting, Emit(type, j, meeting) PROVE Holds(conns'[n], i)
  <2> DEFINE ev == [kind |-> "event", type |-> type, job |-> j, meeting |-> meeting]
  <2>1. conns'[n] = IF ~conns[n].alive THEN conns[n]
                    ELSE IF Len(conns[n].feed) < Capacity
                    THEN [conns[n] EXCEPT !.feed = Append(@, ev)]
                    ELSE [conns[n] EXCEPT !.feed = Append(Tail(@), ev), !.lagged = TRUE]
    BY <1>2, <1>5 DEF Emit
  <2> HIDE DEF ev
  <2>2. /\ conns'[n].up = conns[n].up /\ conns'[n].reply = conns[n].reply
        /\ conns'[n].down = conns[n].down /\ conns'[n].alive = conns[n].alive
    BY <1>2, <2>1 DEF ConnOwn
  <2>3. QED
    BY <1>3, <2>2 DEF Holds
<1>6. CASE UNCHANGED conns
  BY <1>3, <1>6
<1>7. CASE Crash
  <2>1. ~conns'[n].alive
    BY <1>2, <1>7 DEF Crash, ConnOwn
  <2>2. QED
    BY <2>1
<1>8. ASSUME NEW j \in DOMAIN jobs, JobStarts(j) \/ JobReports(j) PROVE Holds(conns'[n], i)
  BY <1>5, <1>8 DEF JobStarts, JobReports
<1>9. QED
  BY <1>4, <1>6, <1>7, <1>8 DEF EngineStep, JobFailsEarly, JobSettles, EngineStarts

LEMMA ServedStep == ServedInv /\ [Next]_vars => ServedInv'
<1>1. CASE ServedInv /\ UNCHANGED vars
  <2>1. LinkInv'
    BY <1>1, LinkStep DEF ServedInv
  <2>2. QED
    BY <1>1, <2>1 DEF ServedInv, Served, NoneLeft, Holds, vars
<1>2. CASE ServedInv /\ Next
  <2>1. Served(client, conns)' /\ NoneLeft(client)'
    BY <1>2, DialServed, LostServed, ResponseServed, EventServed, TimeoutServed, UserServed,
       EngineServed DEF Next, Connecting, Hearing, Timeouts
  <2>2. QED
    BY <1>2, <2>1, LinkStep DEF ServedInv
<1>3. QED
  BY <1>1, <1>2

------------------------------------------------------------------------------
(* Theorems *)

\* Every line carries the serial number of its request, whatever is lost.
THEOREM LinkInvariant == Spec => []LinkInv
BY LinkInit, LinkStep, PTL DEF Spec

\* engine_client: a response that is late, or comes after a reconnection, never
\* completes another request than its own.
THEOREM RepliesOwn == Spec => []RepliesAreOwn
<1>1. LinkInv => RepliesAreOwn
  BY DEF LinkInv, PendingOwn, RepliesAreOwn
<1>2. QED
  BY <1>1, LinkInvariant, PTL

\* engine_client: a client refused for its protocol version never dials or sends again.
THEOREM RefusedForGood == Spec => IncompatibleIsFinal
<1>1. LinkInv /\ [Next]_vars =>
        [client.state = "incompatible" =>
           /\ client'.state = "incompatible"
           /\ client'.socket = None /\ client'.sent = client.sent]_vars
  <2> SUFFICES ASSUME LinkInv, Next, client.state = "incompatible"
               PROVE  /\ client'.state = "incompatible"
                      /\ client'.socket = None /\ client'.sent = client.sent
    OBVIOUS
  <2>1. client.socket = None /\ client.way = "none"
    BY DEF LinkInv, SocketIsOpen
  <2>2. CASE RequestTimesOut
    <3>1. PICK i \in DOMAIN client.pending : client' = Without(client, {i})
      BY <2>2 DEF RequestTimesOut
    <3>2. QED
      BY <2>1, <3>1 DEF Without, LinkInv, PendingOwn
  <2>3. CASE ~RequestTimesOut
    <3>1. UNCHANGED client
      BY <2>1, <2>3 DEF Next, Connecting, TimerFires, Dial, DialFails, ConnectionLost,
           Hearing, HearResponse, HearEvent, Timeouts, ResultTimesOut, ResultKnown,
           EngineStep, Dispatch, Respond, Forward, JobStarts, JobFailsEarly, JobSettles,
           JobReports, Summarise, Retry, TaskSends, Connected, Crash, EngineStarts
    <3>2. QED
      BY <2>1, <3>1
  <2>4. QED
    BY <2>2, <2>3
<1>2. QED
  BY <1>1, LinkInvariant, PTL DEF Spec, IncompatibleIsFinal

\* engine_summary_service: with no event of another job heard, the minutes shown are
\* those of the job that the summary's own request created.
THEOREM SummaryOfOwnJob == Spec => []SummaryIsOwn
<1>1. SummaryInv => SummaryIsOwn
  BY DEF SummaryInv, SummaryOwn, SummaryIsOwn
<1>2. QED
  BY <1>1, SummaryInit, SummaryInvStep, PTL DEF Spec

\* engine_client and handle_connection: while the connection is alive, nothing is waited
\* for that is not on its way, in the engine's hands, or answered, and nothing is left
\* over from a connection before.
THEOREM PendingServed == Spec => []PendingIsServed
<1>1. ServedInv => PendingIsServed
  <2> SUFFICES ASSUME ServedInv, client.socket # None, conns[client.socket].alive,
                      NEW i \in DOMAIN client.pending
               PROVE  LET c == conns[client.socket]
                          lines == ToSet(c.up)
                                     \cup (IF c.reply = NoReply THEN {} ELSE {c.reply})
                                     \cup {l \in ToSet(c.down) : l.kind = "response"}
                      IN  \E l \in lines : l.id = i
    BY DEF PendingIsServed
  <2> DEFINE c == conns[client.socket]
  <2>1. Holds(c, i) /\ ConnOwn(c)
    BY DEF ServedInv, Served, LinkInv, SocketIsOpen, ConnsOwn
  <2>2. ToSet(c.up) = Elems(c.up) /\ ToSet(c.down) = Elems(c.down)
    <3>1. DOMAIN c.up = 1 .. Len(c.up) /\ DOMAIN c.down = 1 .. Len(c.down)
      BY <2>1, LenProperties DEF ConnOwn, UpOwn, DownOwn, Sequential
    <3>2. QED
      BY <3>1 DEF ToSet, Elems
  <2>3. QED
    BY <2>1, <2>2 DEF Holds
<1>2. QED
  BY <1>1, ServedInit, ServedStep, PTL DEF Spec

==============================================================================
