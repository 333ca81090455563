------------------------------ MODULE Requests ------------------------------
(***************************************************************************)
(* Requests between two peers (core/peer/peer.go: Request, Reply, Send,    *)
(* sendOn, readLoop, handleMessage) over the encrypted frames of           *)
(* core/secure/secure.go, on the sockets of PeerPair.  A message is two    *)
(* frames, its length and its body; a frame is sealed with the next nonce  *)
(* of its direction.  A direction holds at most BufFrames frames that the  *)
(* other peer has not read: a writer blocks when it is full.  Handlers run *)
(* on the read loop, which reads nothing while it writes a reply.          *)
(* The two hellos are not modelled: they are sent before the read loops    *)
(* start and are smaller than any socket buffer.                           *)
(***************************************************************************)
EXTENDS PeerPair, Sequences

CONSTANTS
  Reqs,       \* calls of Request; each has its own random ReqID
  Owner,      \* Owner[q]: the peer that makes the request
  Prev,       \* Prev[q]: the attempt that q repeats on the contact's next address
  Rivals,     \* bound: pairs of requests that are not both made
  BufFrames   \* frames a direction of a socket can hold

ASSUME RequestsAssumption ==
  /\ Owner \in [Reqs -> Nodes]
  /\ Prev \in [Reqs -> Reqs \cup {None}]
  /\ BufFrames \in Nat \ {0}
  /\ None \notin Reqs /\ Reqs \cap Nodes = {} /\ {"length", "body"} \cap Reqs = {}

VARIABLES
  req,        \* req[q]: where the call is
  sock,       \* sock[q]: the connection Send has looked up
  pending,    \* the requests with an entry in their peer's pending table
  chan,       \* chan[q]: the reply in the channel of q, or None
  wire,       \* wire[s][n]: frames n has sent on s, not yet read
  sendCount,  \* sendCount[s][n], recvCount[s][n]: the nonce counters of n
  recvCount,
  writer,     \* writer[s][n]: who holds writeMu (n itself: its read loop)
  loop,       \* loop[s][n]: what the read loop waits for, or the request it replies to
  served      \* history: the requests whose handler has run

frameVars == <<wire, sendCount, recvCount, writer>>
callerVars == <<req, sock, pending, chan>>
reqVars == <<pairVars, frameVars, callerVars, loop, served>>

Message(kind, q) == [kind |-> kind, id |-> q]
Messages == [kind : {"request", "reply"}, id : Reqs]
Frames == [nonce : Nat, part : {"length", "body"}, msg : Messages]

ReqInit ==
  /\ PairInit
  /\ req = [q \in Reqs |-> "idle"]
  /\ sock = [q \in Reqs |-> None]
  /\ pending = {}
  /\ chan = [q \in Reqs |-> None]
  /\ wire = [s \in Socks |-> [n \in Nodes |-> << >>]]
  /\ sendCount = [s \in Socks |-> [n \in Nodes |-> 0]]
  /\ recvCount = [s \in Socks |-> [n \in Nodes |-> 0]]
  /\ writer = [s \in Socks |-> [n \in Nodes |-> None]]
  /\ loop = [s \in Socks |-> [n \in Nodes |-> "length"]]
  /\ served = {}
-----------------------------------------------------------------------------
(* requestContact and EnsureConnected *)

\* DHT.requestContact makes the next attempt when the one before has failed.
Ready(q) ==
  /\ req[q] = "idle"
  /\ Prev[q] # None => req[Prev[q]] = "failed"
  /\ \A p \in Reqs : {p, q} \in Rivals => req[p] = "idle"

\* Request with a connection at hand,
BeginConnected(q) ==
  /\ Ready(q)
  /\ conn[Owner[q]] # None
  /\ req' = [req EXCEPT ![q] = "connected"]
  /\ UNCHANGED <<pairVars, frameVars, sock, pending, chan, loop, served>>

\* with a dial in flight, which it waits for,
BeginJoins(q) ==
  /\ Ready(q)
  /\ conn[Owner[q]] = None
  /\ dialing[Owner[q]]
  /\ req' = [req EXCEPT ![q] = "joining"]
  /\ UNCHANGED <<pairVars, frameVars, sock, pending, chan, loop, served>>

\* or with neither: it dials.
BeginDials(q, s) ==
  /\ Ready(q)
  /\ Dial(Owner[q], s)
  /\ req' = [req EXCEPT ![q] = "dialing"]
  /\ UNCHANGED <<frameVars, sock, pending, chan, loop, served>>

\* The call that dials returns with its dial, as the handshake ends.
DialReturns(n, s, to) ==
  req' = [q \in Reqs |-> IF req[q] = "dialing" /\ Owner[q] = n /\ dialedBy[s] = n
                         THEN to ELSE req[q]]

HandshakeEnds(n, s) ==
  /\ \/ (Register(n, s) \/ Dedup(n, s)) /\ DialReturns(n, s, "connected")
     \/ HandshakeFails(n, s) /\ DialReturns(n, s, "failed")
  /\ UNCHANGED <<frameVars, sock, pending, chan, loop, served>>

\* A call that waited for a dial looks whether there is a connection now.
Woken(q) ==
  /\ req[q] = "joining"
  /\ ~dialing[Owner[q]]
  /\ req' = [req EXCEPT ![q] = IF conn[Owner[q]] # None THEN "connected" ELSE "failed"]
  /\ UNCHANGED <<pairVars, frameVars, sock, pending, chan, loop, served>>
-----------------------------------------------------------------------------
(* sendOn and secure.Conn *)

\* Mutant: the two writes of a message are not made under one writeMu.
WriteLengthUnlocked(w, n, s, m) ==
  /\ end[s][n] = "open" /\ ~Dead(n, s)
  /\ writer[s][n] # w
  /\ Len(wire[s][n]) < BufFrames
  /\ wire' = [wire EXCEPT ![s][n] =
                Append(@, [nonce |-> sendCount[s][n], part |-> "length", msg |-> m])]
  /\ sendCount' = [sendCount EXCEPT ![s][n] = @ + 1]
  /\ writer' = [writer EXCEPT ![s][n] = w]
  /\ UNCHANGED recvCount

\* w takes writeMu and writes the length of m; it blocks while the buffer is full.
WriteLength(w, n, s, m) ==
  /\ end[s][n] = "open" /\ ~Dead(n, s)
  /\ writer[s][n] = None
  /\ Len(wire[s][n]) < BufFrames
  /\ wire' = [wire EXCEPT ![s][n] =
                Append(@, [nonce |-> sendCount[s][n], part |-> "length", msg |-> m])]
  /\ sendCount' = [sendCount EXCEPT ![s][n] = @ + 1]
  /\ writer' = [writer EXCEPT ![s][n] = w]
  /\ UNCHANGED recvCount

\* It writes the body and releases writeMu.
WriteBody(w, n, s, m) ==
  /\ end[s][n] = "open" /\ ~Dead(n, s)
  /\ writer[s][n] = w
  /\ Len(wire[s][n]) < BufFrames
  /\ wire' = [wire EXCEPT ![s][n] =
                Append(@, [nonce |-> sendCount[s][n], part |-> "body", msg |-> m])]
  /\ sendCount' = [sendCount EXCEPT ![s][n] = @ + 1]
  /\ writer' = [writer EXCEPT ![s][n] = None]
  /\ UNCHANGED recvCount

\* Either write fails once the socket is closed or dead; its nonce is used up.
WriteFails(w, n, s) ==
  /\ end[s][n] # "open" \/ Dead(n, s)
  /\ writer[s][n] \in {None, w}
  /\ sendCount' = [sendCount EXCEPT ![s][n] = @ + 1]
  /\ writer' = [writer EXCEPT ![s][n] = None]
  /\ UNCHANGED <<wire, recvCount>>
-----------------------------------------------------------------------------
(* Request, once it has a connection *)

\* newReqID, the entry in the pending table, and Send's lookup of the connection.
Send(q) ==
  /\ req[q] = "connected"
  /\ IF conn[Owner[q]] = None
     THEN req' = [req EXCEPT ![q] = "failed"] /\ UNCHANGED <<sock, pending>>
     ELSE /\ req' = [req EXCEPT ![q] = "sending"]
          /\ sock' = [sock EXCEPT ![q] = conn[Owner[q]]]
          /\ pending' = pending \cup {q}
  /\ UNCHANGED <<pairVars, frameVars, chan, loop, served>>

SendLength(q) ==
  /\ req[q] = "sending"
  /\ WriteLength(q, Owner[q], sock[q], Message("request", q))
  /\ UNCHANGED <<pairVars, callerVars, loop, served>>

SendBody(q) ==
  /\ req[q] = "sending"
  /\ WriteBody(q, Owner[q], sock[q], Message("request", q))
  /\ req' = [req EXCEPT ![q] = "waiting"]
  /\ UNCHANGED <<pairVars, sock, pending, chan, loop, served>>

SendFails(q) ==
  /\ req[q] = "sending"
  /\ WriteFails(q, Owner[q], sock[q])
  /\ req' = [req EXCEPT ![q] = "failed"]
  /\ pending' = pending \ {q}
  /\ UNCHANGED <<pairVars, sock, chan, loop, served>>

\* The select: the reply is in the channel,
Answer(q) ==
  /\ req[q] = "waiting"
  /\ chan[q] # None
  /\ req' = [req EXCEPT ![q] = "answered"]
  /\ pending' = pending \ {q}
  /\ UNCHANGED <<pairVars, frameVars, sock, chan, loop, served>>

\* Mutant: the timer alone does not end the wait.
TimeoutWithReply(q) ==
  /\ req[q] = "waiting"
  /\ chan[q] # None
  /\ req' = [req EXCEPT ![q] = "failed"]
  /\ pending' = pending \ {q}
  /\ UNCHANGED <<pairVars, frameVars, sock, chan, loop, served>>

\* or the timer fires; when both are ready either may be taken.
Timeout(q) ==
  /\ req[q] = "waiting"
  /\ req' = [req EXCEPT ![q] = "failed"]
  /\ pending' = pending \ {q}
  /\ UNCHANGED <<pairVars, frameVars, sock, chan, loop, served>>
-----------------------------------------------------------------------------
(* The read loop of peer n on socket s *)

\* Mutant: a reply goes to whatever request of n is pending.
handleMessageAnyReply(n, s, m) ==
  IF m.kind = "reply" /\ \E q \in pending : Owner[q] = n
  THEN LET q == CHOOSE q \in pending : Owner[q] = n
       IN  /\ chan' = [chan EXCEPT ![q] = m]
           /\ pending' = pending \ {q}
           /\ loop' = [loop EXCEPT ![s][n] = "length"]
           /\ UNCHANGED served
  ELSE /\ IF m.kind = "request"
          THEN served' = served \cup {m.id} /\ loop' = [loop EXCEPT ![s][n] = m.id]
          ELSE loop' = [loop EXCEPT ![s][n] = "length"] /\ UNCHANGED served
       /\ UNCHANGED <<chan, pending>>

\* handleMessage: a reply to a pending request is put into its channel, once; a
\* request is handled (handlers run here); a reply nobody waits for is ignored.
handleMessage(n, s, m) ==
  IF m.id \in pending /\ Owner[m.id] = n
  THEN /\ chan' = [chan EXCEPT ![m.id] = m]
       /\ pending' = pending \ {m.id}
       /\ loop' = [loop EXCEPT ![s][n] = "length"]
       /\ UNCHANGED served
  ELSE /\ IF m.kind = "request"
          THEN served' = served \cup {m.id} /\ loop' = [loop EXCEPT ![s][n] = m.id]
          ELSE loop' = [loop EXCEPT ![s][n] = "length"] /\ UNCHANGED served
       /\ UNCHANGED <<chan, pending>>

\* The loop reads the frame it waits for; a frame with another nonce does not
\* decrypt and one of the wrong kind makes no message: both end the loop.
ReadFrame(n, s) ==
  /\ end[s][n] = "open"
  /\ loop[s][n] \in {"length", "body"}
  /\ wire[s][Other(n)] # << >>
  /\ LET f == Head(wire[s][Other(n)])
     IN  IF f.nonce = recvCount[s][n] /\ f.part = loop[s][n]
         THEN /\ IF f.part = "body" THEN handleMessage(n, s, f.msg)
                 ELSE /\ loop' = [loop EXCEPT ![s][n] = "body"]
                      /\ UNCHANGED <<chan, pending, served>>
              /\ UNCHANGED end
         ELSE /\ end' = [end EXCEPT ![s][n] = "closing"]
              /\ UNCHANGED <<loop, chan, pending, served>>
  /\ wire' = [wire EXCEPT ![s][Other(n)] = Tail(@)]
  /\ recvCount' = [recvCount EXCEPT ![s][n] = @ + 1]
  /\ UNCHANGED <<dialedBy, conn, dialing, broken, req, sock, sendCount, writer>>

\* Reply, from the handler: Send looks the connection up again.
ReplyLength(n, s) ==
  /\ loop[s][n] \in Reqs /\ conn[n] # None
  /\ WriteLength(n, n, conn[n], Message("reply", loop[s][n]))
  /\ UNCHANGED <<pairVars, callerVars, loop, served>>

ReplyBody(n, s) ==
  /\ loop[s][n] \in Reqs /\ conn[n] # None
  /\ WriteBody(n, n, conn[n], Message("reply", loop[s][n]))
  /\ loop' = [loop EXCEPT ![s][n] = "length"]
  /\ UNCHANGED <<pairVars, callerVars, served>>

\* A reply that cannot be written is dropped, and the loop reads on.
ReplyFails(n, s) ==
  /\ loop[s][n] \in Reqs /\ conn[n] # None
  /\ WriteFails(n, n, conn[n])
  /\ loop' = [loop EXCEPT ![s][n] = "length"]
  /\ UNCHANGED <<pairVars, callerVars, served>>

\* The loop reads EOF or an error, closes its end and removes the connection.
ReadEnds(n, s) ==
  /\ loop[s][n] \in {"length", "body"}
  /\ SeeEOF(n, s)
  /\ UNCHANGED <<frameVars, callerVars, loop, served>>

Cleanup(n, s) ==
  /\ removeConn(n, s)
  /\ UNCHANGED <<frameVars, callerVars, loop, served>>

NetworkBreaks(s) ==
  /\ Break(s)
  /\ UNCHANGED <<frameVars, callerVars, loop, served>>
-----------------------------------------------------------------------------
CallerStep(q) ==
  \/ Woken(q) \/ Send(q) \/ SendLength(q) \/ SendBody(q) \/ SendFails(q)
  \/ Answer(q) \/ Timeout(q)

LoopStep(n, s) ==
  \/ HandshakeEnds(n, s) \/ ReadFrame(n, s)
  \/ ReplyLength(n, s) \/ ReplyBody(n, s) \/ ReplyFails(n, s)
  \/ ReadEnds(n, s) \/ Cleanup(n, s)

ReqNext ==
  \/ \E q \in Reqs : BeginConnected(q) \/ BeginJoins(q) \/ CallerStep(q)
  \/ \E q \in Reqs, s \in Socks : BeginDials(q, s)
  \/ \E n \in Nodes, s \in Socks : LoopStep(n, s)
  \/ \E s \in Socks : NetworkBreaks(s)

ReqSpec == ReqInit /\ [][ReqNext]_reqVars

\* Every call and every connection has a goroutine of its own, handshakes have a
\* deadline and dead sockets are noticed; nobody has to make a request.
FairReqSpec ==
  /\ ReqSpec
  /\ \A q \in Reqs : WF_reqVars(CallerStep(q))
  /\ \A n \in Nodes, s \in Socks : WF_reqVars(LoopStep(n, s))
-----------------------------------------------------------------------------
Calls == {"idle", "dialing", "joining", "connected", "sending", "waiting",
          "answered", "failed"}

\* Shapes.
ReqTypeOK ==
  /\ req \in [Reqs -> Calls]
  /\ sock \in [Reqs -> Socks \cup {None}]
  /\ pending \in SUBSET Reqs
  /\ chan \in [Reqs -> Messages \cup {None}]
  /\ wire \in [Socks -> [Nodes -> Seq(Frames)]]
  /\ sendCount \in [Socks -> [Nodes -> Nat]]
  /\ recvCount \in [Socks -> [Nodes -> Nat]]
  /\ writer \in [Socks -> [Nodes -> Reqs \cup Nodes \cup {None}]]
  /\ loop \in [Socks -> [Nodes -> Reqs \cup {"length", "body"}]]
  /\ served \in SUBSET Reqs

\* The frames w carry the nonces from c on, lengths and bodies alternate from what
\* a loop in state r waits for, and a body follows the length of its own message.
InStep(w, c, r) ==
  /\ \A i \in 1..Len(w) : w[i].nonce = c + i - 1
  /\ w # << >> => w[1].part = IF r = "body" THEN "body" ELSE "length"
  /\ \A i \in 1..(Len(w) - 1) :
       /\ w[i].part # w[i + 1].part
       /\ w[i].part = "length" => w[i].msg = w[i + 1].msg

\* The stream of frames stays in step although several goroutines write to a
\* connection and writes fail half-way through a message: whatever an open end has
\* still to read is what its nonce counter and its read loop expect.
FramesInStep ==
  \A s \in Socks, n \in Nodes : end[s][n] = "open" =>
    InStep(wire[s][Other(n)], recvCount[s][n], loop[s][n])

\* The shapes above and frames in step.
ChannelSound == PairSound /\ ReqTypeOK /\ FramesInStep

\* Send looks up sockets past their handshake, and a read loop that is busy with a
\* reply does not see its end close.
EndsInUse ==
  /\ \A q \in Reqs : sock[q] # None => end[sock[q]][Owner[q]] \notin {"none", "handshake"}
  /\ \A q \in Reqs : req[q] = "sending" => sock[q] # None
  /\ \A s \in Socks, n \in Nodes : loop[s][n] \in Reqs => end[s][n] = "open"

\* The part that follows the frames w, when their reader waits for r.
NextPart(w, r) ==
  IF w = << >> THEN (IF r = "body" THEN "body" ELSE "length")
  ELSE IF w[Len(w)].part = "length" THEN "body" ELSE "length"

\* The message whose length was written by whoever holds writeMu of n on s.
HalfWritten(s, n) ==
  IF writer[s][n] \in Reqs THEN Message("request", writer[s][n])
  ELSE Message("reply", loop[s][n])

\* Neither end of s has closed, as far as n can tell.
Alive(s, n) == end[s][n] \notin {"closing", "closed"} /\ ~Dead(n, s)

\* What n may still write on s continues the frames on the way: the counters differ
\* by their number, and writeMu is held between the length and the body.
Continues(s, n) ==
  LET w == wire[s][n] IN
  /\ sendCount[s][n] = recvCount[s][Other(n)] + Len(w)
  /\ NextPart(w, loop[s][Other(n)]) = IF writer[s][n] = None THEN "length" ELSE "body"
  /\ writer[s][n] # None /\ w # << >> => w[Len(w)].msg = HalfWritten(s, n)
  /\ writer[s][n] \in Nodes => loop[s][n] \in Reqs

WritesContinue == \A s \in Socks, n \in Nodes : Alive(s, n) => Continues(s, n)

\* FramesInStep also before the end that reads them is open.
FramesFollow ==
  \A s \in Socks, n \in Nodes : end[s][n] \notin {"closing", "closed"} =>
    InStep(wire[s][Other(n)], recvCount[s][n], loop[s][n])

\* What keeps ChannelSound.
ChannelInv == PairInv /\ ReqTypeOK /\ EndsInUse /\ WritesContinue /\ FramesFollow

\* Request keeps the promise of Call, for every interleaving of callers, read
\* loops, crossing dials, timeouts and broken sockets: handled at most once, one
\* result, and a reply only to the request it answers.
Outcome(q) ==
  CASE req[q] \in {"idle", "failed"} -> req[q]
    [] req[q] = "answered" -> IF chan[q] = Message("reply", q) THEN "answered" ELSE "garbled"
    [] OTHER -> "open"
Promise == INSTANCE Call WITH call <- [q \in Reqs |-> Outcome(q)]
CallsKept == Promise!CallSpec

\* Both read loops of a socket wait for room to write a reply.
Stuck(s) ==
  \A n \in Nodes : loop[s][n] \in Reqs /\ Len(wire[s][n]) = BufFrames /\ ~Dead(n, s)

Done(q) == req[q] \in {"answered", "failed"}

\* "waits for a reply carrying the same ReqID, or until timeout": every Request
\* returns, whatever breaks, unless its two peers' read loops block each other.
RequestsReturn ==
  []<>((\E s \in Socks : Stuck(s)) \/ \A q \in Reqs : req[q] = "idle" \/ Done(q))

\* Without that exception: what the comment says.
RequestTimesOut == []<>(\A q \in Reqs : req[q] = "idle" \/ Done(q))
=============================================================================
