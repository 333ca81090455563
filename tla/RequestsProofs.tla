---------------------------- MODULE RequestsProofs ----------------------------
(***************************************************************************)
(* Request keeps the promise of Call for any number of requests and of     *)
(* sockets: CallInv is inductive, and under it every step of the two peers *)
(* is a step of Call.  And the channel below stays sound: ChannelInv says  *)
(* what may still be written on a socket, so that whatever is written is   *)
(* what the reader at the other end expects.                               *)
(***************************************************************************)
EXTENDS Requests, TLAPS

\* There are two peers.
LEMMA OtherNode ==
  ASSUME NEW n \in Nodes
  PROVE  Other(n) \in Nodes /\ Other(n) # n /\ Other(Other(n)) = n
BY PairAssumption DEF Other

\* The entry of one end of one socket is updated.
LEMMA EndUpdate ==
  ASSUME NEW V, NEW F \in [Socks -> [Nodes -> V]], NEW s \in Socks, NEW n \in Nodes, NEW v \in V
  PROVE  /\ [F EXCEPT ![s][n] = v] \in [Socks -> [Nodes -> V]]
         /\ \A t \in Socks, m \in Nodes :
              [F EXCEPT ![s][n] = v][t][m] = IF t = s /\ m = n THEN v ELSE F[t][m]
OBVIOUS

\* What the buffers of a socket hold after a write,
LEMMA AppendFacts ==
  ASSUME NEW S, NEW w \in Seq(S), NEW f \in S
  PROVE  /\ Append(w, f) \in Seq(S)
         /\ Len(Append(w, f)) = Len(w) + 1
         /\ \A i \in 1..Len(Append(w, f)) : Append(w, f)[i] = IF i <= Len(w) THEN w[i] ELSE f
OBVIOUS

\* and after a read.
LEMMA TailFacts ==
  ASSUME NEW S, NEW w \in Seq(S), w # << >>
  PROVE  /\ Len(w) \in Nat /\ 1 <= Len(w) /\ Head(w) = w[1] /\ w[1] \in S
         /\ Tail(w) \in Seq(S) /\ Len(Tail(w)) = Len(w) - 1
         /\ \A i \in 1..Len(Tail(w)) : Tail(w)[i] = w[i + 1]
OBVIOUS
-----------------------------------------------------------------------------
(* The invariant *)

\* Requests that have not been written, and those that have.
Early == {"idle", "dialing", "joining", "connected"}
Sent == {"waiting", "answered", "failed"}

\* At most one call of a peer dials at a time.
DialInv ==
  /\ \A q \in Reqs : req[q] = "dialing" => dialing[Owner[q]]
  /\ \A p, q \in Reqs : req[p] = "dialing" /\ req[q] = "dialing" /\ Owner[p] = Owner[q] => p = q

\* A call is pending while it is sent and waited for; what is in its channel is the
\* reply to it, and it was handled.
CallerInv ==
  /\ \A q \in pending : req[q] \in {"sending", "waiting"}
  /\ \A q \in Reqs : req[q] \in {"sending", "waiting"} => sock[q] \in Socks
  /\ \A q \in Reqs : chan[q] # None => chan[q] = Message("reply", q) /\ q \in served
  /\ \A q \in Reqs : req[q] = "answered" => chan[q] # None
  /\ \A q \in served : req[q] \in Sent

\* A read loop replies to requests it has handled.
LoopInv == \A s \in Socks, n \in Nodes : loop[s][n] \in Reqs => loop[s][n] \in served

\* A frame of n on s, with the calls r, their connections k and the handled requests h:
\* replies are to handled requests, requests come from their owner on the socket it
\* looked up, and a body that is still unread was not handled.
FrameOK(r, k, h, s, n, f) ==
  IF f.msg.kind = "reply" THEN f.msg.id \in h
  ELSE /\ Owner[f.msg.id] = n /\ k[f.msg.id] = s /\ r[f.msg.id] \notin Early
       /\ f.part = "body" => f.msg.id \notin h /\ r[f.msg.id] # "sending"

RequestBody(f) == f.part = "body" /\ f.msg.kind = "request"

\* The frames w on the way; the body of a request is on its way once.
WireOK(r, k, h, s, n, w) ==
  /\ \A i \in 1..Len(w) : FrameOK(r, k, h, s, n, w[i])
  /\ \A i, j \in 1..Len(w) :
       RequestBody(w[i]) /\ RequestBody(w[j]) /\ w[i].msg.id = w[j].msg.id => i = j

WireInv == \A s \in Socks, n \in Nodes : WireOK(req, sock, served, s, n, wire[s][n])

TypeInv ==
  /\ ReqTypeOK
  /\ conn \in [Nodes -> Socks \cup {None}]
  /\ dialing \in [Nodes -> BOOLEAN]

CallInv == TypeInv /\ DialInv /\ CallerInv /\ LoopInv /\ WireInv

\* Before any call everything is empty.
LEMMA CallStarts == ReqInit => CallInv
<1> SUFFICES ASSUME ReqInit PROVE CallInv
  OBVIOUS
<1> USE RequestsAssumption
<1>1. TypeInv
  BY DEF ReqInit, PairInit, TypeInv, ReqTypeOK, Calls
<1>2. DialInv /\ CallerInv
  BY DEF ReqInit, DialInv, CallerInv
<1>3. LoopInv
  BY DEF ReqInit, LoopInv
<1>4. WireInv
  BY DEF ReqInit, WireInv, WireOK
<1> QED
  BY <1>1, <1>2, <1>3, <1>4 DEF CallInv

-----------------------------------------------------------------------------
(* Shapes *)

\* The writes of a message keep the shapes of the frames.
LEMMA WriteTypes ==
  ASSUME TypeInv, NEW w \in Reqs \cup Nodes, NEW n \in Nodes, NEW s \in Socks, NEW m \in Messages,
         WriteLength(w, n, s, m) \/ WriteBody(w, n, s, m) \/ WriteFails(w, n, s)
  PROVE  /\ wire' \in [Socks -> [Nodes -> Seq(Frames)]]
         /\ sendCount' \in [Socks -> [Nodes -> Nat]]
         /\ recvCount' \in [Socks -> [Nodes -> Nat]]
         /\ writer' \in [Socks -> [Nodes -> Reqs \cup Nodes \cup {None}]]
<1> USE DEF TypeInv, ReqTypeOK
<1>1. /\ sendCount' \in [Socks -> [Nodes -> Nat]]
      /\ recvCount' \in [Socks -> [Nodes -> Nat]]
      /\ writer' \in [Socks -> [Nodes -> Reqs \cup Nodes \cup {None}]]
  <2>1. sendCount' = [sendCount EXCEPT ![s][n] = @ + 1] /\ UNCHANGED recvCount
    BY Zenon DEF WriteLength, WriteBody, WriteFails
  <2>2. writer' = [writer EXCEPT ![s][n] = w] \/ writer' = [writer EXCEPT ![s][n] = None]
    BY Zenon DEF WriteLength, WriteBody, WriteFails
  <2>3. sendCount' \in [Socks -> [Nodes -> Nat]]
    BY <2>1
  <2>4. writer' \in [Socks -> [Nodes -> Reqs \cup Nodes \cup {None}]]
    <3>1. writer \in [Socks -> [Nodes -> Reqs \cup Nodes \cup {None}]]
      OBVIOUS
    <3> HIDE DEF TypeInv, ReqTypeOK
    <3>2. \A x \in Reqs \cup Nodes \cup {None} :
            [writer EXCEPT ![s][n] = x] \in [Socks -> [Nodes -> Reqs \cup Nodes \cup {None}]]
      BY <3>1, EndUpdate
    <3> QED
      BY <2>2, <3>2
  <2> QED
    BY <2>1, <2>3, <2>4
<1>2. ASSUME NEW f \in Frames, wire' = [wire EXCEPT ![s][n] = Append(@, f)]
      PROVE  wire' \in [Socks -> [Nodes -> Seq(Frames)]]
  <2>1. Append(wire[s][n], f) \in Seq(Frames)
    BY AppendFacts
  <2> QED
    BY <1>2, <2>1
<1>3. [nonce |-> sendCount[s][n], part |-> "length", msg |-> m] \in Frames
  BY DEF Frames
<1>4. [nonce |-> sendCount[s][n], part |-> "body", msg |-> m] \in Frames
  BY DEF Frames
<1>5. wire' \in [Socks -> [Nodes -> Seq(Frames)]]
  BY ZenonT(60), <1>2, <1>3, <1>4 DEF WriteLength, WriteBody, WriteFails
<1> QED
  BY <1>1, <1>5

\* Delivering a message keeps the shapes of the tables.
LEMMA HandleTypes ==
  ASSUME TypeInv, NEW n \in Nodes, NEW s \in Socks, NEW m \in Messages, handleMessage(n, s, m)
  PROVE  /\ chan' \in [Reqs -> Messages \cup {None}]
         /\ pending' \in SUBSET Reqs /\ served' \in SUBSET Reqs
         /\ loop' \in [Socks -> [Nodes -> Reqs \cup {"length", "body"}]]
<1>1. m.id \in Reqs
  BY DEF Messages
<1> USE DEF TypeInv, ReqTypeOK
<1>2. (chan' = [chan EXCEPT ![m.id] = m] \/ UNCHANGED chan)
      /\ (pending' = pending \ {m.id} \/ UNCHANGED pending)
      /\ (served' = served \cup {m.id} \/ UNCHANGED served)
      /\ \/ loop' = [loop EXCEPT ![s][n] = "length"]
         \/ loop' = [loop EXCEPT ![s][n] = m.id]
  BY DEF handleMessage
<1>3. chan' \in [Reqs -> Messages \cup {None}]
  BY ZenonT(60), <1>1, <1>2
<1>4. loop' \in [Socks -> [Nodes -> Reqs \cup {"length", "body"}]]
  <2>1. "length" \in Reqs \cup {"length", "body"} /\ m.id \in Reqs \cup {"length", "body"}
    BY <1>1
  <2>2. loop \in [Socks -> [Nodes -> Reqs \cup {"length", "body"}]]
    OBVIOUS
  <2> HIDE DEF TypeInv, ReqTypeOK
  <2>3. \A x \in Reqs \cup {"length", "body"} :
          [loop EXCEPT ![s][n] = x] \in [Socks -> [Nodes -> Reqs \cup {"length", "body"}]]
    BY <2>2, EndUpdate
  <2> QED
    BY <1>2, <2>1, <2>3
<1> QED
  BY <1>1, <1>2, <1>3, <1>4

\* A read loop that reads a frame.
LEMMA ReadTypes ==
  ASSUME TypeInv, NEW n \in Nodes, NEW s \in Socks, ReadFrame(n, s)
  PROVE  TypeInv'
<1> DEFINE w == wire[s][Other(n)]
           f == Head(w)
<1>1. Other(n) \in Nodes /\ w \in Seq(Frames) /\ w # << >>
  BY OtherNode, Zenon DEF TypeInv, ReqTypeOK, ReadFrame
<1>2. f \in Frames /\ f.msg \in Messages /\ Tail(w) \in Seq(Frames)
  <2>1. f = w[1] /\ w[1] \in Frames /\ Tail(w) \in Seq(Frames)
    BY <1>1, TailFacts
  <2> QED
    BY <2>1, Zenon DEF Frames
<1>3. /\ wire' \in [Socks -> [Nodes -> Seq(Frames)]]
      /\ recvCount' \in [Socks -> [Nodes -> Nat]]
      /\ UNCHANGED <<conn, dialing, req, sock, sendCount, writer>>
  <2>1. /\ wire \in [Socks -> [Nodes -> Seq(Frames)]] /\ recvCount \in [Socks -> [Nodes -> Nat]]
        /\ wire' = [wire EXCEPT ![s][Other(n)] = Tail(@)]
        /\ recvCount' = [recvCount EXCEPT ![s][n] = @ + 1]
        /\ UNCHANGED <<conn, dialing, req, sock, sendCount, writer>>
    BY Zenon DEF TypeInv, ReqTypeOK, ReadFrame
  <2>2. wire' \in [Socks -> [Nodes -> Seq(Frames)]]
    BY <1>1, <1>2, <2>1
  <2>3. recvCount' \in [Socks -> [Nodes -> Nat]]
    BY <2>1
  <2> QED
    BY <2>1, <2>2, <2>3, Zenon
<1>4. /\ chan' \in [Reqs -> Messages \cup {None}]
      /\ pending' \in SUBSET Reqs /\ served' \in SUBSET Reqs
      /\ loop' \in [Socks -> [Nodes -> Reqs \cup {"length", "body"}]]
  <2>1. CASE handleMessage(n, s, f.msg)
    BY <1>2, <2>1, HandleTypes, Zenon
  <2>2. CASE loop' = [loop EXCEPT ![s][n] = "body"] /\ UNCHANGED <<chan, pending, served>>
    BY <2>2 DEF TypeInv, ReqTypeOK
  <2>3. CASE UNCHANGED <<loop, chan, pending, served>>
    BY <2>3 DEF TypeInv, ReqTypeOK
  <2> QED
    BY <2>1, <2>2, <2>3, Zenon DEF ReadFrame
<1> QED
  BY <1>3, <1>4, Zenon DEF TypeInv, ReqTypeOK

\* Every other step.
LEMMA TypeStep == CallInv /\ [ReqNext]_reqVars => TypeInv'
<1> SUFFICES ASSUME CallInv, [ReqNext]_reqVars PROVE TypeInv'
  BY Zenon
<1> USE RequestsAssumption DEF TypeInv, ReqTypeOK, Calls, CallInv
<1>1. ASSUME NEW q \in Reqs, BeginConnected(q) \/ BeginJoins(q) \/ Woken(q) PROVE TypeInv'
  BY ZenonT(60), <1>1 DEF BeginConnected, BeginJoins, Woken, pairVars, frameVars
<1>2. ASSUME NEW q \in Reqs, NEW s \in Socks, BeginDials(q, s) PROVE TypeInv'
  BY <1>2, Zenon DEF BeginDials, Dial, frameVars
<1>3. ASSUME NEW n \in Nodes, NEW s \in Socks, HandshakeEnds(n, s) PROVE TypeInv'
  <2>1. conn' \in [Nodes -> Socks \cup {None}]
    BY ZenonT(60), <1>3 DEF HandshakeEnds, Register, Dedup, HandshakeFails
  <2>2. dialing' = [dialing EXCEPT ![n] = FALSE] \/ dialing' = dialing
    BY <1>3, Zenon DEF HandshakeEnds, Register, Dedup, HandshakeFails, HandshakeOver
  <2>3. dialing' \in [Nodes -> BOOLEAN]
    BY ZenonT(60), <2>2
  <2>4. req' \in [Reqs -> Calls]
    BY <1>3 DEF HandshakeEnds, DialReturns
  <2> QED
    BY <1>3, <2>1, <2>3, <2>4, Zenon DEF HandshakeEnds, frameVars
<1>4. ASSUME NEW q \in Reqs, Send(q) \/ Answer(q) \/ Timeout(q) PROVE TypeInv'
  <2>1. CASE Send(q)
    <3>1. conn[Owner[q]] \in Socks \cup {None}
      OBVIOUS
    <3>2. /\ req' = [req EXCEPT ![q] = "failed"] \/ req' = [req EXCEPT ![q] = "sending"]
          /\ UNCHANGED sock \/ sock' = [sock EXCEPT ![q] = conn[Owner[q]]]
          /\ UNCHANGED pending \/ pending' = pending \cup {q}
          /\ UNCHANGED <<pairVars, frameVars, chan, loop, served>>
      BY <2>1 DEF Send
    <3>3. req' \in [Reqs -> Calls] /\ sock' \in [Reqs -> Socks \cup {None}]
      BY ZenonT(60), <3>1, <3>2
    <3> QED
      BY <3>2, <3>3, Zenon DEF pairVars, frameVars
  <2>2. CASE Answer(q) \/ Timeout(q)
    BY ZenonT(60), <2>2 DEF Answer, Timeout, pairVars, frameVars
  <2> QED
    BY <1>4, <2>1, <2>2, ZenonT(60)
<1>5. ASSUME NEW q \in Reqs, SendLength(q) \/ SendBody(q) \/ SendFails(q) PROVE TypeInv'
  <2>1. Owner[q] \in Nodes /\ sock[q] \in Socks /\ Message("request", q) \in Messages
    BY <1>5, Zenon DEF SendLength, SendBody, SendFails, CallerInv, Message, Messages
  <2>2. \/ WriteLength(q, Owner[q], sock[q], Message("request", q))
        \/ WriteBody(q, Owner[q], sock[q], Message("request", q))
        \/ WriteFails(q, Owner[q], sock[q])
    BY <1>5, Zenon DEF SendLength, SendBody, SendFails
  <2>3. /\ wire' \in [Socks -> [Nodes -> Seq(Frames)]]
        /\ sendCount' \in [Socks -> [Nodes -> Nat]]
        /\ recvCount' \in [Socks -> [Nodes -> Nat]]
        /\ writer' \in [Socks -> [Nodes -> Reqs \cup Nodes \cup {None}]]
    BY <2>1, <2>2, WriteTypes, Zenon
  <2> QED
    BY ZenonT(60), <1>5, <2>3 DEF SendLength, SendBody, SendFails, callerVars, pairVars
<1>6. ASSUME NEW n \in Nodes, NEW s \in Socks, ReplyLength(n, s) \/ ReplyBody(n, s) \/ ReplyFails(n, s)
      PROVE  TypeInv'
  <2>1. conn[n] \in Socks /\ Message("reply", loop[s][n]) \in Messages
    BY <1>6, Zenon DEF ReplyLength, ReplyBody, ReplyFails, Message, Messages
  <2>2. \/ WriteLength(n, n, conn[n], Message("reply", loop[s][n]))
        \/ WriteBody(n, n, conn[n], Message("reply", loop[s][n]))
        \/ WriteFails(n, n, conn[n])
    BY <1>6, Zenon DEF ReplyLength, ReplyBody, ReplyFails
  <2>3. /\ wire' \in [Socks -> [Nodes -> Seq(Frames)]]
        /\ sendCount' \in [Socks -> [Nodes -> Nat]]
        /\ recvCount' \in [Socks -> [Nodes -> Nat]]
        /\ writer' \in [Socks -> [Nodes -> Reqs \cup Nodes \cup {None}]]
    BY <2>1, <2>2, WriteTypes, Zenon
  <2>4. loop' = loop \/ loop' = [loop EXCEPT ![s][n] = "length"]
    BY ZenonT(60), <1>6 DEF ReplyLength, ReplyBody, ReplyFails
  <2>5. loop' \in [Socks -> [Nodes -> Reqs \cup {"length", "body"}]]
    <3>1. "length" \in Reqs \cup {"length", "body"}
      BY Zenon
    <3>2. loop \in [Socks -> [Nodes -> Reqs \cup {"length", "body"}]]
      OBVIOUS
    <3> HIDE DEF TypeInv, ReqTypeOK, CallInv
    <3>3. [loop EXCEPT ![s][n] = "length"] \in [Socks -> [Nodes -> Reqs \cup {"length", "body"}]]
      BY <3>1, <3>2, EndUpdate
    <3> QED
      BY <2>4, <3>2, <3>3, Zenon
  <2>6. UNCHANGED <<pairVars, callerVars, served>>
    BY <1>6, Zenon DEF ReplyLength, ReplyBody, ReplyFails
  <2> QED
    BY <2>3, <2>5, <2>6, Zenon DEF callerVars, pairVars
<1>7. ASSUME NEW n \in Nodes, NEW s \in Socks, ReadFrame(n, s) PROVE TypeInv'
  BY <1>7, ReadTypes, Zenon
<1>8. ASSUME NEW n \in Nodes, NEW s \in Socks, ReadEnds(n, s) \/ Cleanup(n, s) PROVE TypeInv'
  BY ZenonT(60), <1>8 DEF ReadEnds, Cleanup, SeeEOF, removeConn, frameVars, callerVars
<1>9. ASSUME NEW s \in Socks, NetworkBreaks(s) PROVE TypeInv'
  BY <1>9, Zenon DEF NetworkBreaks, Break, frameVars, callerVars
<1>10. CASE UNCHANGED reqVars
  BY <1>10, Zenon DEF reqVars, pairVars, frameVars, callerVars
<1> QED
  BY ZenonT(60), <1>1, <1>2, <1>3, <1>4, <1>5, <1>6, <1>7, <1>8, <1>9, <1>10 DEF ReqNext, CallerStep, LoopStep

-----------------------------------------------------------------------------
(* Frames on their way *)

\* The calls have moved on from r, k, h to r1, k1, h1 in a way that no frame notices.
MovedOn(r, k, h, r1, k1, h1) ==
  /\ h \subseteq h1
  /\ \A q \in Reqs : r[q] \notin Early =>
       /\ k1[q] = k[q] /\ r1[q] \notin Early
       /\ r[q] # "sending" => r1[q] # "sending"

\* Frames stay right when calls move on, unless a body among them is handled.
LEMMA WireKept ==
  ASSUME NEW r, NEW k, NEW h, NEW r1, NEW k1, NEW h1, MovedOn(r, k, h, r1, k1, h1),
         NEW s, NEW n, NEW w \in Seq(Frames), WireOK(r, k, h, s, n, w),
         \A i \in 1..Len(w) : RequestBody(w[i]) => w[i].msg.id \notin h1 \ h
  PROVE  WireOK(r1, k1, h1, s, n, w)
<1> SUFFICES ASSUME NEW i \in 1..Len(w) PROVE FrameOK(r1, k1, h1, s, n, w[i])
  BY Zenon DEF WireOK
<1>1. w[i] \in Frames
  OBVIOUS
<1>2. w[i].msg.id \in Reqs /\ w[i].msg.kind \in {"request", "reply"}
  BY <1>1, Zenon DEF Frames, Messages
<1>3. FrameOK(r, k, h, s, n, w[i])
  BY DEF WireOK
<1> QED
  BY <1>2, <1>3, Zenon DEF FrameOK, MovedOn, RequestBody

\* A right frame is written that is not the second body of a request.
LEMMA WireAppended ==
  ASSUME NEW r, NEW k, NEW h, NEW s, NEW n, NEW w \in Seq(Frames), WireOK(r, k, h, s, n, w),
         NEW f \in Frames, FrameOK(r, k, h, s, n, f),
         RequestBody(f) => \A i \in 1..Len(w) : RequestBody(w[i]) => w[i].msg.id # f.msg.id
  PROVE  WireOK(r, k, h, s, n, Append(w, f))
<1> DEFINE x == Append(w, f)
<1>1. /\ Len(w) \in Nat /\ Len(x) = Len(w) + 1
      /\ \A i \in 1..Len(x) : x[i] = IF i <= Len(w) THEN w[i] ELSE f
  BY AppendFacts
<1> HIDE DEF x
<1>2. ASSUME NEW i \in 1..Len(x) PROVE FrameOK(r, k, h, s, n, x[i])
  BY <1>1, <1>2 DEF WireOK
<1>3. ASSUME NEW i \in 1..Len(x), NEW j \in 1..Len(x),
             RequestBody(x[i]), RequestBody(x[j]), x[i].msg.id = x[j].msg.id
      PROVE  i = j
  <2>1. i <= Len(w) => i \in 1..Len(w) /\ x[i] = w[i]
    BY <1>1
  <2>2. j <= Len(w) => j \in 1..Len(w) /\ x[j] = w[j]
    BY <1>1
  <2>3. i > Len(w) => i = Len(w) + 1 /\ x[i] = f
    BY <1>1
  <2>4. j > Len(w) => j = Len(w) + 1 /\ x[j] = f
    BY <1>1
  <2>5. CASE i <= Len(w) /\ j <= Len(w)
    BY <1>3, <2>1, <2>2, <2>5, Zenon DEF WireOK
  <2>6. CASE i <= Len(w) /\ j > Len(w)
    BY <1>3, <2>1, <2>4, <2>6, Zenon
  <2>7. CASE i > Len(w) /\ j <= Len(w)
    BY <1>3, <2>2, <2>3, <2>7, Zenon
  <2>8. CASE i > Len(w) /\ j > Len(w)
    BY <2>3, <2>4, <2>8, Zenon
  <2> QED
    BY <1>1, <2>5, <2>6, <2>7, <2>8
<1>4. WireOK(r, k, h, s, n, x)
  BY <1>2, <1>3, Zenon DEF WireOK
<1> QED
  BY <1>4 DEF x

\* The first frame is read: no other body of its request is on the way.
LEMMA WireRead ==
  ASSUME NEW r, NEW k, NEW h, NEW s, NEW n, NEW w \in Seq(Frames), w # << >>,
         WireOK(r, k, h, s, n, w)
  PROVE  /\ WireOK(r, k, h, s, n, Tail(w))
         /\ FrameOK(r, k, h, s, n, Head(w))
         /\ RequestBody(Head(w)) => \A i \in 1..Len(Tail(w)) :
              RequestBody(Tail(w)[i]) => Tail(w)[i].msg.id # Head(w).msg.id
<1> DEFINE x == Tail(w)
<1>1. /\ Len(w) \in Nat /\ 1 <= Len(w) /\ Head(w) = w[1] /\ Len(x) = Len(w) - 1
      /\ \A i \in 1..Len(x) : x[i] = w[i + 1]
  BY TailFacts
<1> HIDE DEF x
<1>2. \A i \in 1..Len(x) : i + 1 \in 1..Len(w) /\ x[i] = w[i + 1]
  BY <1>1
<1>3. \A i \in 1..Len(x) : FrameOK(r, k, h, s, n, x[i])
  BY <1>2 DEF WireOK
<1>4. ASSUME NEW i \in 1..Len(x), NEW j \in 1..Len(x),
             RequestBody(x[i]), RequestBody(x[j]), x[i].msg.id = x[j].msg.id
      PROVE  i = j
  <2>1. i + 1 = j + 1
    BY <1>2, <1>4, Zenon DEF WireOK
  <2> QED
    BY <1>1, <2>1
<1>5. ASSUME RequestBody(w[1]), NEW i \in 1..Len(x), RequestBody(x[i]) PROVE x[i].msg.id # w[1].msg.id
  <2>1. 1 \in 1..Len(w) /\ i + 1 # 1
    BY <1>1
  <2> QED
    BY <1>2, <1>5, <2>1, Zenon DEF WireOK
<1>6. FrameOK(r, k, h, s, n, w[1])
  BY <1>1 DEF WireOK
<1>7. WireOK(r, k, h, s, n, x)
  BY <1>3, <1>4, Zenon DEF WireOK
<1> QED
  BY <1>1, <1>5, <1>6, <1>7, Zenon DEF x

-----------------------------------------------------------------------------
(* Calls, loops and frames *)

RestInv == DialInv /\ CallerInv /\ LoopInv /\ WireInv

\* Steps that neither dial nor end a dial.
LEMMA DialKept ==
  ASSUME DialInv, UNCHANGED dialing, \A q \in Reqs : req'[q] = "dialing" => req[q] = "dialing"
  PROVE  DialInv'
BY DEF DialInv

\* Steps that only move calls on.
LEMMA WireStays ==
  ASSUME TypeInv, WireInv, UNCHANGED <<wire, served>>, MovedOn(req, sock, served, req', sock', served')
  PROVE  WireInv'
<1> SUFFICES ASSUME NEW s \in Socks, NEW n \in Nodes
             PROVE  WireOK(req', sock', served', s, n, wire'[s][n])
  BY DEF WireInv
<1>1. wire[s][n] \in Seq(Frames) /\ WireOK(req, sock, served, s, n, wire[s][n])
  BY DEF TypeInv, ReqTypeOK, WireInv
<1>2. \A i \in 1..Len(wire[s][n]) : wire[s][n][i].msg.id \notin served' \ served
  BY Zenon
<1> QED
  BY <1>1, <1>2, WireKept, Zenon

\* A frame is written on s by n.
LEMMA WireGrows ==
  ASSUME TypeInv, WireInv, UNCHANGED served, MovedOn(req, sock, served, req', sock', served'),
         NEW s \in Socks, NEW n \in Nodes, NEW f \in Frames,
         wire' = [wire EXCEPT ![s][n] = Append(@, f)],
         FrameOK(req', sock', served', s, n, f),
         RequestBody(f) => \A i \in 1..Len(wire[s][n]) :
                             RequestBody(wire[s][n][i]) => wire[s][n][i].msg.id # f.msg.id
  PROVE  WireInv'
<1> SUFFICES ASSUME NEW t \in Socks, NEW m \in Nodes
             PROVE  WireOK(req', sock', served', t, m, wire'[t][m])
  BY Zenon DEF WireInv
<1>1. wire \in [Socks -> [Nodes -> Seq(Frames)]] /\ Append(wire[s][n], f) \in Seq(Frames)
  BY AppendFacts DEF TypeInv, ReqTypeOK
<1>2. wire'[t][m] = IF t = s /\ m = n THEN Append(wire[s][n], f) ELSE wire[t][m]
  BY <1>1, EndUpdate
<1>3. WireOK(req', sock', served', t, m, wire[t][m])
  <2>1. wire[t][m] \in Seq(Frames) /\ WireOK(req, sock, served, t, m, wire[t][m])
    BY <1>1, Zenon DEF WireInv
  <2>2. \A i \in 1..Len(wire[t][m]) : wire[t][m][i].msg.id \notin served' \ served
    BY Zenon
  <2> QED
    BY <2>1, <2>2, WireKept, Zenon
<1>4. CASE t = s /\ m = n
  <2>1. wire[t][m] \in Seq(Frames)
    BY <1>1, Zenon
  <2>2. WireOK(req', sock', served', s, n, Append(wire[s][n], f))
    BY <1>3, <1>4, <2>1, WireAppended, Zenon
  <2> QED
    BY <1>2, <1>4, <2>2, Zenon
<1>5. CASE ~(t = s /\ m = n)
  BY <1>2, <1>3, <1>5, Zenon
<1> QED
  BY <1>4, <1>5, Zenon

\* A call begins, wakes, looks its connection up, or ends.
LEMMA CallsMove ==
  ASSUME CallInv, NEW q \in Reqs,
         \/ BeginConnected(q) \/ BeginJoins(q) \/ Woken(q) \/ Send(q)
         \/ SendFails(q) \/ Answer(q) \/ Timeout(q)
  PROVE  RestInv'
<1>1. /\ \E to \in Calls \ {"idle", "dialing"} : req' = [req EXCEPT ![q] = to]
      /\ UNCHANGED <<pairVars, wire, chan, loop, served>>
  BY Zenon DEF BeginConnected, BeginJoins, Woken, Send, SendFails, Answer, Timeout, WriteFails, frameVars,
         Calls
<1>2. req \in [Reqs -> Calls]
  BY Zenon DEF CallInv, TypeInv, ReqTypeOK
<1>3. DialInv'
  <2>1. \A p \in Reqs : req'[p] = "dialing" => req[p] = "dialing"
    BY <1>1, <1>2
  <2> QED
    BY <1>1, <2>1, DialKept DEF CallInv, pairVars
<1>4. LoopInv'
  BY <1>1 DEF CallInv, LoopInv
<1>5. req[q] \notin {"answered", "failed"} /\ (req[q] # "waiting" => q \notin served)
  BY Zenon DEF BeginConnected, BeginJoins, Woken, Send, SendFails, Answer, Timeout, Ready, CallInv, CallerInv, Sent
<1>6. sock \in [Reqs -> Socks \cup {None}] /\ pending \subseteq Reqs
  BY DEF CallInv, TypeInv, ReqTypeOK
<1>7. \A p \in Reqs \ {q} : req'[p] = req[p] /\ sock'[p] = sock[p] /\ (p \in pending' => p \in pending)
  <2>1. sock' = sock \/ sock' = [sock EXCEPT ![q] = conn[Owner[q]]]
    BY Zenon DEF BeginConnected, BeginJoins, Woken, Send, SendFails, Answer, Timeout
  <2>2. pending' \subseteq pending \cup {q}
    BY Zenon DEF BeginConnected, BeginJoins, Woken, Send, SendFails, Answer, Timeout
  <2> QED
    BY <1>1, <1>2, <1>6, <2>1, <2>2, Zenon
<1>8. \/ req[q] \in Early /\ req'[q] \in {"connected", "joining", "failed"} /\ q \notin pending'
      \/ req[q] \in Early /\ req'[q] = "sending" /\ sock'[q] \in Socks
      \/ req[q] \in {"sending", "waiting"} /\ req'[q] = "failed" /\ UNCHANGED sock /\ q \notin pending'
      \/ req[q] = "waiting" /\ req'[q] = "answered" /\ UNCHANGED sock /\ q \notin pending' /\ chan[q] # None
  <2>1. CASE BeginConnected(q) \/ BeginJoins(q) \/ Woken(q)
    BY ZenonT(60), <1>2, <2>1 DEF BeginConnected, BeginJoins, Woken, Ready, Early, CallInv, CallerInv
  <2>2. CASE Send(q)
    <3>1. conn[Owner[q]] \in Socks \cup {None}
      BY RequestsAssumption DEF CallInv, TypeInv
    <3>2. q \notin pending
      BY <2>2, Zenon DEF Send, CallInv, CallerInv
    <3>3. CASE conn[Owner[q]] = None
      BY <1>2, <2>2, <3>2, <3>3, Zenon DEF Send, Early
    <3>4. CASE conn[Owner[q]] # None
      BY <1>2, <1>6, <2>2, <3>1, <3>4, Zenon DEF Send, Early
    <3> QED
      BY <3>3, <3>4, Zenon
  <2>3. CASE SendFails(q) \/ Answer(q) \/ Timeout(q)
    BY <1>2, <2>3, Zenon DEF SendFails, Answer, Timeout
  <2> QED
    BY <2>1, <2>2, <2>3, Zenon
<1>9. WireInv'
  <2>1. MovedOn(req, sock, served, req', sock', served')
    BY <1>1, <1>7, <1>8, Zenon DEF MovedOn, Early
  <2> QED
    BY <1>1, <2>1, WireStays, Zenon DEF CallInv
<1>10. CallerInv'
  <2>1. pending' \subseteq Reqs
    BY <1>6, Zenon DEF BeginConnected, BeginJoins, Woken, Send, SendFails, Answer, Timeout
  <2>2. \A p \in pending' : req'[p] \in {"sending", "waiting"}
    BY <1>7, <1>8, <2>1, Zenon DEF CallInv, CallerInv
  <2>3. \A p \in Reqs : req'[p] \in {"sending", "waiting"} => sock'[p] \in Socks
    BY <1>7, <1>8, Zenon DEF CallInv, CallerInv
  <2>4. \A p \in Reqs : chan'[p] # None => chan'[p] = Message("reply", p) /\ p \in served'
    BY <1>1, Zenon DEF CallInv, CallerInv
  <2>5. \A p \in Reqs : req'[p] = "answered" => chan'[p] # None
    BY <1>1, <1>7, <1>8, Zenon DEF CallInv, CallerInv
  <2>6. served \subseteq Reqs
    BY Zenon DEF CallInv, TypeInv, ReqTypeOK
  <2>7. \A p \in served' : req'[p] \in Sent
    BY <1>1, <1>5, <1>7, <1>8, <2>6, Zenon DEF CallInv, CallerInv, Sent, Early
  <2> QED
    BY <2>2, <2>3, <2>4, <2>5, <2>7, Zenon DEF CallerInv
<1> QED
  BY <1>3, <1>4, <1>9, <1>10 DEF RestInv


\* A call dials: nobody of its peer was dialling.
LEMMA DialsMove ==
  ASSUME CallInv, NEW q \in Reqs, NEW s \in Socks, BeginDials(q, s)
  PROVE  RestInv'
<1>1. /\ req \in [Reqs -> Calls] /\ req[q] = "idle" /\ req' = [req EXCEPT ![q] = "dialing"]
      /\ dialing \in [Nodes -> BOOLEAN] /\ Owner[q] \in Nodes
      /\ ~dialing[Owner[q]] /\ dialing' = [dialing EXCEPT ![Owner[q]] = TRUE]
      /\ UNCHANGED <<wire, sock, pending, chan, loop, served>>
      /\ pending \subseteq Reqs /\ served \subseteq Reqs
  BY ZenonT(60), RequestsAssumption DEF CallInv, TypeInv, ReqTypeOK, BeginDials, Ready, Dial, frameVars
<1>2. DialInv'
  <2>1. \A p \in Reqs : Owner[p] \in Nodes
    BY RequestsAssumption
  <2>2. \A p \in Reqs : req[p] = "dialing" => Owner[p] # Owner[q]
    BY <1>1, Zenon DEF CallInv, DialInv
  <2>3. \A p \in Reqs : req'[p] = "dialing" => p = q \/ req[p] = "dialing"
    BY <1>1
  <2>4. dialing'[Owner[q]] /\ \A p \in Reqs : Owner[p] # Owner[q] => (dialing[Owner[p]] => dialing'[Owner[p]])
    BY <1>1, <2>1, Zenon
  <2> QED
    BY <2>2, <2>3, <2>4, Zenon DEF CallInv, DialInv
<1>3. CallerInv'
  BY <1>1, Zenon DEF CallInv, CallerInv, Sent
<1>4. LoopInv'
  BY <1>1, Zenon DEF CallInv, LoopInv
<1>5. WireInv'
  <2>1. MovedOn(req, sock, served, req', sock', served')
    BY <1>1, Zenon DEF MovedOn, Early
  <2> QED
    BY <1>1, <2>1, WireStays, Zenon DEF CallInv
<1> QED
  BY <1>2, <1>3, <1>4, <1>5, Zenon DEF RestInv

\* A handshake ends, and with it the dial and the call that dials.
LEMMA HandshakesMove ==
  ASSUME CallInv, NEW n \in Nodes, NEW s \in Socks, HandshakeEnds(n, s)
  PROVE  RestInv'
<1>1. /\ UNCHANGED <<wire, sock, pending, chan, loop, served>>
      /\ pending \subseteq Reqs /\ served \subseteq Reqs
      /\ dialing \in [Nodes -> BOOLEAN]
      /\ dialing' = IF n = dialedBy[s] THEN [dialing EXCEPT ![n] = FALSE] ELSE dialing
  BY Zenon DEF CallInv, TypeInv, ReqTypeOK, HandshakeEnds, Register, Dedup, HandshakeFails, HandshakeOver,
         frameVars
<1>2. \A p \in Reqs :
        \/ req'[p] = req[p] /\ ~(req[p] = "dialing" /\ Owner[p] = n /\ dialedBy[s] = n)
        \/ req[p] = "dialing" /\ req'[p] \in {"connected", "failed"}
  BY Zenon DEF HandshakeEnds, DialReturns
<1>3. DialInv'
  <2>1. \A p \in Reqs : Owner[p] \in Nodes
    BY RequestsAssumption, Zenon
  <2>2. \A p \in Reqs : req'[p] = "dialing" => req[p] = "dialing" /\ (n = dialedBy[s] => Owner[p] # n)
    BY <1>2, Zenon
  <2>3. \A p \in Reqs : req'[p] = "dialing" => dialing'[Owner[p]]
    <3>1. SUFFICES ASSUME NEW p \in Reqs, req'[p] = "dialing" PROVE dialing'[Owner[p]]
      BY Zenon
    <3>2. dialing[Owner[p]]
      BY <2>2, <3>1, Zenon DEF CallInv, DialInv
    <3>3. CASE n = dialedBy[s]
      BY <1>1, <2>1, <2>2, <3>1, <3>2, <3>3, Zenon
    <3>4. CASE n # dialedBy[s]
      BY <1>1, <3>2, <3>4, Zenon
    <3> QED
      BY <3>3, <3>4, Zenon
  <2> QED
    BY <2>2, <2>3, Zenon DEF CallInv, DialInv
<1>4. CallerInv'
  BY <1>1, <1>2, Zenon DEF CallInv, CallerInv, Sent
<1>5. LoopInv'
  BY <1>1, Zenon DEF CallInv, LoopInv
<1>6. WireInv'
  <2>1. MovedOn(req, sock, served, req', sock', served')
    BY <1>1, <1>2, Zenon DEF MovedOn, Early
  <2> QED
    BY <1>1, <2>1, WireStays, Zenon DEF CallInv
<1> QED
  BY <1>3, <1>4, <1>5, <1>6 DEF RestInv

\* A call writes its message: there is no body of it yet.
LEMMA SendsMove ==
  ASSUME CallInv, NEW q \in Reqs, SendLength(q) \/ SendBody(q)
  PROVE  RestInv'
<1> DEFINE n == Owner[q]
           s == sock[q]
           m == Message("request", q)
<1>1. /\ n \in Nodes /\ s \in Socks /\ m \in Messages /\ m.kind = "request" /\ m.id = q
      /\ req[q] = "sending" /\ req \in [Reqs -> Calls] /\ sendCount[s][n] \in Nat
      /\ pending \subseteq Reqs /\ served \subseteq Reqs /\ q \notin served
  <2>1. req[q] = "sending"
    BY Zenon DEF SendLength, SendBody
  <2>2. s \in Socks /\ q \notin served
    BY <2>1, Zenon DEF CallInv, CallerInv, Sent
  <2> QED
    BY <2>1, <2>2, RequestsAssumption DEF CallInv, TypeInv, ReqTypeOK, Message, Messages
<1>2. UNCHANGED <<pairVars, sock, pending, chan, loop, served>>
  BY Zenon DEF SendLength, SendBody, callerVars
<1>3. CASE SendLength(q)
  <2> DEFINE f == [nonce |-> sendCount[s][n], part |-> "length", msg |-> m]
  <2>1. req' = req /\ wire' = [wire EXCEPT ![s][n] = Append(@, f)]
    BY <1>3, Zenon DEF SendLength, WriteLength, callerVars
  <2>2. f \in Frames /\ ~RequestBody(f)
    BY <1>1, Zenon DEF Frames, RequestBody
  <2>3. FrameOK(req', sock', served', s, n, f)
    BY <1>1, <1>2, <2>1, Zenon DEF FrameOK, Early
  <2>4. MovedOn(req, sock, served, req', sock', served')
    BY <1>2, <2>1, Zenon DEF MovedOn
  <2> HIDE DEF f, n, s, m
  <2>5. WireInv'
    BY ZenonT(60), <1>1, <1>2, <2>1, <2>2, <2>3, <2>4, WireGrows DEF CallInv
  <2> QED
    BY <1>2, <2>1, <2>5, Zenon DEF RestInv, CallInv, DialInv, CallerInv, LoopInv, pairVars
<1>4. CASE SendBody(q)
  <2> DEFINE f == [nonce |-> sendCount[s][n], part |-> "body", msg |-> m]
  <2>1. req' = [req EXCEPT ![q] = "waiting"] /\ wire' = [wire EXCEPT ![s][n] = Append(@, f)]
    BY <1>4, Zenon DEF SendBody, WriteBody
  <2>2. f \in Frames /\ f.msg.id = q
    BY <1>1, Zenon DEF Frames
  <2>3. FrameOK(req', sock', served', s, n, f)
    BY <1>1, <1>2, <2>1, Zenon DEF FrameOK, Early
  <2>4. MovedOn(req, sock, served, req', sock', served')
    BY <1>1, <1>2, <2>1, Zenon DEF MovedOn, Early
  <2>5. \A i \in 1..Len(wire[s][n]) : RequestBody(wire[s][n][i]) => wire[s][n][i].msg.id # f.msg.id
    <3>1. \A i \in 1..Len(wire[s][n]) : FrameOK(req, sock, served, s, n, wire[s][n][i])
      BY ZenonT(60), <1>1 DEF CallInv, WireInv, WireOK
    <3> QED
      BY ZenonT(60), <1>1, <2>2, <3>1 DEF FrameOK, RequestBody
  <2> HIDE DEF f, n, s, m
  <2>6. WireInv'
    BY ZenonT(60), <1>1, <1>2, <2>1, <2>2, <2>3, <2>4, <2>5, WireGrows DEF CallInv
  <2>7. \A p \in Reqs : req'[p] = IF p = q THEN "waiting" ELSE req[p]
    BY <1>1, <2>1, Zenon
  <2>8. DialInv' /\ LoopInv'
    BY <1>2, <2>7, DialKept, Zenon DEF CallInv, LoopInv, pairVars
  <2>9. CallerInv'
    BY <1>1, <1>2, <2>7, Zenon DEF CallInv, CallerInv, Sent, s
  <2> QED
    BY <2>6, <2>8, <2>9, Zenon DEF RestInv
<1> QED
  BY <1>3, <1>4


\* One read loop moves on.
LEMMA LoopMoves ==
  ASSUME CallInv, NEW n \in Nodes, NEW s \in Socks, NEW v \in Reqs \cup {"length", "body"},
         loop' = [loop EXCEPT ![s][n] = v]
  PROVE  \A u \in Socks, k \in Nodes : loop'[u][k] = loop[u][k] \/ loop'[u][k] = v
<1> DEFINE V == Reqs \cup {"length", "body"}
<1>1. loop \in [Socks -> [Nodes -> V]] /\ v \in V
  BY Zenon DEF CallInv, TypeInv, ReqTypeOK
<1> HIDE DEF V
<1> QED
  BY <1>1, EndUpdate

\* A read loop writes a reply to a request it has handled, or gives it up.
LEMMA RepliesMove ==
  ASSUME CallInv, NEW n \in Nodes, NEW s \in Socks,
         ReplyLength(n, s) \/ ReplyBody(n, s) \/ ReplyFails(n, s)
  PROVE  RestInv'
<1> DEFINE q == loop[s][n]
           t == conn[n]
           m == Message("reply", q)
<1>1. /\ t \in Socks /\ q \in Reqs /\ q \in served
      /\ m \in Messages /\ m.kind = "reply" /\ m.id = q /\ sendCount[t][n] \in Nat
  <2>1. q \in Reqs /\ t # None
    BY Zenon DEF ReplyLength, ReplyBody, ReplyFails
  <2>2. t \in Socks /\ q \in served
    BY <2>1, Zenon DEF CallInv, TypeInv, LoopInv
  <2> QED
    BY <2>1, <2>2, Zenon DEF CallInv, TypeInv, ReqTypeOK, Message, Messages
<1>2. UNCHANGED <<pairVars, callerVars, served>>
  BY Zenon DEF ReplyLength, ReplyBody, ReplyFails
<1>3. DialInv' /\ CallerInv'
  BY <1>2, Zenon DEF CallInv, DialInv, CallerInv, callerVars, pairVars
<1>4. LoopInv'
  <2>1. loop' = loop \/ loop' = [loop EXCEPT ![s][n] = "length"]
    BY Zenon DEF ReplyLength, ReplyBody, ReplyFails
  <2>2. \A u \in Socks, k \in Nodes : loop'[u][k] = loop[u][k] \/ loop'[u][k] = "length"
    BY <2>1, LoopMoves
  <2> QED
    BY <1>2, <2>2, RequestsAssumption, Zenon DEF CallInv, LoopInv
<1>5. MovedOn(req, sock, served, req', sock', served')
  BY <1>2, Zenon DEF MovedOn, callerVars
<1>6. ASSUME NEW f \in Frames, f.msg = m, wire' = [wire EXCEPT ![t][n] = Append(@, f)]
      PROVE  WireInv'
  <2>1. ~RequestBody(f)
    BY <1>1, <1>6, Zenon DEF RequestBody
  <2>2. FrameOK(req', sock', served', t, n, f)
    BY <1>1, <1>2, <1>6, Zenon DEF FrameOK
  <2> HIDE DEF t, m, q
  <2> QED
    BY ZenonT(60), <1>1, <1>2, <1>5, <1>6, <2>1, <2>2, WireGrows DEF CallInv
<1>7. WireInv'
  <2>1. CASE ReplyLength(n, s)
    <3> DEFINE f == [nonce |-> sendCount[t][n], part |-> "length", msg |-> m]
    <3>1. f \in Frames /\ f.msg = m /\ wire' = [wire EXCEPT ![t][n] = Append(@, f)]
      BY <1>1, <2>1, Zenon DEF ReplyLength, WriteLength, Frames
    <3> QED
      BY ZenonT(60), <1>6, <3>1
  <2>2. CASE ReplyBody(n, s)
    <3> DEFINE f == [nonce |-> sendCount[t][n], part |-> "body", msg |-> m]
    <3>1. f \in Frames /\ f.msg = m /\ wire' = [wire EXCEPT ![t][n] = Append(@, f)]
      BY <1>1, <2>2, Zenon DEF ReplyBody, WriteBody, Frames
    <3> QED
      BY ZenonT(60), <1>6, <3>1
  <2>3. CASE ReplyFails(n, s)
    <3>1. UNCHANGED wire
      BY <2>3, Zenon DEF ReplyFails, WriteFails
    <3> QED
      BY <1>2, <1>5, <3>1, WireStays, Zenon DEF CallInv
  <2> QED
    BY <2>1, <2>2, <2>3, Zenon
<1> QED
  BY <1>3, <1>4, <1>7 DEF RestInv

\* What a message does when it is delivered: a reply ends up with its caller, a
\* request is handled for the first time.
LEMMA Delivered ==
  ASSUME CallInv, NEW n \in Nodes, NEW s \in Socks, NEW f \in Frames, f.part = "body",
         FrameOK(req, sock, served, s, Other(n), f), handleMessage(n, s, f.msg)
  PROVE  LET q == f.msg.id IN
         /\ q \in Reqs
         /\ \/ /\ q \in pending /\ q \in served /\ chan' = [chan EXCEPT ![q] = Message("reply", q)]
               /\ pending' = pending \ {q} /\ loop' = [loop EXCEPT ![s][n] = "length"]
               /\ UNCHANGED served
            \/ /\ RequestBody(f) /\ q \notin served /\ req[q] \in Sent
               /\ served' = served \cup {q} /\ loop' = [loop EXCEPT ![s][n] = q]
               /\ UNCHANGED <<chan, pending>>
            \/ loop' = [loop EXCEPT ![s][n] = "length"] /\ UNCHANGED <<chan, pending, served>>
<1> DEFINE q == f.msg.id
<1>1. q \in Reqs /\ f.msg.kind \in {"request", "reply"} /\ f.msg = [kind |-> f.msg.kind, id |-> q]
  BY Zenon DEF Frames, Messages
<1>2. Other(n) # n
  BY OtherNode
<1>3. req[q] \in Calls
  BY <1>1, Zenon DEF CallInv, TypeInv, ReqTypeOK
<1>4. CASE f.msg.kind = "reply"
  <2>1. f.msg = Message("reply", q) /\ q \in served
    BY <1>1, <1>4, Zenon DEF Message, FrameOK
  <2> QED
    BY <1>1, <1>4, <2>1, Zenon DEF handleMessage
<1>5. CASE f.msg.kind = "request"
  <2>1. Owner[q] # n /\ RequestBody(f) /\ q \notin served /\ req[q] \in Sent
    BY <1>2, <1>3, <1>5, Zenon DEF FrameOK, RequestBody, Early, Sent, Calls
  <2> QED
    BY <1>1, <1>5, <2>1, Zenon DEF handleMessage
<1> QED
  BY <1>1, <1>4, <1>5, Zenon

\* A read loop reads a frame.
LEMMA ReadsMove ==
  ASSUME CallInv, NEW n \in Nodes, NEW s \in Socks, ReadFrame(n, s)
  PROVE  RestInv'
<1> DEFINE o == Other(n)
           w == wire[s][o]
           f == Head(w)
           q == f.msg.id
<1>1. /\ o \in Nodes /\ wire \in [Socks -> [Nodes -> Seq(Frames)]] /\ w \in Seq(Frames)
      /\ w # << >> /\ wire' = [wire EXCEPT ![s][o] = Tail(w)]
      /\ UNCHANGED <<dialing, req, sock>>
  BY OtherNode, Zenon DEF CallInv, TypeInv, ReqTypeOK, ReadFrame
<1>2. /\ WireOK(req, sock, served, s, o, Tail(w)) /\ FrameOK(req, sock, served, s, o, f)
      /\ RequestBody(f) => \A i \in 1..Len(Tail(w)) :
                             RequestBody(Tail(w)[i]) => Tail(w)[i].msg.id # q
  BY ZenonT(60), <1>1, WireRead DEF CallInv, WireInv
<1>3. f \in Frames /\ Tail(w) \in Seq(Frames)
  BY <1>1, TailFacts, Zenon
<1>4. \A u \in Socks, k \in Nodes : wire'[u][k] = IF u = s /\ k = o THEN Tail(w) ELSE wire[u][k]
  BY <1>1, <1>3, EndUpdate
<1> HIDE DEF o, w, f, q
<1>5. DialInv'
  BY <1>1, DialKept, Zenon DEF CallInv
<1>6. \/ /\ q \in Reqs /\ q \in pending /\ q \in served /\ chan' = [chan EXCEPT ![q] = Message("reply", q)]
         /\ pending' = pending \ {q} /\ loop' = [loop EXCEPT ![s][n] = "length"]
         /\ UNCHANGED served
      \/ /\ q \in Reqs /\ RequestBody(f) /\ q \notin served /\ req[q] \in Sent
         /\ served' = served \cup {q} /\ loop' = [loop EXCEPT ![s][n] = q]
         /\ UNCHANGED <<chan, pending>>
      \/ /\ loop' = loop \/ loop' = [loop EXCEPT ![s][n] = "length"] \/ loop' = [loop EXCEPT ![s][n] = "body"]
         /\ UNCHANGED <<chan, pending, served>>
  <2>1. CASE f.part = "body" /\ handleMessage(n, s, f.msg)
    <3>1. FrameOK(req, sock, served, s, Other(n), f)
      BY <1>2, Zenon DEF o
    <3> QED
      BY <1>3, <2>1, <3>1, Delivered, Zenon DEF q
  <2>2. CASE loop' = [loop EXCEPT ![s][n] = "body"] /\ UNCHANGED <<chan, pending, served>>
    BY <2>2, Zenon
  <2>3. CASE UNCHANGED <<loop, chan, pending, served>>
    BY <2>3, Zenon
  <2> QED
    BY ZenonT(60), <2>1, <2>2, <2>3 DEF ReadFrame, f, w, o
<1>7. /\ loop \in [Socks -> [Nodes -> Reqs \cup {"length", "body"}]]
      /\ chan \in [Reqs -> Messages \cup {None}] /\ pending \subseteq Reqs /\ served \subseteq Reqs
  BY Zenon DEF CallInv, TypeInv, ReqTypeOK
<1>8. LoopInv'
  <2>1. \A u \in Socks, k \in Nodes :
          \/ loop'[u][k] = loop[u][k] \/ loop'[u][k] \in {"length", "body"}
          \/ loop'[u][k] = q /\ q \in served'
    <3>1. CASE loop' = [loop EXCEPT ![s][n] = "length"]
      BY <3>1, LoopMoves
    <3>2. CASE loop' = [loop EXCEPT ![s][n] = "body"]
      BY <3>2, LoopMoves
    <3>3. CASE q \in Reqs /\ served' = served \cup {q} /\ loop' = [loop EXCEPT ![s][n] = q]
      BY <3>3, LoopMoves
    <3> QED
      BY <1>6, <3>1, <3>2, <3>3, Zenon
  <2>2. served \subseteq served'
    BY <1>6, Zenon
  <2> QED
    BY <2>1, <2>2, RequestsAssumption, Zenon DEF CallInv, LoopInv
<1>9. CallerInv'
  <2>1. CASE /\ q \in Reqs /\ q \in pending /\ q \in served
             /\ chan' = [chan EXCEPT ![q] = Message("reply", q)]
             /\ pending' = pending \ {q} /\ UNCHANGED served
    <3>1. \A p \in Reqs : chan'[p] = IF p = q THEN Message("reply", q) ELSE chan[p]
      BY <1>7, <2>1, Zenon
    <3>2. req[q] # "answered"
      BY <2>1, Zenon DEF CallInv, CallerInv
    <3> QED
      BY <1>1, <1>7, <2>1, <3>1, <3>2, Zenon DEF CallInv, CallerInv
  <2>2. CASE req[q] \in Sent /\ served' = served \cup {q} /\ UNCHANGED <<chan, pending>>
    BY <1>1, <1>7, <2>2, Zenon DEF CallInv, CallerInv
  <2>3. CASE UNCHANGED <<chan, pending, served>>
    BY ZenonT(60), <1>1, <2>3 DEF CallInv, CallerInv
  <2> QED
    BY <1>6, <2>1, <2>2, <2>3, Zenon
<1>10. WireInv'
  <2>1. SUFFICES ASSUME NEW u \in Socks, NEW k \in Nodes
                 PROVE  WireOK(req', sock', served', u, k, wire'[u][k])
    BY Zenon DEF WireInv
  <2>2. wire'[u][k] \in Seq(Frames) /\ WireOK(req, sock, served, u, k, wire'[u][k])
    <3>1. CASE u = s /\ k = o
      BY ZenonT(60), <1>2, <1>3, <1>4, <3>1
    <3>2. CASE ~(u = s /\ k = o)
      BY <1>1, <1>4, <3>2 DEF CallInv, WireInv
    <3> QED
      BY <3>1, <3>2, Zenon
  <2>3. MovedOn(req, sock, served, req', sock', served')
    BY <1>1, <1>6, Zenon DEF MovedOn
  <2>4. \A i \in 1..Len(wire'[u][k]) : RequestBody(wire'[u][k][i]) => wire'[u][k][i].msg.id \notin served' \ served
    <3>1. CASE UNCHANGED served
      BY <3>1, Zenon
    <3>2. CASE q \in Reqs /\ RequestBody(f) /\ served' = served \cup {q}
      <4>1. CASE u = s /\ k = o
        BY ZenonT(60), <1>2, <1>4, <3>2, <4>1
      <4>2. CASE ~(u = s /\ k = o)
        <5>1. wire'[u][k] = wire[u][k]
          BY <1>4, <4>2, Zenon
        <5>2. ASSUME NEW i \in 1..Len(wire[u][k]), RequestBody(wire[u][k][i])
              PROVE  Owner[wire[u][k][i].msg.id] = k /\ sock[wire[u][k][i].msg.id] = u
          <6>1. WireOK(req, sock, served, u, k, wire[u][k])
            BY Zenon DEF CallInv, WireInv
          <6>2. FrameOK(req, sock, served, u, k, wire[u][k][i])
            BY <6>1, Zenon DEF WireOK
          <6> QED
            BY <5>2, <6>2, Zenon DEF FrameOK, RequestBody
        <5>3. Owner[q] = o /\ sock[q] = s
          BY ZenonT(60), <1>2, <3>2 DEF FrameOK, RequestBody, q
        <5> QED
          BY <3>2, <4>2, <5>1, <5>2, <5>3, Zenon
      <4> QED
        BY <4>1, <4>2, Zenon
    <3> QED
      BY <1>6, <3>1, <3>2, Zenon
  <2> QED
    BY ZenonT(60), <2>2, <2>3, <2>4, WireKept
<1> QED
  BY <1>5, <1>8, <1>9, <1>10 DEF RestInv


\* A read loop ends, a connection is removed, the network breaks: calls do not notice.
LEMMA EndsMove ==
  ASSUME CallInv, NEW n \in Nodes, NEW s \in Socks,
         ReadEnds(n, s) \/ Cleanup(n, s) \/ NetworkBreaks(s)
  PROVE  RestInv'
<1>1. UNCHANGED <<dialing, wire, req, sock, pending, chan, loop, served>>
  BY Zenon DEF ReadEnds, Cleanup, NetworkBreaks, SeeEOF, removeConn, Break, frameVars, callerVars
<1> QED
  BY ZenonT(60), <1>1 DEF CallInv, RestInv, DialInv, CallerInv, LoopInv, WireInv

\* Every step keeps the invariant.
LEMMA CallStep == CallInv /\ [ReqNext]_reqVars => CallInv'
<1> SUFFICES ASSUME CallInv, [ReqNext]_reqVars PROVE CallInv'
  OBVIOUS
<1>1. TypeInv'
  BY TypeStep
<1>2. RestInv'
  <2>1. ASSUME NEW q \in Reqs, BeginConnected(q) \/ BeginJoins(q) \/ CallerStep(q)
        PROVE  RestInv'
    BY <2>1, CallsMove, SendsMove, Zenon DEF CallerStep
  <2>2. ASSUME NEW q \in Reqs, NEW s \in Socks, BeginDials(q, s) PROVE RestInv'
    BY <2>2, DialsMove, Zenon
  <2>3. ASSUME NEW n \in Nodes, NEW s \in Socks, LoopStep(n, s) PROVE RestInv'
    BY <2>3, HandshakesMove, ReadsMove, RepliesMove, EndsMove, Zenon DEF LoopStep
  <2>4. ASSUME NEW s \in Socks, NetworkBreaks(s) PROVE RestInv'
    <3>1. PICK n \in Nodes : TRUE
      BY PairAssumption
    <3> QED
      BY <2>4, <3>1, EndsMove, Zenon
  <2>5. CASE UNCHANGED reqVars
    BY ZenonT(60), <2>5 DEF reqVars, pairVars, frameVars, callerVars, CallInv, RestInv, DialInv, CallerInv, LoopInv, WireInv
  <2> QED
    BY <2>1, <2>2, <2>3, <2>4, <2>5, Zenon DEF ReqNext
<1> QED
  BY <1>1, <1>2, Zenon DEF CallInv, RestInv


-----------------------------------------------------------------------------
(* The refinement *)

\* What the caller of a request at r sees.
Seen(r) == IF r \in {"idle", "answered", "failed"} THEN r ELSE "open"

\* Under the invariant an answer is always the reply to the request: what Outcome
\* says depends on the caller alone.
LEMMA OutcomeSeen ==
  ASSUME NEW r \in Calls, NEW q \in Reqs, NEW c, r = "answered" => c = Message("reply", q)
  PROVE  (CASE r \in {"idle", "failed"} -> r
            [] r = "answered" -> IF c = Message("reply", q) THEN "answered" ELSE "garbled"
            [] OTHER -> "open") = Seen(r)
<1>1. CASE r \in {"idle", "failed"}
  BY <1>1 DEF Seen
<1>2. CASE r = "answered"
  BY <1>2 DEF Seen
<1>3. CASE r \notin {"idle", "failed", "answered"}
  BY <1>3 DEF Seen
<1> QED
  BY <1>1, <1>2, <1>3

\* One call moves as Call lets it, or a request is handled, or callers see nothing.
LEMMA CallsSeen ==
  ASSUME CallInv, [ReqNext]_reqVars
  PROVE  \/ /\ served' = served
            /\ \E q \in Reqs :
                 /\ \A p \in Reqs : p # q => Seen(req'[p]) = Seen(req[p])
                 /\ \/ Seen(req'[q]) = Seen(req[q])
                    \/ req[q] = "idle" /\ Seen(req'[q]) = "open"
                    \/ Seen(req[q]) = "open" /\ req'[q] = "failed"
                    \/ Seen(req[q]) = "open" /\ req'[q] = "answered" /\ q \in served
         \/ /\ UNCHANGED req
            /\ served' = served \/ \E q \in Reqs : /\ q \notin served /\ req[q] # "idle"
                                                   /\ served' = served \cup {q}
<1> DEFINE Goal ==
         \/ /\ served' = served
            /\ \E q \in Reqs :
                 /\ \A p \in Reqs : p # q => Seen(req'[p]) = Seen(req[p])
                 /\ \/ Seen(req'[q]) = Seen(req[q])
                    \/ req[q] = "idle" /\ Seen(req'[q]) = "open"
                    \/ Seen(req[q]) = "open" /\ req'[q] = "failed"
                    \/ Seen(req[q]) = "open" /\ req'[q] = "answered" /\ q \in served
         \/ /\ UNCHANGED req
            /\ served' = served \/ \E q \in Reqs : /\ q \notin served /\ req[q] # "idle"
                                                   /\ served' = served \cup {q}
<1> SUFFICES Goal
  BY Zenon
<1>0. req \in [Reqs -> Calls]
  BY Zenon DEF CallInv, TypeInv, ReqTypeOK
<1>1. ASSUME NEW q \in Reqs,
             \/ BeginConnected(q) \/ BeginJoins(q) \/ \E s \in Socks : BeginDials(q, s)
             \/ Woken(q) \/ Send(q) \/ SendLength(q) \/ SendBody(q) \/ SendFails(q)
             \/ Answer(q) \/ Timeout(q)
      PROVE  Goal
  <2>1. served' = served
    BY ZenonT(60), <1>1 DEF BeginConnected, BeginJoins, BeginDials, Woken, Send, SendLength, SendBody, SendFails, Answer, Timeout
  <2>2. PICK v : req' = [req EXCEPT ![q] = v] \/ req' = req
    BY ZenonT(60), <1>1 DEF BeginConnected, BeginJoins, BeginDials, Woken, Send, SendLength, SendBody, SendFails,
                Answer, Timeout, callerVars
  <2>3. \A p \in Reqs : p # q => Seen(req'[p]) = Seen(req[p])
    BY <1>0, <2>2, Zenon
  <2>4. \/ req'[q] = req[q]
        \/ req[q] = "idle" /\ req'[q] \in {"connected", "joining", "dialing"}
        \/ req[q] \in {"joining", "connected", "sending", "waiting"}
           /\ req'[q] \in {"connected", "sending", "waiting", "failed"}
        \/ req[q] = "waiting" /\ req'[q] = "answered" /\ q \in served
    <3>1. CASE BeginConnected(q) \/ BeginJoins(q) \/ \E s \in Socks : BeginDials(q, s)
      BY ZenonT(60), <1>0, <3>1 DEF BeginConnected, BeginJoins, BeginDials, Ready
    <3>2. CASE Woken(q) \/ Send(q) \/ SendBody(q) \/ SendFails(q) \/ Timeout(q)
      BY <1>0, <3>2, Zenon DEF Woken, Send, SendBody, SendFails, Timeout
    <3>3. CASE SendLength(q)
      BY <3>3, Zenon DEF SendLength, callerVars
    <3>4. CASE Answer(q)
      BY <1>0, <3>4, Zenon DEF Answer, CallInv, CallerInv
    <3> QED
      BY ZenonT(60), <1>1, <3>1, <3>2, <3>3, <3>4
  <2>5. \/ Seen(req'[q]) = Seen(req[q])
        \/ req[q] = "idle" /\ Seen(req'[q]) = "open"
        \/ Seen(req[q]) = "open" /\ req'[q] = "failed"
        \/ Seen(req[q]) = "open" /\ req'[q] = "answered" /\ q \in served
    BY <2>4, Zenon DEF Seen
  <2> QED
    BY <2>1, <2>3, <2>5, Zenon
<1>2. ASSUME NEW n \in Nodes, NEW s \in Socks, HandshakeEnds(n, s) PROVE Goal
  <2>1. served' = served /\ \E to \in {"connected", "failed"} : DialReturns(n, s, to)
    BY <1>2, Zenon DEF HandshakeEnds
  <2>2. PICK to \in {"connected", "failed"} : DialReturns(n, s, to)
    BY <2>1
  <2>3. \A p \in Reqs : req'[p] = req[p] \/ (req[p] = "dialing" /\ Owner[p] = n /\ req'[p] = to)
    BY <2>2, Zenon DEF DialReturns
  <2>4. CASE \E q \in Reqs : req[q] = "dialing" /\ Owner[q] = n
    <3>1. PICK q \in Reqs : req[q] = "dialing" /\ Owner[q] = n
      BY <2>4, Zenon
    <3>2. \A p \in Reqs : p # q => Seen(req'[p]) = Seen(req[p])
      BY <2>3, <3>1, Zenon DEF CallInv, DialInv
    <3>3. Seen(req'[q]) = Seen(req[q]) \/ (Seen(req[q]) = "open" /\ req'[q] = "failed")
      BY <2>3, <3>1, Zenon DEF Seen
    <3> QED
      BY <2>1, <3>2, <3>3, Zenon
  <2>5. CASE ~\E q \in Reqs : req[q] = "dialing" /\ Owner[q] = n
    <3>1. req' = req
      BY <1>0, <2>2, <2>3, <2>5, Zenon DEF DialReturns
    <3> QED
      BY <2>1, <3>1, Zenon
  <2> QED
    BY <2>4, <2>5, Zenon
<1>3. ASSUME NEW n \in Nodes, NEW s \in Socks, ReadFrame(n, s) PROVE Goal
  <2>1. UNCHANGED req
    BY <1>3, Zenon DEF ReadFrame
  <2> DEFINE w == wire[s][Other(n)]
             f == Head(w)
  <2>2. served' = served \/ (f.part = "body" /\ handleMessage(n, s, f.msg))
    BY <1>3, Zenon DEF ReadFrame
  <2>3. ASSUME f.part = "body", handleMessage(n, s, f.msg)
        PROVE  served' = served \/ \E q \in Reqs : /\ q \notin served /\ req[q] # "idle"
                                                   /\ served' = served \cup {q}
    <3>1. Other(n) \in Nodes /\ w \in Seq(Frames) /\ w # << >>
      BY <1>3, OtherNode, Zenon DEF CallInv, TypeInv, ReqTypeOK, ReadFrame
    <3>2. f \in Frames
      BY <3>1, TailFacts, Zenon
    <3>3. FrameOK(req, sock, served, s, Other(n), f)
      BY ZenonT(60), <3>1, WireRead DEF CallInv, WireInv
    <3> HIDE DEF f
    <3> QED
      BY <2>3, <3>2, <3>3, Delivered, Zenon DEF Sent
  <2> QED
    BY <2>1, <2>2, <2>3, Zenon
<1>4. ASSUME NEW n \in Nodes, NEW s \in Socks,
             \/ ReplyLength(n, s) \/ ReplyBody(n, s) \/ ReplyFails(n, s)
             \/ ReadEnds(n, s) \/ Cleanup(n, s) \/ NetworkBreaks(s)
      PROVE  Goal
  BY <1>4, Zenon DEF ReplyLength, ReplyBody, ReplyFails, ReadEnds, Cleanup, NetworkBreaks, callerVars
<1>5. CASE UNCHANGED reqVars
  BY <1>5, Zenon DEF reqVars, callerVars
<1> HIDE DEF Goal
<1>6. ASSUME NEW q \in Reqs, BeginConnected(q) \/ BeginJoins(q) \/ CallerStep(q) PROVE Goal
  BY <1>1, <1>6, Zenon DEF CallerStep
<1>7. ASSUME NEW n \in Nodes, NEW s \in Socks, LoopStep(n, s) PROVE Goal
  BY <1>2, <1>3, <1>4, <1>7, Zenon DEF LoopStep
<1>8. ASSUME NEW s \in Socks, NetworkBreaks(s) PROVE Goal
  <2>1. PICK n \in Nodes : TRUE
    BY PairAssumption
  <2> QED
    BY <1>4, <1>8, <2>1, Zenon
<1> QED
  BY <1>1, <1>5, <1>6, <1>7, <1>8, Zenon DEF ReqNext

\* Every step of the two peers is a step of Call, or none.
LEMMA CallSimulates ==
  CallInv /\ CallInv' /\ [ReqNext]_reqVars => [Promise!CallNext]_(Promise!callVars)
<1> SUFFICES ASSUME CallInv, CallInv', [ReqNext]_reqVars
             PROVE  [Promise!CallNext]_(Promise!callVars)
  BY Zenon
<1> DEFINE c == [q \in Reqs |-> Seen(req[q])]
           d == [q \in Reqs |-> Seen(req'[q])]
<1>1. [q \in Reqs |-> Outcome(q)] = c
  <2>1. ASSUME NEW q \in Reqs PROVE Outcome(q) = Seen(req[q])
    <3>1. req[q] \in Calls /\ (req[q] = "answered" => chan[q] = Message("reply", q))
      BY Zenon DEF CallInv, TypeInv, ReqTypeOK, CallerInv
    <3> QED
      BY <3>1, OutcomeSeen DEF Outcome
  <2> QED
    BY <2>1
<1>2. [q \in Reqs |-> Outcome(q)]' = d
  <2>1. ASSUME NEW q \in Reqs PROVE Outcome(q)' = Seen(req'[q])
    <3>1. req'[q] \in Calls /\ (req'[q] = "answered" => chan'[q] = Message("reply", q))
      BY Zenon DEF CallInv, TypeInv, ReqTypeOK, CallerInv
    <3> QED
      BY <3>1, OutcomeSeen DEF Outcome
  <2> QED
    BY <2>1
<1>3. CASE UNCHANGED <<req, served>>
  BY <1>1, <1>2, <1>3, Zenon DEF Promise!callVars
<1>4. ASSUME UNCHANGED req, NEW q \in Reqs, q \notin served, req[q] # "idle",
             served' = served \cup {q}
      PROVE  Promise!CallNext
  <2>1. c[q] # "idle" /\ d = c
    BY <1>4, Zenon DEF Seen
  <2> HIDE DEF c, d
  <2> QED
    BY <1>1, <1>2, <1>4, <2>1, Zenon DEF Promise!CallNext, Promise!Serve
<1>5. ASSUME served' = served, NEW q \in Reqs,
             \A p \in Reqs : p # q => Seen(req'[p]) = Seen(req[p]),
             \/ Seen(req'[q]) = Seen(req[q])
             \/ req[q] = "idle" /\ Seen(req'[q]) = "open"
             \/ Seen(req[q]) = "open" /\ req'[q] = "failed"
             \/ Seen(req[q]) = "open" /\ req'[q] = "answered" /\ q \in served
      PROVE  [Promise!CallNext]_(Promise!callVars)
  <2>1. d = [c EXCEPT ![q] = Seen(req'[q])]
    BY ZenonT(60), <1>5
  <2>2. c[q] = Seen(req[q]) /\ (Seen(req'[q]) = Seen(req[q]) => d = c)
    BY <1>5, Zenon
  <2>3. \/ d = c
        \/ c[q] = "idle" /\ d = [c EXCEPT ![q] = "open"]
        \/ c[q] = "open" /\ d = [c EXCEPT ![q] = "failed"]
        \/ c[q] = "open" /\ d = [c EXCEPT ![q] = "answered"] /\ q \in served
    <3> HIDE DEF c, d
    <3> QED
      BY ZenonT(60), <1>5, <2>1, <2>2 DEF Seen
  <2> HIDE DEF c, d
  <2> QED
    BY ZenonT(60), <1>1, <1>2, <1>5, <2>3
       DEF Promise!CallNext, Promise!callVars, Promise!Invoke, Promise!Fail, Promise!Reply
<1> QED
  BY <1>3, <1>4, <1>5, CallsSeen, Zenon

\* Request keeps the promise of Call (handleMessage, Request, Reply: a request is
\* handled at most once, its caller gets one result, and a reply only to its own
\* request), for every number of requests, sockets and frames in a buffer.
THEOREM RequestsKeepCalls == ReqSpec => CallsKept
<1>1. ReqInit => Promise!CallInit
  BY DEF ReqInit, Promise!CallInit, Outcome
<1>2. QED
  BY <1>1, CallStarts, CallStep, CallSimulates, PTL DEF ReqSpec, CallsKept, Promise!CallSpec
-----------------------------------------------------------------------------
(* The sockets and the frames stay in step.  PairInv is inductive for the sockets.
   For the frames it is ChannelInv: while neither end has closed, what a peer may
   still write continues the frames on the way (WritesContinue); what is on the way
   follows from what its reader has read, before the end that reads it is open as
   well (FramesFollow); and a write that fails, which uses up a nonce and lets go of
   writeMu between length and body, is on a socket past its handshake of which an
   end has closed (EndsInUse). *)

\* Ends go through their stages in order, and broken sockets stay broken.
Onward ==
  /\ broken \subseteq broken'
  /\ \A s \in Socks, n \in Nodes :
       /\ end[s][n] \in {"closing", "closed"} => end'[s][n] \in {"closing", "closed"}
       /\ end'[s][n] \in {"none", "handshake"} => end[s][n] \in {"none", "handshake"}

\* A dial,
LEMMA DialPair ==
  ASSUME PairInv, NEW n \in Nodes, NEW s \in Socks, Dial(n, s)
  PROVE  PairInv' /\ Onward
<1>a. /\ dialedBy \in [Socks -> Nodes \cup {None}] /\ end \in [Socks -> [Nodes -> Ends]]
      /\ conn \in [Nodes -> Socks \cup {None}] /\ dialing \in [Nodes -> BOOLEAN]
      /\ broken \in SUBSET Socks
  BY Zenon DEF PairInv, PairSound, PairTypeOK
<1>b. \A m \in Nodes : dialing[m] => \E t \in Socks : dialedBy[t] = m /\ end[t][m] = "handshake"
  BY Zenon DEF PairInv, PairSound, PairTypeOK
<1>c. \A m \in Nodes, t \in Socks : end[t][m] \in {"open", "closing"} => conn[m] = t
  BY Zenon DEF PairInv, PairSound, NoSpareSocket
<1>d. \A m \in Nodes : conn[m] # None => end[conn[m]][m] \in {"open", "closing"}
  BY Zenon DEF PairInv
<1>e. \A t \in Socks, m \in Nodes : dialedBy[t] = None => end[t][m] = "none"
  BY Zenon DEF PairInv
<1>f. None \notin Nodes /\ None \notin Socks
  BY PairAssumption, Zenon
<1>1. /\ dialing' = [dialing EXCEPT ![n] = TRUE]
      /\ dialedBy' = [dialedBy EXCEPT ![s] = n]
      /\ UNCHANGED <<conn, broken>> /\ dialedBy[s] = None
      /\ end' = [end EXCEPT ![s] = [m \in Nodes |-> "handshake"]]
  BY Zenon DEF Dial
<1>2. /\ end' \in [Socks -> [Nodes -> Ends]]
      /\ \A t \in Socks, m \in Nodes :
           end'[t][m] = IF t = s THEN "handshake" ELSE end[t][m]
  BY <1>a, <1>1 DEF Ends
<1>3. \A m \in Nodes : end[s][m] = "none"
  BY <1>e, <1>1, Zenon
<1>4. dialing' \in [Nodes -> BOOLEAN] /\ dialedBy' \in [Socks -> Nodes \cup {None}]
  BY <1>a, <1>1, Zenon
<1>5. ASSUME NEW m \in Nodes, dialing'[m]
      PROVE  \E t \in Socks : dialedBy'[t] = m /\ end'[t][m] = "handshake"
  <2>1. CASE m = n
    <3>1. dialedBy'[s] = n /\ end'[s][n] = "handshake"
      BY <1>a, <1>1, <1>2
    <3> QED
      BY <2>1, <3>1, Zenon
  <2>2. CASE m # n
    <3>1. PICK t \in Socks : dialedBy[t] = m /\ end[t][m] = "handshake"
      BY <1>a, <1>b, <1>1, <1>5, <2>2, Zenon
    <3>2. t # s
      BY <1>f, <1>1, <3>1, Zenon
    <3>3. dialedBy'[t] = m /\ end'[t][m] = "handshake"
      BY <1>a, <1>1, <1>2, <3>1, <3>2
    <3> QED
      BY <3>3, Zenon
  <2> QED
    BY <2>1, <2>2, Zenon
<1>6. PairTypeOK'
  BY <1>a, <1>1, <1>2, <1>4, <1>5, Zenon DEF PairTypeOK
<1>7. NoSpareSocket'
  BY <1>c, <1>1, <1>2 DEF NoSpareSocket
<1>8. ASSUME NEW m \in Nodes, conn'[m] # None PROVE end'[conn'[m]][m] \in {"open", "closing"}
  <2>1. conn[m] \in Socks /\ conn[m] # s /\ conn'[m] = conn[m]
    BY <1>a, <1>d, <1>1, <1>3, <1>8
  <2> QED
    BY <1>d, <1>2, <2>1, <1>f
<1>9. \A t \in Socks, m \in Nodes : dialedBy'[t] = None => end'[t][m] = "none"
  BY <1>a, <1>e, <1>f, <1>1, <1>2
<1>10. Onward
  BY <1>1, <1>2, <1>3 DEF Onward
<1> QED
  BY <1>6, <1>7, <1>8, <1>9, <1>10, Zenon DEF PairInv, PairSound

\* an end that moves on,
LEMMA EndPair ==
  ASSUME PairInv, NEW n \in Nodes, NEW s \in Socks, NEW v \in {"open", "closing", "closed"},
         end' = [end EXCEPT ![s][n] = v], UNCHANGED <<dialedBy, broken>>,
         \/ end[s][n] = "handshake" /\ v # "closing"
         \/ end[s][n] = "open" /\ v = "closing"
         \/ end[s][n] = "closing" /\ v = "closed",
         \/ UNCHANGED dialing
         \/ n = dialedBy[s] /\ dialing' = [dialing EXCEPT ![n] = FALSE],
         end[s][n] = "handshake" /\ n = dialedBy[s] => ~dialing'[n],
         conn' \in [Nodes -> Socks \cup {None}], \A m \in Nodes : m # n => conn'[m] = conn[m],
         \/ v = "open" /\ conn[n] = None /\ conn'[n] = s
         \/ end[s][n] = "handshake" /\ v = "closed" /\ conn'[n] = conn[n]
         \/ v = "closing" /\ conn'[n] = conn[n]
         \/ end[s][n] = "closing" /\ conn[n] = s /\ conn'[n] = None
  PROVE  PairInv' /\ Onward
<1>a. /\ dialedBy \in [Socks -> Nodes \cup {None}] /\ end \in [Socks -> [Nodes -> Ends]]
      /\ conn \in [Nodes -> Socks \cup {None}] /\ dialing \in [Nodes -> BOOLEAN]
      /\ broken \in SUBSET Socks
  BY Zenon DEF PairInv, PairSound, PairTypeOK
<1>b. \A m \in Nodes : dialing[m] => \E t \in Socks : dialedBy[t] = m /\ end[t][m] = "handshake"
  BY Zenon DEF PairInv, PairSound, PairTypeOK
<1>c. \A m \in Nodes, t \in Socks : end[t][m] \in {"open", "closing"} => conn[m] = t
  BY Zenon DEF PairInv, PairSound, NoSpareSocket
<1>d. \A m \in Nodes : conn[m] # None => end[conn[m]][m] \in {"open", "closing"}
  BY Zenon DEF PairInv
<1>e. \A t \in Socks, m \in Nodes : dialedBy[t] = None => end[t][m] = "none"
  BY Zenon DEF PairInv
<1>f. None \notin Nodes /\ None \notin Socks
  BY PairAssumption, Zenon
<1>1. v \in Ends
  BY DEF Ends
<1>2. /\ end' \in [Socks -> [Nodes -> Ends]]
      /\ \A t \in Socks, m \in Nodes : end'[t][m] = IF t = s /\ m = n THEN v ELSE end[t][m]
  BY <1>a, <1>1, EndUpdate
<1>3. dialing' \in [Nodes -> BOOLEAN] /\ \A m \in Nodes : dialing'[m] => dialing[m]
  <2>1. CASE UNCHANGED dialing
    BY <1>a, <2>1, Zenon
  <2>2. CASE dialing' = [dialing EXCEPT ![n] = FALSE]
    BY <1>a, <2>2, Zenon
  <2> QED
    BY <2>1, <2>2, Zenon
<1>4. ASSUME NEW m \in Nodes, dialing'[m]
      PROVE  \E t \in Socks : dialedBy'[t] = m /\ end'[t][m] = "handshake"
  <2>1. PICK t \in Socks : dialedBy[t] = m /\ end[t][m] = "handshake"
    BY <1>b, <1>3, <1>4, Zenon
  <2>2. ~(t = s /\ m = n)
    BY <1>4, <2>1, Zenon
  <2>3. end'[t][m] = "handshake"
    BY <1>2, <2>1, <2>2
  <2> QED
    BY <2>1, <2>3, Zenon
<1>5. PairTypeOK'
  BY <1>a, <1>2, <1>3, <1>4, Zenon DEF PairTypeOK
<1>6. ASSUME NEW t \in Socks, NEW m \in Nodes, end'[t][m] \in {"open", "closing"}
      PROVE  conn'[m] = t
  <2>1. CASE m # n
    BY <1>c, <1>2, <1>6, <2>1
  <2>2. CASE m = n /\ t = s
    BY <1>c, <1>2, <1>6, <2>2
  <2>3. CASE m = n /\ t # s
    <3>1. conn[n] = t /\ end[t][n] \in {"open", "closing"}
      BY <1>c, <1>2, <1>6, <2>3
    <3> QED
      BY <1>f, <2>3, <3>1
  <2> QED
    BY <2>1, <2>2, <2>3, Zenon
<1>7. ASSUME NEW m \in Nodes, conn'[m] # None PROVE end'[conn'[m]][m] \in {"open", "closing"}
  <2>1. CASE m # n
    BY <1>a, <1>d, <1>2, <1>7, <2>1
  <2>2. CASE m = n
    BY <1>a, <1>c, <1>d, <1>2, <1>7, <2>2
  <2> QED
    BY <2>1, <2>2, Zenon
<1>8. \A t \in Socks, m \in Nodes : dialedBy'[t] = None => end'[t][m] = "none"
  BY <1>e, <1>2
<1>9. Onward
  BY <1>2 DEF Onward
<1>10. NoSpareSocket'
  BY <1>6 DEF NoSpareSocket
<1> QED
  BY <1>5, <1>7, <1>8, <1>9, <1>10, Zenon DEF PairInv, PairSound

\* and nothing at all.
LEMMA IdlePair ==
  ASSUME PairInv, UNCHANGED <<dialedBy, end, conn, dialing>>,
         broken' \in SUBSET Socks, broken \subseteq broken'
  PROVE  PairInv' /\ Onward
<1>1. PairInv'
  BY Zenon DEF PairInv, PairSound, PairTypeOK, NoSpareSocket
<1>2. Onward
  BY Zenon DEF Onward
<1> QED
  BY <1>1, <1>2, Zenon

\* Every step of a handshake, a read loop or its cleanup is one of these.
LEMMA EndSteps ==
  ASSUME PairInv, NEW n \in Nodes, NEW s \in Socks, EndStep(n, s)
  PROVE  PairInv' /\ Onward
<1>1. /\ conn \in [Nodes -> Socks \cup {None}] /\ dialing \in [Nodes -> BOOLEAN]
      /\ end[s][n] \in {"open", "closing"} => conn[n] = s
  BY Zenon DEF PairInv, PairSound, PairTypeOK, NoSpareSocket
<1>2. ASSUME dialing' = IF n = dialedBy[s] THEN [dialing EXCEPT ![n] = FALSE] ELSE dialing
      PROVE  /\ \/ UNCHANGED dialing
                \/ n = dialedBy[s] /\ dialing' = [dialing EXCEPT ![n] = FALSE]
             /\ n = dialedBy[s] => ~dialing'[n]
  BY <1>1, <1>2, Zenon
<1>3. CASE Register(n, s)
  <2>1. /\ end[s][n] = "handshake" /\ end' = [end EXCEPT ![s][n] = "open"]
        /\ conn[n] = None /\ conn' = [conn EXCEPT ![n] = s] /\ UNCHANGED <<dialedBy, broken>>
        /\ dialing' = IF n = dialedBy[s] THEN [dialing EXCEPT ![n] = FALSE] ELSE dialing
    BY <1>3, Zenon DEF Register, HandshakeOver
  <2>2. /\ conn' \in [Nodes -> Socks \cup {None}] /\ conn'[n] = s
        /\ \A m \in Nodes : m # n => conn'[m] = conn[m]
    BY <1>1, <2>1, Zenon
  <2> QED
    BY <1>2, <2>1, <2>2, EndPair, Zenon
<1>4. CASE Dedup(n, s) \/ HandshakeFails(n, s)
  <2>1. /\ end[s][n] = "handshake" /\ end' = [end EXCEPT ![s][n] = "closed"]
        /\ UNCHANGED <<conn, dialedBy, broken>>
        /\ dialing' = IF n = dialedBy[s] THEN [dialing EXCEPT ![n] = FALSE] ELSE dialing
    BY <1>4, Zenon DEF Dedup, HandshakeFails, HandshakeOver
  <2> QED
    BY <1>1, <1>2, <2>1, EndPair, Zenon
<1>5. CASE SeeEOF(n, s)
  <2>1. /\ end[s][n] = "open" /\ end' = [end EXCEPT ![s][n] = "closing"]
        /\ UNCHANGED <<conn, dialedBy, dialing, broken>>
    BY <1>5, Zenon DEF SeeEOF
  <2> QED
    BY <1>1, <2>1, EndPair, Zenon
<1>6. CASE removeConn(n, s)
  <2>1. /\ end[s][n] = "closing" /\ end' = [end EXCEPT ![s][n] = "closed"]
        /\ conn' = [conn EXCEPT ![n] = IF @ = s THEN None ELSE @]
        /\ UNCHANGED <<dialedBy, dialing, broken>>
    BY <1>6, Zenon DEF removeConn
  <2>2. /\ conn' \in [Nodes -> Socks \cup {None}] /\ conn[n] = s /\ conn'[n] = None
        /\ \A m \in Nodes : m # n => conn'[m] = conn[m]
    BY <1>1, <2>1
  <2> QED
    BY <2>1, <2>2, EndPair, Zenon
<1> QED
  BY <1>3, <1>4, <1>5, <1>6, Zenon DEF EndStep

\* Break: the network only adds to the broken sockets.
LEMMA BreakPair ==
  ASSUME PairInv, NEW s \in Socks, Break(s)
  PROVE  PairInv' /\ Onward
<1>1. UNCHANGED <<dialedBy, end, conn, dialing>> /\ broken' = broken \cup {s}
  BY Zenon DEF Break
<1>2. broken \in SUBSET Socks
  BY Zenon DEF PairInv, PairSound, PairTypeOK
<1>3. broken' \in SUBSET Socks /\ broken \subseteq broken'
  BY <1>1, <1>2, Zenon
<1> QED
  BY <1>1, <1>3, IdlePair, Zenon

\* However two peers dial each other, dedup, close and lose sockets, a socket that is
\* open at a peer is the one in its tables (registerConn, removeConn).
THEOREM PairStaysSound == PairSpec => []PairSound
<1>1. PairInit => PairInv
  BY PairAssumption DEF PairInit, PairInv, PairSound, PairTypeOK, NoSpareSocket, Ends
<1>2. PairInv /\ [PairNext]_pairVars => PairInv'
  <2> SUFFICES ASSUME PairInv, [PairNext]_pairVars PROVE PairInv'
    BY Zenon
  <2>1. CASE UNCHANGED pairVars
    BY <2>1, Zenon DEF pairVars, PairInv, PairSound, PairTypeOK, NoSpareSocket
  <2> QED
    BY <2>1, DialPair, EndSteps, BreakPair, Zenon DEF PairNext
<1>3. PairInv => PairSound
  BY Zenon DEF PairInv
<1> QED
  BY <1>1, <1>2, <1>3, PTL DEF PairSpec
-----------------------------------------------------------------------------
(* Frames in step *)

\* The frames on the way are all read before the next one is written,
LEMMA InStepAppended ==
  ASSUME NEW w \in Seq(Frames), NEW c \in Nat, NEW r, NEW f \in Frames, InStep(w, c, r),
         f.nonce = c + Len(w), f.part = NextPart(w, r),
         f.part = "body" /\ w # << >> => w[Len(w)].msg = f.msg
  PROVE  /\ InStep(Append(w, f), c, r)
         /\ NextPart(Append(w, f), r) = IF f.part = "length" THEN "body" ELSE "length"
         /\ Append(w, f) # << >> /\ Append(w, f)[Len(Append(w, f))] = f
<1> DEFINE v == Append(w, f)
           l == Len(w)
<1>1. /\ v \in Seq(Frames) /\ Len(v) = l + 1 /\ l \in Nat
      /\ \A i \in 1..l : v[i] = w[i]
      /\ v[l + 1] = f
  BY AppendFacts
<1>2. w # << >> => l >= 1 /\ w[l] \in Frames
  OBVIOUS
<1>3. v # << >> /\ v[Len(v)] = f
  BY <1>1
<1>4. /\ \A i \in 1..l : w[i].nonce = c + i - 1
      /\ w # << >> => w[1].part = IF r = "body" THEN "body" ELSE "length"
      /\ \A i \in 1..(l - 1) : /\ w[i].part # w[i + 1].part
                               /\ w[i].part = "length" => w[i].msg = w[i + 1].msg
  BY Zenon DEF InStep
<1> HIDE DEF v, l
<1>5. ASSUME NEW i \in 1..Len(v) PROVE v[i].nonce = c + i - 1
  <2>1. CASE i = l + 1
    <3>1. f.nonce = c + i - 1
      BY <1>1, <2>1 DEF l
    <3> QED
      BY <1>1, <2>1, <3>1, Zenon
  <2>2. CASE i # l + 1
    <3>1. i \in 1..l
      BY <1>1, <2>2
    <3> QED
      BY <1>1, <1>4, <3>1, Zenon
  <2> QED
    BY <2>1, <2>2, Zenon
<1>6. v[1].part = IF r = "body" THEN "body" ELSE "length"
  <2>1. CASE w = << >>
    BY <1>1, <2>1 DEF NextPart, l
  <2>2. CASE w # << >>
    BY <1>1, <1>2, <1>4, <2>2
  <2> QED
    BY <2>1, <2>2, Zenon
<1>7. ASSUME NEW i \in 1..(Len(v) - 1)
      PROVE  v[i].part # v[i + 1].part /\ (v[i].part = "length" => v[i].msg = v[i + 1].msg)
  <2>1. CASE i = l
    <3>1. w # << >> /\ v[i] = w[l] /\ v[i + 1] = f
      BY <1>1, <1>7, <2>1 DEF l
    <3>2. f.part = IF w[l].part = "length" THEN "body" ELSE "length"
      BY <3>1, Zenon DEF NextPart, l
    <3>3. w[l].part = "length" => w[l].msg = f.msg
      BY <3>1, <3>2, Zenon DEF l
    <3> QED
      BY <3>1, <3>2, <3>3, Zenon
  <2>2. CASE i # l
    <3>1. i \in 1..(l - 1) /\ v[i] = w[i] /\ v[i + 1] = w[i + 1]
      BY <1>1, <1>7, <2>2
    <3>2. /\ w[i].part # w[i + 1].part
          /\ w[i].part = "length" => w[i].msg = w[i + 1].msg
      BY <1>4, <3>1
    <3> QED
      BY <3>1, <3>2, Zenon
  <2> QED
    BY <2>1, <2>2, Zenon
<1>8. InStep(v, c, r)
  BY <1>5, <1>6, <1>7, Zenon DEF InStep
<1>9. NextPart(v, r) = IF f.part = "length" THEN "body" ELSE "length"
  BY <1>3, Zenon DEF NextPart
<1> QED
  BY <1>3, <1>8, <1>9, Zenon DEF v

\* and the first one is read by a loop that waits for its part.
LEMMA InStepRead ==
  ASSUME NEW w \in Seq(Frames), w # << >>, NEW c \in Nat, NEW r, NEW q, InStep(w, c, r),
         q = "body" <=> w[1].part = "length"
  PROVE  /\ InStep(Tail(w), c + 1, q)
         /\ NextPart(Tail(w), q) = NextPart(w, r)
         /\ Tail(w) # << >> => Tail(w)[Len(Tail(w))] = w[Len(w)]
<1> DEFINE v == Tail(w)
           l == Len(w)
<1>1. /\ v \in Seq(Frames) /\ Len(v) = l - 1 /\ l \in Nat /\ l >= 1
      /\ \A i \in 1..(l - 1) : v[i] = w[i + 1]
      /\ \A i \in 1..l : w[i] \in Frames
  BY TailFacts
<1>0. v = << >> <=> l = 1
  BY <1>1
<1>2. /\ \A i \in 1..l : w[i].nonce = c + i - 1
      /\ \A i \in 1..(l - 1) : /\ w[i].part # w[i + 1].part
                               /\ w[i].part = "length" => w[i].msg = w[i + 1].msg
  BY Zenon DEF InStep
<1>3. \A i \in 1..l : w[i].part \in {"length", "body"}
  BY <1>1 DEF Frames
<1>4. w[l] = v[l - 1] \/ v = << >>
  BY <1>0, <1>1
<1> HIDE DEF v, l
<1>5. ASSUME NEW i \in 1..Len(v) PROVE v[i].nonce = (c + 1) + i - 1
  <2>1. i \in 1..(l - 1) /\ i + 1 \in 1..l /\ c + (i + 1) - 1 = (c + 1) + i - 1
    BY <1>1
  <2>2. w[i + 1].nonce = c + (i + 1) - 1
    BY <1>2, <2>1, Zenon
  <2> QED
    BY <1>1, <2>1, <2>2, Zenon
<1>6. v # << >> => v[1].part = IF q = "body" THEN "body" ELSE "length"
  <2> SUFFICES ASSUME v # << >> PROVE v[1].part = IF q = "body" THEN "body" ELSE "length"
    BY Zenon
  <2>1. 1 \in 1..(l - 1) /\ 1 + 1 \in 1..l /\ 1 \in 1..l /\ v[1] = w[1 + 1]
    BY <1>0, <1>1
  <2>2. /\ w[1].part # w[1 + 1].part
        /\ w[1].part \in {"length", "body"} /\ w[1 + 1].part \in {"length", "body"}
    BY <1>2, <1>3, <2>1
  <2> QED
    BY <2>1, <2>2, Zenon
<1>7. ASSUME NEW i \in 1..(Len(v) - 1)
      PROVE  v[i].part # v[i + 1].part /\ (v[i].part = "length" => v[i].msg = v[i + 1].msg)
  <2>1. i \in 1..(l - 1) /\ i + 1 \in 1..(l - 1)
    BY <1>1
  <2> QED
    BY <1>1, <1>2, <2>1, Zenon
<1>8. InStep(v, c + 1, q)
  BY <1>5, <1>6, <1>7, Zenon DEF InStep
<1>9. NextPart(v, q) = NextPart(w, r)
  <2>1. CASE v = << >>
    <3>1. l = 1 /\ 1 \in 1..l
      BY <1>0, <2>1
    <3>2. w[Len(w)] = w[1] /\ w[1].part \in {"length", "body"}
      BY <1>3, <3>1, Zenon DEF l
    <3> QED
      BY <2>1, <3>2, Zenon DEF NextPart
  <2>2. CASE v # << >>
    <3>1. v[Len(v)] = w[Len(w)]
      BY <1>1, <1>4, <2>2 DEF l
    <3> QED
      BY <2>2, <3>1, Zenon DEF NextPart
  <2> QED
    BY <2>1, <2>2, Zenon
<1>10. v # << >> => v[Len(v)] = w[Len(w)]
  BY <1>1, <1>4 DEF l
<1> QED
  BY <1>8, <1>9, <1>10, Zenon DEF v

\* A socket that is alive was alive.
LEMMA AliveBefore ==
  ASSUME Onward, NEW s \in Socks, NEW n \in Nodes, Alive(s, n)'
  PROVE  Alive(s, n)
<1>1. Other(n) \in Nodes
  BY OtherNode, Zenon
<1> QED
  BY <1>1 DEF Onward, Alive, Dead

\* The writes of a peer go on when its buffer and what its reader waits for stay as
\* they are, and it is not itself in a reply that moves on.
LEMMA WriterKept ==
  ASSUME Onward, WritesContinue, NEW s \in Socks, NEW n \in Nodes,
         wire'[s][n] = wire[s][n], sendCount'[s][n] = sendCount[s][n],
         writer'[s][n] = writer[s][n], recvCount'[s][Other(n)] = recvCount[s][Other(n)],
         loop'[s][Other(n)] = "body" <=> loop[s][Other(n)] = "body",
         loop'[s][n] = loop[s][n] \/ loop[s][n] \notin Reqs,
         writer[s][n] \in Reqs \cup Nodes \cup {None},
         Alive(s, n)'
  PROVE  Continues(s, n)'
<1>1. Continues(s, n)
  BY AliveBefore, Zenon DEF WritesContinue
<1>2. loop'[s][n] = loop[s][n] \/ writer[s][n] \notin Nodes
  BY <1>1, Zenon DEF Continues
<1>3. writer[s][n] # None => HalfWritten(s, n)' = HalfWritten(s, n)
  BY <1>2, Zenon DEF HalfWritten, Message
<1>4. NextPart(wire'[s][n], loop'[s][Other(n)]) = NextPart(wire[s][n], loop[s][Other(n)])
  BY Zenon DEF NextPart
<1>5. writer'[s][n] \in Nodes => loop'[s][n] \in Reqs
  BY <1>1, <1>2, Zenon DEF Continues
<1> QED
  BY <1>1, <1>3, <1>4, <1>5, Zenon DEF Continues

\* So do the reads, when what the loop waits for stays as it is.
LEMMA ReaderKept ==
  ASSUME Onward, FramesFollow, NEW s \in Socks, NEW n \in Nodes,
         wire'[s][Other(n)] = wire[s][Other(n)], recvCount'[s][n] = recvCount[s][n],
         loop'[s][n] = "body" <=> loop[s][n] = "body",
         end'[s][n] \notin {"closing", "closed"}
  PROVE  InStep(wire[s][Other(n)], recvCount[s][n], loop'[s][n])
<1>1. InStep(wire[s][Other(n)], recvCount[s][n], loop[s][n])
  BY Zenon DEF Onward, FramesFollow
<1> QED
  BY <1>1, Zenon DEF InStep

\* The shapes, end by end.
LEMMA EndShapes ==
  ASSUME ReqTypeOK, NEW s \in Socks, NEW n \in Nodes
  PROVE  /\ wire[s][n] \in Seq(Frames) /\ Len(wire[s][n]) \in Nat
         /\ sendCount[s][n] \in Nat /\ recvCount[s][n] \in Nat
         /\ writer[s][n] \in Reqs \cup Nodes \cup {None}
         /\ loop[s][n] \in Reqs \cup {"length", "body"}
BY DEF ReqTypeOK

\* Steps that touch no frame.
LEMMA FramesRest ==
  ASSUME ChannelInv, Onward, UNCHANGED <<wire, sendCount, recvCount, writer, loop>>
  PROVE  WritesContinue' /\ FramesFollow'
<1>1. WritesContinue /\ FramesFollow
  BY Zenon DEF ChannelInv
<1>2. ASSUME NEW s \in Socks, NEW n \in Nodes, Alive(s, n)' PROVE Continues(s, n)'
  <2>1. writer[s][n] \in Reqs \cup Nodes \cup {None}
    BY EndShapes, Zenon DEF ChannelInv
  <2> QED
    BY <1>1, <1>2, <2>1, WriterKept, Zenon
<1>3. ASSUME NEW s \in Socks, NEW n \in Nodes, end'[s][n] \notin {"closing", "closed"}
      PROVE  InStep(wire'[s][Other(n)], recvCount'[s][n], loop'[s][n])
  BY <1>1, <1>3, ReaderKept, Zenon
<1> QED
  BY <1>2, <1>3, Zenon DEF WritesContinue, FramesFollow
\* The next frame f is written by n, which afterwards holds writeMu as x; a loop that
\* has written its reply reads on.
LEMMA FrameWritten ==
  ASSUME ChannelInv, Onward, NEW n \in Nodes, NEW s \in Socks, NEW f \in Frames,
         NEW x \in Reqs \cup Nodes \cup {None},
         wire' = [wire EXCEPT ![s][n] = Append(@, f)],
         sendCount' = [sendCount EXCEPT ![s][n] = @ + 1],
         writer' = [writer EXCEPT ![s][n] = x], UNCHANGED recvCount,
         \A t \in Socks, m \in Nodes : ~(t = s /\ m = n) => loop'[t][m] = loop[t][m],
         loop'[s][n] = "body" <=> loop[s][n] = "body",
         Alive(s, n), f.nonce = sendCount[s][n],
         f.part = IF writer[s][n] = None THEN "length" ELSE "body",
         f.part = "body" => f.msg = HalfWritten(s, n) /\ x = None,
         f.part = "length" => f.msg = HalfWritten(s, n)' /\ x # None,
         x \in Nodes => loop'[s][n] \in Reqs
  PROVE  WritesContinue' /\ FramesFollow'
<1> DEFINE o == Other(n)
           w == wire[s][n]
           c == recvCount[s][o]
           r == loop[s][o]
<1>1. o \in Nodes /\ o # n /\ Other(o) = n
  BY OtherNode, Zenon
<1>2. /\ ReqTypeOK /\ WritesContinue /\ FramesFollow
      /\ w \in Seq(Frames) /\ c \in Nat /\ sendCount[s][n] \in Nat /\ Len(w) \in Nat
  BY <1>1, EndShapes, Zenon DEF ChannelInv
<1>3. /\ sendCount[s][n] = c + Len(w)
      /\ NextPart(w, r) = IF writer[s][n] = None THEN "length" ELSE "body"
      /\ writer[s][n] # None /\ w # << >> => w[Len(w)].msg = HalfWritten(s, n)
  BY <1>2, Zenon DEF WritesContinue, Continues
<1>4. end[s][o] \notin {"closing", "closed"}
  BY <1>1, Zenon DEF Alive, Dead
<1>5. InStep(w, c, r)
  <2>1. InStep(wire[s][Other(o)], recvCount[s][o], loop[s][o])
    BY <1>1, <1>2, <1>4, Zenon DEF FramesFollow
  <2> QED
    BY <1>1, <2>1, Zenon
<1>6. /\ InStep(Append(w, f), c, r)
      /\ NextPart(Append(w, f), r) = IF f.part = "length" THEN "body" ELSE "length"
      /\ Append(w, f) # << >> /\ Append(w, f)[Len(Append(w, f))] = f
      /\ Len(Append(w, f)) = Len(w) + 1 /\ Append(w, f) \in Seq(Frames)
  <2>1. f.nonce = c + Len(w) /\ f.part = NextPart(w, r)
    BY <1>3, Zenon
  <2>2. f.part = "body" /\ w # << >> => w[Len(w)].msg = f.msg
    BY <1>3, Zenon
  <2>3. Len(Append(w, f)) = Len(w) + 1 /\ Append(w, f) \in Seq(Frames)
    BY <1>2, AppendFacts
  <2> HIDE DEF w, c, r
  <2>4. w \in Seq(Frames) /\ c \in Nat
    BY <1>2, Zenon
  <2>5. /\ InStep(Append(w, f), c, r)
        /\ NextPart(Append(w, f), r) = IF f.part = "length" THEN "body" ELSE "length"
        /\ Append(w, f) # << >> /\ Append(w, f)[Len(Append(w, f))] = f
    BY <1>5, <2>1, <2>2, <2>4, InStepAppended, Zenon
  <2> QED
    BY <2>3, <2>5, Zenon
<1>7. /\ wire'[s][n] = Append(w, f) /\ sendCount'[s][n] = sendCount[s][n] + 1
      /\ writer'[s][n] = x
      /\ \A t \in Socks, m \in Nodes : ~(t = s /\ m = n) =>
           /\ wire'[t][m] = wire[t][m] /\ sendCount'[t][m] = sendCount[t][m]
           /\ writer'[t][m] = writer[t][m]
  <2>1. /\ wire \in [Socks -> [Nodes -> Seq(Frames)]]
        /\ sendCount \in [Socks -> [Nodes -> Nat]]
        /\ writer \in [Socks -> [Nodes -> Reqs \cup Nodes \cup {None}]]
    BY <1>2, Zenon DEF ReqTypeOK
  <2>2. /\ wire'[s][n] = Append(w, f)
        /\ \A t \in Socks, m \in Nodes : ~(t = s /\ m = n) => wire'[t][m] = wire[t][m]
    BY <2>1
  <2>3. /\ sendCount'[s][n] = sendCount[s][n] + 1
        /\ \A t \in Socks, m \in Nodes : ~(t = s /\ m = n) => sendCount'[t][m] = sendCount[t][m]
    BY <2>1
  <2>4. /\ writer'[s][n] = x
        /\ \A t \in Socks, m \in Nodes : ~(t = s /\ m = n) => writer'[t][m] = writer[t][m]
    BY <2>1
  <2> QED
    BY <2>2, <2>3, <2>4, ZenonT(40)
<1>8. Continues(s, n)'
  <2>1. recvCount'[s][o] = c /\ loop'[s][o] = r
    BY <1>1, Zenon
  <2>2. sendCount'[s][n] = recvCount'[s][o] + Len(wire'[s][n])
    <3>1. Len(wire'[s][n]) = Len(w) + 1
      BY <1>6, <1>7, Zenon
    <3> HIDE DEF w, c
    <3> QED
      BY <1>2, <1>3, <1>7, <2>1, <3>1
  <2>3. NextPart(wire'[s][n], loop'[s][o]) = IF writer'[s][n] = None THEN "length" ELSE "body"
    BY <1>6, <1>7, <2>1, ZenonT(40)
  <2>4. writer'[s][n] # None => wire'[s][n][Len(wire'[s][n])].msg = HalfWritten(s, n)'
    BY <1>6, <1>7, ZenonT(40)
  <2> QED
    BY <1>7, <2>2, <2>3, <2>4, Zenon DEF Continues
<1>9. ASSUME NEW t \in Socks, NEW m \in Nodes, ~(t = s /\ m = n), Alive(t, m)'
      PROVE  Continues(t, m)'
  <2>1. Other(m) \in Nodes /\ (m = o => Other(m) = n)
    BY <1>1, OtherNode, Zenon
  <2>2. /\ loop'[t][m] = loop[t][m] /\ wire'[t][m] = wire[t][m]
        /\ sendCount'[t][m] = sendCount[t][m] /\ writer'[t][m] = writer[t][m]
        /\ writer[t][m] \in Reqs \cup Nodes \cup {None}
    BY <1>2, <1>7, <1>9, EndShapes, Zenon
  <2>3. loop'[t][Other(m)] = "body" <=> loop[t][Other(m)] = "body"
    BY <2>1, Zenon
  <2> QED
    BY <1>2, <1>9, <2>1, <2>2, <2>3, WriterKept, Zenon
<1>10. ASSUME NEW t \in Socks, NEW m \in Nodes, end'[t][m] \notin {"closing", "closed"}
       PROVE  InStep(wire'[t][Other(m)], recvCount'[t][m], loop'[t][m])
  <2>1. CASE t = s /\ m = o
    <3>1. wire'[s][Other(o)] = Append(w, f) /\ recvCount'[s][o] = c /\ loop'[s][o] = r
      BY <1>1, <1>7, Zenon
    <3> QED
      BY <1>6, <2>1, <3>1, Zenon
  <2>2. CASE ~(t = s /\ m = o)
    <3>1. Other(m) \in Nodes /\ ~(t = s /\ Other(m) = n)
      BY <1>1, <2>2, OtherNode, Zenon
    <3>2. /\ wire'[t][Other(m)] = wire[t][Other(m)]
          /\ loop'[t][m] = "body" <=> loop[t][m] = "body"
      <4>1. wire'[t][Other(m)] = wire[t][Other(m)]
        BY <1>7, <3>1, Zenon
      <4>2. loop'[t][m] = "body" <=> loop[t][m] = "body"
        BY Zenon
      <4> QED
        BY <4>1, <4>2, Zenon
    <3> QED
      BY <1>2, <1>10, <3>2, ReaderKept, Zenon
  <2> QED
    BY <2>1, <2>2, Zenon
<1>11. WritesContinue'
  BY <1>8, <1>9, Zenon DEF WritesContinue
<1> QED
  BY <1>10, <1>11, Zenon DEF FramesFollow

\* A write that fails is on a socket that is not alive any more.
LEMMA FrameLost ==
  ASSUME ChannelInv, Onward, NEW n \in Nodes, NEW s \in Socks, ~Alive(s, n),
         UNCHANGED <<wire, recvCount>>,
         \A t \in Socks, m \in Nodes : ~(t = s /\ m = n) =>
           /\ sendCount'[t][m] = sendCount[t][m] /\ writer'[t][m] = writer[t][m]
           /\ loop'[t][m] = loop[t][m],
         loop'[s][n] = "body" <=> loop[s][n] = "body"
  PROVE  WritesContinue' /\ FramesFollow'
<1>1. ReqTypeOK /\ WritesContinue /\ FramesFollow
  BY Zenon DEF ChannelInv
<1>2. ASSUME NEW t \in Socks, NEW m \in Nodes, Alive(t, m)' PROVE Continues(t, m)'
  <2>1. ~(t = s /\ m = n)
    BY <1>2, AliveBefore, Zenon
  <2>2. Other(m) \in Nodes
    BY OtherNode, Zenon
  <2>3. writer[t][m] \in Reqs \cup Nodes \cup {None}
    BY <1>1, EndShapes, Zenon
  <2>4. loop'[t][Other(m)] = "body" <=> loop[t][Other(m)] = "body"
    BY <2>2, Zenon
  <2> QED
    BY <1>1, <1>2, <2>1, <2>3, <2>4, WriterKept, Zenon
<1>3. ASSUME NEW t \in Socks, NEW m \in Nodes, end'[t][m] \notin {"closing", "closed"}
      PROVE  InStep(wire'[t][Other(m)], recvCount'[t][m], loop'[t][m])
  <2>1. loop'[t][m] = "body" <=> loop[t][m] = "body"
    BY Zenon
  <2> QED
    BY <1>1, <1>3, <2>1, ReaderKept, Zenon
<1> QED
  BY <1>2, <1>3, Zenon DEF WritesContinue, FramesFollow

\* What a read loop finds is what it waits for, so no frame ends it.
LEMMA FrameFits ==
  ASSUME ChannelInv, NEW n \in Nodes, NEW s \in Socks, ReadFrame(n, s)
  PROVE  LET o == Other(n)
             f == wire[s][o][1]
         IN  /\ wire[s][o] # << >> /\ end[s][n] = "open" /\ loop[s][n] \in {"length", "body"}
             /\ InStep(wire[s][o], recvCount[s][n], loop[s][n])
             /\ f \in Frames /\ f.part = loop[s][n] /\ UNCHANGED pairVars
             /\ IF f.part = "body" THEN handleMessage(n, s, f.msg)
                ELSE /\ loop' = [loop EXCEPT ![s][n] = "body"]
                     /\ UNCHANGED <<chan, pending, served>>
<1> DEFINE o == Other(n)
           w == wire[s][o]
<1>1. /\ o \in Nodes /\ w \in Seq(Frames) /\ recvCount[s][n] \in Nat
      /\ w # << >> /\ end[s][n] = "open" /\ loop[s][n] \in {"length", "body"}
  BY OtherNode, EndShapes, Zenon DEF ChannelInv, ReadFrame
<1>2. InStep(w, recvCount[s][n], loop[s][n])
  BY <1>1, Zenon DEF ChannelInv, FramesFollow
<1>3. Head(w) = w[1] /\ w[1] \in Frames /\ 1 \in 1..Len(w)
  BY <1>1, TailFacts
<1>4. w[1].nonce = recvCount[s][n] + 1 - 1
  BY <1>2, <1>3, Zenon DEF InStep
<1>5. w[1].nonce = recvCount[s][n]
  BY <1>1, <1>4
<1>6. w[1].part = loop[s][n]
  BY <1>1, <1>2, Zenon DEF InStep
<1>7. UNCHANGED pairVars /\ IF w[1].part = "body" THEN handleMessage(n, s, w[1].msg)
                            ELSE /\ loop' = [loop EXCEPT ![s][n] = "body"]
                                 /\ UNCHANGED <<chan, pending, served>>
  BY <1>3, <1>5, <1>6, Zenon DEF ReadFrame, pairVars
<1> QED
  BY <1>1, <1>2, <1>3, <1>6, <1>7, Zenon

\* The loop then waits for the other part, or is busy with the request it read.
LEMMA LoopTurns ==
  ASSUME ChannelInv, NEW n \in Nodes, NEW s \in Socks, ReadFrame(n, s)
  PROVE  /\ loop'[s][n] = "body" <=> wire[s][Other(n)][1].part = "length"
         /\ \A t \in Socks, m \in Nodes : ~(t = s /\ m = n) => loop'[t][m] = loop[t][m]
<1> DEFINE f == wire[s][Other(n)][1]
<1>1. /\ f \in Frames /\ f.part = loop[s][n] /\ loop[s][n] \in {"length", "body"}
      /\ IF f.part = "body" THEN handleMessage(n, s, f.msg)
         ELSE loop' = [loop EXCEPT ![s][n] = "body"]
  BY FrameFits, ZenonT(40)
<1>2. loop \in [Socks -> [Nodes -> Reqs \cup {"length", "body"}]]
  BY Zenon DEF ChannelInv, ReqTypeOK
<1>3. ASSUME NEW v, loop' = [loop EXCEPT ![s][n] = v]
      PROVE  /\ loop'[s][n] = v
             /\ \A t \in Socks, m \in Nodes : ~(t = s /\ m = n) => loop'[t][m] = loop[t][m]
  BY <1>2, <1>3
<1>4. CASE f.part = "length"
  <2>1. loop' = [loop EXCEPT ![s][n] = "body"]
    BY <1>1, <1>4, Zenon
  <2> QED
    BY <1>3, <1>4, <2>1, Zenon
<1>5. CASE f.part = "body"
  <2>1. f.msg.id \in Reqs /\ "body" \notin Reqs
    BY <1>1, RequestsAssumption DEF Frames, Messages
  <2>2. \/ loop' = [loop EXCEPT ![s][n] = "length"]
        \/ loop' = [loop EXCEPT ![s][n] = f.msg.id]
    BY <1>1, <1>5, Zenon DEF handleMessage
  <2>3. f.msg.id # "body"
    BY <2>1, Zenon
  <2>4. /\ loop'[s][n] # "body"
        /\ \A t \in Socks, m \in Nodes : ~(t = s /\ m = n) => loop'[t][m] = loop[t][m]
    <3>1. CASE loop' = [loop EXCEPT ![s][n] = "length"]
      <4>1. "length" # "body"
        OBVIOUS
      <4> QED
        BY <1>3, <3>1, <4>1, Zenon
    <3>2. CASE loop' = [loop EXCEPT ![s][n] = f.msg.id]
      BY <1>3, <2>3, <3>2, Zenon
    <3> QED
      BY <2>2, <3>1, <3>2, Zenon
  <2> QED
    BY <1>5, <2>4, Zenon
<1> QED
  BY <1>1, <1>4, <1>5, Zenon

\* A frame is read.
LEMMA FrameTaken ==
  ASSUME ChannelInv, Onward, NEW n \in Nodes, NEW s \in Socks, ReadFrame(n, s)
  PROVE  WritesContinue' /\ FramesFollow'
<1> DEFINE o == Other(n)
           w == wire[s][o]
           c == recvCount[s][n]
           r == loop[s][n]
<1>1. o \in Nodes /\ o # n /\ Other(o) = n
  BY OtherNode, Zenon
<1>2. ReqTypeOK /\ WritesContinue /\ FramesFollow
  BY Zenon DEF ChannelInv
<1>3. /\ w \in Seq(Frames) /\ Len(w) \in Nat /\ c \in Nat /\ sendCount[s][o] \in Nat
      /\ w # << >> /\ InStep(w, c, r) /\ r \notin Reqs
  <2>1. r \in {"length", "body"} /\ w # << >> /\ InStep(w, c, r)
    BY FrameFits, Zenon
  <2>2. r \notin Reqs
    BY <2>1, RequestsAssumption, Zenon
  <2> QED
    BY <1>1, <1>2, <2>1, <2>2, EndShapes, Zenon
<1>4. /\ loop'[s][n] = "body" <=> w[1].part = "length"
      /\ \A t \in Socks, m \in Nodes : ~(t = s /\ m = n) => loop'[t][m] = loop[t][m]
  BY LoopTurns, ZenonT(40)
<1>5. /\ InStep(Tail(w), c + 1, loop'[s][n])
      /\ NextPart(Tail(w), loop'[s][n]) = NextPart(w, r)
      /\ Tail(w) # << >> => Tail(w)[Len(Tail(w))] = w[Len(w)]
  <2> DEFINE q == loop'[s][n]
  <2>1. /\ w \in Seq(Frames) /\ w # << >> /\ c \in Nat /\ InStep(w, c, r)
        /\ q = "body" <=> w[1].part = "length"
    BY <1>3, <1>4, Zenon
  <2> HIDE DEF w, c, r, q
  <2>2. /\ InStep(Tail(w), c + 1, q)
        /\ NextPart(Tail(w), q) = NextPart(w, r)
        /\ Tail(w) # << >> => Tail(w)[Len(Tail(w))] = w[Len(w)]
    BY <2>1, InStepRead
  <2> QED
    BY <2>2, Zenon DEF q
<1>6. Len(Tail(w)) = Len(w) - 1
  BY <1>3, TailFacts
<1>7. /\ wire'[s][o] = Tail(w) /\ recvCount'[s][n] = c + 1
      /\ UNCHANGED <<sendCount, writer>>
      /\ \A t \in Socks, m \in Nodes : ~(t = s /\ m = o) => wire'[t][m] = wire[t][m]
      /\ \A t \in Socks, m \in Nodes : ~(t = s /\ m = n) => recvCount'[t][m] = recvCount[t][m]
  <2>1. /\ wire' = [wire EXCEPT ![s][o] = Tail(@)]
        /\ recvCount' = [recvCount EXCEPT ![s][n] = @ + 1]
        /\ UNCHANGED <<sendCount, writer>>
    BY Zenon DEF ReadFrame
  <2>2. /\ wire \in [Socks -> [Nodes -> Seq(Frames)]]
        /\ recvCount \in [Socks -> [Nodes -> Nat]]
    BY <1>2, Zenon DEF ReqTypeOK
  <2>3. /\ wire'[s][o] = Tail(w)
        /\ \A t \in Socks, m \in Nodes : ~(t = s /\ m = o) => wire'[t][m] = wire[t][m]
    BY <1>1, <2>1, <2>2
  <2>4. /\ recvCount'[s][n] = c + 1
        /\ \A t \in Socks, m \in Nodes : ~(t = s /\ m = n) => recvCount'[t][m] = recvCount[t][m]
    BY <2>1, <2>2
  <2> QED
    BY <2>1, <2>3, <2>4, Zenon
<1>8. ASSUME Alive(s, o)' PROVE Continues(s, o)'
  <2>1. Continues(s, o)
    BY <1>1, <1>2, <1>8, AliveBefore, Zenon DEF WritesContinue
  <2>2. /\ sendCount[s][o] = c + Len(w)
        /\ NextPart(w, r) = IF writer[s][o] = None THEN "length" ELSE "body"
        /\ writer[s][o] # None /\ w # << >> => w[Len(w)].msg = HalfWritten(s, o)
        /\ writer[s][o] \in Nodes => loop[s][o] \in Reqs
    BY <1>1, <2>1, Zenon DEF Continues
  <2>3. loop'[s][o] = loop[s][o] /\ HalfWritten(s, o)' = HalfWritten(s, o)
    BY <1>1, <1>4, <1>7, Zenon DEF HalfWritten, Message
  <2>4. sendCount'[s][o] = recvCount'[s][n] + Len(wire'[s][o])
    <3>1. sendCount'[s][o] = sendCount[s][o] /\ Len(wire'[s][o]) = Len(w) - 1
      BY <1>6, <1>7, Zenon
    <3> HIDE DEF w, c
    <3> QED
      BY <1>3, <1>7, <2>2, <3>1
  <2>5. /\ NextPart(wire'[s][o], loop'[s][n]) = IF writer'[s][o] = None THEN "length" ELSE "body"
        /\ writer'[s][o] # None /\ wire'[s][o] # << >> =>
             wire'[s][o][Len(wire'[s][o])].msg = HalfWritten(s, o)'
        /\ writer'[s][o] \in Nodes => loop'[s][o] \in Reqs
    BY <1>3, <1>5, <1>7, <2>2, <2>3, Zenon
  <2> QED
    BY <1>1, <2>4, <2>5, Zenon DEF Continues
<1>9. ASSUME NEW t \in Socks, NEW m \in Nodes, ~(t = s /\ m = o), Alive(t, m)'
      PROVE  Continues(t, m)'
  <2>1. Other(m) \in Nodes /\ ~(t = s /\ Other(m) = n)
    BY <1>1, <1>9, OtherNode, Zenon
  <2>2. /\ wire'[t][m] = wire[t][m] /\ loop'[t][Other(m)] = loop[t][Other(m)]
        /\ recvCount'[t][Other(m)] = recvCount[t][Other(m)]
        /\ writer[t][m] \in Reqs \cup Nodes \cup {None}
    <3>1. writer[t][m] \in Reqs \cup Nodes \cup {None}
      BY <1>2, EndShapes, Zenon
    <3> QED
      BY <1>4, <1>7, <1>9, <2>1, <3>1, Zenon
  <2>3. loop'[t][m] = loop[t][m] \/ loop[t][m] \notin Reqs
    BY <1>3, <1>4, Zenon
  <2> QED
    BY <1>2, <1>7, <1>9, <2>2, <2>3, WriterKept, Zenon
<1>10. ASSUME NEW t \in Socks, NEW m \in Nodes, end'[t][m] \notin {"closing", "closed"}
       PROVE  InStep(wire'[t][Other(m)], recvCount'[t][m], loop'[t][m])
  <2>1. CASE t = s /\ m = n
    BY <1>5, <1>7, <2>1, Zenon
  <2>2. CASE ~(t = s /\ m = n)
    <3>1. Other(m) \in Nodes /\ ~(t = s /\ Other(m) = o)
      BY <1>1, <2>2, OtherNode, Zenon
    <3>2. /\ wire'[t][Other(m)] = wire[t][Other(m)] /\ loop'[t][m] = loop[t][m]
          /\ recvCount'[t][m] = recvCount[t][m]
      BY <1>4, <1>7, <2>2, <3>1, Zenon
    <3> QED
      BY <1>2, <1>10, <3>2, ReaderKept, Zenon
  <2> QED
    BY <2>1, <2>2, Zenon
<1>11. WritesContinue'
  BY <1>8, <1>9, Zenon DEF WritesContinue
<1> QED
  BY <1>10, <1>11, Zenon DEF FramesFollow

\* Sockets in use stay past their handshake, and a busy loop keeps its end open.
LEMMA UseKept ==
  ASSUME ReqTypeOK, EndsInUse, Onward,
         \A q \in Reqs : \/ sock'[q] = sock[q]
                         \/ sock'[q] # None /\ end'[sock'[q]][Owner[q]] \notin {"none", "handshake"},
         \A q \in Reqs : req'[q] = "sending" => req[q] = "sending" \/ sock'[q] # None,
         \A s \in Socks, n \in Nodes : loop'[s][n] \in Reqs =>
           end'[s][n] = "open" \/ (loop[s][n] \in Reqs /\ end'[s][n] = end[s][n])
  PROVE  EndsInUse'
<1>1. ASSUME NEW q \in Reqs, sock'[q] # None
      PROVE  end'[sock'[q]][Owner[q]] \notin {"none", "handshake"}
  <2>1. CASE sock'[q] = sock[q]
    <3>1. sock[q] \in Socks /\ Owner[q] \in Nodes
      BY <1>1, <2>1, RequestsAssumption DEF ReqTypeOK
    <3>2. end[sock[q]][Owner[q]] \notin {"none", "handshake"}
      BY <1>1, <2>1, Zenon DEF EndsInUse
    <3> QED
      BY <2>1, <3>1, <3>2, Zenon DEF Onward
  <2> QED
    BY <1>1, <2>1, Zenon
<1>2. ASSUME NEW q \in Reqs, req'[q] = "sending" PROVE sock'[q] # None
  BY <1>2, Zenon DEF EndsInUse
<1>3. ASSUME NEW s \in Socks, NEW n \in Nodes, loop'[s][n] \in Reqs PROVE end'[s][n] = "open"
  <2>1. loop[s][n] \in Reqs => end[s][n] = "open"
    BY Zenon DEF EndsInUse
  <2>2. end'[s][n] = "open" \/ (loop[s][n] \in Reqs /\ end'[s][n] = end[s][n])
    BY <1>3, Zenon
  <2> QED
    BY <2>1, <2>2, Zenon
<1> QED
  BY <1>1, <1>2, <1>3, Zenon DEF EndsInUse

\* What a step of the two peers keeps, besides the shapes.
StreamInv == PairInv /\ EndsInUse /\ WritesContinue /\ FramesFollow

\* BeginConnected, BeginJoins, Woken, Send, Answer and Timeout touch no socket.
LEMMA CallersStream ==
  ASSUME ChannelInv, NEW q \in Reqs,
         \/ BeginConnected(q) \/ BeginJoins(q) \/ Woken(q) \/ Send(q) \/ Answer(q) \/ Timeout(q)
  PROVE  StreamInv'
<1>1. /\ UNCHANGED <<dialedBy, end, conn, dialing, broken>>
      /\ UNCHANGED <<wire, sendCount, recvCount, writer, loop>>
  BY Zenon DEF BeginConnected, BeginJoins, Woken, Send, Answer, Timeout, pairVars, frameVars
<1>2. PairInv /\ ReqTypeOK /\ EndsInUse /\ broken \in SUBSET Socks
  BY Zenon DEF ChannelInv, PairInv, PairSound, PairTypeOK
<1>3. PairInv' /\ Onward
  BY <1>1, <1>2, IdlePair, Zenon
<1>4. WritesContinue' /\ FramesFollow'
  BY <1>1, <1>3, FramesRest, Zenon
<1>5. req \in [Reqs -> Calls] /\ sock \in [Reqs -> Socks \cup {None}] /\ Owner[q] \in Nodes
  BY <1>2, RequestsAssumption, Zenon DEF ReqTypeOK
<1>6. \A p \in Reqs : \/ sock'[p] = sock[p]
                      \/ sock'[p] # None /\ end'[sock'[p]][Owner[p]] \notin {"none", "handshake"}
  <2>1. CASE UNCHANGED sock
    BY <2>1, Zenon
  <2>2. CASE sock' = [sock EXCEPT ![q] = conn[Owner[q]]] /\ conn[Owner[q]] # None
    <3>1. end[conn[Owner[q]]][Owner[q]] \in {"open", "closing"}
      BY <1>2, <1>5, <2>2, Zenon DEF PairInv
    <3>2. end'[conn[Owner[q]]][Owner[q]] \notin {"none", "handshake"}
      BY <1>1, <3>1
    <3>3. sock'[q] = conn[Owner[q]] /\ \A p \in Reqs : p # q => sock'[p] = sock[p]
      BY <1>5, <2>2, Zenon
    <3> QED
      BY <2>2, <3>2, <3>3, Zenon
  <2> QED
    BY <2>1, <2>2, Zenon DEF BeginConnected, BeginJoins, Woken, Send, Answer, Timeout
<1>7. \A p \in Reqs : req'[p] = "sending" => req[p] = "sending" \/ sock'[p] # None
  <2>1. CASE \E to \in Calls \ {"sending"} : req' = [req EXCEPT ![q] = to]
    BY <1>5, <2>1 DEF Calls
  <2>2. CASE req' = [req EXCEPT ![q] = "sending"] /\ sock'[q] # None
    BY <1>5, <2>2, Zenon
  <2>3. \/ \E to \in Calls \ {"sending"} : req' = [req EXCEPT ![q] = to]
        \/ Send(q) /\ conn[Owner[q]] # None
    BY DEF BeginConnected, BeginJoins, Woken, Send, Answer, Timeout, Calls
  <2>4. CASE Send(q) /\ conn[Owner[q]] # None
    BY <1>5, <2>2, <2>4, Zenon DEF Send
  <2> QED
    BY <2>1, <2>3, <2>4, Zenon
<1>8. EndsInUse'
  BY <1>1, <1>2, <1>3, <1>6, <1>7, UseKept, Zenon
<1> QED
  BY <1>3, <1>4, <1>8, Zenon DEF StreamInv

\* BeginDials, HandshakeEnds, ReadEnds, Cleanup and NetworkBreaks touch no frame.
LEMMA SocketsStream ==
  ASSUME ChannelInv, PairInv', Onward, UNCHANGED <<frameVars, sock, loop>>,
         \A q \in Reqs : req'[q] = "sending" => req[q] = "sending",
         \A s \in Socks, n \in Nodes :
           end[s][n] = "open" => end'[s][n] = "open" \/ loop[s][n] \notin Reqs
  PROVE  StreamInv'
<1>1. UNCHANGED <<wire, sendCount, recvCount, writer, loop>>
  BY Zenon DEF frameVars
<1>2. ReqTypeOK /\ EndsInUse
  BY Zenon DEF ChannelInv
<1>3. WritesContinue' /\ FramesFollow'
  BY <1>1, FramesRest, Zenon
<1>4. \A s \in Socks, n \in Nodes : loop'[s][n] \in Reqs => end'[s][n] = "open"
  BY <1>1, <1>2, Zenon DEF EndsInUse
<1>5. EndsInUse'
  BY <1>2, <1>4, UseKept, Zenon
<1> QED
  BY <1>3, <1>5, Zenon DEF StreamInv

\* The frames that are written.
LEMMA FrameShape ==
  ASSUME NEW k \in Nat, NEW p \in {"length", "body"}, NEW m \in Messages
  PROVE  LET f == [nonce |-> k, part |-> p, msg |-> m]
         IN  f \in Frames /\ f.nonce = k /\ f.part = p /\ f.msg = m
BY DEF Frames

\* SendLength and SendBody: the caller that sends holds writeMu in between.
LEMMA SendsStream ==
  ASSUME ChannelInv, NEW q \in Reqs, SendLength(q) \/ SendBody(q)
  PROVE  StreamInv'
<1> DEFINE n == Owner[q]
           m == Message("request", q)
<1>1. PairInv /\ ReqTypeOK /\ EndsInUse /\ broken \in SUBSET Socks
  BY Zenon DEF ChannelInv, PairInv, PairSound, PairTypeOK
<1>2. /\ UNCHANGED <<dialedBy, end, conn, dialing, broken>>
      /\ UNCHANGED <<sock, loop, recvCount>> /\ req[q] = "sending"
      /\ req' = req \/ req' = [req EXCEPT ![q] = "waiting"]
  BY Zenon DEF SendLength, SendBody, WriteLength, WriteBody, pairVars, callerVars
<1>3. n \in Nodes /\ sock[q] \in Socks /\ req \in [Reqs -> Calls] /\ m \in Messages
  <2>1. n \in Nodes /\ req \in [Reqs -> Calls] /\ sock \in [Reqs -> Socks \cup {None}]
    BY <1>1, RequestsAssumption, Zenon DEF ReqTypeOK
  <2>2. sock[q] # None
    BY <1>1, <1>2, Zenon DEF EndsInUse
  <2>3. m \in Messages
    BY DEF Message, Messages
  <2> QED
    BY <2>1, <2>2, <2>3, Zenon
<1>4. PairInv' /\ Onward
  BY <1>1, <1>2, IdlePair, Zenon
<1>5. EndsInUse'
  <2>1. \A p \in Reqs : req'[p] = "sending" => req[p] = "sending"
    BY <1>2, <1>3
  <2>2. \A t \in Socks, k \in Nodes : loop'[t][k] \in Reqs => loop[t][k] \in Reqs /\ end'[t][k] = end[t][k]
    BY <1>2, Zenon
  <2> QED
    BY <1>1, <1>2, <1>4, <2>1, <2>2, UseKept, Zenon
<1>6. PICK s \in Socks : s = sock[q]
  BY <1>3, Zenon
<1>7. q # None /\ sendCount[s][n] \in Nat
  BY <1>1, <1>3, RequestsAssumption, EndShapes, Zenon
<1>8. ASSUME SendLength(q) PROVE WritesContinue' /\ FramesFollow'
  <2> DEFINE f == [nonce |-> sendCount[s][n], part |-> "length", msg |-> m]
  <2>1. /\ f \in Frames /\ f.nonce = sendCount[s][n] /\ f.part = "length" /\ f.msg = m
    BY <1>3, <1>7, FrameShape, Zenon
  <2>2. /\ wire' = [wire EXCEPT ![s][n] = Append(@, f)]
        /\ sendCount' = [sendCount EXCEPT ![s][n] = @ + 1]
        /\ writer' = [writer EXCEPT ![s][n] = q]
        /\ writer[s][n] = None /\ end[s][n] = "open" /\ ~Dead(n, s)
    BY <1>8, <1>6, Zenon DEF SendLength, WriteLength
  <2>3. Alive(s, n)
    BY <2>2 DEF Alive
  <2>4. HalfWritten(s, n)' = m
    <3>1. writer'[s][n] = q
      BY <1>1, <1>3, <2>2 DEF ReqTypeOK
    <3> QED
      BY <3>1, Zenon DEF HalfWritten, Message
  <2>5. q \notin Nodes /\ "length" # "body"
    BY RequestsAssumption
  <2> HIDE DEF n, m, f
  <2> QED
    BY <1>2, <1>3, <1>4, <1>7, <2>1, <2>2, <2>3, <2>4, <2>5, FrameWritten, ZenonT(40)
<1>9. ASSUME SendBody(q) PROVE WritesContinue' /\ FramesFollow'
  <2> DEFINE f == [nonce |-> sendCount[s][n], part |-> "body", msg |-> m]
  <2>1. /\ f \in Frames /\ f.nonce = sendCount[s][n] /\ f.part = "body" /\ f.msg = m
    BY <1>3, <1>7, FrameShape, Zenon
  <2>2. /\ wire' = [wire EXCEPT ![s][n] = Append(@, f)]
        /\ sendCount' = [sendCount EXCEPT ![s][n] = @ + 1]
        /\ writer' = [writer EXCEPT ![s][n] = None]
        /\ writer[s][n] = q /\ end[s][n] = "open" /\ ~Dead(n, s)
    BY <1>9, <1>6, Zenon DEF SendBody, WriteBody
  <2>3. Alive(s, n)
    BY <2>2 DEF Alive
  <2>4. HalfWritten(s, n) = m
    BY <2>2, Zenon DEF HalfWritten, Message
  <2>5. None \notin Nodes /\ "length" # "body"
    BY PairAssumption
  <2> HIDE DEF n, m, f
  <2> QED
    BY <1>2, <1>3, <1>4, <1>7, <2>1, <2>2, <2>3, <2>4, <2>5, FrameWritten, ZenonT(40)
<1> QED
  BY <1>4, <1>5, <1>8, <1>9, Zenon DEF StreamInv

\* ReplyLength and ReplyBody: the loop that replies is the one of the connection in
\* the tables, and it holds writeMu in between.
LEMMA RepliesStream ==
  ASSUME ChannelInv, NEW n \in Nodes, NEW s \in Socks, ReplyLength(n, s) \/ ReplyBody(n, s)
  PROVE  StreamInv'
<1> DEFINE m == Message("reply", loop[s][n])
<1>1. PairInv /\ ReqTypeOK /\ EndsInUse /\ broken \in SUBSET Socks
  BY Zenon DEF ChannelInv, PairInv, PairSound, PairTypeOK
<1>2. /\ UNCHANGED <<dialedBy, end, conn, dialing, broken>>
      /\ UNCHANGED <<req, sock, recvCount>> /\ loop[s][n] \in Reqs
      /\ loop' = loop \/ loop' = [loop EXCEPT ![s][n] = "length"]
  BY Zenon DEF ReplyLength, ReplyBody, WriteLength, WriteBody, pairVars, callerVars
<1>3. end[s][n] = "open" /\ conn[n] = s
  <2>1. end[s][n] = "open"
    BY <1>1, <1>2, Zenon DEF EndsInUse
  <2> QED
    BY <1>1, <2>1, Zenon DEF PairInv, PairSound, NoSpareSocket
<1>4. PairInv' /\ Onward
  BY <1>1, <1>2, IdlePair, Zenon
<1>5. /\ \A t \in Socks, k \in Nodes : ~(t = s /\ k = n) => loop'[t][k] = loop[t][k]
      /\ loop'[s][n] # "body" /\ loop[s][n] # "body"
  <2>1. loop \in [Socks -> [Nodes -> Reqs \cup {"length", "body"}]] /\ "body" \notin Reqs
    BY <1>1, RequestsAssumption DEF ReqTypeOK
  <2> QED
    BY <1>2, <2>1
<1>6. EndsInUse'
  <2>1. \A t \in Socks, k \in Nodes : loop'[t][k] \in Reqs =>
          end'[t][k] = "open" \/ (loop[t][k] \in Reqs /\ end'[t][k] = end[t][k])
    BY <1>2, <1>3, <1>5, Zenon
  <2> QED
    BY <1>1, <1>2, <1>4, <2>1, UseKept, Zenon
<1>7. /\ m \in Messages /\ sendCount[s][n] \in Nat /\ n # None
      /\ n \notin Reqs /\ None \notin Nodes /\ "length" # "body"
  <2>1. sendCount[s][n] \in Nat
    BY <1>1, EndShapes, Zenon
  <2> QED
    BY <1>2, <2>1, RequestsAssumption, PairAssumption DEF Message, Messages
<1>8. ASSUME ReplyLength(n, s) PROVE WritesContinue' /\ FramesFollow'
  <2> DEFINE f == [nonce |-> sendCount[s][n], part |-> "length", msg |-> m]
  <2>1. /\ f \in Frames /\ f.nonce = sendCount[s][n] /\ f.part = "length" /\ f.msg = m
    BY <1>7, FrameShape, Zenon
  <2>2. /\ wire' = [wire EXCEPT ![s][n] = Append(@, f)]
        /\ sendCount' = [sendCount EXCEPT ![s][n] = @ + 1]
        /\ writer' = [writer EXCEPT ![s][n] = n]
        /\ writer[s][n] = None /\ ~Dead(n, s) /\ loop' = loop
    BY <1>3, <1>8, Zenon DEF ReplyLength, WriteLength
  <2>3. Alive(s, n)
    BY <1>3, <2>2 DEF Alive
  <2>4. HalfWritten(s, n)' = m /\ loop'[s][n] \in Reqs
    <3>1. writer'[s][n] = n
      BY <1>1, <2>2 DEF ReqTypeOK
    <3> QED
      BY <1>2, <1>7, <2>2, <3>1, Zenon DEF HalfWritten, Message
  <2> HIDE DEF m, f
  <2> QED
    BY <1>2, <1>4, <1>5, <1>7, <2>1, <2>2, <2>3, <2>4, FrameWritten, ZenonT(40)
<1>9. ASSUME ReplyBody(n, s) PROVE WritesContinue' /\ FramesFollow'
  <2> DEFINE f == [nonce |-> sendCount[s][n], part |-> "body", msg |-> m]
  <2>1. /\ f \in Frames /\ f.nonce = sendCount[s][n] /\ f.part = "body" /\ f.msg = m
    BY <1>7, FrameShape, Zenon
  <2>2. /\ wire' = [wire EXCEPT ![s][n] = Append(@, f)]
        /\ sendCount' = [sendCount EXCEPT ![s][n] = @ + 1]
        /\ writer' = [writer EXCEPT ![s][n] = None]
        /\ writer[s][n] = n /\ ~Dead(n, s)
    BY <1>3, <1>9, Zenon DEF ReplyBody, WriteBody
  <2>3. Alive(s, n)
    BY <1>3, <2>2 DEF Alive
  <2>4. HalfWritten(s, n) = m
    BY <1>7, <2>2, Zenon DEF HalfWritten, Message
  <2> HIDE DEF m, f
  <2> QED
    BY <1>2, <1>4, <1>5, <1>7, <2>1, <2>2, <2>3, <2>4, FrameWritten, ZenonT(40)
<1> QED
  BY <1>4, <1>6, <1>8, <1>9, Zenon DEF StreamInv

\* WriteFails touches the counter and writeMu of its end only.
LEMMA FailedWrite ==
  ASSUME ReqTypeOK, NEW w, NEW n \in Nodes, NEW s \in Socks, WriteFails(w, n, s)
  PROVE  /\ UNCHANGED <<wire, recvCount>>
         /\ \A t \in Socks, m \in Nodes : ~(t = s /\ m = n) =>
              sendCount'[t][m] = sendCount[t][m] /\ writer'[t][m] = writer[t][m]
<1>1. /\ sendCount \in [Socks -> [Nodes -> Nat]] /\ UNCHANGED <<wire, recvCount>>
      /\ writer \in [Socks -> [Nodes -> Reqs \cup Nodes \cup {None}]]
      /\ sendCount' = [sendCount EXCEPT ![s][n] = @ + 1]
      /\ writer' = [writer EXCEPT ![s][n] = None]
  BY Zenon DEF ReqTypeOK, WriteFails
<1>2. \A t \in Socks, m \in Nodes : ~(t = s /\ m = n) => sendCount'[t][m] = sendCount[t][m]
  BY <1>1
<1>3. \A t \in Socks, m \in Nodes : ~(t = s /\ m = n) => writer'[t][m] = writer[t][m]
  BY <1>1
<1> QED
  BY <1>1, <1>2, <1>3, Zenon

\* SendFails: the socket was past its handshake, so an end of it has closed.
LEMMA SendFailsStream ==
  ASSUME ChannelInv, NEW q \in Reqs, SendFails(q)
  PROVE  StreamInv'
<1>1. /\ PairInv /\ ReqTypeOK /\ EndsInUse /\ broken \in SUBSET Socks
      /\ end \in [Socks -> [Nodes -> Ends]]
  BY Zenon DEF ChannelInv, PairInv, PairSound, PairTypeOK
<1>2. /\ UNCHANGED <<dialedBy, end, conn, dialing, broken>>
      /\ UNCHANGED <<sock, loop>> /\ req[q] = "sending"
      /\ req' = [req EXCEPT ![q] = "failed"]
      /\ WriteFails(q, Owner[q], sock[q])
  BY Zenon DEF SendFails, pairVars
<1>3. /\ Owner[q] \in Nodes /\ sock[q] \in Socks /\ req \in [Reqs -> Calls]
      /\ end[sock[q]][Owner[q]] \notin {"none", "handshake"}
  <2>1. Owner[q] \in Nodes /\ req \in [Reqs -> Calls] /\ sock[q] \in Socks \cup {None}
    BY <1>1, RequestsAssumption DEF ReqTypeOK
  <2>2. sock[q] # None
    BY <1>1, <1>2, Zenon DEF EndsInUse
  <2>3. end[sock[q]][Owner[q]] \notin {"none", "handshake"}
    BY <1>1, <2>2, Zenon DEF EndsInUse
  <2> QED
    BY <2>1, <2>2, <2>3, Zenon
<1>4. PairInv' /\ Onward
  BY <1>1, <1>2, IdlePair, Zenon
<1>5. EndsInUse'
  <2>1. \A p \in Reqs : req'[p] = "sending" => req[p] = "sending"
    BY <1>2, <1>3
  <2>2. \A t \in Socks, k \in Nodes : loop'[t][k] \in Reqs => loop[t][k] \in Reqs /\ end'[t][k] = end[t][k]
    BY <1>2, Zenon
  <2> QED
    BY <1>1, <1>2, <1>4, <2>1, <2>2, UseKept, Zenon
<1>6. PICK s \in Socks : s = sock[q]
  BY <1>3, Zenon
<1>7. PICK n \in Nodes : n = Owner[q]
  BY <1>3, Zenon
<1>8. ~Alive(s, n)
  <2>1. end[s][n] \in Ends /\ end[s][n] \notin {"none", "handshake"}
    BY <1>1, <1>3, <1>6, <1>7
  <2>2. end[s][n] # "open" \/ Dead(n, s)
    BY <1>2, <1>6, <1>7, Zenon DEF WriteFails
  <2> QED
    BY <2>1, <2>2 DEF Alive, Ends
<1>9. /\ UNCHANGED <<wire, recvCount>>
      /\ \A t \in Socks, m \in Nodes : ~(t = s /\ m = n) =>
           sendCount'[t][m] = sendCount[t][m] /\ writer'[t][m] = writer[t][m]
  <2>1. WriteFails(q, n, s)
    BY <1>2, <1>6, <1>7, Zenon
  <2> QED
    BY <1>1, <2>1, FailedWrite, ZenonT(40)
<1>10. WritesContinue' /\ FramesFollow'
  BY <1>2, <1>4, <1>8, <1>9, FrameLost, Zenon
<1> QED
  BY <1>4, <1>5, <1>10, Zenon DEF StreamInv

\* ReplyFails: the end of the loop is open, so the other one has closed.
LEMMA ReplyFailsStream ==
  ASSUME ChannelInv, NEW n \in Nodes, NEW s \in Socks, ReplyFails(n, s)
  PROVE  StreamInv'
<1>1. PairInv /\ ReqTypeOK /\ EndsInUse /\ broken \in SUBSET Socks
  BY Zenon DEF ChannelInv, PairInv, PairSound, PairTypeOK
<1>2. /\ UNCHANGED <<dialedBy, end, conn, dialing, broken>>
      /\ UNCHANGED <<req, sock>> /\ loop[s][n] \in Reqs
      /\ loop' = [loop EXCEPT ![s][n] = "length"]
      /\ WriteFails(n, n, conn[n])
  BY Zenon DEF ReplyFails, pairVars, callerVars
<1>3. end[s][n] = "open" /\ conn[n] = s
  <2>1. end[s][n] = "open"
    BY <1>1, <1>2, Zenon DEF EndsInUse
  <2> QED
    BY <1>1, <2>1, Zenon DEF PairInv, PairSound, NoSpareSocket
<1>4. PairInv' /\ Onward
  BY <1>1, <1>2, IdlePair, Zenon
<1>5. /\ \A t \in Socks, k \in Nodes : ~(t = s /\ k = n) => loop'[t][k] = loop[t][k]
      /\ loop'[s][n] # "body" /\ loop[s][n] # "body"
  <2>1. loop \in [Socks -> [Nodes -> Reqs \cup {"length", "body"}]] /\ "body" \notin Reqs
    BY <1>1, RequestsAssumption DEF ReqTypeOK
  <2> QED
    BY <1>2, <2>1
<1>6. EndsInUse'
  <2>1. \A t \in Socks, k \in Nodes : loop'[t][k] \in Reqs =>
          end'[t][k] = "open" \/ (loop[t][k] \in Reqs /\ end'[t][k] = end[t][k])
    BY <1>2, <1>3, <1>5, Zenon
  <2> QED
    BY <1>1, <1>2, <1>4, <2>1, UseKept, Zenon
<1>7. ~Alive(s, n) /\ WriteFails(n, n, s)
  BY <1>2, <1>3, Zenon DEF Alive, WriteFails
<1>8. /\ UNCHANGED <<wire, recvCount>>
      /\ \A t \in Socks, m \in Nodes : ~(t = s /\ m = n) =>
           sendCount'[t][m] = sendCount[t][m] /\ writer'[t][m] = writer[t][m]
  BY <1>1, <1>7, FailedWrite, ZenonT(40)
<1>9. WritesContinue' /\ FramesFollow'
  BY <1>4, <1>5, <1>7, <1>8, FrameLost, Zenon
<1> QED
  BY <1>4, <1>6, <1>9, Zenon DEF StreamInv

\* ReadFrame: what the loop reads is in step, so its end stays open.
LEMMA ReadsStream ==
  ASSUME ChannelInv, NEW n \in Nodes, NEW s \in Socks, ReadFrame(n, s)
  PROVE  StreamInv'
<1>1. PairInv /\ ReqTypeOK /\ EndsInUse /\ broken \in SUBSET Socks
  BY Zenon DEF ChannelInv, PairInv, PairSound, PairTypeOK
<1>2. end[s][n] = "open" /\ UNCHANGED pairVars
  BY FrameFits, Zenon
<1>3. UNCHANGED <<dialedBy, end, conn, dialing, broken>> /\ UNCHANGED <<req, sock>>
  BY <1>2, Zenon DEF pairVars, ReadFrame
<1>4. PairInv' /\ Onward
  BY <1>1, <1>3, IdlePair, Zenon
<1>5. \A t \in Socks, m \in Nodes : ~(t = s /\ m = n) => loop'[t][m] = loop[t][m]
  <2>1. /\ loop'[s][n] = "body" <=> wire[s][Other(n)][1].part = "length"
        /\ \A t \in Socks, m \in Nodes : ~(t = s /\ m = n) => loop'[t][m] = loop[t][m]
    BY LoopTurns, ZenonT(40)
  <2> QED
    BY <2>1, Zenon
<1>6. EndsInUse'
  <2>1. \A t \in Socks, k \in Nodes : loop'[t][k] \in Reqs =>
          end'[t][k] = "open" \/ (loop[t][k] \in Reqs /\ end'[t][k] = end[t][k])
    BY <1>2, <1>3, <1>5, Zenon
  <2> QED
    BY <1>1, <1>3, <1>4, <2>1, UseKept, Zenon
<1>7. WritesContinue' /\ FramesFollow'
  BY <1>4, FrameTaken, Zenon
<1> QED
  BY <1>4, <1>6, <1>7, Zenon DEF StreamInv

\* The steps of the sockets themselves.
LEMMA EndsStream ==
  ASSUME ChannelInv,
         \/ \E q \in Reqs, s \in Socks : BeginDials(q, s)
         \/ \E n \in Nodes, s \in Socks :
              HandshakeEnds(n, s) \/ ReadEnds(n, s) \/ Cleanup(n, s)
         \/ \E s \in Socks : NetworkBreaks(s)
  PROVE  StreamInv'
<1>1. /\ PairInv /\ ReqTypeOK /\ EndsInUse
      /\ req \in [Reqs -> Calls] /\ end \in [Socks -> [Nodes -> Ends]]
      /\ loop \in [Socks -> [Nodes -> Reqs \cup {"length", "body"}]]
      /\ \A t \in Socks, m \in Nodes : dialedBy[t] = None => end[t][m] = "none"
  BY Zenon DEF ChannelInv, PairInv, PairSound, PairTypeOK, ReqTypeOK
<1>2. ASSUME NEW q \in Reqs, NEW s \in Socks, BeginDials(q, s) PROVE StreamInv'
  <2>1. PairInv' /\ Onward
    BY <1>1, <1>2, DialPair, RequestsAssumption, Zenon DEF BeginDials
  <2>2. /\ dialedBy[s] = None /\ end' = [end EXCEPT ![s] = [m \in Nodes |-> "handshake"]]
        /\ req' = [req EXCEPT ![q] = "dialing"] /\ UNCHANGED <<frameVars, sock, loop>>
    BY <1>2, Zenon DEF BeginDials, Dial
  <2>3. \A p \in Reqs : req'[p] = "sending" => req[p] = "sending"
    BY <1>1, <2>2
  <2>4. \A t \in Socks, m \in Nodes : end[t][m] = "open" => end'[t][m] = "open"
    BY <1>1, <2>2
  <2> QED
    BY <2>1, <2>2, <2>3, <2>4, SocketsStream, Zenon
<1>3. ASSUME NEW n \in Nodes, NEW s \in Socks, HandshakeEnds(n, s) PROVE StreamInv'
  <2>1. EndStep(n, s) /\ UNCHANGED <<frameVars, sock, loop>>
    BY <1>3, Zenon DEF HandshakeEnds, EndStep
  <2>2. PairInv' /\ Onward
    BY <1>1, <2>1, EndSteps, Zenon
  <2>3. \E to \in {"connected", "failed"} : DialReturns(n, s, to)
    BY <1>3, Zenon DEF HandshakeEnds
  <2>4. \A p \in Reqs : req'[p] = "sending" => req[p] = "sending"
    BY <2>3 DEF DialReturns
  <2>5. end[s][n] = "handshake" /\ \E v \in Ends : end' = [end EXCEPT ![s][n] = v]
    BY <1>3, Zenon DEF HandshakeEnds, Register, Dedup, HandshakeFails, HandshakeOver, Ends
  <2>6. \A t \in Socks, m \in Nodes : end[t][m] = "open" => end'[t][m] = "open"
    BY <1>1, <2>5
  <2> QED
    BY <2>1, <2>2, <2>4, <2>6, SocketsStream, Zenon
<1>4. ASSUME NEW n \in Nodes, NEW s \in Socks, ReadEnds(n, s) \/ Cleanup(n, s) PROVE StreamInv'
  <2>1. EndStep(n, s) /\ UNCHANGED <<frameVars, req, sock, loop>>
    BY <1>4, Zenon DEF ReadEnds, Cleanup, EndStep, callerVars
  <2>2. PairInv' /\ Onward
    BY <1>1, <2>1, EndSteps, Zenon
  <2>3. /\ end[s][n] = "closing" \/ loop[s][n] \in {"length", "body"}
        /\ \E v \in Ends : end' = [end EXCEPT ![s][n] = v]
    BY <1>4, Zenon DEF ReadEnds, Cleanup, SeeEOF, removeConn, Ends
  <2>4. \A t \in Socks, m \in Nodes :
          end[t][m] = "open" => end'[t][m] = "open" \/ loop[t][m] \notin Reqs
    BY <1>1, <2>3, RequestsAssumption
  <2> QED
    BY <2>1, <2>2, <2>4, SocketsStream, Zenon
<1>5. ASSUME NEW s \in Socks, NetworkBreaks(s) PROVE StreamInv'
  <2>1. PairInv' /\ Onward
    BY <1>1, <1>5, BreakPair, Zenon DEF NetworkBreaks
  <2>2. UNCHANGED <<frameVars, req, sock, loop, end>>
    BY <1>5, Zenon DEF NetworkBreaks, Break, callerVars
  <2> QED
    BY <2>1, <2>2, SocketsStream, Zenon
<1> QED
  BY <1>2, <1>3, <1>4, <1>5, Zenon

\* The inductive step.
LEMMA StreamStep == ChannelInv /\ [ReqNext]_reqVars => StreamInv'
<1> SUFFICES ASSUME ChannelInv, [ReqNext]_reqVars PROVE StreamInv'
  BY Zenon
<1>1. CASE UNCHANGED reqVars
  <2>1. /\ UNCHANGED <<dialedBy, end, conn, dialing, broken, frameVars, req, sock, loop>>
        /\ PairInv /\ broken \in SUBSET Socks
    BY <1>1, Zenon DEF reqVars, pairVars, callerVars, ChannelInv, PairInv, PairSound, PairTypeOK
  <2>2. PairInv' /\ Onward
    BY <2>1, IdlePair, Zenon
  <2> QED
    BY <2>1, <2>2, SocketsStream, Zenon
<1>2. CASE \E q \in Reqs : BeginConnected(q) \/ BeginJoins(q) \/ CallerStep(q)
  BY <1>2, CallersStream, SendsStream, SendFailsStream, Zenon DEF CallerStep
<1>3. CASE \E q \in Reqs, s \in Socks : BeginDials(q, s)
  BY <1>3, EndsStream, Zenon
<1>4. CASE \E n \in Nodes, s \in Socks : LoopStep(n, s)
  <2>1. PICK n \in Nodes, s \in Socks : LoopStep(n, s)
    BY <1>4, Zenon
  <2>2. CASE HandshakeEnds(n, s) \/ ReadEnds(n, s) \/ Cleanup(n, s)
    BY <2>2, EndsStream, Zenon
  <2> QED
    BY <2>1, <2>2, ReadsStream, RepliesStream, ReplyFailsStream, Zenon DEF LoopStep
<1>5. CASE \E s \in Socks : NetworkBreaks(s)
  BY <1>5, EndsStream, Zenon
<1> QED
  BY <1>1, <1>2, <1>3, <1>4, <1>5, Zenon DEF ReqNext

\* Nothing has been written yet.
LEMMA StreamStarts == ReqInit => StreamInv
<1> SUFFICES ASSUME ReqInit PROVE StreamInv
  BY Zenon
<1>1. PairInv
  BY PairAssumption DEF ReqInit, PairInit, PairInv, PairSound, PairTypeOK, NoSpareSocket, Ends
<1>2. EndsInUse
  BY RequestsAssumption DEF ReqInit, EndsInUse
<1>3. ASSUME NEW s \in Socks, NEW n \in Nodes
      PROVE  /\ wire[s][n] = << >> /\ sendCount[s][n] = 0 /\ recvCount[s][n] = 0
             /\ writer[s][n] = None /\ loop[s][n] = "length"
  BY DEF ReqInit
<1>4. ASSUME NEW s \in Socks, NEW n \in Nodes PROVE Continues(s, n)
  <2>1. Other(n) \in Nodes /\ Len(<< >>) = 0 /\ None \notin Nodes
    BY OtherNode, PairAssumption
  <2> QED
    <3>1. /\ wire[s][n] = << >> /\ sendCount[s][n] = 0 /\ recvCount[s][Other(n)] = 0
          /\ writer[s][n] = None /\ loop[s][Other(n)] = "length"
      BY <1>3, <2>1, Zenon
    <3>2. NextPart(wire[s][n], loop[s][Other(n)]) = "length"
      BY <3>1 DEF NextPart
    <3>3. sendCount[s][n] = recvCount[s][Other(n)] + Len(wire[s][n])
      BY <2>1, <3>1
    <3> QED
      BY <2>1, <3>1, <3>2, <3>3, Zenon DEF Continues
<1>5. ASSUME NEW s \in Socks, NEW n \in Nodes
      PROVE  InStep(wire[s][Other(n)], recvCount[s][n], loop[s][n])
  <2>1. Other(n) \in Nodes /\ Len(<< >>) = 0
    BY OtherNode
  <2>2. wire[s][Other(n)] = << >>
    BY <1>3, <2>1, Zenon
  <2> QED
    BY <2>1, <2>2 DEF InStep
<1> QED
  BY <1>1, <1>2, <1>4, <1>5, Zenon DEF StreamInv, WritesContinue, FramesFollow

\* However callers, read loops, dials, failing writes and breaking sockets interleave,
\* the frames an open end has still to read carry the nonces, the parts and the message
\* its counter and its read loop expect (sendOn, readLoop, secure.Conn).
THEOREM ChannelStaysSound == ReqSpec => []ChannelSound
<1>1. ReqInit => CallInv /\ ChannelInv
  BY CallStarts, StreamStarts, Zenon DEF CallInv, TypeInv, StreamInv, ChannelInv
<1>2. CallInv /\ ChannelInv /\ [ReqNext]_reqVars => CallInv' /\ ChannelInv'
  BY CallStep, StreamStep, Zenon DEF CallInv, TypeInv, StreamInv, ChannelInv
<1>3. ChannelInv => ChannelSound
  BY Zenon DEF ChannelInv, ChannelSound, PairInv, FramesFollow, FramesInStep
<1> QED
  BY <1>1, <1>2, <1>3, PTL DEF ReqSpec
=============================================================================
