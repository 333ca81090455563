------------------------------ MODULE Resolver -------------------------------
(***************************************************************************)
(* The DNS server (apps/dns/dns.go): it answers questions for the captured *)
(* TLD itself, forwards all others, and drops what it cannot read.  A      *)
(* packet is its question count and the bytes that follow the header; the  *)
(* id and the flags are copied and left out.  A read past the end of a     *)
(* packet is a panic.  Whether the rate limiter lets a query pass is       *)
(* module RateLimiter's business and open here.                            *)
(***************************************************************************)
EXTENDS Integers, Sequences

CONSTANTS
  Packets,   \* what clients send: [qdcount, body], or a short header, qdcount = -1
  TLD,       \* the captured label, in lower case
  Lower(_),  \* lower case of a byte
  MaxName    \* 255 bytes

ASSUME ResolverAssumption ==
  /\ \A p \in Packets : p.qdcount \in Int /\ p.body \in Seq(0..255)
  /\ MaxName \in Nat

VARIABLES
  serve,     \* where serve is
  query,     \* the query being handled: where it is, its packet and the reply
  udp,       \* the socket is open
  dnsStop    \* where Stop is

dnsVars == <<serve, query, udp, dnsStop>>

NoReply == [kind |-> "none", question |-> <<>>, answers |-> 0]
Idle == [at |-> "idle", packet |-> [qdcount |-> -1, body |-> <<>>], reply |-> NoReply]
-----------------------------------------------------------------------------
(* The wire format *)

Fails == [ok |-> FALSE, labels |-> <<>>, end |-> 0]

\* Mutant: the zero byte is not counted.
readNameShort(p) ==
  LET at[off \in 0..Len(p)] ==
        IF off >= Len(p) THEN Fails
        ELSE IF p[off + 1] = 0 THEN [ok |-> TRUE, labels |-> <<>>, end |-> off]
        ELSE IF p[off + 1] > 63 \/ off + 1 + p[off + 1] > Len(p)
                \/ off + 1 + p[off + 1] > MaxName THEN Fails
        ELSE LET rest == at[off + 1 + p[off + 1]]
             IN [rest EXCEPT !.labels = <<SubSeq(p, off + 2, off + 1 + p[off + 1])>> \o @]
  IN at[0]

\* readName: the labels and the bytes they take, or an error: a name that is cut
\* off or too long, a compression pointer or a label of more than 63 bytes.
readName(p) ==
  LET at[off \in 0..Len(p)] ==
        IF off >= Len(p) THEN Fails
        ELSE IF p[off + 1] = 0 THEN [ok |-> TRUE, labels |-> <<>>, end |-> off + 1]
        ELSE IF p[off + 1] > 63 \/ off + 1 + p[off + 1] > Len(p)
                \/ off + 1 + p[off + 1] > MaxName THEN Fails
        ELSE LET rest == at[off + 1 + p[off + 1]]
             IN [rest EXCEPT !.labels = <<SubSeq(p, off + 2, off + 1 + p[off + 1])>> \o @]
  IN at[0]

\* parseQuery: the first question.
parseQuery(p) ==
  LET n == readName(p.body)
  IN [ok |-> p.qdcount >= 1 /\ n.ok /\ n.end + 4 <= Len(p.body),
      labels |-> n.labels,
      qtype |-> IF n.ok /\ n.end + 4 <= Len(p.body)
                THEN 256 * p.body[n.end + 1] + p.body[n.end + 2] ELSE 0]

\* matchesCapture.
matchesCapture(labels) ==
  /\ labels # <<>>
  /\ LET last == labels[Len(labels)]
     IN Len(last) = Len(TLD) /\ \A i \in 1..Len(TLD) : Lower(last[i]) = TLD[i]

\* buildCapturedReply: the question, copied, and for type A one answer.
buildCapturedReply(p) ==
  LET qEnd == readName(p.body).end + 4
  IN IF qEnd > Len(p.body) THEN [kind |-> "panic", question |-> <<>>, answers |-> 0]
     ELSE [kind |-> "captured", question |-> SubSeq(p.body, 1, qEnd),
           answers |-> IF parseQuery(p).qtype = 1 THEN 1 ELSE 0]
-----------------------------------------------------------------------------
ResolverInit ==
  /\ serve = "reading" /\ query = Idle /\ udp = TRUE /\ dnsStop = "uncalled"

\* serve: a datagram is handed to a goroutine,
Receive ==
  /\ serve = "reading" /\ udp
  /\ query.at = "idle"
  /\ \E p \in Packets : query' = [Idle EXCEPT !.at = "limiting", !.packet = p]
  /\ UNCHANGED <<serve, udp, dnsStop>>

\* an error ends the loop once Stop was called.
ServeReturns ==
  /\ serve = "reading" /\ ~udp
  /\ dnsStop # "uncalled"
  /\ serve' = "returned"
  /\ UNCHANGED <<query, udp, dnsStop>>

\* handle: the limiter,
LimitQuery ==
  /\ query.at = "limiting"
  /\ \/ query' = Idle
     \/ query' = [query EXCEPT !.at = "handling"]
  /\ UNCHANGED <<serve, udp, dnsStop>>

\* and a malformed packet, a captured name, or another one.
Handle ==
  LET q == parseQuery(query.packet) IN
  /\ query.at = "handling"
  /\ \/ ~q.ok /\ query' = [query EXCEPT !.at = "malformed"]
     \/ /\ q.ok /\ matchesCapture(q.labels)
        /\ query' = [query EXCEPT !.at = "replying", !.reply = buildCapturedReply(query.packet)]
     \/ /\ q.ok /\ ~matchesCapture(q.labels)
        /\ query' = [query EXCEPT !.at = "forwarding"]
  /\ UNCHANGED <<serve, udp, dnsStop>>

\* forward: the upstream answers within three seconds or the query is dropped.
Forwarded ==
  /\ query.at = "forwarding"
  /\ \/ query' = Idle
     \/ query' = [query EXCEPT !.at = "replying", !.reply = [NoReply EXCEPT !.kind = "upstream"]]
  /\ UNCHANGED <<serve, udp, dnsStop>>

\* WriteToUDP, which may fail on a closed socket, and the end of the goroutine.
HandleEnds ==
  /\ query.at \in {"replying", "malformed"}
  /\ query' = Idle
  /\ UNCHANGED <<serve, udp, dnsStop>>

\* Stop: the flag, then the socket.
ResolverStop ==
  /\ dnsStop = "uncalled"
  /\ dnsStop' = "closing"
  /\ UNCHANGED <<serve, query, udp>>

ResolverClose ==
  /\ dnsStop = "closing"
  /\ udp' = FALSE /\ dnsStop' = "returned"
  /\ UNCHANGED <<serve, query>>

QueryStep == LimitQuery \/ Handle \/ Forwarded \/ HandleEnds
-----------------------------------------------------------------------------
\* What the wire format says, without a decoder: the labels of a body start at the
\* offsets of a set, each label ends where the next starts, and the last of them is
\* the zero byte at offset end - 1.
Labelled(body, starts, end) ==
  /\ 0 \in starts /\ end - 1 \in starts /\ body[end] = 0
  /\ \A o \in starts :
       o # end - 1 => /\ body[o + 1] \in 1..63
                      /\ o + 1 + body[o + 1] \in starts
                      /\ o + 1 + body[o + 1] <= MaxName
                      /\ \A x \in starts : x <= o \/ x >= o + 1 + body[o + 1]

\* A captured reply carries back the very question that was asked, whole and
\* nothing else, with an answer exactly for type A, and only names under the
\* captured TLD get one; a query for such a name never goes upstream; only packets
\* without a whole question are dropped as malformed; and no packet makes the
\* decoder read past its end.
RepliesExact ==
  LET body == query.packet.body
      asks(end, n) == \E starts \in SUBSET (0..(end - 1)) :
                        Labelled(body, starts, end) /\ (n => \E o \in starts :
                           /\ o + 1 + body[o + 1] = end - 1
                           /\ matchesCapture(<<SubSeq(body, o + 2, o + 1 + body[o + 1])>>))
  IN /\ query.reply.kind # "panic"
     /\ query.reply.kind = "captured" =>
          LET end == Len(query.reply.question) - 4
          IN /\ query.packet.qdcount >= 1
             /\ end >= 1 /\ asks(end, TRUE)
             /\ query.reply.question = SubSeq(body, 1, end + 4)
             /\ query.reply.answers = 1 <=> (body[end + 1] = 0 /\ body[end + 2] = 1)
     /\ query.at = "forwarding" =>
          \E end \in 1..(Len(body) - 4) : asks(end, FALSE) /\ ~asks(end, TRUE)
     /\ query.at = "malformed" /\ query.packet.qdcount >= 1 =>
          \A end \in 1..(Len(body) - 4) : ~asks(end, FALSE)
=============================================================================
