------------------------------- MODULE Relay --------------------------------
(***************************************************************************)
(* The relay server (core/relay/server.go) and what its registered clients *)
(* do with an OPEN (client.go, openTunnel).  A connection runs one of      *)
(* three handlers: REGISTER keeps a control session for a peer, DIAL asks  *)
(* for a tunnel to a registered peer, TUNNEL answers an OPEN.  All share   *)
(* registrations and pending under s.mu; the queue `out` of a session and  *)
(* the channel of a pending dial are used outside the lock.  The token of  *)
(* a dial is the dial itself (newToken never repeats).                     *)
(***************************************************************************)
EXTENDS Naturals, Sequences

CONSTANTS
  Peers,      \* peer IDs
  Sessions,   \* bound on the REGISTER connections
  Dials,      \* bound on the DIAL connections
  OutCap,     \* capacity of a session's queue (16)
  None

ASSUME RelayAssumption ==
  /\ OutCap \in Nat \ {0}
  /\ None \notin Peers \cup Sessions \cup Dials

VARIABLES
  registrations,   \* registrations[p]: the session registered for p
  session,         \* session[s]: where its handler is
  peerOf,          \* peerOf[s]: the peer it registered
  open,            \* open[s]: its control connection is open
  out,             \* out[s]: the OPENs queued for it
  outClosed,       \* close(reg.out) was called
  writer,          \* writer[s]: its writer goroutine is running
  pending,         \* tokens of dials that wait for a tunnel
  dial,            \* dial[d]: where its handler is
  reg,             \* reg[d]: the session it looked up
  answer,          \* answer[d]: the reply line its dialer got
  ch,              \* ch[d]: the one-place channel holds the tunnel
  tunnel,          \* tunnel[d]: the connection that answers the OPEN
  stopped

sessionVars == <<registrations, session, peerOf, open>>
queueVars == <<out, outClosed, writer>>
dialVars == <<pending, dial, reg, answer>>
relayVars == <<sessionVars, queueVars, dialVars, ch, tunnel, stopped>>

RelayInit ==
  /\ registrations = [p \in Peers |-> None]
  /\ session = [s \in Sessions |-> "new"]
  /\ peerOf = [s \in Sessions |-> None]
  /\ open = [s \in Sessions |-> FALSE]
  /\ out = [s \in Sessions |-> <<>>]
  /\ outClosed = [s \in Sessions |-> FALSE]
  /\ writer = [s \in Sessions |-> FALSE]
  /\ pending = {}
  /\ dial = [d \in Dials |-> "new"]
  /\ reg = [d \in Dials |-> None]
  /\ answer = [d \in Dials |-> "none"]
  /\ ch = [d \in Dials |-> FALSE]
  /\ tunnel = [d \in Dials |-> "none"]
  /\ stopped = FALSE
-----------------------------------------------------------------------------
\* acceptLoop and handle, for a control session of p.
Accept(s, p) ==
  /\ session[s] = "new" /\ ~stopped
  /\ session' = [session EXCEPT ![s] = "accepted"]
  /\ peerOf' = [peerOf EXCEPT ![s] = p]
  /\ open' = [open EXCEPT ![s] = TRUE]
  /\ UNCHANGED <<registrations, queueVars, dialVars, ch, tunnel, stopped>>

\* handleRegister, the locked section: the newest session of a peer wins.
Register(s) ==
  /\ session[s] = "accepted"
  /\ LET old == registrations[peerOf[s]]
     IN  open' = IF old = None THEN open ELSE [open EXCEPT ![old] = FALSE]
  /\ registrations' = [registrations EXCEPT ![peerOf[s]] = s]
  /\ session' = [session EXCEPT ![s] = "replying"]
  /\ UNCHANGED <<peerOf, queueVars, dialVars, ch, tunnel, stopped>>

\* Mutant: whichever session is registered for the peer is dropped.
dropRegistrationUnchecked(s) ==
  /\ registrations' = [registrations EXCEPT ![peerOf[s]] = None]
  /\ open' = [open EXCEPT ![s] = FALSE]

\* dropRegistration: only the session that is still the current one is removed.
dropRegistration(s) ==
  /\ registrations' = [registrations EXCEPT ![peerOf[s]] = IF @ = s THEN None ELSE @]
  /\ open' = [open EXCEPT ![s] = FALSE]

\* The OK is written and the writer goroutine started, or the write fails and ends
\* the handler without closing the queue.
RegisterReplied(s) ==
  /\ session[s] = "replying"
  /\ \/ /\ open[s]
        /\ session' = [session EXCEPT ![s] = "serving"]
        /\ writer' = [writer EXCEPT ![s] = TRUE]
        /\ UNCHANGED <<registrations, open>>
     \/ /\ ~open[s]
        /\ session' = [session EXCEPT ![s] = "gone"]
        /\ dropRegistration(s)
        /\ UNCHANGED writer
  /\ UNCHANGED <<peerOf, out, outClosed, dialVars, ch, tunnel, stopped>>

\* The peer, or the network, closes the control connection.
Disconnect(s) ==
  /\ open[s]
  /\ open' = [open EXCEPT ![s] = FALSE]
  /\ UNCHANGED <<registrations, session, peerOf, queueVars, dialVars, ch, tunnel, stopped>>

\* The read loop sees the end of the connection,
SeeEOF(s) ==
  /\ session[s] = "serving" /\ ~open[s]
  /\ session' = [session EXCEPT ![s] = "dropped"]
  /\ dropRegistration(s)
  /\ UNCHANGED <<peerOf, queueVars, dialVars, ch, tunnel, stopped>>

\* then the queue is closed, outside the lock.
CloseOut(s) ==
  /\ session[s] = "dropped"
  /\ session' = [session EXCEPT ![s] = "gone"]
  /\ outClosed' = [outClosed EXCEPT ![s] = TRUE]
  /\ UNCHANGED <<registrations, peerOf, open, out, writer, dialVars, ch, tunnel, stopped>>

\* The writer goroutine pushes one OPEN to the peer, whose client (runOnce,
\* openTunnel) answers it with a TUNNEL connection or fails to reach the relay.
PushOpen(s) ==
  /\ writer[s] /\ open[s] /\ out[s] # <<>>
  /\ out' = [out EXCEPT ![s] = Tail(@)]
  /\ \E r \in {"failed"} \cup (IF stopped THEN {} ELSE {"sent"}) :
       tunnel' = [tunnel EXCEPT ![Head(out[s])] = r]
  /\ UNCHANGED <<sessionVars, outClosed, writer, dialVars, ch, stopped>>

\* On a closed connection the write of the next OPEN fails and ends the writer, and
\* a queue that is closed and empty ends it too.
WriterEnds(s) ==
  /\ writer[s]
  /\ \/ /\ ~open[s] /\ out[s] # <<>>
        /\ out' = [out EXCEPT ![s] = Tail(@)]
        /\ tunnel' = [tunnel EXCEPT ![Head(out[s])] = "failed"]
     \/ /\ outClosed[s] /\ out[s] = <<>>
        /\ UNCHANGED <<out, tunnel>>
  /\ writer' = [writer EXCEPT ![s] = FALSE]
  /\ UNCHANGED <<sessionVars, outClosed, dialVars, ch, stopped>>
-----------------------------------------------------------------------------
\* handleDial: the lookup,
Dial(d, p) ==
  /\ dial[d] = "new" /\ ~stopped
  /\ reg' = [reg EXCEPT ![d] = registrations[p]]
  /\ \/ /\ registrations[p] = None
        /\ dial' = [dial EXCEPT ![d] = "ended"]
        /\ answer' = [answer EXCEPT ![d] = "ERR"]
     \/ /\ registrations[p] # None
        /\ dial' = [dial EXCEPT ![d] = "found"]
        /\ UNCHANGED answer
  /\ UNCHANGED <<sessionVars, queueVars, pending, ch, tunnel, stopped>>

\* the token,
DialPend(d) ==
  /\ dial[d] = "found"
  /\ pending' = pending \cup {d}
  /\ dial' = [dial EXCEPT ![d] = "pended"]
  /\ UNCHANGED <<sessionVars, queueVars, reg, answer, ch, tunnel, stopped>>

Leave(d, reply) ==
  /\ dial' = [dial EXCEPT ![d] = "leaving"]
  /\ answer' = [answer EXCEPT ![d] = reply]

\* the push of the OPEN, which does not wait for room in the queue.
DialPush(d) ==
  /\ dial[d] = "pended" /\ ~outClosed[reg[d]]
  /\ LET s == reg[d]
     IN  \/ /\ Len(out[s]) < OutCap
            /\ out' = [out EXCEPT ![s] = Append(@, d)]
            /\ dial' = [dial EXCEPT ![d] = "waiting"]
            /\ UNCHANGED answer
         \/ /\ Len(out[s]) >= OutCap
            /\ Leave(d, "ERR")
            /\ UNCHANGED out
  /\ UNCHANGED <<sessionVars, outClosed, writer, pending, reg, ch, tunnel, stopped>>

\* A send on a queue that was closed since the lookup panics; the process ends,
\* and with it every handler and every connection.
DialPanics(d) ==
  /\ dial[d] = "pended" /\ outClosed[reg[d]]
  /\ dial' = [e \in Dials |-> IF dial[e] \in {"new", "ended"} THEN dial[e] ELSE "panicked"]
  /\ tunnel' = [e \in Dials |-> IF tunnel[e] = "none" THEN "none" ELSE "closed"]
  /\ session' = [s \in Sessions |-> "gone"]
  /\ open' = [s \in Sessions |-> FALSE]
  /\ registrations' = [p \in Peers |-> None]
  /\ pending' = {}
  /\ writer' = [s \in Sessions |-> FALSE]
  /\ stopped' = TRUE
  /\ UNCHANGED <<peerOf, out, outClosed, reg, answer, ch>>

\* The wait for the tunnel ends with the tunnel or with the timeout.
DialTakes(d) ==
  /\ dial[d] = "waiting" /\ ch[d]
  /\ ch' = [ch EXCEPT ![d] = FALSE]
  /\ tunnel' = [tunnel EXCEPT ![d] = "taken"]
  /\ dial' = [dial EXCEPT ![d] = "paired"]
  /\ UNCHANGED <<sessionVars, queueVars, pending, reg, answer, stopped>>

\* Mutant: the timeout only fires while the control connection is open.
DialTimeoutNeedsPeer(d) ==
  /\ dial[d] = "waiting" /\ open[reg[d]]
  /\ Leave(d, "ERR")
  /\ UNCHANGED <<sessionVars, queueVars, pending, reg, ch, tunnel, stopped>>

DialTimeout(d) ==
  /\ dial[d] = "waiting"
  /\ Leave(d, "ERR")
  /\ UNCHANGED <<sessionVars, queueVars, pending, reg, ch, tunnel, stopped>>

\* The two OK lines; when one cannot be written both connections are closed.
DialReplies(d) ==
  /\ dial[d] = "paired"
  /\ \/ /\ dial' = [dial EXCEPT ![d] = "piping"]
        /\ answer' = [answer EXCEPT ![d] = "OK"]
        /\ tunnel' = [tunnel EXCEPT ![d] = "piping"]
     \/ /\ \E r \in {"lost", "OK"} : Leave(d, r)
        /\ tunnel' = [tunnel EXCEPT ![d] = "closed"]
  /\ UNCHANGED <<sessionVars, queueVars, pending, reg, ch, stopped>>

\* Mutant: the pipe closes only the dialer's side.
PipeEndsHalf(d) ==
  /\ dial[d] = "piping"
  /\ dial' = [dial EXCEPT ![d] = "leaving"]
  /\ UNCHANGED <<sessionVars, queueVars, pending, reg, answer, ch, tunnel, stopped>>

\* pipe: either side closing closes both.
PipeEnds(d) ==
  /\ dial[d] = "piping"
  /\ dial' = [dial EXCEPT ![d] = "leaving"]
  /\ tunnel' = [tunnel EXCEPT ![d] = "closed"]
  /\ UNCHANGED <<sessionVars, queueVars, pending, reg, answer, ch, stopped>>

\* The deferred removal of the token, on every way out.
DialCleanup(d) ==
  /\ dial[d] = "leaving"
  /\ pending' = pending \ {d}
  /\ dial' = [dial EXCEPT ![d] = "ended"]
  /\ UNCHANGED <<sessionVars, queueVars, reg, answer, ch, tunnel, stopped>>
-----------------------------------------------------------------------------
\* handleTunnel: the token is looked up,
TunnelLookup(d) ==
  /\ tunnel[d] = "sent"
  /\ tunnel' = [tunnel EXCEPT ![d] = IF d \in pending THEN "found" ELSE "refused"]
  /\ UNCHANGED <<sessionVars, queueVars, dialVars, ch, stopped>>

\* and the connection handed over, unless the channel is taken.
TunnelHand(d) ==
  /\ tunnel[d] = "found"
  /\ ch' = [ch EXCEPT ![d] = TRUE]
  /\ tunnel' = [tunnel EXCEPT ![d] = IF ch[d] THEN "refused" ELSE "handed"]
  /\ UNCHANGED <<sessionVars, queueVars, dialVars, stopped>>

\* Stop: close the listener and the control connections registered at that moment.
Stop ==
  /\ ~stopped
  /\ stopped' = TRUE
  /\ open' = [s \in Sessions |-> open[s] /\ \A p \in Peers : registrations[p] # s]
  /\ UNCHANGED <<registrations, session, peerOf, queueVars, dialVars, ch, tunnel>>

SessionStep(s) ==
  \/ Register(s) \/ RegisterReplied(s) \/ SeeEOF(s) \/ CloseOut(s)
  \/ PushOpen(s) \/ WriterEnds(s)

DialStep(d) ==
  \/ DialPend(d) \/ DialPush(d) \/ DialPanics(d) \/ DialTakes(d) \/ DialTimeout(d)
  \/ DialReplies(d) \/ DialCleanup(d)

TunnelStep(d) == TunnelLookup(d) \/ TunnelHand(d)

RelayNext ==
  \/ \E s \in Sessions : \/ \E p \in Peers : Accept(s, p)
                         \/ Disconnect(s)
                         \/ SessionStep(s)
  \/ \E d \in Dials : \/ \E p \in Peers : Dial(d, p)
                      \/ DialStep(d) \/ TunnelStep(d)
                      \/ PipeEnds(d)
  \/ Stop

RelaySpec == RelayInit /\ [][RelayNext]_relayVars

\* Every goroutine that can run runs, and the timer of a waiting dial fires.
FairRelaySpec ==
  /\ RelaySpec
  /\ \A s \in Sessions : WF_relayVars(SessionStep(s))
  /\ \A d \in Dials : WF_relayVars(DialStep(d)) /\ WF_relayVars(TunnelStep(d))
-----------------------------------------------------------------------------
\* Shapes; and a dial that is under way has the session it looked up.
RelayTypeOK ==
  /\ registrations \in [Peers -> Sessions \cup {None}]
  /\ session \in [Sessions -> {"new", "accepted", "replying", "serving", "dropped", "gone"}]
  /\ peerOf \in [Sessions -> Peers \cup {None}]
  /\ open \in [Sessions -> BOOLEAN]
  /\ out \in [Sessions -> Seq(Dials)]
  /\ outClosed \in [Sessions -> BOOLEAN]
  /\ writer \in [Sessions -> BOOLEAN]
  /\ pending \subseteq Dials
  /\ dial \in [Dials -> {"new", "found", "pended", "waiting", "paired", "piping",
                         "leaving", "ended", "panicked"}]
  /\ reg \in [Dials -> Sessions \cup {None}]
  /\ \A d \in Dials : dial[d] \notin {"new", "ended"} => reg[d] # None
  /\ answer \in [Dials -> {"none", "OK", "ERR", "lost"}]
  /\ ch \in [Dials -> BOOLEAN]
  /\ tunnel \in [Dials -> {"none", "sent", "failed", "found", "handed", "refused",
                           "taken", "piping", "closed"}]
  /\ stopped \in BOOLEAN

\* "Replace any prior registration for this peer (only one at a time)" and
\* dropRegistration's "if it's still the current one": a session whose connection
\* is open is the registered one of its peer, however many sessions of that peer
\* have come and gone around it; and no registration outlives its handler.
RegistrationsExact ==
  /\ \A s \in Sessions :
       open[s] /\ session[s] \in {"replying", "serving"} => registrations[peerOf[s]] = s
  /\ \A p \in Peers :
       registrations[p] # None =>
         /\ peerOf[registrations[p]] = p
         /\ session[registrations[p]] \in {"replying", "serving"}

\* The token table holds exactly the dials between their DialPend and their
\* deferred cleanup, whichever way they leave.
PendingExact ==
  \A d \in Dials :
    d \in pending <=>
      dial[d] \in {"pended", "waiting", "paired", "piping", "leaving"}

\* The relay is sound: its registrations and its token table are as RegistrationsExact
\* and PendingExact say, whichever way sessions and dials leave.
RelaySound == RelayTypeOK /\ RegistrationsExact /\ PendingExact

\* "Either side closing tears down both": when a dial that got its tunnel is over,
\* the tunnel is closed.
TunnelClosedWithDial ==
  \A d \in Dials : dial[d] \in {"leaving", "ended"} => tunnel[d] \notin {"taken", "piping"}

\* A session whose handler runs has named its peer.
SessionsNamed ==
  \A s \in Sessions :
    session[s] \in {"accepted", "replying", "serving", "dropped"} => peerOf[s] \in Peers

\* A tunnel is in use by the dial that took it, and by nobody after that.
TunnelsOwned ==
  \A d \in Dials : /\ tunnel[d] = "taken" => dial[d] = "paired"
                   /\ tunnel[d] = "piping" => dial[d] = "piping"

\* The inductive invariant of the relay.
RelayInv == RelaySound /\ SessionsNamed /\ TunnelsOwned

\* A dial that found its peer is answered in the end: with OK, with an error, or
\* by the timeout.
DialsEnd ==
  \A d \in Dials : dial[d] = "found" ~> dial[d] \in {"piping", "ended", "panicked"}

\* The protocol's "DIAL ... Reply (one line): OK | ERR": no handler ends without
\* its reply.
DialReplied == \A d \in Dials : dial[d] \in {"ended", "panicked"} => answer[d] # "none"

\* "success; the DIAL handler now owns this conn": a tunnel handed over belongs to
\* a dial that is still there to take it.
HandedTunnelOwned == \A d \in Dials : tunnel[d] = "handed" => dial[d] # "ended"

\* "Stop shuts the listener and tears down every active registration."
StopTearsDown ==
  stopped => \A p \in Peers : registrations[p] # None => ~open[registrations[p]]
=============================================================================
