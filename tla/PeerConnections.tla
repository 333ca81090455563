-------------------------- MODULE PeerConnections ---------------------------
(***************************************************************************)
(* The connection tables of one peer (core/peer/peer.go): peers, the alias *)
(* map from addresses to connections; peersByID, the canonical map from    *)
(* identities; and dialing, which lets concurrent EnsureConnected calls    *)
(* share one dial.  Inbound, relayed and outbound connections go through   *)
(* the same stages: limit check, handshake, registerConn, hello, readLoop, *)
(* removeConn.  Each section that holds p.mu or p.dialMu is one action.    *)
(***************************************************************************)
EXTENDS Naturals, FiniteSets

CONSTANTS
  IDs,        \* identities of remote peers
  Addrs,      \* addresses: dialled, accepted from, or advertised
  Relayed,    \* the addresses among them that are relay URLs
  Conns,      \* bound on the connections alive at once ...
  Inbound,    \* ... and the ones among them for accepted connections
  Callers,    \* goroutines that call EnsureConnected
  MaxConns,   \* maxConnections; 0 is unlimited
  None

ASSUME PeerAssumption ==
  /\ None \notin Conns \cup Callers \cup IDs \cup Addrs
  /\ Relayed \subseteq Addrs
  /\ Inbound \subseteq Conns
  /\ MaxConns \in Nat

VARIABLES
  peers,      \* peers[a]: the connection address a is an alias of
  peersByID,  \* peersByID[i]: the canonical connection to identity i
  stage,      \* stage[c]: how far connection c has come
  via,        \* via[c]: the address c was dialled at or accepted from
  remoteID,   \* remoteID[c]: the identity the handshake established
  addresses,  \* addresses[c]: the aliases c knows it has
  dialer,     \* dialer[c]: the caller whose Connect opened c, while it runs
  call,       \* call[t]: where caller t is in EnsureConnected
  target,     \* target[t]: the address t wants to be connected to
  dialing,    \* addresses with a dial in flight
  listening   \* FALSE once Stop has closed the listener

connVars == <<stage, via, remoteID, addresses, dialer>>
callVars == <<call, target, dialing>>
peerVars == <<peers, peersByID, connVars, callVars, listening>>

Stages == {"free", "handshake", "hello", "open", "closing"}

PeerInit ==
  /\ peers = [a \in Addrs |-> None]
  /\ peersByID = [i \in IDs |-> None]
  /\ stage = [c \in Conns |-> "free"]
  /\ via = [c \in Conns |-> None]
  /\ remoteID = [c \in Conns |-> None]
  /\ addresses = [c \in Conns |-> {}]
  /\ dialer = [c \in Conns |-> None]
  /\ call = [t \in Callers |-> "idle"]
  /\ target = [t \in Callers |-> None]
  /\ dialing = {}
  /\ listening = TRUE

atConnectionLimit ==
  MaxConns > 0 /\ Cardinality({i \in IDs : peersByID[i] # None}) >= MaxConns

\* The call table once the Connect that opened c, if any, has returned.
Returned(c) ==
  IF dialer[c] = None THEN call ELSE [call EXCEPT ![dialer[c]] = "return"]

\* The socket is gone and nothing refers to the peerConn any more.
Discard(c) ==
  /\ stage' = [stage EXCEPT ![c] = "free"]
  /\ via' = [via EXCEPT ![c] = None]
  /\ remoteID' = [remoteID EXCEPT ![c] = None]
  /\ addresses' = [addresses EXCEPT ![c] = {}]
  /\ dialer' = [dialer EXCEPT ![c] = None]
  /\ call' = Returned(c)
-----------------------------------------------------------------------------
\* EnsureConnected(a) by t, when IsConnected(a) is false.
EnsureConnected(t, a) ==
  /\ call[t] = "idle"
  /\ peers[a] = None
  /\ call' = [call EXCEPT ![t] = "check"]
  /\ target' = [target EXCEPT ![t] = a]
  /\ UNCHANGED <<peers, peersByID, connVars, dialing, listening>>

\* Mutant: the dial in flight is not looked up.
JoinOrDialAlwaysDials(t) ==
  /\ call[t] = "check"
  /\ call' = [call EXCEPT ![t] = "dial"]
  /\ dialing' = dialing \cup {target[t]}
  /\ UNCHANGED <<peers, peersByID, connVars, target, listening>>

JoinOrDial(t) ==
  /\ call[t] = "check"
  /\ IF target[t] \in dialing
     THEN call' = [call EXCEPT ![t] = "wait"] /\ UNCHANGED dialing
     ELSE /\ call' = [call EXCEPT ![t] = "dial"]
          /\ dialing' = dialing \cup {target[t]}
  /\ UNCHANGED <<peers, peersByID, connVars, target, listening>>

\* Connect: refused at the limit ...
ConnectRefused(t) ==
  /\ call[t] = "dial"
  /\ atConnectionLimit
  /\ call' = [call EXCEPT ![t] = "return"]
  /\ UNCHANGED <<peers, peersByID, connVars, target, dialing, listening>>

\* ... or on to the socket and the handshake.
ConnectDials(t, c) ==
  /\ call[t] = "dial"
  /\ ~atConnectionLimit
  /\ stage[c] = "free"
  /\ call' = [call EXCEPT ![t] = "connect"]
  /\ stage' = [stage EXCEPT ![c] = "handshake"]
  /\ via' = [via EXCEPT ![c] = target[t]]
  /\ dialer' = [dialer EXCEPT ![c] = t]
  /\ UNCHANGED <<peers, peersByID, remoteID, addresses, target, dialing, listening>>

\* handleIncoming and handleIncomingFromRelay, up to the handshake.  The remote
\* address of an accepted TCP socket belongs to that socket alone; tunnels through
\* one relay may share their URL.
Accept(c, a) ==
  /\ listening
  /\ a \notin Relayed => \A d \in Conns : via[d] # a
  /\ ~atConnectionLimit
  /\ stage[c] = "free"
  /\ stage' = [stage EXCEPT ![c] = "handshake"]
  /\ via' = [via EXCEPT ![c] = a]
  /\ UNCHANGED <<peers, peersByID, remoteID, addresses, dialer, callVars, listening>>

HandshakeFails(c) ==
  /\ stage[c] = "handshake"
  /\ Discard(c)
  /\ UNCHANGED <<peers, peersByID, target, dialing, listening>>

\* Mutant: a second connection to the same identity replaces the first.
registerConnReplaces(c, i) ==
  /\ peersByID' = [peersByID EXCEPT ![i] = c]
  /\ peers' = [peers EXCEPT ![via[c]] = c]
  /\ addresses' = [addresses EXCEPT ![c] = @ \cup {via[c]}]
  /\ remoteID' = [remoteID EXCEPT ![c] = i]
  /\ stage' = [stage EXCEPT ![c] = "hello"]
  /\ UNCHANGED <<via, dialer, call>>

\* registerConn, and on a duplicate the close of the new socket: its address
\* becomes an alias of the connection we already have.
registerConn(c, i) ==
  IF peersByID[i] = None
  THEN /\ peersByID' = [peersByID EXCEPT ![i] = c]
       /\ peers' = [peers EXCEPT ![via[c]] = c]
       /\ addresses' = [addresses EXCEPT ![c] = @ \cup {via[c]}]
       /\ remoteID' = [remoteID EXCEPT ![c] = i]
       /\ stage' = [stage EXCEPT ![c] = "hello"]
       /\ UNCHANGED <<via, dialer, call>>
  ELSE /\ peers' = [peers EXCEPT ![via[c]] = peersByID[i]]
       /\ addresses' = [addresses EXCEPT ![peersByID[i]] = @ \cup {via[c]}]
       /\ stage' = [stage EXCEPT ![c] = "free"]
       /\ via' = [via EXCEPT ![c] = None]
       /\ dialer' = [dialer EXCEPT ![c] = None]
       /\ call' = Returned(c)
       /\ UNCHANGED <<peersByID, remoteID>>

HandshakeDone(c, i) ==
  /\ stage[c] = "handshake"
  /\ registerConn(c, i)
  /\ UNCHANGED <<target, dialing, listening>>

\* The hello is written and the read loop starts; Connect returns.
HelloSent(c) ==
  /\ stage[c] = "hello"
  /\ stage' = [stage EXCEPT ![c] = "open"]
  /\ dialer' = [dialer EXCEPT ![c] = None]
  /\ call' = Returned(c)
  /\ UNCHANGED <<peers, peersByID, via, remoteID, addresses, target, dialing, listening>>

\* The hello cannot be written, or the read loop ends: the socket is closed.
ConnDies(c) ==
  /\ stage[c] \in {"hello", "open"}
  /\ stage' = [stage EXCEPT ![c] = "closing"]
  /\ UNCHANGED <<peers, peersByID, via, remoteID, addresses, dialer, callVars, listening>>

\* Mutant: every alias is deleted, also one that has passed to another connection.
removeConnUnchecked(c) ==
  /\ stage[c] = "closing"
  /\ peersByID' = [peersByID EXCEPT ![remoteID[c]] = IF @ = c THEN None ELSE @]
  /\ peers' = [a \in Addrs |-> IF a \in addresses[c] THEN None ELSE peers[a]]
  /\ Discard(c)
  /\ UNCHANGED <<target, dialing, listening>>

\* Mutant: only the address the connection was made through is deleted.
removeConnOneAlias(c) ==
  /\ stage[c] = "closing"
  /\ peersByID' = [peersByID EXCEPT ![remoteID[c]] = IF @ = c THEN None ELSE @]
  /\ peers' = [a \in Addrs |->
                 IF a = via[c] /\ peers[a] = c THEN None ELSE peers[a]]
  /\ Discard(c)
  /\ UNCHANGED <<target, dialing, listening>>

removeConn(c) ==
  /\ stage[c] = "closing"
  /\ peersByID' = [peersByID EXCEPT ![remoteID[c]] = IF @ = c THEN None ELSE @]
  /\ peers' = [a \in Addrs |->
                 IF a \in addresses[c] /\ peers[a] = c THEN None ELSE peers[a]]
  /\ Discard(c)
  /\ UNCHANGED <<target, dialing, listening>>

\* A hello read on connection c advertises address a (observeHello, which aliases
\* it to the canonical connection of the sender).  The socket may have been closed
\* since the hello was read.
AddPeerAddress(c, a) ==
  /\ stage[c] \in {"open", "closing"}
  /\ LET pc == peersByID[remoteID[c]]
     IN  /\ pc # None
         /\ peers[a] # pc
         /\ peers' = [peers EXCEPT ![a] = pc]
         /\ addresses' = [addresses EXCEPT ![pc] = @ \cup {a}]
  /\ UNCHANGED <<peersByID, stage, via, remoteID, dialer, callVars, listening>>

\* Mutant: the waiters are not woken.
DialReturnsNoWake(t) ==
  /\ call[t] = "return"
  /\ dialing' = dialing \ {target[t]}
  /\ call' = [call EXCEPT ![t] = "idle"]
  /\ target' = [target EXCEPT ![t] = None]
  /\ UNCHANGED <<peers, peersByID, connVars, listening>>

\* Connect has returned to EnsureConnected: the dial is taken out of the table and
\* the callers that wait for it are woken.  (The channel is closed just after the
\* unlock; a waiter does nothing before it looks again, in WokenReturns.)
DialReturns(t) ==
  /\ call[t] = "return"
  /\ dialing' = dialing \ {target[t]}
  /\ call' = [u \in Callers |->
                IF u = t THEN "idle"
                ELSE IF call[u] = "wait" /\ target[u] = target[t] THEN "woken"
                ELSE call[u]]
  /\ target' = [target EXCEPT ![t] = None]
  /\ UNCHANGED <<peers, peersByID, connVars, listening>>

\* A woken caller looks once more and returns, with or without a connection.
WokenReturns(t) ==
  /\ call[t] = "woken"
  /\ call' = [call EXCEPT ![t] = "idle"]
  /\ target' = [target EXCEPT ![t] = None]
  /\ UNCHANGED <<peers, peersByID, connVars, dialing, listening>>

\* Stop: close the listener; later close and forget every aliased connection.
StopListening ==
  /\ listening
  /\ listening' = FALSE
  /\ UNCHANGED <<peers, peersByID, connVars, callVars>>

StopConns ==
  /\ ~listening
  /\ peers' = [a \in Addrs |-> None]
  /\ stage' = [c \in Conns |->
                 IF \E a \in Addrs : peers[a] = c THEN "closing" ELSE stage[c]]
  /\ UNCHANGED <<peersByID, via, remoteID, addresses, dialer, callVars, listening>>

CallStep(t) ==
  \/ JoinOrDial(t) \/ ConnectRefused(t) \/ DialReturns(t) \/ WokenReturns(t)
  \/ \E c \in Conns \ Inbound : ConnectDials(t, c)

HandshakeStep(c) == HandshakeFails(c) \/ \E i \in IDs : HandshakeDone(c, i)

PeerNext ==
  \/ \E t \in Callers, a \in Addrs : EnsureConnected(t, a)
  \/ \E t \in Callers : CallStep(t)
  \/ \E c \in Inbound, a \in Addrs : Accept(c, a)
  \/ \E c \in Conns, a \in Addrs : AddPeerAddress(c, a)
  \/ \E c \in Conns : HandshakeStep(c) \/ HelloSent(c) \/ ConnDies(c) \/ removeConn(c)
  \/ StopListening
  \/ StopConns

PeerSpec == PeerInit /\ [][PeerNext]_peerVars
-----------------------------------------------------------------------------
Registered(c) == stage[c] \in {"hello", "open", "closing"}

\* Tables and stages of the right shape; a connection beyond its handshake has an
\* identity, and a caller inside EnsureConnected has an address.
PeerTypeOK ==
  /\ peers \in [Addrs -> Conns \cup {None}]
  /\ peersByID \in [IDs -> Conns \cup {None}]
  /\ stage \in [Conns -> Stages]
  /\ via \in [Conns -> Addrs \cup {None}]
  /\ remoteID \in [Conns -> IDs \cup {None}]
  /\ addresses \in [Conns -> SUBSET Addrs]
  /\ dialer \in [Conns -> Callers \cup {None}]
  /\ call \in [Callers -> {"idle", "check", "wait", "dial", "connect", "return", "woken"}]
  /\ target \in [Callers -> Addrs \cup {None}]
  /\ dialing \in SUBSET Addrs
  /\ listening \in BOOLEAN
  /\ \A c \in Conns : /\ stage[c] # "free" => via[c] # None
                      /\ Registered(c) => remoteID[c] # None
  /\ \A t \in Callers : call[t] # "idle" => target[t] # None

\* "peersByID is the canonical map": every connection that has passed
\* registerConn is the canonical one of its identity until it is removed, so no
\* identity ever has two registered sockets, however dials, accepts, closes and
\* re-dials interleave.
OneConnPerID ==
  \A c \in Conns, i \in IDs :
    peersByID[i] = c <=> Registered(c) /\ remoteID[c] = i

\* The connection tables are sound: well shaped, and registerConn and removeConn keep
\* peersByID as OneConnPerID says.
PeerSound == PeerTypeOK /\ OneConnPerID

\* Every alias points to a registered connection that knows the alias and is the
\* canonical one of its identity: Send never picks a connection that removeConn
\* has forgotten, and removeConn finds every alias it must drop.
AliasesCanonical ==
  \A a \in Addrs : peers[a] # None =>
    /\ Registered(peers[a])
    /\ a \in addresses[peers[a]]
    /\ peersByID[remoteID[peers[a]]] = peers[a]

\* "A reconnect could have replaced it with a fresh one already": removing a
\* connection leaves every other connection's aliases and canonical entry alone.
RemovalIsLocal ==
  [][\A c \in Conns : stage[c] = "closing" /\ stage'[c] = "free" =>
       /\ \A a \in Addrs : peers[a] # c => peers'[a] = peers[a]
       /\ \A i \in IDs : peersByID[i] # c => peersByID'[i] = peersByID[i]
    ]_peerVars

\* t is in Connect, on behalf of everyone who wants its address.
Dialling(t) == call[t] \in {"dial", "connect", "return"}

\* "only ONE of them actually opens a TCP socket": no two callers are in Connect
\* for the same address at the same time.
OneDialPerAddress ==
  \A t, u \in Callers :
    Dialling(t) /\ Dialling(u) /\ target[t] = target[u] => t = u

\* The Connect in progress of a caller has at most one connection.
DialersConnect ==
  /\ \A c \in Conns : dialer[c] # None =>
       call[dialer[c]] = "connect" /\ stage[c] # "free"
  /\ \A c, d \in Conns : dialer[c] = dialer[d] /\ dialer[c] # None => c = d

\* The address of every caller in Connect is in the table of dials ...
DialsAnnounced == \A t \in Callers : Dialling(t) => target[t] \in dialing

\* ... and every address of the table has a caller in Connect.
DialsOwned == \A a \in dialing : \E t \in Callers : Dialling(t) /\ target[t] = a

\* "close(wakeup)": whoever waits for another caller's dial has a caller that will
\* wake it: one in Connect for the same address, which has a connection on its way
\* as long as Connect has not returned.  So nobody waits for a dial that is over,
\* whether it succeeded, failed, was refused at the limit or was deduplicated.
WaitersWillWake ==
  /\ \A t \in Callers : call[t] = "wait" =>
       \E u \in Callers : Dialling(u) /\ target[u] = target[t]
  /\ \A u \in Callers : call[u] = "connect" =>
       \E c \in Conns : dialer[c] = u

PeerInv ==
  /\ PeerTypeOK
  /\ OneConnPerID
  /\ AliasesCanonical
  /\ DialersConnect
  /\ DialsAnnounced
  /\ OneDialPerAddress
  /\ DialsOwned
  /\ WaitersWillWake

\* "maxConnections caps total simultaneous peer connections."
WithinConnectionLimit ==
  MaxConns > 0 => Cardinality({i \in IDs : peersByID[i] # None}) <= MaxConns

\* "closes the listener, all relay registrations, and all open peer connections": Stop
\* closes every connection that is registered when it runs.
StopClosesAll ==
  [][StopConns => \A c \in Conns : Registered(c) => stage'[c] = "closing"]_peerVars
=============================================================================
