------------------------ MODULE PeerConnectionsProofs -----------------------
(***************************************************************************)
(* The invariants of the connection tables, for any number of identities,  *)
(* addresses, connections and callers.  OneConnPerID and AliasesCanonical  *)
(* hold each other up: removeConn may forget a connection because every    *)
(* alias is recorded in it, and a new alias is only ever given to a        *)
(* canonical connection.  OneDialPerAddress needs to know where the        *)
(* connection of a Connect in progress is (DialersConnect) and that its    *)
(* address is in the table of dials (DialsAnnounced); WaitersWillWake that *)
(* nothing else is in that table (DialsOwned).                             *)
(***************************************************************************)
EXTENDS PeerConnections, TLAPS

\* New: empty connection tables satisfy the invariant.
LEMMA InitInv == PeerInit => PeerInv
BY PeerAssumption
   DEF PeerInit, PeerInv, PeerTypeOK, Stages, Registered, OneConnPerID, AliasesCanonical,
       DialersConnect, DialsAnnounced, OneDialPerAddress, Dialling, DialsOwned, WaitersWillWake

\* Every step keeps the types.
LEMMA TypeStep ==
  ASSUME PeerInv, [PeerNext]_peerVars
  PROVE  PeerTypeOK'
<1> USE PeerAssumption DEF PeerInv, PeerTypeOK, Stages, Registered, DialersConnect
<1>1. ASSUME NEW t \in Callers, NEW a \in Addrs, EnsureConnected(t, a)
      PROVE  PeerTypeOK'
  BY <1>1, Zenon DEF EnsureConnected, connVars, callVars
<1>2. ASSUME NEW t \in Callers, JoinOrDial(t)
      PROVE  PeerTypeOK'
  BY <1>2 DEF JoinOrDial, connVars, callVars
<1>3. ASSUME NEW t \in Callers, ConnectRefused(t)
      PROVE  PeerTypeOK'
  BY <1>3 DEF ConnectRefused, connVars, callVars
<1>4. ASSUME NEW t \in Callers, NEW c \in Conns, ConnectDials(t, c)
      PROVE  PeerTypeOK'
  BY <1>4 DEF ConnectDials, connVars, callVars
<1>5. ASSUME NEW t \in Callers, DialReturns(t)
      PROVE  PeerTypeOK'
  BY <1>5 DEF DialReturns, connVars, callVars
<1>6. ASSUME NEW t \in Callers, WokenReturns(t)
      PROVE  PeerTypeOK'
  BY <1>6 DEF WokenReturns, connVars, callVars
<1>7. ASSUME NEW c \in Conns, NEW a \in Addrs, Accept(c, a)
      PROVE  PeerTypeOK'
  BY <1>7 DEF Accept, connVars, callVars
<1>8. ASSUME NEW c \in Conns, NEW a \in Addrs, AddPeerAddress(c, a)
      PROVE  PeerTypeOK'
  BY <1>8 DEF AddPeerAddress, connVars, callVars
<1>9. ASSUME NEW c \in Conns, HandshakeFails(c)
      PROVE  PeerTypeOK'
  BY <1>9 DEF HandshakeFails, Discard, Returned, connVars, callVars
<1>10. ASSUME NEW c \in Conns, NEW i \in IDs, HandshakeDone(c, i)
       PROVE  PeerTypeOK'
  <2>1. CASE peersByID[i] = None
    BY <1>10, <2>1 DEF HandshakeDone, registerConn
  <2>2. CASE peersByID[i] # None
    <3>1. /\ peers' = [peers EXCEPT ![via[c]] = peersByID[i]]
          /\ addresses' = [addresses EXCEPT ![peersByID[i]] = @ \cup {via[c]}]
          /\ stage' = [stage EXCEPT ![c] = "free"]
          /\ via' = [via EXCEPT ![c] = None]
          /\ dialer' = [dialer EXCEPT ![c] = None]
          /\ call' = IF dialer[c] = None THEN call ELSE [call EXCEPT ![dialer[c]] = "return"]
          /\ UNCHANGED <<peersByID, remoteID, target, dialing, listening>>
      BY <1>10, <2>2, Zenon DEF HandshakeDone, registerConn, Returned
    <3>2. via[c] \in Addrs /\ peersByID[i] \in Conns
      BY <1>10, <2>2 DEF HandshakeDone
    <3>3. /\ peers' \in [Addrs -> Conns \cup {None}]
          /\ addresses' \in [Conns -> SUBSET Addrs]
      BY <3>1, <3>2
    <3>4. /\ call' \in [Callers -> {"idle", "check", "wait", "dial", "connect", "return", "woken"}]
          /\ \A t \in Callers : call'[t] # "idle" => target'[t] # None
      BY <3>1
    <3>5. /\ stage' \in [Conns -> Stages] /\ via' \in [Conns -> Addrs \cup {None}]
          /\ dialer' \in [Conns -> Callers \cup {None}]
      BY <3>1, Zenon
    <3>6. \A d \in Conns : /\ stage'[d] # "free" => via'[d] # None
                           /\ Registered(d)' => remoteID'[d] # None
      BY <3>1
    <3> QED
      BY <3>1, <3>3, <3>4, <3>5, <3>6, Zenon
  <2> QED
    BY <2>1, <2>2, Zenon
<1>11. ASSUME NEW c \in Conns, HelloSent(c)
       PROVE  PeerTypeOK'
  BY <1>11 DEF HelloSent, Returned, connVars, callVars
<1>12. ASSUME NEW c \in Conns, ConnDies(c)
       PROVE  PeerTypeOK'
  BY <1>12 DEF ConnDies, connVars, callVars
<1>13. ASSUME NEW c \in Conns, removeConn(c)
       PROVE  PeerTypeOK'
  BY <1>13 DEF removeConn, Discard, Returned, connVars, callVars
<1>14. CASE StopListening
  BY ZenonT(60), <1>14 DEF StopListening, connVars, callVars
<1>15. CASE StopConns
  BY <1>15 DEF StopConns, AliasesCanonical, connVars, callVars
<1>16. CASE UNCHANGED peerVars
  BY <1>16 DEF peerVars, connVars, callVars
<1> QED
  BY ZenonT(60), <1>1, <1>2, <1>3, <1>4, <1>5, <1>6, <1>7, <1>8, <1>9, <1>10, <1>11, <1>12, <1>13, <1>14, <1>15, <1>16
     DEF PeerNext, CallStep, HandshakeStep

\* No step makes two registered connections of one identity.
LEMMA OneConnStep ==
  ASSUME PeerInv, [PeerNext]_peerVars
  PROVE  OneConnPerID'
<1> USE PeerAssumption DEF PeerInv, PeerTypeOK, Stages, Registered, OneConnPerID
<1>1. ASSUME NEW t \in Callers, NEW a \in Addrs, EnsureConnected(t, a)
      PROVE  OneConnPerID'
  BY <1>1 DEF EnsureConnected, connVars, callVars
<1>2. ASSUME NEW t \in Callers, JoinOrDial(t)
      PROVE  OneConnPerID'
  BY <1>2 DEF JoinOrDial, connVars, callVars
<1>3. ASSUME NEW t \in Callers, ConnectRefused(t)
      PROVE  OneConnPerID'
  BY <1>3 DEF ConnectRefused, connVars, callVars
<1>4. ASSUME NEW t \in Callers, NEW c \in Conns, ConnectDials(t, c)
      PROVE  OneConnPerID'
  BY <1>4 DEF ConnectDials, connVars, callVars
<1>5. ASSUME NEW t \in Callers, DialReturns(t)
      PROVE  OneConnPerID'
  BY <1>5 DEF DialReturns, connVars, callVars
<1>6. ASSUME NEW t \in Callers, WokenReturns(t)
      PROVE  OneConnPerID'
  BY <1>6 DEF WokenReturns, connVars, callVars
<1>7. ASSUME NEW c \in Conns, NEW a \in Addrs, Accept(c, a)
      PROVE  OneConnPerID'
  BY <1>7 DEF Accept, connVars, callVars
<1>8. ASSUME NEW c \in Conns, NEW a \in Addrs, AddPeerAddress(c, a)
      PROVE  OneConnPerID'
  BY <1>8 DEF AddPeerAddress, connVars, callVars
<1>9. ASSUME NEW c \in Conns, HandshakeFails(c)
      PROVE  OneConnPerID'
  BY <1>9 DEF HandshakeFails, Discard, Returned, connVars, callVars
<1>10. ASSUME NEW c \in Conns, NEW i \in IDs, HandshakeDone(c, i)
       PROVE  OneConnPerID'
  <2>1. CASE peersByID[i] = None
    BY <1>10, <2>1 DEF HandshakeDone, registerConn
  <2>2. CASE peersByID[i] # None
    BY <1>10, <2>2 DEF HandshakeDone, registerConn, Returned
  <2> QED
    BY <2>1, <2>2
<1>11. ASSUME NEW c \in Conns, HelloSent(c)
       PROVE  OneConnPerID'
  BY <1>11 DEF HelloSent, Returned, connVars, callVars
<1>12. ASSUME NEW c \in Conns, ConnDies(c)
       PROVE  OneConnPerID'
  BY <1>12 DEF ConnDies, connVars, callVars
<1>13. ASSUME NEW c \in Conns, removeConn(c)
       PROVE  OneConnPerID'
  BY <1>13 DEF removeConn, Discard, Returned, connVars, callVars
<1>14. CASE StopListening
  BY <1>14 DEF StopListening, connVars, callVars
<1>15. CASE StopConns
  BY <1>15 DEF StopConns, AliasesCanonical, connVars, callVars
<1>16. CASE UNCHANGED peerVars
  BY <1>16 DEF peerVars, connVars, callVars
<1> QED
  BY <1>1, <1>2, <1>3, <1>4, <1>5, <1>6, <1>7, <1>8, <1>9, <1>10, <1>11, <1>12, <1>13, <1>14, <1>15, <1>16, Zenon
     DEF PeerNext, CallStep, HandshakeStep

\* No step leaves an alias of a forgotten connection.
LEMMA AliasStep ==
  ASSUME PeerInv, [PeerNext]_peerVars
  PROVE  AliasesCanonical'
<1> USE PeerAssumption DEF PeerInv, PeerTypeOK, Stages, Registered, OneConnPerID, AliasesCanonical
<1>1. ASSUME NEW t \in Callers, NEW a \in Addrs, EnsureConnected(t, a)
      PROVE  AliasesCanonical'
  BY <1>1, Zenon DEF EnsureConnected, connVars, callVars
<1>2. ASSUME NEW t \in Callers, JoinOrDial(t)
      PROVE  AliasesCanonical'
  BY <1>2 DEF JoinOrDial, connVars, callVars
<1>3. ASSUME NEW t \in Callers, ConnectRefused(t)
      PROVE  AliasesCanonical'
  BY <1>3 DEF ConnectRefused, connVars, callVars
<1>4. ASSUME NEW t \in Callers, NEW c \in Conns, ConnectDials(t, c)
      PROVE  AliasesCanonical'
  BY <1>4 DEF ConnectDials, connVars, callVars
<1>5. ASSUME NEW t \in Callers, DialReturns(t)
      PROVE  AliasesCanonical'
  BY <1>5, Zenon DEF DialReturns, connVars, callVars
<1>6. ASSUME NEW t \in Callers, WokenReturns(t)
      PROVE  AliasesCanonical'
  BY <1>6 DEF WokenReturns, connVars, callVars
<1>7. ASSUME NEW c \in Conns, NEW a \in Addrs, Accept(c, a)
      PROVE  AliasesCanonical'
  BY <1>7 DEF Accept, connVars, callVars
<1>8. ASSUME NEW c \in Conns, NEW a \in Addrs, AddPeerAddress(c, a)
      PROVE  AliasesCanonical'
  BY <1>8 DEF AddPeerAddress, connVars, callVars
<1>9. ASSUME NEW c \in Conns, HandshakeFails(c)
      PROVE  AliasesCanonical'
  BY <1>9 DEF HandshakeFails, Discard, Returned, connVars, callVars
<1>10. ASSUME NEW c \in Conns, NEW i \in IDs, HandshakeDone(c, i)
       PROVE  AliasesCanonical'
  <2>1. CASE peersByID[i] = None
    BY <1>10, <2>1 DEF HandshakeDone, registerConn
  <2>2. CASE peersByID[i] # None
    BY <1>10, <2>2 DEF HandshakeDone, registerConn, Returned
  <2> QED
    BY <2>1, <2>2, Zenon
<1>11. ASSUME NEW c \in Conns, HelloSent(c)
       PROVE  AliasesCanonical'
  BY <1>11 DEF HelloSent, Returned, connVars, callVars
<1>12. ASSUME NEW c \in Conns, ConnDies(c)
       PROVE  AliasesCanonical'
  BY <1>12 DEF ConnDies, connVars, callVars
<1>13. ASSUME NEW c \in Conns, removeConn(c)
       PROVE  AliasesCanonical'
  BY <1>13 DEF removeConn, Discard, Returned, connVars, callVars
<1>14. CASE StopListening
  BY <1>14, Zenon DEF StopListening, connVars, callVars
<1>15. CASE StopConns
  BY <1>15, Zenon DEF StopConns, connVars, callVars
<1>16. CASE UNCHANGED peerVars
  BY <1>16, Zenon DEF peerVars, connVars, callVars
<1> QED
  BY <1>1, <1>2, <1>3, <1>4, <1>5, <1>6, <1>7, <1>8, <1>9, <1>10, <1>11, <1>12, <1>13, <1>14, <1>15, <1>16, Zenon
     DEF PeerNext, CallStep, HandshakeStep

\* No step starts a second dial to an address.
LEMMA DialStep ==
  ASSUME PeerInv, [PeerNext]_peerVars
  PROVE  (DialersConnect /\ DialsAnnounced /\ OneDialPerAddress)'
<1> USE PeerAssumption DEF PeerInv, PeerTypeOK, Stages, Registered, DialersConnect, DialsAnnounced, OneDialPerAddress, Dialling
<1>1. ASSUME NEW t \in Callers, NEW a \in Addrs, EnsureConnected(t, a)
      PROVE  (DialersConnect /\ DialsAnnounced /\ OneDialPerAddress)'
  BY <1>1 DEF EnsureConnected, connVars, callVars
<1>2. ASSUME NEW t \in Callers, JoinOrDial(t)
      PROVE  (DialersConnect /\ DialsAnnounced /\ OneDialPerAddress)'
  BY <1>2 DEF JoinOrDial, connVars, callVars
<1>3. ASSUME NEW t \in Callers, ConnectRefused(t)
      PROVE  (DialersConnect /\ DialsAnnounced /\ OneDialPerAddress)'
  BY <1>3 DEF ConnectRefused, connVars, callVars
<1>4. ASSUME NEW t \in Callers, NEW c \in Conns, ConnectDials(t, c)
      PROVE  (DialersConnect /\ DialsAnnounced /\ OneDialPerAddress)'
  BY <1>4 DEF ConnectDials, connVars, callVars
<1>5. ASSUME NEW t \in Callers, DialReturns(t)
      PROVE  (DialersConnect /\ DialsAnnounced /\ OneDialPerAddress)'
  BY <1>5 DEF DialReturns, connVars, callVars
<1>6. ASSUME NEW t \in Callers, WokenReturns(t)
      PROVE  (DialersConnect /\ DialsAnnounced /\ OneDialPerAddress)'
  BY <1>6 DEF WokenReturns, connVars, callVars
<1>7. ASSUME NEW c \in Conns, NEW a \in Addrs, Accept(c, a)
      PROVE  (DialersConnect /\ DialsAnnounced /\ OneDialPerAddress)'
  BY <1>7 DEF Accept, connVars, callVars
<1>8. ASSUME NEW c \in Conns, NEW a \in Addrs, AddPeerAddress(c, a)
      PROVE  (DialersConnect /\ DialsAnnounced /\ OneDialPerAddress)'
  BY <1>8, Zenon DEF AddPeerAddress, connVars, callVars
<1>9. ASSUME NEW c \in Conns, HandshakeFails(c)
      PROVE  (DialersConnect /\ DialsAnnounced /\ OneDialPerAddress)'
  BY <1>9 DEF HandshakeFails, Discard, Returned, connVars, callVars
<1>10. ASSUME NEW c \in Conns, NEW i \in IDs, HandshakeDone(c, i)
       PROVE  (DialersConnect /\ DialsAnnounced /\ OneDialPerAddress)'
  <2>1. CASE peersByID[i] = None
    BY <1>10, <2>1 DEF HandshakeDone, registerConn
  <2>2. CASE peersByID[i] # None
    <3>1. /\ stage' = [stage EXCEPT ![c] = "free"]
          /\ dialer' = [dialer EXCEPT ![c] = None]
          /\ call' = IF dialer[c] = None THEN call ELSE [call EXCEPT ![dialer[c]] = "return"]
          /\ UNCHANGED <<target, dialing>>
      BY <1>10, <2>2, Zenon DEF HandshakeDone, registerConn, Returned
    <3>2. DialersConnect'
      BY <3>1
    <3>3. \A t \in Callers : Dialling(t)' => Dialling(t) /\ target'[t] = target[t]
      BY <3>1
    <3> QED
      BY <3>1, <3>2, <3>3
  <2> QED
    BY <2>1, <2>2, Zenon
<1>11. ASSUME NEW c \in Conns, HelloSent(c)
       PROVE  (DialersConnect /\ DialsAnnounced /\ OneDialPerAddress)'
  BY <1>11 DEF HelloSent, Returned, connVars, callVars
<1>12. ASSUME NEW c \in Conns, ConnDies(c)
       PROVE  (DialersConnect /\ DialsAnnounced /\ OneDialPerAddress)'
  BY <1>12 DEF ConnDies, connVars, callVars
<1>13. ASSUME NEW c \in Conns, removeConn(c)
       PROVE  (DialersConnect /\ DialsAnnounced /\ OneDialPerAddress)'
  BY <1>13 DEF removeConn, Discard, Returned, connVars, callVars
<1>14. CASE StopListening
  BY <1>14, Zenon DEF StopListening, connVars, callVars
<1>15. CASE StopConns
  BY <1>15, Zenon DEF StopConns, connVars, callVars
<1>16. CASE UNCHANGED peerVars
  BY <1>16, Zenon DEF peerVars, connVars, callVars
<1> QED
  BY ZenonT(60), <1>1, <1>2, <1>3, <1>4, <1>5, <1>6, <1>7, <1>8, <1>9, <1>10, <1>11, <1>12, <1>13, <1>14, <1>15, <1>16
     DEF PeerNext, CallStep, HandshakeStep

\* Callers keep dialling what they dial over a step that leaves the calls alone or
\* moves one of them along Connect; so dials stay owned and waiters stay attended.
LEMMA WaitersKept ==
  ASSUME DialsOwned, WaitersWillWake, dialing' \subseteq dialing,
         \A u \in Callers : Dialling(u) => Dialling(u)' /\ target'[u] = target[u],
         \A u \in Callers : call'[u] = "wait" => call[u] = "wait" /\ target'[u] = target[u],
         \A u \in Callers : call'[u] = "connect" => \E c \in Conns : dialer'[c] = u
  PROVE  (DialsOwned /\ WaitersWillWake)'
BY DEF DialsOwned, WaitersWillWake

\* No step ends a dial without waking the callers that wait for it.
LEMMA WaitStep ==
  ASSUME PeerInv, [PeerNext]_peerVars
  PROVE  (DialsOwned /\ WaitersWillWake)'
<1> USE PeerAssumption DEF PeerInv, PeerTypeOK, Dialling
<1> DEFINE Goal == (DialsOwned /\ WaitersWillWake)'
<1>1. ASSUME NEW t \in Callers, NEW a \in Addrs, EnsureConnected(t, a)
      PROVE  Goal
  BY <1>1, WaitersKept DEF EnsureConnected, connVars, WaitersWillWake
<1>2. ASSUME NEW t \in Callers, JoinOrDial(t)
      PROVE  Goal
  <2>1. CASE target[t] \in dialing
    BY <1>2, <2>1 DEF JoinOrDial, connVars, DialsOwned, WaitersWillWake
  <2>2. CASE target[t] \notin dialing
    BY <1>2, <2>2 DEF JoinOrDial, connVars, DialsOwned, WaitersWillWake
  <2> QED
    BY <2>1, <2>2
<1>3. ASSUME NEW t \in Callers, ConnectRefused(t)
      PROVE  Goal
  BY <1>3, WaitersKept DEF ConnectRefused, connVars, WaitersWillWake
<1>4. ASSUME NEW t \in Callers, NEW c \in Conns, ConnectDials(t, c)
      PROVE  Goal
  <2>1. \A u \in Callers : call'[u] = "connect" => \E d \in Conns : dialer'[d] = u
    BY <1>4 DEF ConnectDials, WaitersWillWake, DialersConnect
  <2> QED
    BY <1>4, <2>1, WaitersKept DEF ConnectDials
<1>5. ASSUME NEW t \in Callers, DialReturns(t)
      PROVE  Goal
  <2>1. \A u \in Callers \ {t} : Dialling(u) => Dialling(u)' /\ target'[u] = target[u]
    BY <1>5, Zenon DEF DialReturns
  <2>2. DialsOwned'
    BY <1>5, <2>1 DEF DialReturns, DialsOwned
  <2>3. WaitersWillWake'
    BY <1>5, <2>1 DEF DialReturns, connVars, WaitersWillWake
  <2> QED
    BY <2>2, <2>3
<1>6. ASSUME NEW t \in Callers, WokenReturns(t)
      PROVE  Goal
  BY <1>6, WaitersKept DEF WokenReturns, connVars, WaitersWillWake
<1>7. ASSUME NEW c \in Conns, HandshakeFails(c) \/ removeConn(c)
      PROVE  Goal
  <2>1. Discard(c) /\ UNCHANGED <<target, dialing>>
    BY <1>7, Zenon DEF HandshakeFails, removeConn
  <2>2. \A u \in Callers : call'[u] = "connect" => \E d \in Conns : dialer'[d] = u
    BY <2>1 DEF Discard, Returned, WaitersWillWake
  <2>3. \A u \in Callers : Dialling(u) => Dialling(u)' /\ target'[u] = target[u]
    BY <2>1, Zenon DEF Discard, Returned, DialersConnect
  <2> QED
    BY <2>1, <2>2, <2>3, WaitersKept DEF Discard, Returned
<1>8. ASSUME NEW c \in Conns, HelloSent(c)
      PROVE  Goal
  <2>1. \A u \in Callers : call'[u] = "connect" => \E d \in Conns : dialer'[d] = u
    BY <1>8 DEF HelloSent, Returned, WaitersWillWake
  <2>2. \A u \in Callers : Dialling(u) => Dialling(u)' /\ target'[u] = target[u]
    BY <1>8, Zenon DEF HelloSent, Returned, DialersConnect
  <2> QED
    BY <1>8, <2>1, <2>2, WaitersKept, Zenon DEF HelloSent, Returned
<1>9. ASSUME NEW c \in Conns, NEW i \in IDs, HandshakeDone(c, i)
      PROVE  Goal
  <2>1. CASE peersByID[i] = None
    BY <1>9, <2>1, WaitersKept, Zenon DEF HandshakeDone, registerConn, WaitersWillWake
  <2>2. CASE peersByID[i] # None
    <3>1. \A u \in Callers : call'[u] = "connect" => \E d \in Conns : dialer'[d] = u
      BY <1>9, <2>2 DEF HandshakeDone, registerConn, Returned, WaitersWillWake
    <3>2. \A u \in Callers : Dialling(u) => Dialling(u)' /\ target'[u] = target[u]
      BY <1>9, <2>2 DEF HandshakeDone, registerConn, Returned, DialersConnect
    <3> QED
      BY <1>9, <2>2, <3>1, <3>2, WaitersKept DEF HandshakeDone, registerConn, Returned
  <2> QED
    BY <2>1, <2>2, Zenon
<1>10. ASSUME UNCHANGED <<call, target, dialing, dialer>>
       PROVE  Goal
  BY <1>10, WaitersKept, Zenon DEF WaitersWillWake
<1>11. ASSUME NEW c \in Conns, NEW a \in Addrs, Accept(c, a) \/ AddPeerAddress(c, a)
       PROVE  Goal
  BY <1>10, <1>11, Zenon DEF Accept, AddPeerAddress, callVars
<1>12. ASSUME NEW c \in Conns, ConnDies(c)
       PROVE  Goal
  BY <1>10, <1>12, Zenon DEF ConnDies, callVars
<1>13. CASE StopListening \/ StopConns \/ UNCHANGED peerVars
  BY <1>10, <1>13, Zenon DEF StopListening, StopConns, peerVars, connVars, callVars
<1> QED
  BY <1>1, <1>2, <1>3, <1>4, <1>5, <1>6, <1>7, <1>8, <1>9, <1>11, <1>12, <1>13, Zenon
     DEF PeerNext, CallStep, HandshakeStep

\* Every locked section of the peer keeps the invariant.
LEMMA NextInv == PeerInv /\ [PeerNext]_peerVars => PeerInv'
BY TypeStep, OneConnStep, AliasStep, DialStep, WaitStep DEF PeerInv

\* The inductive invariant of the connection tables, for every interleaving of
\* dials, accepts, handshakes, hellos, removals and Stop.
THEOREM PeerInvariant == PeerSpec => []PeerInv
<1> QED
  BY InitInv, NextInv, PTL DEF PeerSpec

\* Type correctness of the connection tables.
THEOREM PeerTypeCorrect == PeerSpec => []PeerTypeOK
<1>1. PeerInv => PeerTypeOK
  BY DEF PeerInv
<1> QED
  BY <1>1, PeerInvariant, PTL

\* At most one registered connection per identity, and it is the canonical one.
THEOREM ConnsUnique == PeerSpec => []OneConnPerID
<1>1. PeerInv => OneConnPerID
  BY DEF PeerInv
<1> QED
  BY <1>1, PeerInvariant, PTL

\* Both together: the connection tables are sound.
THEOREM PeerStaysSound == PeerSpec => []PeerSound
<1>1. PeerTypeOK /\ OneConnPerID => PeerSound
  BY DEF PeerSound
<1> QED
  BY <1>1, PeerTypeCorrect, ConnsUnique, PTL

\* Every alias leads to the canonical connection of a peer, which knows the alias.
THEOREM AliasesSafe == PeerSpec => []AliasesCanonical
<1>1. PeerInv => AliasesCanonical
  BY DEF PeerInv
<1> QED
  BY <1>1, PeerInvariant, PTL

\* Concurrent EnsureConnected calls for one address never dial twice at a time.
THEOREM DialsShared == PeerSpec => []OneDialPerAddress
<1>1. PeerInv => OneDialPerAddress
  BY DEF PeerInv
<1> QED
  BY <1>1, PeerInvariant, PTL

\* Nobody waits in EnsureConnected for a dial that is over.
THEOREM WaitersAttended == PeerSpec => []WaitersWillWake
<1>1. PeerInv => WaitersWillWake
  BY DEF PeerInv
<1> QED
  BY <1>1, PeerInvariant, PTL

\* A connection is only forgotten by its own removeConn, which touches nothing of
\* another connection.
LEMMA RemovalStep ==
  ASSUME PeerInv, [PeerNext]_peerVars,
         NEW d \in Conns, stage[d] = "closing", stage'[d] = "free"
  PROVE  removeConn(d)
<1> USE PeerAssumption DEF PeerInv, PeerTypeOK, connVars, callVars
<1>1. ASSUME NEW c \in Conns, removeConn(c)
      PROVE  removeConn(d)
  <2>1. c = d
    BY <1>1, Zenon DEF removeConn, Discard
  <2> QED
    BY <1>1, <2>1, Zenon
<1>2. ASSUME NEW c \in Conns, NEW i \in IDs, HandshakeDone(c, i)
      PROVE  FALSE
  BY <1>2, Zenon DEF HandshakeDone, registerConn
<1>3. ASSUME NEW c \in Conns, HandshakeFails(c) \/ HelloSent(c) \/ ConnDies(c)
      PROVE  FALSE
  BY <1>3 DEF HandshakeFails, Discard, HelloSent, ConnDies
<1>4. ASSUME NEW c \in Conns, NEW a \in Addrs, Accept(c, a) \/ AddPeerAddress(c, a)
      PROVE  FALSE
  BY <1>4, Zenon DEF Accept, AddPeerAddress
<1>5. ASSUME NEW t \in Callers, NEW a \in Addrs, EnsureConnected(t, a)
      PROVE  FALSE
  BY <1>5, Zenon DEF EnsureConnected
<1>6. ASSUME NEW t \in Callers, CallStep(t)
      PROVE  FALSE
  BY <1>6 DEF CallStep, JoinOrDial, ConnectRefused, DialReturns, WokenReturns, ConnectDials
<1>7. ASSUME StopListening \/ StopConns \/ UNCHANGED peerVars
      PROVE  FALSE
  BY <1>7 DEF StopListening, StopConns, peerVars
<1> QED
  BY <1>1, <1>2, <1>3, <1>4, <1>5, <1>6, <1>7, Zenon DEF PeerNext, HandshakeStep

\* Removing a connection never drops what belongs to another one.
THEOREM RemovalsLocal == PeerSpec => RemovalIsLocal
<1> DEFINE Local ==
      \A c \in Conns : stage[c] = "closing" /\ stage'[c] = "free" =>
        /\ \A a \in Addrs : peers[a] # c => peers'[a] = peers[a]
        /\ \A i \in IDs : peersByID[i] # c => peersByID'[i] = peersByID[i]
<1>1. PeerInv /\ [PeerNext]_peerVars => [Local]_peerVars
  <2> SUFFICES ASSUME PeerInv, [PeerNext]_peerVars,
                      NEW c \in Conns, stage[c] = "closing", stage'[c] = "free"
               PROVE  /\ \A a \in Addrs : peers[a] # c => peers'[a] = peers[a]
                      /\ \A i \in IDs : peersByID[i] # c => peersByID'[i] = peersByID[i]
    OBVIOUS
  <2>1. removeConn(c)
    BY RemovalStep
  <2> QED
    BY <2>1, Zenon DEF removeConn, PeerInv, PeerTypeOK
<1> QED
  BY <1>1, PeerInvariant, PTL DEF PeerSpec, RemovalIsLocal
=============================================================================
