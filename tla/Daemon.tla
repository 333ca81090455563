------------------------------- MODULE Daemon --------------------------------
(***************************************************************************)
(* The daemon (cli/main.go): the keys it loads, the services it starts     *)
(* according to its flags, and its shutdown, which runs the deferred stops *)
(* in reverse order of the starts: DNS server, gateway, maintenance loops, *)
(* and the peer, which says goodbye and stops its relay client.  A         *)
(* configuration names the services whose steps are explored together.     *)
(*                                                                         *)
(* "gateway" stands for the plain and the TLS listener, whose handler is   *)
(* one.  The stops of the registrar, the metrics server and the relay      *)
(* server, each bounded by a timeout of its own or immediate, are left     *)
(* out.                                                                    *)
(***************************************************************************)
EXTENDS Maintenance, RelayClient, Gateway, Resolver, KeyFiles

CONSTANT Configurations   \* sets of services

ASSUME DaemonAssumption ==
  Configurations \subseteq SUBSET {"keys", "maintenance", "bootstrap", "relay", "gateway", "dns"}

VARIABLES
  services,  \* the configuration
  phase      \* "serving", the deferred call that runs, or "exited"

daemonVars == <<keyVars, maintVars, clientVars, gwVars, dnsVars, services, phase>>

\* A service that is off has returned.
DaemonInit ==
  /\ services \in Configurations
  /\ phase = "serving"
  /\ KeysInit
  /\ MaintInit("bootstrap" \in services, "maintenance" \in services)
  /\ ClientInit("relay" \in services)
  /\ GatewayInit("gateway" \in services)
  /\ ResolverInit

Running == phase # "exited"
-----------------------------------------------------------------------------
(* The steps of the services *)

Keys(A) ==
  /\ "keys" \in services /\ Running
  /\ A
  /\ UNCHANGED <<maintVars, clientVars, gwVars, dnsVars, services, phase>>

Maint(A) ==
  /\ "maintenance" \in services /\ Running
  /\ A
  /\ UNCHANGED <<keyVars, clientVars, gwVars, dnsVars, services, phase>>

Client(A) ==
  /\ "relay" \in services /\ Running
  /\ A
  /\ UNCHANGED <<keyVars, maintVars, gwVars, dnsVars, services, phase>>

Http(A) ==
  /\ "gateway" \in services /\ Running
  /\ A
  /\ UNCHANGED <<keyVars, maintVars, clientVars, dnsVars, services, phase>>

Dns(A) ==
  /\ "dns" \in services /\ Running
  /\ A
  /\ UNCHANGED <<keyVars, maintVars, clientVars, gwVars, services, phase>>
-----------------------------------------------------------------------------
(* Shutdown *)

Phases == {"serving", "dns", "gateway", "maintenance", "goodbye", "relay", "exited"}

Or(service, call) == IF service \in services THEN service ELSE call

\* The deferred call that runs when another has ended: the next one of a service
\* that was started.
NextDeferred(call) ==
  LET relay == Or("relay", "exited")
      maintenance == Or("maintenance", "goodbye")
      gateway == Or("gateway", maintenance)
  IN CASE call = "serving" -> Or("dns", gateway)
       [] call = "dns" -> gateway
       [] call = "gateway" -> maintenance
       [] call = "maintenance" -> "goodbye"
       [] call = "goodbye" -> relay
       [] OTHER -> "exited"

\* quit, the end of the input, or a signal: main returns.  Bound: while files are
\* served, not while the clock of the limiter runs.
Quit ==
  /\ phase = "serving"
  /\ "keys" \notin services
  /\ "gateway" \in services => load = "files"
  /\ phase' = NextDeferred(phase)
  /\ UNCHANGED <<keyVars, maintVars, clientVars, gwVars, dnsVars, services>>

\* A deferred call has ended and the next one begins.
Ended(call) ==
  /\ phase = call
  /\ phase' = NextDeferred(call)
  /\ UNCHANGED <<keyVars, maintVars, clientVars, gwVars, dnsVars, services>>

\* r.Stop().
StopDns ==
  \/ phase = "dns" /\ Dns(ResolverStop \/ ResolverClose)
  \/ dnsStop = "returned" /\ Ended("dns")

\* Mutant: Shutdown has no deadline and waits for all visits.
StopGatewayWaits ==
  \/ /\ phase = "gateway" /\ ~closing
     /\ closing' = TRUE
     /\ UNCHANGED <<limiterVars, load, file, visitVars, sem, sites>>
     /\ UNCHANGED <<keyVars, maintVars, clientVars, dnsVars, services, phase>>
  \/ closing /\ (\A v \in Visits : visit[v] \in {"idle", "answered"}) /\ Ended("gateway")

\* srv.Shutdown: the listener is closed at once, and visits in progress are waited
\* for, for two seconds at most.
StopGateway ==
  \/ /\ phase = "gateway" /\ ~closing
     /\ closing' = TRUE
     /\ UNCHANGED <<limiterVars, load, file, visitVars, sem, sites>>
     /\ UNCHANGED <<keyVars, maintVars, clientVars, dnsVars, services, phase>>
  \/ closing /\ Ended("gateway")

\* maint.Stop().
StopMaintenance ==
  \/ phase = "maintenance" /\ Maint(MaintStop \/ MaintStopReturns)
  \/ mstop = "returned" /\ Ended("maintenance")

\* p.Stop() says goodbye on every connection,
Goodbye == Ended("goodbye")

\* stops the relay client, and main ends.
StopPeer ==
  \/ phase = "relay" /\ Client(StopFlag \/ StopClose \/ StopReturns)
  \/ stop = "returned" /\ Ended("relay")

StopStep == StopDns \/ StopGateway \/ StopMaintenance \/ StopPeer
-----------------------------------------------------------------------------
DaemonNext ==
  \/ Keys(KeysNext)
  \/ \E p \in BootPeers : "bootstrap" \in services
                          /\ Maint(NetworkChanges(p) \/ LinkDies(p) \/ HelloObserved(p))
  \/ Maint(BootStep) \/ Maint(CheckTicks \/ CheckStep)
  \/ Maint(RepublishStep) \/ Maint(StartupStep) \/ Maint(PeerDeaf)
  \/ Client(RunStep \/ ReadOpen \/ RelayDrops)
  \/ Http(Clock \/ Forget) \/ \E v \in Visits : Http(Arrive(v) \/ VisitStep(v))
  \/ Dns(Receive \/ ServeReturns \/ QueryStep)
  \/ Quit \/ Goodbye \/ StopStep

DaemonSpec == DaemonInit /\ [][DaemonNext]_daemonVars

\* The loops are goroutines whose steps all have timeouts or timers, except for their
\* writes, which return as long as all peers read; a hello that was sent arrives while
\* the network holds, and keepalive ends a connection to a peer that stays away.  A
\* relay need never send a line, visitors and the upstream DNS server need never be
\* done, and nobody need quit.
FairDaemonSpec ==
  /\ DaemonSpec
  /\ WF_maintVars(Running /\ ~deaf /\ BootStep) /\ WF_maintVars(Running /\ ~deaf /\ CheckStep)
  /\ WF_maintVars(Running /\ ~deaf /\ RepublishStep)
  /\ WF_maintVars(Running /\ ~deaf /\ StartupStep)
  /\ \A p \in BootPeers : WF_maintVars(Running /\ HelloObserved(p))
  /\ \A p \in BootPeers : WF_maintVars(Running /\ p \notin up /\ LinkDies(p))
  /\ WF_clientVars(Running /\ RunStep)
  /\ WF_daemonVars(~deaf /\ Goodbye) /\ WF_daemonVars(StopStep)
-----------------------------------------------------------------------------
\* Shapes, and the state the services keep right: the relay client's connection is
\* known to Stop, the concurrency slots are those of the visits inside, and the key
\* files belong together.
DaemonSound ==
  /\ services \in Configurations
  /\ phase \in Phases
  /\ MaintTypeOK
  /\ ClientTypeOK /\ ConnectionKnown
  /\ LimiterSound /\ SlotsExact
  /\ KeysInv /\ KeysAgree

\* The services end in the order of the deferred calls, and no goroutine of a
\* stopped service is left: when main returns, the read loop of the DNS server has
\* been told to end, all maintenance loops have returned before the peer they use
\* is stopped, and the relay client has returned and holds no connection.
StoppedInOrder ==
  /\ phase \in {"goodbye", "relay", "exited"} =>
       \A l \in {boot, check, republish, startup} : l = "returned"
  /\ phase = "exited" =>
       /\ run = "returned" /\ conn = "none"
       /\ "dns" \in services => ~udp
       /\ "gateway" \in services => closing

\* A daemon that is told to quit exits, whatever its relay, its bootstrap peers, its
\* visitors and the upstream DNS server do, as long as its peers read what it sends.
ShutdownEnds == phase # "serving" ~> phase = "exited" \/ deaf

\* "The goodbye is best-effort" (core/peer/peer.go:249), without the exception: one
\* that reaches nobody does not keep the daemon from exiting.
GoodbyeBestEffort == phase = "goodbye" ~> phase = "exited"
=============================================================================
