---------------------------- MODULE Maintenance -----------------------------
(***************************************************************************)
(* The background loops of a DHT node (core/dht/maintenance.go): bootstrap *)
(* retries with backoff when the routing table is empty, the periodic ping *)
(* of every contact, and the two republish loops; and Stop, which waits    *)
(* for all of them.  The contacts are the bootstrap peers themselves;      *)
(* a connection can outlive a short partition, and a hello is received     *)
(* once per connection.                                                    *)
(***************************************************************************)
EXTENDS Naturals, Sequences

CONSTANTS
  BootPeers,        \* the peers behind the bootstrap addresses
  BootOrder,        \* those addresses, in the order they are tried
  MaxBootBackoff    \* MaxBootstrapBackoff, in multiples of the retry interval

ASSUME MaintAssumption ==
  /\ BootOrder \in Seq(BootPeers) /\ BootOrder # <<>>
  /\ MaxBootBackoff \in Nat \ {0}

VARIABLES
  up,         \* the peers the network reaches
  link,       \* the peers we have a connection to
  hello,      \* the connections whose hello has not been read yet
  table,      \* the contacts in the routing table
  deaf,       \* some peer we are connected to has stopped reading
  boot,       \* where bootstrapLoop is
  tried,      \* the position in BootOrder it is trying
  wait,       \* its delay
  check,      \* where peerCheckLoop is
  pinged,     \* the contacts of pingAll that have not answered or failed yet
  republish,  \* where republishLoop is
  startup,    \* where startupRepublish is
  halt,       \* m.stop is closed
  mstop       \* where Stop is

netVars == <<up, link, hello, table, deaf>>
bootVars == <<boot, tried, wait>>
loopVars == <<check, pinged, republish, startup>>
maintVars == <<netVars, bootVars, loopVars, halt, mstop>>

\* StartMaintenance, after BootstrapAll has found no peer; the bootstrap loop is
\* started only if there are bootstrap addresses.
MaintInit(hasBootstrap, started) ==
  /\ up = IF hasBootstrap THEN BootPeers ELSE {}
  /\ link = {} /\ hello = {} /\ table = {} /\ deaf = FALSE
  /\ boot = IF hasBootstrap /\ started THEN "waiting" ELSE "returned"
  /\ tried = 1 /\ wait = 1
  /\ check = IF started THEN "running" ELSE "returned"
  /\ pinged = {}
  /\ republish = IF started THEN "running" ELSE "returned"
  /\ startup = IF started THEN "running" ELSE "returned"
  /\ halt = FALSE /\ mstop = "uncalled"
-----------------------------------------------------------------------------
(* The network and the connections *)

\* A partition begins or ends; connections do not notice it at once.
NetworkChanges(p) ==
  /\ up' = IF p \in up THEN up \ {p} ELSE up \cup {p}
  /\ UNCHANGED <<link, hello, table, deaf, bootVars, loopVars, halt, mstop>>

\* The other side closes a connection, its hello having been read before that, or
\* keepalive finds it dead.
LinkDies(p) ==
  /\ p \in link
  /\ p \in hello => p \notin up
  /\ link' = link \ {p}
  /\ hello' = hello \ {p}
  /\ UNCHANGED <<up, table, deaf, bootVars, loopVars, halt, mstop>>

\* EnsureConnected(p) succeeds; both sides say hello on a new connection.
Connected(p) ==
  /\ p \in link \cup up
  /\ link' = link \cup {p}
  /\ hello' = IF p \in link THEN hello ELSE hello \cup {p}

\* observeHello.
HelloObserved(p) ==
  /\ p \in hello
  /\ p \in up
  /\ hello' = hello \ {p}
  /\ table' = table \cup {p}
  /\ UNCHANGED <<up, link, deaf, bootVars, loopVars, halt, mstop>>

\* A peer stops reading its socket (Requests!Stuck is one way to come to this).
\* sendOn sets no write deadline, so that a write to the peer may block for good.
PeerDeaf ==
  /\ ~deaf
  /\ deaf' = TRUE
  /\ UNCHANGED <<up, link, hello, table, bootVars, loopVars, halt, mstop>>
-----------------------------------------------------------------------------
(* bootstrapLoop and Bootstrap *)

\* The delay is over: with contacts it starts afresh, without them every
\* bootstrap address is tried.
BootWakes ==
  /\ boot = "waiting" /\ ~halt
  /\ IF table # {}
     THEN wait' = 1 /\ UNCHANGED <<boot, tried>>
     ELSE boot' = "dialing" /\ UNCHANGED <<tried, wait>>
  /\ UNCHANGED <<netVars, loopVars, halt, mstop>>

BootHalts ==
  /\ boot = "waiting" /\ halt
  /\ boot' = "returned"
  /\ UNCHANGED <<netVars, tried, wait, loopVars, halt, mstop>>

\* Mutant: one dead address ends the attempt.
BootNextGivesUp ==
  /\ boot' = "waiting"
  /\ wait' = IF 2 * wait > MaxBootBackoff THEN MaxBootBackoff ELSE 2 * wait
  /\ tried' = 1

\* The attempt at one address failed: the next one, or a doubled delay.
BootNext ==
  IF tried < Len(BootOrder)
  THEN boot' = "dialing" /\ tried' = tried + 1 /\ UNCHANGED wait
  ELSE /\ boot' = "waiting"
       /\ wait' = IF 2 * wait > MaxBootBackoff THEN MaxBootBackoff ELSE 2 * wait
       /\ tried' = 1

\* Bootstrap: EnsureConnected,
BootDials ==
  /\ boot = "dialing"
  /\ \/ /\ Connected(BootOrder[tried])
        /\ boot' = "hello" /\ UNCHANGED <<tried, wait>>
     \/ /\ BootOrder[tried] \notin link \cup up
        /\ BootNext /\ UNCHANGED <<link, hello>>
  /\ UNCHANGED <<up, table, deaf, loopVars, halt, mstop>>

\* two seconds in which the hello may arrive,
BootPolls ==
  /\ boot = "hello"
  /\ IF table # {} THEN boot' = "lookup" /\ UNCHANGED <<tried, wait>> ELSE BootNext
  /\ UNCHANGED <<netVars, loopVars, halt, mstop>>

\* and the lookup of the own id.
BootSucceeds ==
  /\ boot = "lookup"
  /\ boot' = "waiting" /\ tried' = 1 /\ wait' = 1
  /\ UNCHANGED <<netVars, loopVars, halt, mstop>>

BootStep == BootWakes \/ BootHalts \/ BootDials \/ BootPolls \/ BootSucceeds
-----------------------------------------------------------------------------
(* peerCheckLoop and pingAll *)

CheckTicks ==
  /\ check = "running" /\ pinged = {} /\ ~halt
  /\ pinged' = table
  /\ UNCHANGED <<netVars, bootVars, check, republish, startup, halt, mstop>>

\* A ping connects if it must, and its answer refreshes the contact;
PingAnswered(p) ==
  /\ p \in pinged
  /\ p \in up
  /\ Connected(p)
  /\ table' = table \cup {p}
  /\ pinged' = pinged \ {p}
  /\ UNCHANGED <<up, deaf, bootVars, check, republish, startup, halt, mstop>>

\* a ping that fails removes it.
PingFails(p) ==
  /\ p \in pinged
  /\ p \notin up
  /\ table' = table \ {p}
  /\ pinged' = pinged \ {p}
  /\ UNCHANGED <<up, link, hello, deaf, bootVars, check, republish, startup, halt, mstop>>

\* The loop sees the stop between two rounds of pings.
CheckEnds ==
  /\ check = "running" /\ pinged = {} /\ halt
  /\ check' = "returned"
  /\ UNCHANGED <<netVars, bootVars, pinged, republish, startup, halt, mstop>>

CheckStep == CheckEnds \/ \E p \in BootPeers : PingAnswered(p) \/ PingFails(p)
-----------------------------------------------------------------------------
(* republishLoop, startupRepublish and Stop *)

\* republishLoop puts every stored value back on the network at each tick, which
\* changes nothing here; it sees the stop between two passes.
RepublishStep ==
  /\ republish = "running" /\ halt
  /\ republish' = "returned"
  /\ UNCHANGED <<netVars, bootVars, check, pinged, startup, halt, mstop>>

\* startupRepublish polls for contacts, makes one such pass when there are some, and
\* gives up when it is stopped or after 15 seconds without any.
StartupStep ==
  /\ startup = "running"
  /\ startup' = "returned"
  /\ UNCHANGED <<netVars, bootVars, check, pinged, republish, halt, mstop>>

MaintStop ==
  /\ mstop = "uncalled"
  /\ halt' = TRUE /\ mstop' = "waiting"
  /\ UNCHANGED <<netVars, bootVars, loopVars>>

\* Mutant: the startup pass is not counted in the wait group.
MaintStopReturnsEarly ==
  /\ mstop = "waiting"
  /\ \A l \in {boot, check, republish} : l = "returned"
  /\ mstop' = "returned"
  /\ UNCHANGED <<netVars, bootVars, loopVars, halt>>

\* wg.Wait: four loops.
MaintStopReturns ==
  /\ mstop = "waiting"
  /\ \A l \in {boot, check, republish, startup} : l = "returned"
  /\ mstop' = "returned"
  /\ UNCHANGED <<netVars, bootVars, loopVars, halt>>
-----------------------------------------------------------------------------
\* Shapes; hellos are due on connections only, and the delay keeps to its bounds.
MaintTypeOK ==
  /\ up \subseteq BootPeers /\ link \subseteq BootPeers /\ table \subseteq BootPeers
  /\ hello \subseteq link /\ deaf \in BOOLEAN
  /\ boot \in {"waiting", "dialing", "hello", "lookup", "returned"}
  /\ tried \in 1..Len(BootOrder)
  /\ wait \in 1..MaxBootBackoff
  /\ check \in {"running", "returned"} /\ pinged \subseteq BootPeers
  /\ republish \in {"running", "returned"}
  /\ startup \in {"running", "returned"}
  /\ halt \in BOOLEAN
  /\ mstop \in {"uncalled", "waiting", "returned"}

\* Rejoining after a partition: a node whose bootstrap peer p stays reachable has
\* contacts again and again, unless it holds an old connection to p that survived
\* the partition or blocks on a peer that does not read; and with contacts the delay
\* returns to the retry interval.
Rejoins ==
  /\ \A p \in BootPeers :
       <>[](p \in up /\ ~halt /\ ~deaf) => []<>(table # {} \/ p \in link \ hello)
  /\ <>[](table # {} /\ ~halt /\ ~deaf /\ boot # "returned") => <>[](wait = 1)

\* "RECONNECT to bootstrap peers when the routing table empties (e.g. after a
\* network partition)", without the old connection: while a bootstrap peer stays
\* reachable and all peers read, the node gets contacts again.
ReconnectsToBootstrap ==
  \A p \in BootPeers : <>[](p \in up /\ ~halt /\ ~deaf) => []<>(table # {})
=============================================================================
