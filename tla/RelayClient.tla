---------------------------- MODULE RelayClient -----------------------------
(***************************************************************************)
(* The client of a relay (core/relay/client.go): Run keeps one control     *)
(* connection, registers on it, reads OPEN lines and reconnects with       *)
(* backoff; Stop, called from another goroutine, must make Run return      *)
(* whatever Run is doing.                                                  *)
(***************************************************************************)
EXTENDS Naturals

CONSTANT MaxBackoff    \* one minute, in multiples of the first delay

ASSUME BackoffAssumption == MaxBackoff \in Nat \ {0}

VARIABLES
  run,          \* where Run is
  conn,         \* "none", "open" or "closed": the connection of runOnce
  activeConn,   \* c.activeConn is set
  backoff,
  stopped,      \* c.stopped, and c.stop closed
  stop          \* where Stop is

clientVars == <<run, conn, activeConn, backoff, stopped, stop>>

\* UseRelay starts Run; without a relay there is no client.
ClientInit(used) ==
  /\ run = IF used THEN "loop" ELSE "returned"
  /\ conn = "none" /\ activeConn = FALSE /\ backoff = 1
  /\ stopped = FALSE /\ stop = "uncalled"

\* The head of the loop of Run.
Loop ==
  /\ run = "loop"
  /\ run' = IF stopped THEN "returned" ELSE "dialing"
  /\ UNCHANGED <<conn, activeConn, backoff, stopped, stop>>

\* runOnce: the dial, which has a timeout,
DialRelay ==
  /\ run = "dialing"
  /\ \/ run' = "dialed" /\ conn' = "open"
     \/ run' = "sleeping" /\ UNCHANGED conn
  /\ UNCHANGED <<activeConn, backoff, stopped, stop>>

\* the locked section that shows the connection to Stop,
PublishConn ==
  /\ run = "dialed"
  /\ IF stopped
     THEN run' = "loop" /\ conn' = "none" /\ backoff' = 1 /\ UNCHANGED activeConn
     ELSE run' = "registering" /\ activeConn' = TRUE /\ UNCHANGED <<conn, backoff>>
  /\ UNCHANGED <<stopped, stop>>

\* Mutant: the deferred function forgets to close the connection.
LeaveOpen(next) ==
  /\ run' = next
  /\ activeConn' = FALSE
  /\ backoff' = IF next = "loop" THEN 1 ELSE backoff
  /\ UNCHANGED <<conn, stopped, stop>>

\* The deferred function of runOnce, on every way out after PublishConn; Run
\* resets the backoff when runOnce returns without error.
Leave(next) ==
  /\ run' = next
  /\ activeConn' = FALSE
  /\ conn' = "none"
  /\ backoff' = IF next = "loop" THEN 1 ELSE backoff
  /\ UNCHANGED <<stopped, stop>>

\* REGISTER and its answer: OK, or a refusal, an error or the read deadline.
RegisterAnswered ==
  /\ run = "registering"
  /\ \/ /\ conn = "open" /\ run' = "checking"
        /\ UNCHANGED <<conn, activeConn, backoff, stopped, stop>>
     \/ Leave("sleeping")

\* The loop that reads OPEN lines looks at c.stop,
CheckStop ==
  /\ run = "checking"
  /\ \/ stopped /\ Leave("loop")
     \/ /\ ~stopped /\ run' = "reading"
        /\ UNCHANGED <<conn, activeConn, backoff, stopped, stop>>

\* and blocks in a read until the relay sends a line
ReadOpen ==
  /\ run = "reading" /\ conn = "open"
  /\ run' = "checking"
  /\ UNCHANGED <<conn, activeConn, backoff, stopped, stop>>

\* or the connection is closed.
ReadFails ==
  /\ run = "reading" /\ conn = "closed"
  /\ Leave("sleeping")

\* The backoff timer fires, or Stop interrupts it.
Wake ==
  /\ run = "sleeping"
  /\ \/ stopped /\ run' = "returned" /\ UNCHANGED backoff
     \/ /\ run' = "loop"
        /\ backoff' = IF 2 * backoff > MaxBackoff THEN MaxBackoff ELSE 2 * backoff
  /\ UNCHANGED <<conn, activeConn, stopped, stop>>

\* The relay or the network ends the connection.
RelayDrops ==
  /\ conn = "open"
  /\ conn' = "closed"
  /\ UNCHANGED <<run, activeConn, backoff, stopped, stop>>

\* Stop: the locked section, which remembers activeConn,
StopFlag ==
  /\ stop = "uncalled"
  /\ stopped' = TRUE
  /\ stop' = IF activeConn THEN "closing" ELSE "waiting"
  /\ UNCHANGED <<run, conn, activeConn, backoff>>

\* the close of that connection (runOnce may have closed it already),
StopClose ==
  /\ stop = "closing"
  /\ stop' = "waiting"
  /\ conn' = IF activeConn THEN "closed" ELSE conn
  /\ UNCHANGED <<run, activeConn, backoff, stopped>>

\* and the wait for Run.
StopReturns ==
  /\ stop = "waiting" /\ run = "returned"
  /\ stop' = "returned"
  /\ UNCHANGED <<run, conn, activeConn, backoff, stopped>>

RunStep ==
  \/ Loop \/ DialRelay \/ PublishConn \/ RegisterAnswered \/ CheckStop \/ ReadFails \/ Wake
-----------------------------------------------------------------------------
\* Shapes; the backoff stays between the first delay and its cap of a minute.
ClientTypeOK ==
  /\ run \in {"loop", "dialing", "dialed", "registering", "checking", "reading",
              "sleeping", "returned"}
  /\ conn \in {"none", "open", "closed"}
  /\ activeConn \in BOOLEAN
  /\ backoff \in 1..MaxBackoff
  /\ stopped \in BOOLEAN
  /\ stop \in {"uncalled", "closing", "waiting", "returned"}

\* Stop knows of every connection Run may block on, and Run leaves none behind:
\* activeConn is set exactly while runOnce uses its connection, and a client that
\* has returned holds none.
ConnectionKnown ==
  /\ activeConn <=> run \in {"registering", "checking", "reading"}
  /\ run \in {"loop", "dialing", "sleeping", "returned"} => conn = "none"
=============================================================================
