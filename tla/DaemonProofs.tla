----------------------------- MODULE DaemonProofs -----------------------------
(***************************************************************************)
(* The daemon as a whole, for every configuration.  Every step of the      *)
(* daemon is a step of each of its services or leaves that service alone   *)
(* (StepProjects), so what holds of the limiter and of the key files alone *)
(* holds of the daemon; and the deferred calls stop the services in order. *)
(***************************************************************************)
EXTENDS Daemon, ServicesProofs, FiniteSetTheorems

\* All that may happen to the maintenance loops, to the relay client and to the slots.
MaintNext ==
  \/ \E p \in BootPeers : NetworkChanges(p) \/ LinkDies(p) \/ HelloObserved(p)
  \/ BootStep \/ CheckTicks \/ CheckStep \/ RepublishStep \/ StartupStep
  \/ PeerDeaf \/ MaintStop \/ MaintStopReturns

ClientNext ==
  RunStep \/ ReadOpen \/ RelayDrops \/ StopFlag \/ StopClose \/ StopReturns

GatewayNext ==
  \/ Clock \/ Forget
  \/ \E v \in Visits : Arrive(v) \/ VisitStep(v)
  \/ closing' = TRUE /\ UNCHANGED <<limiterVars, load, file, visitVars, sem, sites>>

\* A visit uses the limiter as allow is used: it asks, is answered and is done.
LEMMA GatewayProjects == GatewayNext => [LimiterNext]_limiterVars
<1> SUFFICES ASSUME GatewayNext PROVE [LimiterNext]_limiterVars
  BY Zenon
<1>1. CASE Clock
  BY <1>1 DEF Clock, LimiterNext
<1>2. CASE Forget
  BY <1>2, Zenon DEF Forget
<1>3. ASSUME NEW v \in Visits, Arrive(v) PROVE LimiterNext
  BY <1>3, Zenon DEF Arrive, LimiterNext
<1>4. ASSUME NEW v \in Visits, VisitStep(v) PROVE [LimiterNext]_limiterVars
  <2>1. CASE Limit(v)
    BY <2>1, Zenon DEF Limit, LimiterNext
  <2>2. CASE Answer(v)
    BY ZenonT(60), <2>2 DEF Answer, LimiterNext
  <2>3. CASE \/ TakeSlot(v) \/ Route(v) \/ Open(v) \/ Stream(v) \/ StreamFails(v)
             \/ Record(v) \/ ReleaseSlot(v)
    BY ZenonT(60), <2>3 DEF TakeSlot, Route, Open, Stream, StreamFails, Record, ReleaseSlot
  <2> QED
    BY <1>4, <2>1, <2>2, <2>3, Zenon DEF VisitStep
<1>5. CASE closing' = TRUE /\ UNCHANGED <<limiterVars, load, file, visitVars, sem, sites>>
  BY <1>5, Zenon
<1> QED
  BY <1>1, <1>2, <1>3, <1>4, <1>5, Zenon DEF GatewayNext

\* Every step of the daemon is a step of one service, or of main, and leaves the
\* other services alone.
LEMMA StepProjects ==
  [DaemonNext]_daemonVars => /\ [KeysNext]_keyVars
                             /\ [MaintNext]_maintVars
                             /\ [ClientNext]_clientVars
                             /\ [GatewayNext]_gwVars
                             /\ UNCHANGED services
<1> DEFINE Projected == /\ [KeysNext]_keyVars
                        /\ [MaintNext]_maintVars
                        /\ [ClientNext]_clientVars
                        /\ [GatewayNext]_gwVars
                        /\ UNCHANGED services
<1> SUFFICES ASSUME [DaemonNext]_daemonVars PROVE Projected
  BY Zenon
<1>1. CASE Keys(KeysNext)
  BY <1>1 DEF Keys
<1>2. ASSUME NEW p \in BootPeers, Maint(NetworkChanges(p) \/ LinkDies(p) \/ HelloObserved(p))
      PROVE  Projected
  BY <1>2, Zenon DEF Maint, MaintNext
<1>3. CASE Maint(BootStep) \/ Maint(CheckTicks \/ CheckStep) \/ Maint(RepublishStep)
           \/ Maint(StartupStep) \/ Maint(PeerDeaf)
  BY <1>3, Zenon DEF Maint, MaintNext
<1>4. CASE Client(RunStep \/ ReadOpen \/ RelayDrops)
  BY <1>4, Zenon DEF Client, ClientNext
<1>5. CASE Http(Clock \/ Forget) \/ \E v \in Visits : Http(Arrive(v) \/ VisitStep(v))
  BY <1>5, Zenon DEF Http, GatewayNext
<1>6. CASE Dns(Receive \/ ServeReturns \/ QueryStep)
  BY <1>6, Zenon DEF Dns
<1>7. CASE Quit
  BY <1>7, Zenon DEF Quit
<1>8. CASE StopDns
  BY <1>8, Zenon DEF StopDns, Dns, Ended
<1>9. CASE StopGateway
  BY <1>9, Zenon DEF StopGateway, Ended, GatewayNext
<1>10. CASE StopMaintenance
  BY <1>10, Zenon DEF StopMaintenance, Maint, MaintNext, Ended
<1>11. CASE StopPeer
  BY <1>11, Zenon DEF StopPeer, Client, ClientNext, Ended
<1>12. CASE Goodbye
  BY <1>12, Zenon DEF Goodbye, Ended
<1>13. CASE UNCHANGED daemonVars
  BY <1>13, Zenon DEF daemonVars
<1> QED
  BY ZenonT(60), <1>1, <1>2, <1>3, <1>4, <1>5, <1>6, <1>7, <1>8, <1>9, <1>10, <1>11, <1>12, <1>13
  DEF DaemonNext, StopStep

-----------------------------------------------------------------------------
(* The services one by one *)

\* The daemon drives the limiter and the key files as their own specifications do.
LEMMA DaemonUsesServices == DaemonSpec => LimiterSpec /\ KeysSpec
<1>1. DaemonInit => LimiterInit /\ KeysInit
  BY ZenonT(60) DEF DaemonInit, GatewayInit
<1>2. [DaemonNext]_daemonVars => [LimiterNext]_limiterVars /\ [KeysNext]_keyVars
  BY StepProjects, GatewayProjects, Zenon DEF gwVars
<1> QED
  BY <1>1, <1>2, PTL DEF DaemonSpec, LimiterSpec, KeysSpec

\* One turn of the bootstrap loop keeps its position and its delay in their bounds.
LEMMA BootKeeps ==
  ASSUME MaintTypeOK, BootStep
  PROVE  MaintTypeOK'
<1>1. /\ Len(BootOrder) \in Nat /\ 1 <= Len(BootOrder)
      /\ \A i \in 1..Len(BootOrder) : BootOrder[i] \in BootPeers
  BY MaintAssumption
<1>2. BootNext => /\ boot' \in {"waiting", "dialing", "hello", "lookup", "returned"}
                  /\ tried' \in 1..Len(BootOrder) /\ wait' \in 1..MaxBootBackoff
  BY <1>1, MaintAssumption DEF MaintTypeOK, BootNext
<1> USE DEF netVars, loopVars
<1>3. CASE BootWakes
  BY <1>1, <1>3, MaintAssumption DEF MaintTypeOK, BootWakes
<1>4. CASE BootHalts
  BY <1>4, Zenon DEF MaintTypeOK, BootHalts
<1>5. CASE BootDials
  BY <1>1, <1>2, <1>5, Zenon DEF MaintTypeOK, BootDials, Connected
<1>6. CASE BootPolls
  BY <1>2, <1>6, Zenon DEF MaintTypeOK, BootPolls
<1>7. CASE BootSucceeds
  BY <1>1, <1>7, MaintAssumption DEF MaintTypeOK, BootSucceeds
<1> QED
  BY <1>3, <1>4, <1>5, <1>6, <1>7, Zenon DEF BootStep

\* So does every other step of the maintenance loops.
LEMMA MaintKeeps ==
  ASSUME MaintTypeOK, [MaintNext]_maintVars
  PROVE  MaintTypeOK'
<1> USE DEF MaintTypeOK, netVars, bootVars, loopVars
<1>1. ASSUME NEW p \in BootPeers, NetworkChanges(p) \/ LinkDies(p) \/ HelloObserved(p)
      PROVE  MaintTypeOK'
  <2>1. CASE NetworkChanges(p)
    <3>1. up' \subseteq BootPeers
      BY <2>1, Zenon DEF NetworkChanges
    <3> QED
      BY <2>1, <3>1, Zenon DEF NetworkChanges
  <2>2. CASE LinkDies(p)
    BY <2>2, Zenon DEF LinkDies
  <2>3. CASE HelloObserved(p)
    BY <2>3, Zenon DEF HelloObserved
  <2> QED
    BY <1>1, <2>1, <2>2, <2>3, Zenon
<1>2. CASE BootStep
  BY <1>2, BootKeeps, Zenon
<1>3. CASE CheckTicks
  BY <1>3, Zenon DEF CheckTicks
<1>4. CASE CheckEnds
  BY <1>4, Zenon DEF CheckEnds
<1>5. ASSUME NEW p \in BootPeers, PingAnswered(p) PROVE MaintTypeOK'
  BY <1>5 DEF PingAnswered, Connected
<1>6. ASSUME NEW p \in BootPeers, PingFails(p) PROVE MaintTypeOK'
  BY <1>6 DEF PingFails
<1>7. CASE RepublishStep \/ StartupStep
  BY <1>7, Zenon DEF RepublishStep, StartupStep
<1>8. CASE MaintStop \/ MaintStopReturns
  BY ZenonT(60), <1>8 DEF MaintStop, MaintStopReturns
<1>9. CASE PeerDeaf
  BY <1>9, Zenon DEF PeerDeaf
<1>10. CASE UNCHANGED maintVars
  BY <1>10, Zenon DEF maintVars
<1> QED
  BY ZenonT(60), <1>1, <1>2, <1>3, <1>4, <1>5, <1>6, <1>7, <1>8, <1>9, <1>10 DEF MaintNext, CheckStep

\* Whatever Run and Stop do, Stop knows of the connection Run may block on.
LEMMA ClientKeeps ==
  ASSUME ClientTypeOK, ConnectionKnown, [ClientNext]_clientVars
  PROVE  ClientTypeOK' /\ ConnectionKnown'
<1> USE BackoffAssumption DEF ClientTypeOK, ConnectionKnown
<1>1. CASE Loop
  BY <1>1, ZenonT(30) DEF Loop
<1>2. CASE DialRelay
  BY <1>2, Zenon DEF DialRelay
<1>3. CASE PublishConn
  <2>1. CASE stopped
    BY <1>3, <2>1 DEF PublishConn
  <2>2. CASE ~stopped
    BY <1>3, <2>2, Zenon DEF PublishConn
  <2> QED
    BY <2>1, <2>2, Zenon
<1>4. CASE RegisterAnswered
  BY ZenonT(60), <1>4 DEF RegisterAnswered, Leave
<1>5. CASE CheckStop
  <2>1. CASE stopped /\ Leave("loop")
    <3>1. /\ run' = "loop" /\ activeConn' = FALSE /\ conn' = "none" /\ backoff' = 1
          /\ UNCHANGED <<stopped, stop>>
      BY <2>1, Zenon DEF Leave
    <3>2. activeConn' \in BOOLEAN /\ stopped' \in BOOLEAN
      BY <3>1, Zenon
    <3> QED
      BY <3>1, <3>2
  <2>2. CASE /\ ~stopped /\ run' = "reading"
             /\ UNCHANGED <<conn, activeConn, backoff, stopped, stop>>
    BY <1>5, <2>2, Zenon DEF CheckStop
  <2> QED
    BY ZenonT(60), <1>5, <2>1, <2>2 DEF CheckStop
<1>6. CASE ReadFails
  BY ZenonT(60), <1>6 DEF ReadFails, Leave
<1>7. CASE Wake
  BY <1>7 DEF Wake
<1>8. CASE ReadOpen
  BY <1>8, Zenon DEF ReadOpen
<1>9. CASE RelayDrops
  BY <1>9, Zenon DEF RelayDrops
<1>10. CASE StopFlag
  BY <1>10, Zenon DEF StopFlag
<1>11. CASE StopClose
  BY <1>11, Zenon DEF StopClose
<1>12. CASE StopReturns
  BY <1>12, Zenon DEF StopReturns
<1>13. CASE UNCHANGED clientVars
  BY <1>13, Zenon DEF clientVars
<1> QED
  BY <1>1, <1>2, <1>3, <1>4, <1>5, <1>6, <1>7, <1>8, <1>9, <1>10, <1>11, <1>12, <1>13, Zenon
  DEF ClientNext, RunStep

\* The visits that hold a slot, and the invariant of the semaphore.
Holders == {v \in Visits : Inside(v)}

SlotInv ==
  /\ visit \in [Visits -> {"idle", "limit", "slot", "route", "directory", "stream", "record",
                           "leave", "answered"}]
  /\ SlotsExact

\* A visit that moves from one stage inside to another, or outside, keeps the slots.
LEMMA MoveKeeps ==
  ASSUME SlotInv, NEW v \in Visits, UNCHANGED sem,
         NEW to \in {"idle", "limit", "slot", "route", "directory", "stream", "record",
                     "leave", "answered"},
         visit' = [visit EXCEPT ![v] = to],
         Inside(v) <=> to \in {"route", "directory", "stream", "record", "leave"}
  PROVE  SlotInv'
<1>1. \A w \in Visits : Inside(w)' <=> Inside(w)
  BY Zenon DEF SlotInv, Inside
<1>2. {w \in Visits : Inside(w)}' = {w \in Visits : Inside(w)}
  BY <1>1, Zenon
<1> QED
  BY <1>2, Zenon DEF SlotInv, SlotsExact

\* A slot is taken or released by exactly one visit.
LEMMA SlotsKeep ==
  ASSUME SlotInv, [GatewayNext]_gwVars
  PROVE  SlotInv'
<1>1. IsFiniteSet(Holders) /\ Cardinality(Holders) \in Nat /\ sem = Cardinality(Holders)
  BY GatewayAssumption, FS_Subset, FS_CardinalityType, Zenon DEF Holders, SlotInv, SlotsExact
<1>2. CASE UNCHANGED <<visit, sem>>
  BY <1>2, Zenon DEF SlotInv, SlotsExact, Inside
<1>3. ASSUME NEW v \in Visits, TakeSlot(v) PROVE SlotInv'
  <2>1. CASE sem < MaxConcurrent
    <3>1. visit' = [visit EXCEPT ![v] = "route"] /\ sem' = sem + 1 /\ visit[v] = "slot"
      BY <1>3, <2>1, Zenon DEF TakeSlot
    <3>2. v \notin Holders /\ Holders' = Holders \cup {v}
      BY <3>1, Zenon DEF Holders, Inside, SlotInv
    <3>3. Cardinality(Holders') = Cardinality(Holders) + 1
      BY <1>1, <3>2, FS_AddElement, Zenon
    <3> QED
      BY <1>1, <2>1, <3>1, <3>3, GatewayAssumption DEF SlotInv, SlotsExact, Holders
  <2>2. CASE ~(sem < MaxConcurrent)
    BY <1>3, <2>2, MoveKeeps, Zenon DEF TakeSlot, Inside
  <2> QED
    BY <2>1, <2>2, Zenon
<1>4. ASSUME NEW v \in Visits, ReleaseSlot(v) PROVE SlotInv'
  <2>1. visit' = [visit EXCEPT ![v] = "answered"] /\ sem' = sem - 1 /\ visit[v] = "leave"
    BY <1>4, Zenon DEF ReleaseSlot
  <2>2. v \in Holders /\ Holders' = Holders \ {v}
    BY <2>1, Zenon DEF Holders, Inside, SlotInv
  <2>3. Cardinality(Holders') = Cardinality(Holders) - 1
    BY <1>1, <2>2, FS_RemoveElement, Zenon
  <2> QED
    BY <1>1, <2>1, <2>3, GatewayAssumption DEF SlotInv, SlotsExact, Holders
<1>5. ASSUME NEW v \in Visits,
             \/ Arrive(v) \/ Limit(v) \/ Route(v) \/ StreamFails(v) \/ Record(v) \/ Answer(v)
      PROVE  SlotInv'
  <2>1. CASE Arrive(v)
    BY ZenonT(60), <2>1, MoveKeeps DEF Arrive, Inside
  <2>2. CASE Limit(v)
    <3>1. CASE verdict'[v] = "granted"
      BY ZenonT(60), <2>2, <3>1, MoveKeeps DEF Limit, Inside
    <3>2. CASE verdict'[v] # "granted"
      BY ZenonT(60), <2>2, <3>2, MoveKeeps DEF Limit, Inside
    <3> QED
      BY <3>1, <3>2, Zenon
  <2>3. CASE Route(v)
    <3>1. visit[v] = "route" /\ UNCHANGED sem
          /\ (visit' = [visit EXCEPT ![v] = "leave"] \/ visit' = [visit EXCEPT ![v] = "directory"])
      BY <2>3, Zenon DEF Route
    <3> QED
      BY <3>1, MoveKeeps, Zenon DEF Inside
  <2>4. CASE StreamFails(v)
    BY ZenonT(60), <2>4, MoveKeeps DEF StreamFails, Inside
  <2>5. CASE Record(v)
    BY ZenonT(60), <2>5, MoveKeeps DEF Record, Inside
  <2>6. CASE Answer(v)
    BY ZenonT(60), <2>6, MoveKeeps DEF Answer, Inside
  <2> QED
    BY <1>5, <2>1, <2>2, <2>3, <2>4, <2>5, <2>6, Zenon
<1>6. ASSUME NEW v \in Visits, Open(v) PROVE SlotInv'
  <2>1. visit[v] = "directory" /\ UNCHANGED sem
        /\ (visit' = [visit EXCEPT ![v] = "record"] \/ visit' = [visit EXCEPT ![v] = "stream"])
    BY <1>6, Zenon DEF Open
  <2> QED
    BY <2>1, MoveKeeps, Zenon DEF Inside
<1>7. ASSUME NEW v \in Visits, Stream(v) PROVE SlotInv'
  <2>1. visit[v] = "stream" /\ UNCHANGED sem
        /\ (visit' = [visit EXCEPT ![v] = "record"] \/ UNCHANGED visit)
    BY ZenonT(60), <1>7 DEF Stream
  <2> QED
    BY <1>2, <2>1, MoveKeeps, Zenon DEF Inside
<1>8. CASE \/ Clock \/ Forget \/ UNCHANGED gwVars
           \/ closing' = TRUE /\ UNCHANGED <<limiterVars, load, file, visitVars, sem, sites>>
  BY <1>2, <1>8, Zenon DEF Clock, Forget, gwVars, visitVars
<1> QED
  BY ZenonT(60), <1>3, <1>4, <1>5, <1>6, <1>7, <1>8 DEF GatewayNext, VisitStep

-----------------------------------------------------------------------------
(* Shutdown *)

LoopsDone == boot = "returned" /\ check = "returned" /\ republish = "returned" /\ startup = "returned"

\* What a deferred call leaves behind for the calls after it: once main is past the
\* call of a service, that service's Stop has returned and its goroutines are gone,
\* and a service that was not started never had any.
OrderInv ==
  /\ phase \in Phases
  /\ "maintenance" \notin services \/ mstop = "returned" => LoopsDone
  /\ "relay" \notin services \/ stop = "returned" => run = "returned"
  /\ dnsStop = "returned" => ~udp
  /\ phase \in {"gateway", "maintenance", "goodbye", "relay", "exited"} /\ "dns" \in services =>
       dnsStop = "returned"
  /\ phase \in {"maintenance", "goodbye", "relay", "exited"} /\ "gateway" \in services => closing
  /\ phase \in {"goodbye", "relay", "exited"} /\ "maintenance" \in services => mstop = "returned"
  /\ phase = "exited" /\ "relay" \in services => stop = "returned"

\* A deferred call is followed by the next one of a service that was started.
LEMMA DeferredOrder ==
  ASSUME NEW call \in Phases \ {"exited"}
  PROVE  LET next == NextDeferred(call) IN
         /\ next \in Phases \ {"serving", call}
         /\ call # "serving" => next # "dns"
         /\ call \in {"maintenance", "goodbye", "relay"} => next # "gateway"
         /\ call \in {"goodbye", "relay"} => next # "maintenance"
         /\ call = "serving" /\ next # "dns" => "dns" \notin services
         /\ call \in {"serving", "dns"} /\ next \notin {"dns", "gateway"} => "gateway" \notin services
         /\ call \in {"serving", "dns", "gateway"} /\ next \in {"goodbye", "relay", "exited"} =>
              "maintenance" \notin services
         /\ call # "relay" /\ next = "exited" => "relay" \notin services
BY Zenon DEF NextDeferred, Or, Phases

\* main goes on to the next deferred call only when the current one has returned.
LEMMA EndedKeepsOrder ==
  ASSUME OrderInv, NEW call \in Phases \ {"exited"}, phase = call,
         phase' = NextDeferred(call),
         UNCHANGED <<maintVars, clientVars, gwVars, dnsVars, services>>,
         call = "dns" => dnsStop = "returned",
         call = "gateway" => closing,
         call = "maintenance" => mstop = "returned",
         call = "relay" => stop = "returned"
  PROVE  OrderInv'
<1>1. /\ UNCHANGED <<boot, check, republish, startup, mstop, run, stop, dnsStop, services>>
      /\ UNCHANGED <<udp, closing>>
  BY Zenon DEF maintVars, bootVars, loopVars, clientVars, gwVars, dnsVars
<1>2. /\ "maintenance" \notin services' \/ mstop' = "returned" => LoopsDone'
      /\ "relay" \notin services' \/ stop' = "returned" => run' = "returned"
      /\ dnsStop' = "returned" => ~udp'
  BY <1>1, Zenon DEF OrderInv, LoopsDone
<1>3. phase' \in Phases
  BY DeferredOrder, Zenon
<1>4. /\ phase' \in {"gateway", "maintenance", "goodbye", "relay", "exited"} /\ "dns" \in services =>
           dnsStop = "returned"
      /\ phase' \in {"maintenance", "goodbye", "relay", "exited"} /\ "gateway" \in services => closing
  BY DeferredOrder, Zenon DEF OrderInv, Phases
<1>5. /\ phase' \in {"goodbye", "relay", "exited"} /\ "maintenance" \in services => mstop = "returned"
      /\ phase' = "exited" /\ "relay" \in services => stop = "returned"
  BY DeferredOrder, Zenon DEF OrderInv, Phases
<1> QED
  BY <1>1, <1>2, <1>3, <1>4, <1>5, Zenon DEF OrderInv

\* The loops only ever end, and Stop returns when all have.
LEMMA MaintEnds ==
  MaintNext => /\ LoopsDone => LoopsDone'
               /\ mstop' = "returned" => mstop = "returned" \/ LoopsDone'
               /\ mstop = "returned" => mstop' = "returned"
<1> SUFFICES ASSUME MaintNext
             PROVE  /\ LoopsDone => LoopsDone'
                    /\ mstop' = "returned" => mstop = "returned" \/ LoopsDone'
                    /\ mstop = "returned" => mstop' = "returned"
  BY Zenon
<1> USE DEF LoopsDone, bootVars, loopVars
<1>1. ASSUME NEW p \in BootPeers, NetworkChanges(p) \/ LinkDies(p) \/ HelloObserved(p)
      PROVE  UNCHANGED <<boot, check, republish, startup, mstop>>
  BY <1>1, Zenon DEF NetworkChanges, LinkDies, HelloObserved
<1>2. CASE BootStep
  BY <1>2, Zenon DEF BootStep, BootWakes, BootHalts, BootDials, BootPolls, BootSucceeds
<1>3. CASE CheckTicks \/ CheckStep
  BY <1>3, Zenon DEF CheckTicks, CheckStep, CheckEnds, PingAnswered, PingFails
<1>4. CASE RepublishStep \/ StartupStep
  BY <1>4, Zenon DEF RepublishStep, StartupStep
<1>5. CASE PeerDeaf \/ MaintStop \/ MaintStopReturns
  BY <1>5, Zenon DEF PeerDeaf, MaintStop, MaintStopReturns
<1> QED
  BY <1>1, <1>2, <1>3, <1>4, <1>5, Zenon DEF MaintNext

\* Run only ever ends, and Stop returns when it has.
LEMMA ClientEnds ==
  ClientNext => /\ run = "returned" => run' = "returned"
                /\ stop' = "returned" => stop = "returned" \/ run' = "returned"
                /\ stop = "returned" => stop' = "returned"
BY Zenon DEF ClientNext, RunStep, Loop, DialRelay, PublishConn, RegisterAnswered, CheckStop, ReadFails,
       Wake, Leave, ReadOpen, RelayDrops, StopFlag, StopClose, StopReturns

\* The order of the shutdown survives every step of the daemon.
LEMMA OrderStep ==
  ASSUME OrderInv, [DaemonNext]_daemonVars
  PROVE  OrderInv'
<1>1. ASSUME UNCHANGED <<maintVars, clientVars, closing, dnsVars, services, phase>>
      PROVE  OrderInv'
  <2>1. UNCHANGED <<boot, check, republish, startup, mstop, run, stop, dnsStop, udp>>
    BY <1>1, Zenon DEF maintVars, bootVars, loopVars, clientVars, dnsVars
  <2> QED
    BY <1>1, <2>1, ZenonT(30) DEF OrderInv, LoopsDone
<1>2. ASSUME "maintenance" \in services, MaintNext,
             UNCHANGED <<clientVars, closing, dnsVars, services, phase>>
      PROVE  OrderInv'
  <2>1. UNCHANGED <<run, stop, dnsStop, udp>>
    BY <1>2, Zenon DEF clientVars, dnsVars
  <2> QED
    BY <1>2, <2>1, MaintEnds, Zenon DEF OrderInv
<1>3. ASSUME "relay" \in services, ClientNext,
             UNCHANGED <<maintVars, closing, dnsVars, services, phase>>
      PROVE  OrderInv'
  <2>1. UNCHANGED <<boot, check, republish, startup, mstop, dnsStop, udp>>
    BY <1>3, Zenon DEF maintVars, bootVars, loopVars, dnsVars
  <2> QED
    BY <1>3, <2>1, ClientEnds, Zenon DEF OrderInv, LoopsDone
<1>4. ASSUME UNCHANGED <<maintVars, clientVars, closing, services, phase>>,
             \/ UNCHANGED <<udp, dnsStop>>
             \/ dnsStop = "uncalled" /\ dnsStop' = "closing" /\ UNCHANGED udp
             \/ ~udp' /\ dnsStop' = "returned"
      PROVE  OrderInv'
  <2>1. UNCHANGED <<boot, check, republish, startup, mstop, run, stop>>
    BY <1>4, Zenon DEF maintVars, bootVars, loopVars, clientVars
  <2> QED
    BY <1>4, <2>1 DEF OrderInv, LoopsDone
<1>5. CASE Keys(KeysNext)
  BY <1>1, <1>5, Zenon DEF Keys, gwVars
<1>6. ASSUME NEW p \in BootPeers, Maint(NetworkChanges(p) \/ LinkDies(p) \/ HelloObserved(p))
      PROVE  OrderInv'
  BY <1>2, <1>6, Zenon DEF Maint, MaintNext, gwVars
<1>7. CASE Maint(BootStep) \/ Maint(CheckTicks \/ CheckStep) \/ Maint(RepublishStep)
           \/ Maint(StartupStep) \/ Maint(PeerDeaf)
  BY <1>2, <1>7, Zenon DEF Maint, MaintNext, gwVars
<1>8. CASE Client(RunStep \/ ReadOpen \/ RelayDrops)
  BY <1>3, <1>8, Zenon DEF Client, ClientNext, gwVars
<1>9. CASE Http(Clock \/ Forget) \/ \E v \in Visits : Http(Arrive(v) \/ VisitStep(v))
  <2>1. UNCHANGED <<maintVars, clientVars, dnsVars, services, phase>>
    BY <1>9, Zenon DEF Http
  <2>2. UNCHANGED closing
    BY ZenonT(60), <1>9 DEF Http, Clock, Forget, Arrive, VisitStep, Limit, TakeSlot, Route, Open, Stream,
                StreamFails, Record, ReleaseSlot, Answer
  <2> QED
    BY <1>1, <2>1, <2>2, Zenon
<1>10. CASE Dns(Receive \/ ServeReturns \/ QueryStep)
  <2>1. UNCHANGED <<udp, dnsStop>>
    BY ZenonT(60), <1>10 DEF Dns, Receive, ServeReturns, QueryStep, LimitQuery, Handle, Forwarded, HandleEnds
  <2> QED
    BY <1>4, <1>10, <2>1, Zenon DEF Dns, gwVars
<1>11. CASE Quit
  BY <1>11, EndedKeepsOrder, Zenon DEF Quit, Phases
<1>12. CASE StopDns
  <2>1. CASE phase = "dns" /\ Dns(ResolverStop \/ ResolverClose)
    BY <1>4, <2>1, Zenon DEF Dns, ResolverStop, ResolverClose, gwVars
  <2>2. CASE dnsStop = "returned" /\ Ended("dns")
    BY <2>2, EndedKeepsOrder, Zenon DEF Ended, Phases
  <2> QED
    BY <1>12, <2>1, <2>2, Zenon DEF StopDns
<1>13. CASE StopGateway
  <2>1. CASE /\ phase = "gateway" /\ closing' = TRUE
             /\ UNCHANGED <<keyVars, maintVars, clientVars, dnsVars, services, phase>>
    <3>1. UNCHANGED <<boot, check, republish, startup, mstop, run, stop, dnsStop, udp>>
      BY <2>1, Zenon DEF maintVars, bootVars, loopVars, clientVars, dnsVars
    <3> QED
      BY <2>1, <3>1, Zenon DEF OrderInv, LoopsDone
  <2>2. CASE closing /\ Ended("gateway")
    BY <2>2, EndedKeepsOrder, Zenon DEF Ended, Phases
  <2> QED
    BY ZenonT(60), <1>13, <2>1, <2>2 DEF StopGateway
<1>14. CASE StopMaintenance
  <2>1. CASE phase = "maintenance" /\ Maint(MaintStop \/ MaintStopReturns)
    BY <1>2, <2>1, Zenon DEF Maint, MaintNext, gwVars
  <2>2. CASE mstop = "returned" /\ Ended("maintenance")
    BY <2>2, EndedKeepsOrder, Zenon DEF Ended, Phases
  <2> QED
    BY <1>14, <2>1, <2>2, Zenon DEF StopMaintenance
<1>15. CASE StopPeer
  <2>1. CASE phase = "relay" /\ Client(StopFlag \/ StopClose \/ StopReturns)
    BY <1>3, <2>1, Zenon DEF Client, ClientNext, gwVars
  <2>2. CASE stop = "returned" /\ Ended("relay")
    BY <2>2, EndedKeepsOrder, Zenon DEF Ended, Phases
  <2> QED
    BY <1>15, <2>1, <2>2, Zenon DEF StopPeer
<1>16. CASE Goodbye
  BY <1>16, EndedKeepsOrder, Zenon DEF Goodbye, Ended, Phases
<1>17. CASE UNCHANGED daemonVars
  BY <1>1, <1>17, Zenon DEF daemonVars, gwVars
<1> QED
  BY <1>5, <1>6, <1>7, <1>8, <1>9, <1>10, <1>11, <1>12, <1>13, <1>14, <1>15, <1>16, <1>17, Zenon
  DEF DaemonNext, StopStep
-----------------------------------------------------------------------------
(* The daemon *)

\* The inductive invariant of the daemon.
DaemonInv ==
  /\ services \in Configurations
  /\ OrderInv
  /\ MaintTypeOK
  /\ ClientTypeOK /\ ConnectionKnown
  /\ SlotInv

\* It holds when the daemon starts: a service that is off has returned.
LEMMA DaemonStarts == DaemonInit => DaemonInv
<1> SUFFICES ASSUME DaemonInit PROVE DaemonInv
  BY Zenon
<1>1. services \in Configurations
  BY Zenon DEF DaemonInit
<1>2. OrderInv
  BY ZenonT(60) DEF DaemonInit, MaintInit, ClientInit, GatewayInit, ResolverInit, OrderInv, LoopsDone, Phases
<1>3. MaintTypeOK
  <2>1. halt \in BOOLEAN /\ deaf \in BOOLEAN
    BY Zenon DEF DaemonInit, MaintInit
  <2>2. 1 \in 1..Len(BootOrder) /\ 1 \in 1..MaxBootBackoff
    BY MaintAssumption
  <2>3. /\ up \subseteq BootPeers /\ link = {} /\ table = {} /\ hello = {} /\ pinged = {}
        /\ tried = 1 /\ wait = 1 /\ mstop = "uncalled"
        /\ boot \in {"waiting", "returned"}
        /\ \A l \in {check, republish, startup} : l \in {"running", "returned"}
    BY Zenon DEF DaemonInit, MaintInit
  <2> QED
    BY <2>1, <2>2, <2>3, Zenon DEF MaintTypeOK
<1>4. ClientTypeOK /\ ConnectionKnown
  <2>1. activeConn = FALSE /\ stopped = FALSE
    BY Zenon DEF DaemonInit, ClientInit
  <2>2. activeConn \in BOOLEAN /\ stopped \in BOOLEAN
    BY <2>1, Zenon
  <2>3. run \in {"loop", "returned"} /\ conn = "none" /\ backoff = 1 /\ stop = "uncalled"
    BY Zenon DEF DaemonInit, ClientInit
  <2> QED
    BY <2>1, <2>2, <2>3, BackoffAssumption DEF ClientTypeOK, ConnectionKnown
<1>5. SlotInv
  <2>1. visit = [v \in Visits |-> "idle"] /\ sem = 0
    BY ZenonT(60) DEF DaemonInit, GatewayInit
  <2>2. {v \in Visits : Inside(v)} = {}
    BY <2>1, Zenon DEF Inside
  <2> QED
    BY <2>1, <2>2, FS_EmptySet, GatewayAssumption DEF SlotInv, SlotsExact
<1> QED
  BY <1>1, <1>2, <1>3, <1>4, <1>5, Zenon DEF DaemonInv

\* And it survives every step, service by service.
LEMMA DaemonStep == DaemonInv /\ [DaemonNext]_daemonVars => DaemonInv'
<1> SUFFICES ASSUME DaemonInv, [DaemonNext]_daemonVars PROVE DaemonInv'
  BY Zenon
<1>1. /\ [MaintNext]_maintVars /\ [ClientNext]_clientVars /\ [GatewayNext]_gwVars
      /\ UNCHANGED services
  BY StepProjects, Zenon
<1> QED
  BY <1>1, OrderStep, MaintKeeps, ClientKeeps, SlotsKeep, Zenon DEF DaemonInv

\* In every configuration: the relay client's connection is known to Stop, the slots
\* are those of the visits inside, the lazy buckets follow the exact ones, and the key
\* files belong together.
THEOREM DaemonStaysSound == DaemonSpec => []DaemonSound
<1>1. DaemonSpec => []DaemonInv
  BY DaemonStarts, DaemonStep, PTL DEF DaemonSpec
<1>2. DaemonSpec => []LimiterSound
  BY DaemonUsesServices, LimiterStaysSound, PTL
<1>3. DaemonSpec => []KeysInv
  BY DaemonUsesServices, KeysStart, KeysStep, PTL DEF KeysSpec
<1>4. DaemonSpec => []KeysAgree
  BY DaemonUsesServices, KeysAlwaysAgree, PTL
<1>5. DaemonInv /\ LimiterSound /\ KeysInv /\ KeysAgree => DaemonSound
  BY Zenon DEF DaemonInv, DaemonSound, OrderInv, SlotInv
<1> QED
  BY <1>1, <1>2, <1>3, <1>4, <1>5, PTL

\* In every configuration main returns only after the goroutines of every service it
\* started are gone, and the peer is stopped only after the loops that use it.
THEOREM DaemonStopsInOrder == DaemonSpec => []StoppedInOrder
<1>1. DaemonInv => StoppedInOrder
  BY Zenon DEF DaemonInv, OrderInv, LoopsDone, ConnectionKnown, StoppedInOrder
<1> QED
  BY <1>1, DaemonStarts, DaemonStep, PTL DEF DaemonSpec

\* The gateway of a running daemon limits its clients as exact buckets do.
THEOREM DaemonKeepsLimit == DaemonSpec => LimitKept
BY DaemonUsesServices, LimiterKeepsLimit, PTL
=============================================================================
