-------------------------------- MODULE Call --------------------------------
(***************************************************************************)
(* What Peer.Request promises its callers (core/peer/peer.go): a request   *)
(* is handled by the other peer at most once, perhaps after the caller has *)
(* given up; the caller gets one result, and a reply only if its own       *)
(* request was handled.                                                    *)
(***************************************************************************)
CONSTANT Reqs

VARIABLES
  call,     \* call[q]: "idle", "open", and in the end "answered" or "failed"
  served    \* the requests whose handler has run

callVars == <<call, served>>

CallInit ==
  /\ call = [q \in Reqs |-> "idle"]
  /\ served = {}

Invoke(q) ==
  /\ call[q] = "idle"
  /\ call' = [call EXCEPT ![q] = "open"]
  /\ UNCHANGED served

Serve(q) ==
  /\ call[q] # "idle"
  /\ q \notin served
  /\ served' = served \cup {q}
  /\ UNCHANGED call

Reply(q) ==
  /\ call[q] = "open"
  /\ q \in served
  /\ call' = [call EXCEPT ![q] = "answered"]
  /\ UNCHANGED served

\* An error, or the timeout; the request may have been handled or may still be.
Fail(q) ==
  /\ call[q] = "open"
  /\ call' = [call EXCEPT ![q] = "failed"]
  /\ UNCHANGED served

CallNext == \E q \in Reqs : Invoke(q) \/ Serve(q) \/ Reply(q) \/ Fail(q)

CallSpec == CallInit /\ [][CallNext]_callVars
=============================================================================
