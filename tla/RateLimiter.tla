----------------------------- MODULE RateLimiter -----------------------------
(***************************************************************************)
(* The token buckets of the HTTP gateway (apps/gateway/ratelimit.go) and,  *)
(* line for line the same, of the DNS server (apps/dns/ratelimit.go).      *)
(* allow reads the clock BEFORE it takes the lock, so requests are         *)
(* accounted with times that are late and out of order; buckets are        *)
(* created full, refilled lazily and swept when they are idle.             *)
(*                                                                         *)
(* Units: a tick of the clock earns one unit, a token is Cost units.       *)
(***************************************************************************)
EXTENDS Integers

CONSTANTS
  Clients,     \* remote IPs
  Visits,      \* requests in progress
  Cost,        \* ticks that earn one token (1 / rate)
  Burst,       \* burst, in units
  SweepEvery,  \* 30 seconds
  IdleTTL,     \* 5 minutes
  MaxDelay,    \* bound: ticks a request waits between the clock and the lock
  MaxTime      \* bound: length of the run

ASSUME LimiterAssumption ==
  /\ Clients # {}
  /\ Cost \in Nat \ {0} /\ Burst \in Nat /\ Cost <= Burst
  /\ SweepEvery \in Nat /\ IdleTTL \in Nat /\ MaxDelay \in Nat /\ MaxTime \in Nat
  /\ Burst + 2 * MaxDelay <= IdleTTL

VARIABLES
  now,        \* the clock
  tokens,     \* tokens of every bucket
  lastSeen,   \* and its time; Absent: no bucket
  lastSweep,
  asking,     \* the client and the clock reading of a request that waits for the lock
  verdict,    \* what allow returned to a request
  credit      \* history: the exact bucket of every client, of capacity Burst + MaxDelay

Absent == -1 - MaxDelay
NoAsk == [client |-> CHOOSE c \in Clients : TRUE, at |-> Absent]

limiterVars == <<now, tokens, lastSeen, lastSweep, asking, verdict, credit>>

LimiterInit ==
  /\ now = 0
  /\ tokens = [c \in Clients |-> 0]
  /\ lastSeen = [c \in Clients |-> Absent]
  /\ lastSweep = 0
  /\ asking = [v \in Visits |-> NoAsk]
  /\ verdict = [v \in Visits |-> "none"]
  /\ credit = [c \in Clients |-> Burst + MaxDelay]

Waiting(v) == asking[v].at # Absent

Tick ==
  /\ now < MaxTime
  /\ \A v \in Visits : Waiting(v) => now < asking[v].at + MaxDelay
  /\ now' = now + 1
  /\ credit' = [c \in Clients |->
                  IF credit[c] < Burst + MaxDelay THEN credit[c] + 1 ELSE Burst + MaxDelay]
  /\ UNCHANGED <<tokens, lastSeen, lastSweep, asking, verdict>>

\* allow, up to the lock.
Ask(v, c) ==
  /\ ~Waiting(v) /\ verdict[v] = "none"
  /\ asking' = [asking EXCEPT ![v] = [client |-> c, at |-> now]]
  /\ UNCHANGED <<now, tokens, lastSeen, lastSweep, verdict, credit>>

\* Mutant: buckets are dropped as often as the sweep runs.
SweptEager(at) ==
  {c \in Clients : at - lastSweep > SweepEvery /\ lastSeen[c] # Absent
                   /\ at - lastSeen[c] > SweepEvery}

\* gc: the buckets the sweep drops.
Swept(at) ==
  {c \in Clients : at - lastSweep > SweepEvery /\ lastSeen[c] # Absent
                   /\ at - lastSeen[c] > IdleTTL}

\* The bucket of c at time at, created full or refilled and capped.
Refilled(c, at) ==
  IF lastSeen[c] = Absent \/ c \in Swept(at) THEN Burst
  ELSE IF tokens[c] + (at - lastSeen[c]) > Burst THEN Burst
  ELSE tokens[c] + (at - lastSeen[c])

\* allow, under the lock.
Allow(v) ==
  LET c == asking[v].client
      at == asking[v].at
      granted == Refilled(c, at) >= Cost
  IN
  /\ Waiting(v)
  /\ tokens' = [tokens EXCEPT ![c] = IF granted THEN Refilled(c, at) - Cost ELSE Refilled(c, at)]
  /\ lastSeen' = [d \in Clients |->
                    IF d = c THEN at ELSE IF d \in Swept(at) THEN Absent ELSE lastSeen[d]]
  /\ lastSweep' = IF at - lastSweep > SweepEvery THEN at ELSE lastSweep
  /\ asking' = [asking EXCEPT ![v] = NoAsk]
  /\ verdict' = [verdict EXCEPT ![v] = IF granted THEN "granted" ELSE "refused"]
  /\ credit' = IF granted THEN [credit EXCEPT ![c] = @ - Cost] ELSE credit
  /\ UNCHANGED now

\* The request has been answered.
Answered(v) ==
  /\ verdict[v] # "none"
  /\ verdict' = [verdict EXCEPT ![v] = "none"]
  /\ UNCHANGED <<now, tokens, lastSeen, lastSweep, asking, credit>>

LimiterNext ==
  \/ Tick
  \/ \E v \in Visits : \/ \E c \in Clients : Ask(v, c)
                       \/ Allow(v) \/ Answered(v)

LimiterSpec == LimiterInit /\ [][LimiterNext]_limiterVars
-----------------------------------------------------------------------------
\* What a bucket would hold now if it were refilled without a cap.
Balance(c) == tokens[c] + (now - lastSeen[c])

Min2(a, b) == IF a < b THEN a ELSE b

\* Shapes, and how the lazy buckets follow the exact ones: an exact bucket holds at
\* least the balance and at most MaxDelay more, and a client without a bucket has a
\* full one.
LimiterSound ==
  /\ now \in Nat /\ lastSweep \in 0..now
  /\ tokens \in [Clients -> Int] /\ lastSeen \in [Clients -> Int]
  /\ credit \in [Clients -> 0..(Burst + MaxDelay)]
  /\ verdict \in [Visits -> {"none", "granted", "refused"}]
  /\ asking \in [Visits -> [client : Clients, at : Int]]
  /\ \A v \in Visits :
       Waiting(v) => /\ asking[v].at \in 0..now /\ now - MaxDelay <= asking[v].at
                     /\ verdict[v] = "none"
  /\ \A c \in Clients :
       IF lastSeen[c] = Absent THEN credit[c] = Burst + MaxDelay
       ELSE /\ lastSeen[c] \in 0..now
            /\ -MaxDelay <= tokens[c] /\ 0 <= Balance(c)
            /\ Min2(Balance(c), Burst + MaxDelay) <= credit[c]
            /\ credit[c] <= Balance(c) + MaxDelay

\* The limiter keeps the promise of exact buckets, with a capacity and a slack that
\* differ only by the time requests wait for the lock: sweeping a bucket and lazy
\* refills with clock readings out of order neither give a client requests it has
\* not earned nor refuse one it has.
Bucket == INSTANCE TokenBucket WITH
            level <- credit, Capacity <- Burst + MaxDelay, Slack <- 2 * MaxDelay

LimitKept == Bucket!BucketSpec
=============================================================================
