---------------------------- MODULE ServicesProofs ----------------------------
(***************************************************************************)
(* Two services of the daemon.  The lazy buckets of the rate limiters keep *)
(* the promise of exact ones, for any number of clients and requests and   *)
(* any limits: LimiterSound is inductive, and under it every step is a     *)
(* step of TokenBucket.  The key files belong together after any number of *)
(* crashes, restarts and imports: KeysInv is inductive, and it implies     *)
(* KeysAgree.                                                              *)
(***************************************************************************)
EXTENDS RateLimiter, KeyFiles, TLAPS

-----------------------------------------------------------------------------
USE DEF Missing, Torn, Good, KeyFile, FileNames

\* A fresh machine and an old install are in order.
LEMMA KeysStart == KeysInit => KeysInv
<1> SUFFICES ASSUME KeysInit PROVE KeysInv
  OBVIOUS
<1>1. opened = FALSE /\ derTorn = FALSE
  BY DEF KeysInit
<1>2. opened \in BOOLEAN /\ derTorn \in BOOLEAN
  BY ZenonT(60), <1>1
<1>3. ASSUME disk = [f \in FileNames |-> Missing] /\ keys = 0 /\ owner = Missing
      PROVE  FilesOrdered
  BY <1>3 DEF KeysInit, FilesOrdered, PairParses, OnDisk
<1>4. ASSUME /\ disk = [f \in FileNames |->
                        IF f = KeyFile THEN 2 ELSE IF f = "cer" THEN Missing ELSE 1]
             /\ keys = 2 /\ owner = 2
      PROVE  FilesOrdered
  BY <1>4 DEF KeysInit, FilesOrdered, PairParses, OnDisk
<1> QED
  BY <1>2, <1>3, <1>4 DEF KeysInit, KeysInv

\* The two flags stay flags.
LEMMA FlagsStep ==
  KeysInv /\ [KeysNext]_keyVars => opened' \in BOOLEAN /\ derTorn' \in BOOLEAN
BY Zenon DEF KeysInv, KeysNext, keyVars, Start, LoadIdentity, Import, LoadCA, OpenFile,
             WriteFile, CopyFails, Crash

\* Starting, loading and importing only read files that are in order.
LEMMA LoadsKeep ==
  KeysInv /\ (Start \/ LoadIdentity \/ Import \/ LoadCA) => FilesOrdered'
<1> USE DEF KeysInv, FilesOrdered, PairParses, OnDisk
<1>1. KeysInv /\ Start => FilesOrdered'
  BY DEF Start, memVars
<1>2. KeysInv /\ LoadIdentity => FilesOrdered'
  BY DEF LoadIdentity
<1>3. KeysInv /\ Import => FilesOrdered'
  BY DEF Import
<1>4. ASSUME KeysInv, LoadCA PROVE FilesOrdered'
  <2>1. CASE /\ PairParses
             /\ caCert' = disk["crt"] /\ caKey' = disk["key"]
             /\ IF disk["cer"] = Missing
                THEN writing' = "der" /\ UNCHANGED proc
                ELSE proc' = "up" /\ UNCHANGED writing
             /\ UNCHANGED keys
    <3>1. /\ proc = "ca" /\ writing = "none" /\ ~opened /\ ~opened'
          /\ UNCHANGED <<disk, ident, owner>> /\ (derTorn => derTorn')
      BY <1>4 DEF LoadCA
    <3>2. CASE disk["cer"] = Missing
      BY <1>4, <2>1, <3>1, <3>2
    <3>3. CASE disk["cer"] # Missing
      BY <1>4, <2>1, <3>1, <3>3
    <3> QED
      BY <3>2, <3>3, Zenon
  <2>2. CASE /\ ~PairParses /\ keys < MaxKeys
             /\ keys' = keys + 1
             /\ caCert' = keys + 1 /\ caKey' = keys + 1
             /\ writing' = "crt"
             /\ UNCHANGED proc
    BY <1>4, <2>2 DEF LoadCA
  <2> QED
    BY <1>4, <2>1, <2>2, Zenon DEF LoadCA
<1> QED
  BY <1>1, <1>2, <1>3, <1>4, Zenon

\* The order of the writes: a truncated file is never part of a pair that parses.
LEMMA WritesKeep == KeysInv /\ (OpenFile \/ WriteFile) => FilesOrdered'
<1> USE DEF KeysInv, FilesOrdered, PairParses, OnDisk
<1>1. KeysInv /\ OpenFile => FilesOrdered'
  BY DEF OpenFile, memVars
<1>2. ASSUME KeysInv, WriteFile PROVE FilesOrdered'
  <2>1. CASE writing = KeyFile
    BY <1>2, <2>1 DEF WriteFile, NextFile, memVars
  <2>2. CASE writing = "crt"
    BY <1>2, <2>2 DEF WriteFile, NextFile, memVars
  <2>3. CASE writing = "cer"
    BY <1>2, <2>3 DEF WriteFile, NextFile, memVars
  <2>4. CASE writing = "key"
    BY <1>2, <2>4 DEF WriteFile, NextFile, memVars
  <2>5. CASE writing = "der"
    BY <1>2, <2>5 DEF WriteFile, NextFile, memVars
  <2> QED
    BY <1>2, <2>1, <2>2, <2>3, <2>4, <2>5, Zenon DEF WriteFile
<1> QED
  BY <1>1, <1>2, Zenon

\* A crash may leave any file torn, and loses what is in memory.
LEMMA FaultsKeep == KeysInv /\ (CopyFails \/ Crash) => FilesOrdered'
<1> USE DEF KeysInv, FilesOrdered, PairParses, OnDisk
<1>1. KeysInv /\ CopyFails => FilesOrdered'
  BY Zenon DEF CopyFails, memVars
<1>2. ASSUME KeysInv, Crash PROVE FilesOrdered'
  <2>1. derTorn \/ (writing = "der" /\ opened) => derTorn'
    BY <1>2, Zenon DEF Crash
  <2>2. /\ proc' = "down" /\ writing' = "none" /\ ~opened'
        /\ ident' = Missing /\ caCert' = Missing /\ caKey' = Missing
        /\ UNCHANGED <<disk, keys, owner>>
    BY <1>2 DEF Crash
  <2> QED
    BY <1>2, <2>1, <2>2
<1> QED
  BY <1>1, <1>2

\* The invariant of the key files survives every step.
LEMMA KeysStep == KeysInv /\ [KeysNext]_keyVars => KeysInv'
<1>1. KeysInv /\ UNCHANGED keyVars => FilesOrdered'
  BY DEF KeysInv, FilesOrdered, PairParses, OnDisk, keyVars, memVars
<1> QED
  BY <1>1, FlagsStep, LoadsKeep, WritesKeep, FaultsKeep DEF KeysNext, KeysInv

\* Whatever crashes, restarts and imports came before, a daemon that is up runs
\* under its last identity and signs with the key of the certificate it presents.
THEOREM KeysAlwaysAgree == KeysSpec => []KeysAgree
<1>1. KeysInv => KeysAgree
  BY DEF KeysInv, FilesOrdered, KeysAgree, PairParses
<1> QED
  BY <1>1, KeysStart, KeysStep, PTL DEF KeysSpec

HIDE DEF Missing, Torn, Good, KeyFile, FileNames

-----------------------------------------------------------------------------
\* The slot of a request that does not wait.
LEMMA NoAskShape == NoAsk \in [client : Clients, at : Int] /\ NoAsk.at = Absent
<1>1. (CHOOSE c \in Clients : TRUE) \in Clients
  BY LimiterAssumption
<1>2. Absent \in Int
  BY LimiterAssumption DEF Absent
<1> QED
  BY <1>1, <1>2 DEF NoAsk

\* Nobody has asked yet, and every bucket is full.
LEMMA LimiterStarts == LimiterInit => LimiterSound
<1> SUFFICES ASSUME LimiterInit PROVE LimiterSound
  OBVIOUS
<1>1. NoAsk \in [client : Clients, at : Int] /\ NoAsk.at = Absent
  BY NoAskShape
<1>2. asking \in [Visits -> [client : Clients, at : Int]] /\ \A v \in Visits : ~Waiting(v)
  BY <1>1 DEF LimiterInit, Waiting
<1>3. \A c \in Clients : lastSeen[c] = Absent /\ credit[c] = Burst + MaxDelay
  BY ZenonT(60) DEF LimiterInit
<1>4. /\ now \in Nat /\ lastSweep \in 0..now
      /\ tokens \in [Clients -> Int] /\ lastSeen \in [Clients -> Int]
      /\ credit \in [Clients -> 0..(Burst + MaxDelay)]
      /\ verdict \in [Visits -> {"none", "granted", "refused"}]
  BY LimiterAssumption DEF LimiterInit, Absent
<1> QED
  BY <1>2, <1>3, <1>4 DEF LimiterSound

\* What allow finds in a bucket, and what it means for the exact one: enough for the
\* cost if there is a token, little more than the cost if there is none.
LEMMA RefilledBounds ==
  ASSUME LimiterSound, NEW v \in Visits, Waiting(v)
  PROVE  LET c == asking[v].client
             at == asking[v].at
         IN /\ c \in Clients /\ at \in 0..now /\ now - MaxDelay <= at
            /\ Refilled(c, at) \in Int /\ Refilled(c, at) <= Burst
            /\ 0 <= Refilled(c, at) + (now - at)
            /\ Refilled(c, at) + (now - at) <= credit[c]
            /\ credit[c] <= Refilled(c, at) + (now - at) + MaxDelay
<1> DEFINE c == asking[v].client
           at == asking[v].at
<1>1. /\ c \in Clients /\ at \in 0..now /\ now - MaxDelay <= at
      /\ now \in Nat /\ tokens[c] \in Int /\ lastSeen[c] \in Int
      /\ credit[c] \in 0..(Burst + MaxDelay)
  BY DEF LimiterSound
<1>2. CASE lastSeen[c] = Absent
  BY <1>1, <1>2, LimiterAssumption DEF LimiterSound, Refilled
<1>3. CASE lastSeen[c] # Absent
  <2>1. /\ lastSeen[c] \in 0..now
        /\ -MaxDelay <= tokens[c] /\ 0 <= tokens[c] + (now - lastSeen[c])
        /\ tokens[c] + (now - lastSeen[c]) <= credit[c] \/ Burst + MaxDelay <= credit[c]
        /\ credit[c] <= tokens[c] + (now - lastSeen[c]) + MaxDelay
    BY <1>1, <1>3, LimiterAssumption, Zenon DEF LimiterSound, Balance, Min2
  <2>2. CASE c \in Swept(at)
    <3>1. at - lastSeen[c] > IdleTTL
      BY <2>2 DEF Swept
    <3> QED
      BY <1>1, <1>3, <2>1, <2>2, <3>1, LimiterAssumption DEF Refilled
  <2>3. CASE c \notin Swept(at)
    BY <1>1, <1>3, <2>1, <2>3, LimiterAssumption DEF Refilled
  <2> QED
    BY <2>2, <2>3, Zenon
<1> QED
  BY <1>2, <1>3, Zenon

\* Time passes: no waiting request gets older than MaxDelay, and every exact bucket
\* keeps step with the balance of its lazy one.
LEMMA TickSound == LimiterSound /\ Tick => LimiterSound'
<1> SUFFICES ASSUME LimiterSound, Tick PROVE LimiterSound'
  OBVIOUS
<1>1. /\ now' \in Nat /\ lastSweep' \in 0..now'
      /\ tokens' \in [Clients -> Int] /\ lastSeen' \in [Clients -> Int]
      /\ verdict' \in [Visits -> {"none", "granted", "refused"}]
      /\ asking' \in [Visits -> [client : Clients, at : Int]]
  BY DEF LimiterSound, Tick
<1>2. credit' \in [Clients -> 0..(Burst + MaxDelay)]
  BY LimiterAssumption DEF LimiterSound, Tick
<1>3. ASSUME NEW v \in Visits, Waiting(v)'
      PROVE  /\ asking'[v].at \in 0..now' /\ now' - MaxDelay <= asking'[v].at
             /\ verdict'[v] = "none"
  BY <1>3, LimiterAssumption DEF LimiterSound, Tick, Waiting, Absent
<1>4. ASSUME NEW c \in Clients
      PROVE  IF lastSeen'[c] = Absent THEN credit'[c] = Burst + MaxDelay
             ELSE /\ lastSeen'[c] \in 0..now'
                  /\ -MaxDelay <= tokens'[c] /\ 0 <= Balance(c)'
                  /\ Min2(Balance(c)', Burst + MaxDelay) <= credit'[c]
                  /\ credit'[c] <= Balance(c)' + MaxDelay
  <2>1. /\ now \in Nat /\ now' = now + 1 /\ tokens[c] \in Int /\ lastSeen[c] \in Int
        /\ tokens'[c] = tokens[c] /\ lastSeen'[c] = lastSeen[c]
        /\ credit[c] \in 0..(Burst + MaxDelay)
        /\ credit'[c] = IF credit[c] < Burst + MaxDelay THEN credit[c] + 1 ELSE Burst + MaxDelay
    BY DEF LimiterSound, Tick
  <2>2. IF lastSeen[c] = Absent THEN credit[c] = Burst + MaxDelay
        ELSE /\ lastSeen[c] \in 0..now
             /\ -MaxDelay <= tokens[c] /\ 0 <= Balance(c)
             /\ Min2(Balance(c), Burst + MaxDelay) <= credit[c]
             /\ credit[c] <= Balance(c) + MaxDelay
    BY DEF LimiterSound
  <2> QED
    BY <2>1, <2>2, LimiterAssumption DEF Balance, Min2
<1> QED
  BY <1>1, <1>2, <1>3, <1>4, Zenon DEF LimiterSound, Absent

\* A request reads the clock.
LEMMA AskSound ==
  ASSUME LimiterSound, NEW v \in Visits, NEW c \in Clients, Ask(v, c)
  PROVE  LimiterSound'
<1>1. now \in Nat
  BY DEF LimiterSound
<1>2. asking' \in [Visits -> [client : Clients, at : Int]]
  BY <1>1 DEF LimiterSound, Ask
<1>3. ASSUME NEW w \in Visits, Waiting(w)'
      PROVE  /\ asking'[w].at \in 0..now' /\ now' - MaxDelay <= asking'[w].at
             /\ verdict'[w] = "none"
  <2>1. CASE w = v
    BY <1>1, <2>1, LimiterAssumption DEF LimiterSound, Ask
  <2>2. CASE w # v
    BY <1>3, <2>2 DEF LimiterSound, Ask, Waiting, Absent
  <2> QED
    BY <2>1, <2>2
<1> QED
  BY <1>2, <1>3, Zenon DEF LimiterSound, Ask, Balance, Absent

\* A request gets the lock: its own bucket is rewritten with a late clock reading,
\* and the buckets the sweep drops belong to clients whose exact bucket is full.
LEMMA AllowSound ==
  ASSUME LimiterSound, NEW v \in Visits, Allow(v)
  PROVE  LimiterSound'
<1> DEFINE c == asking[v].client
           at == asking[v].at
           R == Refilled(c, at)
<1>1. /\ Waiting(v) /\ now' = now
      /\ tokens' = [tokens EXCEPT ![c] = IF R >= Cost THEN R - Cost ELSE R]
      /\ lastSeen' = [d \in Clients |->
                        IF d = c THEN at ELSE IF d \in Swept(at) THEN Absent ELSE lastSeen[d]]
      /\ lastSweep' = IF at - lastSweep > SweepEvery THEN at ELSE lastSweep
      /\ asking' = [asking EXCEPT ![v] = NoAsk]
      /\ verdict' = [verdict EXCEPT ![v] = IF R >= Cost THEN "granted" ELSE "refused"]
      /\ credit' = IF R >= Cost THEN [credit EXCEPT ![c] = @ - Cost] ELSE credit
  BY Zenon DEF Allow
<1>2. /\ c \in Clients /\ at \in 0..now /\ now - MaxDelay <= at
      /\ R \in Int /\ R <= Burst
      /\ 0 <= R + (now - at) /\ R + (now - at) <= credit[c]
      /\ credit[c] <= R + (now - at) + MaxDelay
  BY <1>1, RefilledBounds, Zenon
<1> HIDE DEF c, at, R
<1>3. now \in Nat /\ now' \in Nat /\ lastSweep' \in 0..now'
  BY <1>1, <1>2 DEF LimiterSound
<1>4. /\ tokens' \in [Clients -> Int] /\ lastSeen' \in [Clients -> Int]
      /\ verdict' \in [Visits -> {"none", "granted", "refused"}]
  BY <1>1, <1>2, <1>3, LimiterAssumption DEF LimiterSound, Absent
<1>5. credit' \in [Clients -> 0..(Burst + MaxDelay)]
  BY <1>1, <1>2, <1>3, LimiterAssumption DEF LimiterSound
<1>6. /\ asking' \in [Visits -> [client : Clients, at : Int]]
      /\ \A w \in Visits :
           Waiting(w)' => /\ asking'[w].at \in 0..now' /\ now' - MaxDelay <= asking'[w].at
                          /\ verdict'[w] = "none"
  BY <1>1, NoAskShape, Zenon DEF LimiterSound, Waiting, Absent
<1>7. ASSUME NEW d \in Clients
      PROVE  IF lastSeen'[d] = Absent THEN credit'[d] = Burst + MaxDelay
             ELSE /\ lastSeen'[d] \in 0..now'
                  /\ -MaxDelay <= tokens'[d] /\ 0 <= Balance(d)'
                  /\ Min2(Balance(d)', Burst + MaxDelay) <= credit'[d]
                  /\ credit'[d] <= Balance(d)' + MaxDelay
  <2>1. /\ tokens[d] \in Int /\ lastSeen[d] \in Int /\ credit[d] \in 0..(Burst + MaxDelay)
        /\ IF lastSeen[d] = Absent THEN credit[d] = Burst + MaxDelay
           ELSE /\ lastSeen[d] \in 0..now
                /\ -MaxDelay <= tokens[d] /\ 0 <= tokens[d] + (now - lastSeen[d])
                /\ Min2(tokens[d] + (now - lastSeen[d]), Burst + MaxDelay) <= credit[d]
                /\ credit[d] <= tokens[d] + (now - lastSeen[d]) + MaxDelay
    BY DEF LimiterSound, Balance
  <2>2. CASE d = c
    <3>1. /\ tokens'[d] = IF R >= Cost THEN R - Cost ELSE R
          /\ lastSeen'[d] = at
          /\ credit'[d] = IF R >= Cost THEN credit[d] - Cost ELSE credit[d]
      BY <1>1, <1>2, <2>2, Zenon DEF LimiterSound
    <3>2. lastSeen'[d] # Absent
      BY <1>2, <1>3, <3>1, LimiterAssumption DEF Absent
    <3> QED
      BY <1>1, <1>2, <1>3, <2>1, <2>2, <3>1, <3>2, LimiterAssumption DEF Balance, Min2
  <2>3. CASE d # c
    <3>1. /\ tokens'[d] = tokens[d] /\ credit'[d] = credit[d]
          /\ lastSeen'[d] = IF d \in Swept(at) THEN Absent ELSE lastSeen[d]
      BY <1>1, <1>2, <2>3, Zenon DEF LimiterSound
    <3>2. CASE d \in Swept(at)
      <4>1. lastSeen[d] # Absent /\ at - lastSeen[d] > IdleTTL
        BY <3>2 DEF Swept
      <4> QED
        BY <1>2, <1>3, <2>1, <3>1, <3>2, <4>1, LimiterAssumption DEF Min2
    <3>3. CASE d \notin Swept(at)
      BY <1>1, <2>1, <3>1, <3>3, Zenon DEF Balance
    <3> QED
      BY <3>2, <3>3, Zenon
  <2> QED
    BY <2>2, <2>3
<1> QED
  BY <1>3, <1>4, <1>5, <1>6, <1>7, Zenon DEF LimiterSound, Absent

\* LimiterSound survives every step.
LEMMA LimiterStep == LimiterSound /\ [LimiterNext]_limiterVars => LimiterSound'
<1> SUFFICES ASSUME LimiterSound, [LimiterNext]_limiterVars PROVE LimiterSound'
  OBVIOUS
<1>1. CASE Tick
  BY <1>1, TickSound
<1>2. ASSUME NEW v \in Visits, NEW c \in Clients, Ask(v, c) PROVE LimiterSound'
  BY <1>2, AskSound
<1>3. ASSUME NEW v \in Visits, Allow(v) PROVE LimiterSound'
  BY <1>3, AllowSound
<1>4. ASSUME NEW v \in Visits, Answered(v) PROVE LimiterSound'
  BY <1>4, Zenon DEF LimiterSound, Answered, Waiting, Balance, Absent
<1>5. CASE UNCHANGED limiterVars
  BY <1>5, Zenon DEF LimiterSound, limiterVars, Waiting, Balance, Absent
<1> QED
  BY <1>1, <1>2, <1>3, <1>4, <1>5 DEF LimiterNext

\* A step of the limiter is a step of the exact buckets: a tick fills them, allow
\* grants or refuses, and reading the clock changes nothing they know of.
LEMMA LimiterSimulates ==
  LimiterSound /\ [LimiterNext]_limiterVars => [Bucket!BucketNext]_(Bucket!bucketVars)
<1> SUFFICES ASSUME LimiterSound, [LimiterNext]_limiterVars
             PROVE  [Bucket!BucketNext]_(Bucket!bucketVars)
  OBVIOUS
<1>1. CASE Tick
  BY <1>1, Zenon DEF Tick, Bucket!BucketNext, Bucket!Fill
<1>2. ASSUME NEW v \in Visits, NEW c \in Clients, Ask(v, c)
      PROVE  UNCHANGED Bucket!bucketVars
  BY <1>2 DEF Ask, Bucket!bucketVars
<1>3. ASSUME NEW v \in Visits, Allow(v) PROVE Bucket!BucketNext
  <2> DEFINE c == asking[v].client
             at == asking[v].at
             R == Refilled(c, at)
  <2>1. /\ Waiting(v)
        /\ verdict' = [verdict EXCEPT ![v] = IF R >= Cost THEN "granted" ELSE "refused"]
        /\ credit' = IF R >= Cost THEN [credit EXCEPT ![c] = @ - Cost] ELSE credit
    BY <1>3, Zenon DEF Allow
  <2>2. /\ c \in Clients /\ at \in 0..now /\ now - MaxDelay <= at
        /\ R \in Int /\ R + (now - at) <= credit[c]
        /\ credit[c] <= R + (now - at) + MaxDelay
    BY <2>1, RefilledBounds, Zenon
  <2>3. now \in Nat /\ credit[c] \in 0..(Burst + MaxDelay) /\ verdict[v] = "none"
    BY <2>1, <2>2, Zenon DEF LimiterSound
  <2> HIDE DEF c, at, R
  <2>4. CASE R >= Cost
    <3>1. credit[c] >= Cost
      BY <2>2, <2>3, <2>4, LimiterAssumption
    <3>2. Bucket!Grant(c, v)
      BY <2>1, <2>3, <2>4, <3>1 DEF Bucket!Grant
    <3> QED
      BY <2>2, <3>2 DEF Bucket!BucketNext
  <2>5. CASE ~(R >= Cost)
    <3>1. credit[c] < Cost + 2 * MaxDelay
      BY <2>2, <2>3, <2>5, LimiterAssumption
    <3>2. Bucket!Refuse(c, v)
      BY <2>1, <2>3, <2>5, <3>1 DEF Bucket!Refuse
    <3> QED
      BY <2>2, <3>2 DEF Bucket!BucketNext
  <2> QED
    BY <2>4, <2>5
<1>4. ASSUME NEW v \in Visits, Answered(v) PROVE Bucket!BucketNext
  BY ZenonT(60), <1>4 DEF Answered, Bucket!BucketNext, Bucket!Over
<1>5. CASE UNCHANGED limiterVars
  BY <1>5 DEF limiterVars, Bucket!bucketVars
<1> QED
  BY <1>1, <1>2, <1>3, <1>4, <1>5 DEF LimiterNext

\* The lazy buckets always follow the exact ones.
THEOREM LimiterStaysSound == LimiterSpec => []LimiterSound
BY LimiterStarts, LimiterStep, PTL DEF LimiterSpec

\* allow, with its late clock readings, its lazy refills and its sweeps, implements
\* exact token buckets for any number of clients and of requests.
THEOREM LimiterKeepsLimit == LimiterSpec => LimitKept
<1>1. LimiterInit => Bucket!BucketInit
  BY DEF LimiterInit, Bucket!BucketInit
<1> QED
  BY <1>1, LimiterStaysSound, LimiterSimulates, PTL DEF LimiterSpec, LimitKept, Bucket!BucketSpec
=============================================================================
