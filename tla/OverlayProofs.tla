---------------------------- MODULE OverlayProofs ----------------------------
(***************************************************************************)
(* How peers are found and reached: the routing table and the relay server. *)
(*                                                                         *)
(* The invariants of RoutingTable, for any number of peers, buckets and    *)
(* pings in flight, are proved together: which bucket a late probe writes  *)
(* to depends on where its head was found (RightBucket), and every write   *)
(* must keep a bucket within K and its hints in front.  Under them no step *)
(* forgets an address of a contact that stays (AddressesStay).             *)
(*                                                                         *)
(* For the relay server, RelayInv adds to RelaySound what its handlers     *)
(* know without holding s.mu: a session has named its peer before it       *)
(* registers (SessionsNamed), so that dropRegistration looks at the entry  *)
(* of that peer only, and a tunnel is in use by the dial that took it from *)
(* its channel (TunnelsOwned).                                             *)
(***************************************************************************)
EXTENDS RoutingTable, Relay, WellFoundedInduction, TLAPS

\* What the invariants say of one bucket b with index i.
GoodBucket(i, b) ==
  /\ b \in Seq(Contacts)
  /\ Len(b) <= K
  /\ \A j \in 1..Len(b) : CPL[b[j].id] = i
  /\ \A j, k \in 1..Len(b) : j < k /\ ~b[k].seen => ~b[j].seen

\* A contact that may be put at the tail of bucket i.
Verified(i, c) == c \in Contacts /\ CPL[c.id] = i /\ c.seen

\* Two sequences, one after the other.
LEMMA ConcatFacts ==
  ASSUME NEW S, NEW s \in Seq(S), NEW t \in Seq(S)
  PROVE  /\ s \o t \in Seq(S)
         /\ Len(s \o t) = Len(s) + Len(t)
         /\ \A j \in 1..(Len(s) + Len(t)) :
              (s \o t)[j] = IF j <= Len(s) THEN s[j] ELSE t[j - Len(s)]
OBVIOUS

\* Removing one element of a sequence, by position.
LEMMA RemoveAtFacts ==
  ASSUME NEW S, NEW s \in Seq(S), NEW i \in 1..Len(s)
  PROVE  /\ RemoveAt(s, i) \in Seq(S)
         /\ Len(RemoveAt(s, i)) = Len(s) - 1
         /\ \A j \in 1..(Len(s) - 1) :
              RemoveAt(s, i)[j] = IF j < i THEN s[j] ELSE s[j + 1]
<1> DEFINE front == SubSeq(s, 1, i - 1)
           rear  == SubSeq(s, i + 1, Len(s))
<1>1. /\ front \in Seq(S) /\ Len(front) = i - 1
      /\ \A j \in 1..(i - 1) : front[j] = s[j]
  OBVIOUS
<1>2. /\ rear \in Seq(S) /\ Len(rear) = Len(s) - i
      /\ \A j \in 1..(Len(s) - i) : rear[j] = s[i + j]
  OBVIOUS
<1> HIDE DEF front, rear
<1>3. /\ front \o rear \in Seq(S)
      /\ Len(front \o rear) = Len(front) + Len(rear)
      /\ \A j \in 1..(Len(front) + Len(rear)) :
           (front \o rear)[j] = IF j <= Len(front) THEN front[j] ELSE rear[j - Len(front)]
  BY <1>1, <1>2, ConcatFacts, Zenon
<1>4. /\ front \o rear \in Seq(S)
      /\ Len(front \o rear) = Len(s) - 1
      /\ \A j \in 1..(Len(s) - 1) :
           (front \o rear)[j] = IF j < i THEN s[j] ELSE s[j + 1]
  BY <1>1, <1>2, <1>3
<1> QED
  BY ZenonT(60), <1>4 DEF RemoveAt, front, rear

\* Every nonempty set of naturals has a least element.
LEMMA LeastElement ==
  ASSUME NEW P, P \subseteq Nat, P # {}
  PROVE  \E i \in P : \A j \in P : i <= j
<1> DEFINE R == OpToRel(<, Nat)
<1>1. IsWellFoundedOn(R, Nat)
  BY NatLessThanWellFounded, Zenon
<1>2. \A i, j \in Nat : i < j => <<i, j>> \in R
  BY Zenon DEF OpToRel
<1> HIDE DEF R
<1>3. PICK i \in P : \A j \in P : ~(<<j, i>> \in R)
  BY <1>1, WFMin, Zenon
<1>4. \A j \in P : i \in Nat /\ j \in Nat /\ ~(j < i)
  BY <1>2, <1>3, Zenon
<1> QED
  BY <1>4

\* The loop that looks for a contact finds the first entry with its id.
LEMMA FirstOfFacts ==
  ASSUME NEW b \in Seq(Contacts), NEW n, Positions(b, n) # {}
  PROVE  FirstOf(b, n) \in 1..Len(b) /\ b[FirstOf(b, n)].id = n
<1>1. Positions(b, n) \subseteq Nat
  BY DEF Positions
<1>2. FirstOf(b, n) \in Positions(b, n)
  BY <1>1, LeastElement, Zenon DEF FirstOf
<1> QED
  BY <1>2, Zenon DEF Positions

\* Update and maybeEvictHead: a verified contact at the tail keeps a bucket good.
LEMMA AppendGood ==
  ASSUME NEW i, NEW b, NEW c, GoodBucket(i, b), Verified(i, c), Len(b) < K
  PROVE  GoodBucket(i, Append(b, c))
BY TableAssumption DEF GoodBucket, Verified

\* Hint: an unverified contact at the front keeps a bucket good.
LEMMA PrependGood ==
  ASSUME NEW i, NEW b, NEW c \in Contacts, GoodBucket(i, b),
         CPL[c.id] = i, ~c.seen, Len(b) < K
  PROVE  GoodBucket(i, <<c>> \o b)
BY TableAssumption DEF GoodBucket

\* A bucket stays good when an entry is cut out of it.
LEMMA RemoveGood ==
  ASSUME NEW i, NEW b, GoodBucket(i, b), NEW at \in 1..Len(b)
  PROVE  GoodBucket(i, RemoveAt(b, at)) /\ Len(RemoveAt(b, at)) = Len(b) - 1
<1> DEFINE r == RemoveAt(b, at)
<1>1. /\ r \in Seq(Contacts) /\ Len(r) = Len(b) - 1
      /\ \A j \in 1..(Len(b) - 1) : r[j] = IF j < at THEN b[j] ELSE b[j + 1]
  BY RemoveAtFacts, Zenon DEF GoodBucket
<1> HIDE DEF r
<1>2. \A j \in 1..Len(r) : CPL[r[j].id] = i
  BY <1>1 DEF GoodBucket
<1>3. ASSUME NEW j \in 1..Len(r), NEW k \in 1..Len(r), j < k, ~r[k].seen
      PROVE  ~r[j].seen
  <2> DEFINE jj == IF j < at THEN j ELSE j + 1
             kk == IF k < at THEN k ELSE k + 1
  <2>1. /\ jj \in 1..Len(b) /\ kk \in 1..Len(b) /\ jj < kk
        /\ r[j] = b[jj] /\ r[k] = b[kk]
    BY <1>1, <1>3 DEF GoodBucket
  <2> QED
    BY <1>3, <2>1, Zenon DEF GoodBucket
<1>4. Len(r) <= K
  BY <1>1, TableAssumption DEF GoodBucket
<1> QED
  BY <1>1, <1>2, <1>3, <1>4, Zenon DEF GoodBucket, r

\* Remove: dropping the first entry of a contact keeps a bucket good.
LEMMA DropGood ==
  ASSUME NEW i, NEW b, NEW n, GoodBucket(i, b)
  PROVE  GoodBucket(i, Drop(b, n))
<1>1. CASE Positions(b, n) = {}
  BY <1>1, Zenon DEF Drop
<1>2. CASE Positions(b, n) # {}
  <2>1. FirstOf(b, n) \in 1..Len(b)
    BY <1>2, FirstOfFacts, Zenon DEF GoodBucket
  <2> QED
    BY <1>2, <2>1, RemoveGood, Zenon DEF Drop
<1> QED
  BY <1>1, <1>2, Zenon

\* Moving an entry to the tail, refreshed.
LEMMA RefreshGood ==
  ASSUME NEW i, NEW b, NEW c, GoodBucket(i, b), Verified(i, c), NEW at \in 1..Len(b)
  PROVE  GoodBucket(i, Append(RemoveAt(b, at), c))
<1>1. GoodBucket(i, RemoveAt(b, at)) /\ Len(RemoveAt(b, at)) = Len(b) - 1
  BY RemoveGood, Zenon
<1>2. Len(RemoveAt(b, at)) < K
  BY <1>1, TableAssumption DEF GoodBucket
<1> QED
  BY <1>1, <1>2, AppendGood, Zenon
-----------------------------------------------------------------------------
\* The inductive invariant, bucket by bucket.
PingsOK(ps) ==
  /\ ps \in [Slots -> Pings \cup {NoPing}]
  /\ \A s \in Slots : ps[s] # NoPing => CPL[ps[s].head.id] = CPL[ps[s].cand.id]

GoodTable ==
  /\ buckets \in [Buckets -> Seq(Contacts)]
  /\ \A i \in Buckets : GoodBucket(i, buckets[i])
  /\ PingsOK(pings)

\* The inductive invariant implies each of the invariants that TLC checks.
LEMMA GoodTableIsInvariants ==
  GoodTable <=> TableTypeOK /\ BucketBound /\ RightBucket /\ HintsFirst
BY Zenon DEF GoodTable, PingsOK, GoodBucket, TableTypeOK, BucketBound, RightBucket, HintsFirst

\* A step that replaces one bucket by a good one and leaves good pings behind.
LEMMA OneBucketChanges ==
  ASSUME GoodTable, NEW i \in Buckets, NEW b, GoodBucket(i, b),
         buckets' = [buckets EXCEPT ![i] = b], PingsOK(pings')
  PROVE  GoodTable'
<1>1. buckets' \in [Buckets -> Seq(Contacts)]
  BY Zenon DEF GoodTable, GoodBucket
<1>2. \A j \in Buckets : GoodBucket(j, buckets'[j])
  BY DEF GoodTable
<1>3. \A j \in Buckets : GoodBucket(j, buckets[j])'
  BY <1>2, Zenon DEF GoodBucket
<1>4. PingsOK(pings)'
  BY Zenon
<1> QED
  BY <1>1, <1>3, <1>4, Zenon DEF GoodTable

\* A ping started with two contacts of one bucket.
LEMMA StartPingOK ==
  ASSUME NEW ps, PingsOK(ps), NEW s \in Slots, NEW phase \in {"probe", "alive", "check"},
         NEW h \in Contacts, NEW c \in Contacts, CPL[h.id] = CPL[c.id]
  PROVE  PingsOK([ps EXCEPT ![s] = NewPing(phase, h, c)])
BY Zenon DEF PingsOK, NewPing, Pings

\* A ping that is over.
LEMMA ClearedOK ==
  ASSUME GoodTable, NEW s \in Slots
  PROVE  PingsOK(Cleared(s))
BY Zenon DEF GoodTable, PingsOK, Cleared

\* What a slot in use holds.
LEMMA PingFacts ==
  ASSUME GoodTable, NEW s \in Slots, pings[s] # NoPing
  PROVE  /\ pings[s] \in Pings
         /\ pings[s].head \in Contacts /\ pings[s].cand \in Contacts
         /\ CPL[pings[s].head.id] = CPL[pings[s].cand.id]
         /\ CPL[pings[s].head.id] \in Buckets
<1>1. pings[s] \in Pings /\ CPL[pings[s].head.id] = CPL[pings[s].cand.id]
  BY Zenon DEF GoodTable, PingsOK
<1>2. pings[s].head \in Contacts /\ pings[s].cand \in Contacts
  BY <1>1, Zenon DEF Pings
<1>3. pings[s].head.id \in Nodes
  BY <1>2, Zenon DEF Contacts
<1> QED
  BY <1>1, <1>2, <1>3, TableAssumption, Zenon

\* Update keeps the table good, whatever contact it is given and whoever calls it.
LEMMA UpdateKeepsGood ==
  ASSUME GoodTable, NEW c \in Contacts, NEW ps, PingsOK(ps), Update(c, ps)
  PROVE  GoodTable'
<1> DEFINE i    == CPL[c.id]
           b    == buckets[i]
           here == [c EXCEPT !.seen = TRUE]
           at   == FirstOf(b, c.id)
<1>1. i \in Buckets /\ GoodBucket(i, b)
  BY TableAssumption, Zenon DEF Contacts, GoodTable
<1>2. Verified(i, here)
  BY ZenonT(60) DEF Verified, Contacts
<1>3. CASE /\ Known(c.id)
           /\ buckets' = [buckets EXCEPT ![i] =
                            Append(RemoveAt(b, at), MergeAddresses(here, b[at]))]
           /\ pings' = ps
  <2>1. at \in 1..Len(b)
    BY <1>1, <1>3, FirstOfFacts, Zenon DEF Known, GoodBucket
  <2>2. b[at] \in Contacts
    BY <1>1, <2>1 DEF GoodBucket
  <2>3. Verified(i, MergeAddresses(here, b[at]))
    BY ZenonT(60), <1>2, <2>2 DEF Verified, MergeAddresses, Contacts
  <2> HIDE DEF i, b, here, at
  <2>4. GoodBucket(i, Append(RemoveAt(b, at), MergeAddresses(here, b[at])))
    BY <1>1, <2>1, <2>3, RefreshGood, Zenon
  <2> QED
    BY ZenonT(60), <1>1, <1>3, <2>4, OneBucketChanges
<1>4. CASE /\ ~Known(c.id) /\ Len(b) < K
           /\ buckets' = [buckets EXCEPT ![i] = Append(b, here)]
           /\ pings' = ps
  <2> HIDE DEF i, b, here
  <2>1. GoodBucket(i, Append(b, here))
    BY <1>1, <1>2, <1>4, AppendGood, Zenon
  <2> QED
    BY ZenonT(60), <1>1, <1>4, <2>1, OneBucketChanges
<1>5. CASE /\ ~Known(c.id) /\ Len(b) >= K
           /\ \E s \in Slots :
                /\ ps[s] = NoPing
                /\ pings' = [ps EXCEPT ![s] = NewPing("probe", b[1], here)]
           /\ UNCHANGED buckets
  <2>1. b[1] \in Contacts /\ CPL[b[1].id] = i
    BY SMTT(60), <1>1, <1>5, TableAssumption DEF GoodBucket
  <2>2. here \in Contacts /\ CPL[here.id] = i
    BY <1>2, Zenon DEF Verified
  <2>3. PICK s \in Slots : pings' = [ps EXCEPT ![s] = NewPing("probe", b[1], here)]
    BY ZenonT(60), <1>5
  <2> HIDE DEF i, b, here
  <2>4. PingsOK(pings')
    BY ZenonT(60), <2>1, <2>2, <2>3, StartPingOK
  <2> QED
    BY <1>5, <2>4 DEF GoodTable, GoodBucket, PingsOK
<1> QED
  BY ZenonT(60), <1>3, <1>4, <1>5 DEF Update

\* NewRoutingTable: an empty table is good.
LEMMA InitGood == TableInit => GoodTable
BY TableAssumption DEF TableInit, GoodTable, GoodBucket, PingsOK

\* The table after Remove(id), whatever becomes of the pings.
LEMMA RemoveFromGood ==
  ASSUME GoodTable, NEW n \in Nodes, buckets' = RemoveFrom(n), PingsOK(pings')
  PROVE  GoodTable'
<1>1. CPL[n] \in Buckets
  BY TableAssumption, Zenon
<1>2. GoodBucket(CPL[n], Drop(buckets[CPL[n]], n))
  BY <1>1, DropGood, Zenon DEF GoodTable
<1>3. buckets' = [buckets EXCEPT ![CPL[n]] = Drop(buckets[CPL[n]], n)]
  BY <1>1, Zenon DEF RemoveFrom, GoodTable
<1> QED
  BY ZenonT(60), <1>1, <1>2, <1>3, OneBucketChanges

\* Every locked section of the routing table keeps it good.
LEMMA NextKeepsGood ==
  ASSUME GoodTable, [TableNext]_tableVars
  PROVE  GoodTable'
<1>1. ASSUME NEW n \in Nodes, NEW a \in Addrs, NEW alts \in SUBSET (Addrs \ {a}),
             Heard(n, a, alts)
      PROVE  GoodTable'
  <2> DEFINE c == [id |-> n, addr |-> a, alts |-> alts, seen |-> TRUE]
  <2>1. c \in Contacts
    BY Zenon DEF Contacts
  <2>2. Update(c, pings)
    BY <1>1, Zenon DEF Heard
  <2> HIDE DEF c
  <2> QED
    BY <2>1, <2>2, UpdateKeepsGood DEF GoodTable
<1>2. ASSUME NEW n \in Nodes, NEW a \in Addrs, Hint(n, a)
      PROVE  GoodTable'
  <2> DEFINE c == [id |-> n, addr |-> a, alts |-> {}, seen |-> FALSE]
  <2>1. c \in Contacts /\ CPL[c.id] = CPL[n] /\ ~c.seen /\ CPL[n] \in Buckets
    BY TableAssumption, Zenon DEF Contacts
  <2>2. /\ Len(buckets[CPL[n]]) < K
        /\ buckets' = [buckets EXCEPT ![CPL[n]] = <<c>> \o buckets[CPL[n]]]
        /\ pings' = pings
    BY <1>2, Zenon DEF Hint
  <2> HIDE DEF c
  <2>3. GoodBucket(CPL[n], <<c>> \o buckets[CPL[n]])
    BY SMTT(60), <2>1, <2>2, PrependGood DEF GoodTable
  <2> QED
    BY <2>1, <2>2, <2>3, OneBucketChanges, Zenon DEF GoodTable
<1>3. ASSUME NEW n \in Nodes, RemoveContact(n)
      PROVE  GoodTable'
  BY <1>3, RemoveFromGood, Zenon DEF RemoveContact, GoodTable
<1>4. ASSUME NEW s \in Slots, CheckStart(s)
      PROVE  GoodTable'
  <2>1. PICK i \in Buckets : \E j \in 1..Len(buckets[i]) :
          pings' = [pings EXCEPT ![s] = NewPing("check", buckets[i][j], buckets[i][j])]
    BY ZenonT(60), <1>4 DEF CheckStart
  <2>2. PICK j \in 1..Len(buckets[i]) :
          pings' = [pings EXCEPT ![s] = NewPing("check", buckets[i][j], buckets[i][j])]
    BY ZenonT(60), <2>1
  <2>3. buckets[i][j] \in Contacts
    BY DEF GoodTable
  <2>4. PingsOK(pings')
    BY ZenonT(60), <2>2, <2>3, StartPingOK DEF GoodTable
  <2> QED
    BY <1>4, <2>4, Zenon DEF CheckStart, GoodTable, GoodBucket, PingsOK
<1>5. ASSUME NEW s \in Slots, CheckAnswered(s)
      PROVE  GoodTable'
  BY <1>5, PingFacts, ClearedOK, UpdateKeepsGood, Zenon DEF CheckAnswered, InPhase
<1>6. ASSUME NEW s \in Slots, CheckFailed(s)
      PROVE  GoodTable'
  <2>1. pings[s].head.id \in Nodes
    BY <1>6, PingFacts, Zenon DEF CheckFailed, InPhase, Contacts
  <2> QED
    BY <1>6, <2>1, ClearedOK, RemoveFromGood DEF CheckFailed
<1>7. ASSUME NEW s \in Slots, ProbeAnswered(s)
      PROVE  GoodTable'
  <2>1. pings[s] # NoPing /\ Update(pings[s].head, [pings EXCEPT ![s].phase = "alive"])
    BY <1>7 DEF ProbeAnswered, InPhase
  <2>2. PingsOK([pings EXCEPT ![s].phase = "alive"])
    BY <2>1, PingFacts DEF GoodTable, PingsOK, Pings
  <2> QED
    BY <2>1, <2>2, PingFacts, UpdateKeepsGood, Zenon
<1>8. ASSUME NEW s \in Slots, ProbeAlive(s)
      PROVE  GoodTable'
  <2> DEFINE i == CPL[pings[s].head.id]
             b == buckets[i]
             h == [b[1] EXCEPT !.seen = TRUE]
  <2>1. i \in Buckets /\ GoodBucket(i, b) /\ PingsOK(pings')
    BY ZenonT(60), <1>8, PingFacts, ClearedOK DEF ProbeAlive, InPhase, GoodTable
  <2>2. CASE b # << >> /\ b[1].id = pings[s].head.id
    <3>1. 1 \in 1..Len(b) /\ b[1] \in Contacts /\ CPL[b[1].id] = i
      <4> HIDE DEF i, b
      <4>1. b \in Seq(Contacts) /\ b # << >>
        BY <2>1, <2>2, Zenon DEF GoodBucket
      <4>2. 1 \in 1..Len(b) /\ b[1] \in Contacts
        BY <4>1
      <4> QED
        BY <2>1, <4>2, Zenon DEF GoodBucket
    <3>2. Verified(i, h)
      BY ZenonT(60), <3>1 DEF Verified, Contacts
    <3>3. buckets' = [buckets EXCEPT ![i] = Append(Tail(b), h)]
      BY ZenonT(60), <1>8, <2>2 DEF ProbeAlive
    <3> HIDE DEF i, b, h
    <3>4. GoodBucket(i, Tail(b)) /\ Len(Tail(b)) < K
      BY <2>1, <3>1, TableAssumption DEF GoodBucket
    <3>5. GoodBucket(i, Append(Tail(b), h))
      BY ZenonT(60), <3>2, <3>4, AppendGood
    <3> QED
      BY ZenonT(60), <2>1, <3>3, <3>5, OneBucketChanges
  <2>3. CASE ~(b # << >> /\ b[1].id = pings[s].head.id)
    <3>1. buckets' = buckets
      BY ZenonT(60), <1>8, <2>3 DEF ProbeAlive
    <3> QED
      BY ZenonT(60), <2>1, <3>1 DEF GoodTable, GoodBucket, PingsOK
  <2> QED
    BY <2>2, <2>3, Zenon
<1>9. ASSUME NEW s \in Slots, ProbeDead(s)
      PROVE  GoodTable'
  <2> DEFINE i == CPL[pings[s].head.id]
             b == Drop(buckets[i], pings[s].head.id)
             c == [pings[s].cand EXCEPT !.seen = TRUE]
             r == IF Len(b) < K THEN Append(b, c) ELSE b
  <2>1. i \in Buckets /\ PingsOK(pings')
    BY <1>9, PingFacts, ClearedOK, Zenon DEF ProbeDead, InPhase
  <2>2. GoodBucket(i, b)
    BY <2>1, DropGood, Zenon DEF GoodTable
  <2>3. Verified(i, c)
    BY ZenonT(60), <1>9, PingFacts DEF ProbeDead, InPhase, Verified, Contacts
  <2>4. buckets' = [buckets EXCEPT ![i] = r]
    BY <1>9, Zenon DEF ProbeDead
  <2> HIDE DEF i, b, c
  <2>5. GoodBucket(i, r)
    BY <2>2, <2>3, AppendGood, Zenon
  <2> QED
    BY ZenonT(60), <2>1, <2>4, <2>5, OneBucketChanges
<1>10. CASE UNCHANGED tableVars
  BY <1>10, Zenon DEF tableVars, GoodTable, GoodBucket, PingsOK
<1> QED
  BY <1>1, <1>2, <1>3, <1>4, <1>5, <1>6, <1>7, <1>8, <1>9, <1>10, Zenon DEF TableNext

\* The inductive invariant: however updates, hints, removals and late answers to
\* pings interleave, every bucket is good and every ping has its snapshots.
THEOREM TableGood == TableSpec => []GoodTable
<1> QED
  BY InitGood, NextKeepsGood, PTL DEF TableSpec

\* Type correctness: late answers never leave anything but contacts in a bucket,
\* and the head and the candidate of a probe share a bucket.
THEOREM TableTypeCorrect == TableSpec => []TableTypeOK
<1>1. GoodTable => TableTypeOK
  BY GoodTableIsInvariants, Zenon
<1> QED
  BY <1>1, TableGood, PTL

\* No bucket exceeds K and every contact is in the bucket of its common prefix
\* length, whatever late probe and ping answers arrive.
THEOREM BucketsStaySound == TableSpec => []BucketsSound
<1>1. GoodTable => BucketsSound
  BY GoodTableIsInvariants, Zenon DEF BucketsSound
<1> QED
  BY <1>1, TableGood, PTL

\* Both together: the table is sound for any nodes, buckets, capacity and any number
\* of pings in flight.
THEOREM TableStaysSound == TableSpec => []TableSound
<1>1. TableTypeOK /\ BucketsSound => TableSound
  BY Zenon DEF TableSound
<1> QED
  BY <1>1, TableTypeCorrect, BucketsStaySound, PTL

\* Unverified hints always precede verified contacts in their bucket.
THEOREM HintsStayFirst == TableSpec => []HintsFirst
<1>1. GoodTable => HintsFirst
  BY GoodTableIsInvariants, Zenon
<1> QED
  BY <1>1, TableGood, PTL
-----------------------------------------------------------------------------
(* No address of a contact is forgotten while it stays in the table. *)

Paths(c) == {c.addr} \cup c.alts

\* Every entry of n in b has one in d with all its addresses.
Kept(n, b, d) ==
  \A k \in 1..Len(b) : b[k].id = n =>
    \E j \in 1..Len(d) : d[j].id = n /\ Paths(b[k]) \subseteq Paths(d[j])

\* Update and maybeEvictHead: entries are appended behind the others,
LEMMA AppendKeeps ==
  ASSUME NEW n, NEW b \in Seq(Contacts), NEW c \in Contacts
  PROVE  Kept(n, b, Append(b, c))
<1>1. /\ Len(b) \in Nat /\ Len(Append(b, c)) = Len(b) + 1
      /\ \A k \in 1..Len(b) : Append(b, c)[k] = b[k]
  OBVIOUS
<1>2. \A k \in 1..Len(b) : k \in 1..Len(Append(b, c))
  BY <1>1
<1> QED
  BY <1>1, <1>2, Zenon DEF Kept

\* Hint: or put before them;
LEMMA PrependKeeps ==
  ASSUME NEW n, NEW b \in Seq(Contacts), NEW c \in Contacts
  PROVE  Kept(n, b, <<c>> \o b)
<1>1. /\ Len(b) \in Nat /\ Len(<<c>> \o b) = Len(b) + 1
      /\ \A k \in 1..Len(b) : (<<c>> \o b)[k + 1] = b[k]
  OBVIOUS
<1>2. \A k \in 1..Len(b) : k + 1 \in 1..Len(<<c>> \o b)
  BY <1>1
<1> QED
  BY <1>1, <1>2, Zenon DEF Kept

\* and the entry that is cut out is one of another contact.
LEMMA RemoveKeeps ==
  ASSUME NEW n, NEW b \in Seq(Contacts), NEW at \in 1..Len(b), b[at].id # n
  PROVE  Kept(n, b, RemoveAt(b, at))
<1>1. /\ Len(RemoveAt(b, at)) = Len(b) - 1
      /\ \A j \in 1..(Len(b) - 1) : RemoveAt(b, at)[j] = IF j < at THEN b[j] ELSE b[j + 1]
  BY RemoveAtFacts, Zenon
<1>2. SUFFICES ASSUME NEW k \in 1..Len(b), b[k].id = n
               PROVE  \E j \in 1..Len(RemoveAt(b, at)) :
                        RemoveAt(b, at)[j].id = n /\ Paths(b[k]) \subseteq Paths(RemoveAt(b, at)[j])
  BY Zenon DEF Kept
<1> DEFINE j == IF k < at THEN k ELSE k - 1
<1>3. k # at
  BY <1>2, Zenon
<1>4. j \in 1..Len(RemoveAt(b, at)) /\ RemoveAt(b, at)[j] = b[k]
  BY <1>1, <1>3
<1> QED
  BY <1>2, <1>4, Zenon

\* One after the other.
LEMMA KeptTwice ==
  ASSUME NEW n, NEW b, NEW d, NEW e, Kept(n, b, d), Kept(n, d, e)
  PROVE  Kept(n, b, e)
<1> SUFFICES ASSUME NEW k \in 1..Len(b), b[k].id = n
             PROVE  \E j \in 1..Len(e) : e[j].id = n /\ Paths(b[k]) \subseteq Paths(e[j])
  BY Zenon DEF Kept
<1>1. PICK j \in 1..Len(d) : d[j].id = n /\ Paths(b[k]) \subseteq Paths(d[j])
  BY Zenon DEF Kept
<1>2. PICK i \in 1..Len(e) : e[i].id = n /\ Paths(d[j]) \subseteq Paths(e[i])
  BY <1>1, Zenon DEF Kept
<1> QED
  BY <1>1, <1>2, Zenon

\* Remove: a contact with a single entry is gone, and the others stay.
LEMMA DropKeeps ==
  ASSUME NEW n, NEW m, NEW b \in Seq(Contacts), \A i, j \in Positions(b, n) : i = j
  PROVE  /\ Drop(b, m) \in Seq(Contacts)
         /\ m # n => Kept(n, b, Drop(b, m))
         /\ m = n => Positions(Drop(b, m), n) = {}
<1>1. CASE Positions(b, m) = {}
  BY <1>1, Zenon DEF Drop, Kept
<1>2. CASE Positions(b, m) # {}
  <2> DEFINE at == FirstOf(b, m)
             d  == RemoveAt(b, at)
  <2>1. at \in 1..Len(b) /\ b[at].id = m /\ Drop(b, m) = d
    BY <1>2, FirstOfFacts, Zenon DEF Drop
  <2>2. /\ d \in Seq(Contacts) /\ Len(d) = Len(b) - 1
        /\ \A j \in 1..(Len(b) - 1) : d[j] = IF j < at THEN b[j] ELSE b[j + 1]
    BY <2>1, RemoveAtFacts, Zenon
  <2>3. m # n => Kept(n, b, d)
    BY <2>1, RemoveKeeps, Zenon
  <2>4. ASSUME m = n, NEW j \in 1..Len(d), d[j].id = n PROVE FALSE
    <3> HIDE DEF d, at
    <3> DEFINE k == IF j < at THEN j ELSE j + 1
    <3>1. k \in 1..Len(b) /\ k # at /\ b[k].id = n
      BY <2>1, <2>2, <2>4
    <3>2. k \in Positions(b, n) /\ at \in Positions(b, n)
      BY <2>1, <2>4, <3>1, Zenon DEF Positions
    <3> QED
      BY <3>1, <3>2, Zenon
  <2> QED
    BY <2>1, <2>2, <2>3, <2>4, Zenon DEF Positions
<1> QED
  BY <1>1, <1>2, Zenon

\* Update of a contact that is in its bucket: its entry takes the old addresses over.
LEMMA MergeKeeps ==
  ASSUME NEW n, NEW b \in Seq(Contacts), NEW c \in Contacts, NEW at \in 1..Len(b),
         b[at].id = c.id, \A i, j \in Positions(b, n) : i = j
  PROVE  Kept(n, b, Append(RemoveAt(b, at), MergeAddresses(c, b[at])))
<1> DEFINE f == MergeAddresses(c, b[at])
           d == RemoveAt(b, at)
<1>1. b[at] \in Contacts
  OBVIOUS
<1>2. f \in Contacts /\ f.id = c.id /\ Paths(b[at]) \subseteq Paths(f)
  <2>1. /\ f = [c EXCEPT !.alts = (c.alts \cup b[at].alts \cup {b[at].addr}) \ {c.addr}]
        /\ c.alts \subseteq Addrs /\ b[at].alts \subseteq Addrs /\ b[at].addr \in Addrs
    BY <1>1, Zenon DEF MergeAddresses, Contacts
  <2>2. f \in Contacts
    BY <2>1, ZenonT(40) DEF Contacts
  <2>3. /\ f.id = c.id /\ f.addr = c.addr
        /\ f.alts = (c.alts \cup b[at].alts \cup {b[at].addr}) \ {c.addr}
    BY <2>1, Zenon DEF Contacts
  <2> HIDE DEF f
  <2> QED
    BY <2>2, <2>3, Zenon DEF Paths
<1> HIDE DEF f
<1>3. d \in Seq(Contacts) /\ Len(d) \in Nat
  BY RemoveAtFacts
<1> HIDE DEF d
<1>4. CASE c.id # n
  <2>1. Kept(n, b, d)
    BY <1>4, RemoveKeeps, Zenon DEF d
  <2>2. Kept(n, d, Append(d, f))
    BY <1>2, <1>3, AppendKeeps, Zenon
  <2> QED
    BY <2>1, <2>2, KeptTwice, Zenon DEF d, f
<1>5. CASE c.id = n
  <2>1. /\ Len(Append(d, f)) \in 1..Len(Append(d, f))
        /\ Append(d, f)[Len(Append(d, f))] = f
    BY <1>2, <1>3
  <2>2. at \in Positions(b, n)
    BY <1>5, Zenon DEF Positions
  <2>3. ASSUME NEW k \in 1..Len(b), b[k].id = n PROVE k = at
    BY <2>2, <2>3, Zenon DEF Positions
  <2> QED
    BY <1>2, <1>5, <2>1, <2>3, Zenon DEF Kept, d, f
<1> QED
  BY <1>4, <1>5, Zenon

\* A probe is of another contact than its candidate: the candidate was not in the
\* bucket whose head is probed.
ProbesDiffer(ps) ==
  \A s \in Slots : ps[s] # NoPing /\ ps[s].phase = "probe" => ps[s].head.id # ps[s].cand.id

\* What a step owes a contact.
PathsKept(n) == OneCopy(n) => Kept(n, buckets[CPL[n]], buckets'[CPL[n]]) \/ ~Known(n)'

\* A step that replaces one bucket.
LEMMA OneBucketKeeps ==
  ASSUME GoodTable, NEW i \in Buckets, NEW d, buckets' = [buckets EXCEPT ![i] = d],
         NEW n \in Nodes,
         OneCopy(n) /\ CPL[n] = i => Kept(n, buckets[i], d) \/ Positions(d, n) = {}
  PROVE  PathsKept(n)
<1>1. CPL[n] \in Buckets /\ buckets \in [Buckets -> Seq(Contacts)]
  BY TableAssumption, Zenon DEF GoodTable
<1>2. CASE CPL[n] = i
  <2>1. buckets'[CPL[n]] = d
    BY <1>1, <1>2, Zenon
  <2> QED
    BY <1>2, <2>1, Zenon DEF PathsKept, Known
<1>3. CASE CPL[n] # i
  <2>1. buckets'[CPL[n]] = buckets[CPL[n]]
    BY <1>1, <1>3, Zenon
  <2>2. Kept(n, buckets[CPL[n]], buckets[CPL[n]])
    BY Zenon DEF Kept
  <2> QED
    BY <2>1, <2>2, Zenon DEF PathsKept
<1> QED
  BY <1>2, <1>3, Zenon

\* A step that leaves the table alone.
LEMMA NoBucketKeeps ==
  ASSUME UNCHANGED buckets, NEW n \in Nodes
  PROVE  PathsKept(n)
BY Zenon DEF PathsKept, Kept

\* Update, whatever contact it is given and whoever calls it.
LEMMA UpdateKeeps ==
  ASSUME GoodTable, NEW c \in Contacts, NEW ps, PingsOK(ps), ProbesDiffer(ps), Update(c, ps)
  PROVE  (\A n \in Nodes : PathsKept(n)) /\ ProbesDiffer(pings')
<1> DEFINE i    == CPL[c.id]
           b    == buckets[i]
           here == [c EXCEPT !.seen = TRUE]
           at   == FirstOf(b, c.id)
<1>1. i \in Buckets /\ GoodBucket(i, b) /\ b \in Seq(Contacts)
  BY TableAssumption, Zenon DEF Contacts, GoodTable
<1>2. here \in Contacts /\ here.id = c.id
  BY Zenon DEF Contacts
<1>3. CASE /\ Known(c.id)
           /\ buckets' = [buckets EXCEPT ![i] =
                            Append(RemoveAt(b, at), MergeAddresses(here, b[at]))]
           /\ pings' = ps
  <2>1. at \in 1..Len(b) /\ b[at].id = here.id
    BY <1>1, <1>2, <1>3, FirstOfFacts, Zenon DEF Known
  <2>2. SUFFICES ASSUME NEW n \in Nodes PROVE PathsKept(n)
    BY <1>3, Zenon
  <2>3. OneCopy(n) /\ CPL[n] = i => \A j, k \in Positions(b, n) : j = k
    BY Zenon DEF OneCopy
  <2> HIDE DEF i, b, here, at
  <2>4. OneCopy(n) /\ CPL[n] = i =>
          Kept(n, b, Append(RemoveAt(b, at), MergeAddresses(here, b[at])))
    BY <1>1, <1>2, <2>1, <2>3, MergeKeeps, Zenon
  <2> QED
    BY <1>1, <1>3, <2>4, OneBucketKeeps, Zenon DEF b
<1>4. CASE /\ ~Known(c.id) /\ Len(b) < K
           /\ buckets' = [buckets EXCEPT ![i] = Append(b, here)]
           /\ pings' = ps
  <2>1. SUFFICES ASSUME NEW n \in Nodes PROVE PathsKept(n)
    BY <1>4, Zenon
  <2> HIDE DEF i, b, here
  <2>2. Kept(n, b, Append(b, here))
    BY <1>1, <1>2, AppendKeeps, Zenon
  <2> QED
    BY <1>1, <1>4, <2>2, OneBucketKeeps, Zenon DEF b
<1>5. CASE /\ ~Known(c.id) /\ Len(b) >= K
           /\ \E s \in Slots :
                /\ ps[s] = NoPing
                /\ pings' = [ps EXCEPT ![s] = NewPing("probe", b[1], here)]
           /\ UNCHANGED buckets
  <2>1. b[1].id # here.id
    <3>1. 1 \in 1..Len(b)
      BY <1>1, <1>5, TableAssumption
    <3> QED
      BY <1>2, <1>5, <3>1, Zenon DEF Known, Positions
  <2>2. PICK s \in Slots : pings' = [ps EXCEPT ![s] = NewPing("probe", b[1], here)]
    BY <1>5, Zenon
  <2>3. NewPing("probe", b[1], here).head = b[1] /\ NewPing("probe", b[1], here).cand = here
    BY Zenon DEF NewPing
  <2> HIDE DEF b, here
  <2>4. /\ pings'[s] = NewPing("probe", b[1], here)
        /\ \A t \in Slots : t # s => pings'[t] = ps[t]
    BY <2>2, Zenon DEF PingsOK
  <2>5. ProbesDiffer(pings')
    BY <2>1, <2>3, <2>4, Zenon DEF ProbesDiffer
  <2> QED
    BY <1>5, <2>5, NoBucketKeeps, Zenon
<1> QED
  BY <1>3, <1>4, <1>5, Zenon DEF Update

\* Remove, on a goodbye or after a ping that failed.
LEMMA RemoveFromKeeps ==
  ASSUME GoodTable, NEW m \in Nodes, buckets' = RemoveFrom(m), NEW n \in Nodes
  PROVE  PathsKept(n)
<1> DEFINE i == CPL[m]
           b == buckets[i]
           d == Drop(b, m)
<1>1. i \in Buckets /\ b \in Seq(Contacts) /\ buckets' = [buckets EXCEPT ![i] = d]
  BY TableAssumption, Zenon DEF RemoveFrom, GoodTable
<1>2. OneCopy(n) /\ CPL[n] = i => Kept(n, b, d) \/ Positions(d, n) = {}
  <2> SUFFICES ASSUME OneCopy(n), CPL[n] = i PROVE Kept(n, b, d) \/ Positions(d, n) = {}
    BY Zenon
  <2>1. \A j, k \in Positions(b, n) : j = k
    BY Zenon DEF OneCopy
  <2> HIDE DEF i, b
  <2>2. /\ d \in Seq(Contacts)
        /\ m # n => Kept(n, b, d)
        /\ m = n => Positions(d, n) = {}
    BY <1>1, <2>1, DropKeeps, Zenon
  <2> QED
    BY <2>2, Zenon
<1> HIDE DEF i, d
<1> QED
  BY <1>1, <1>2, OneBucketKeeps, Zenon

\* A ping that is over.
LEMMA ClearedDiffer ==
  ASSUME GoodTable, ProbesDiffer(pings), NEW s \in Slots
  PROVE  ProbesDiffer(Cleared(s))
BY Zenon DEF GoodTable, PingsOK, ProbesDiffer, Cleared

\* maybeEvictHead, when the head has answered: it moves with all its addresses.
LEMMA AliveKeeps ==
  ASSUME GoodTable, NEW s \in Slots, ProbeAlive(s), NEW n \in Nodes
  PROVE  PathsKept(n)
<1> DEFINE i == CPL[pings[s].head.id]
           b == buckets[i]
           h == [b[1] EXCEPT !.seen = TRUE]
<1>1. i \in Buckets /\ b \in Seq(Contacts)
  BY PingFacts, Zenon DEF ProbeAlive, InPhase, GoodTable
<1>2. CASE b # << >> /\ b[1].id = pings[s].head.id
  <2>1. buckets' = [buckets EXCEPT ![i] = Append(Tail(b), h)]
    BY <1>2, Zenon DEF ProbeAlive
  <2>2. /\ b[1] \in Contacts /\ Tail(b) \in Seq(Contacts) /\ Len(Tail(b)) = Len(b) - 1
        /\ Len(b) \in Nat /\ \A k \in 1..(Len(b) - 1) : Tail(b)[k] = b[k + 1]
    <3> HIDE DEF b
    <3> QED
      BY <1>1, <1>2
  <2>3. h \in Contacts /\ h.id = b[1].id /\ Paths(h) = Paths(b[1])
    BY <2>2, Zenon DEF Contacts, Paths
  <2>4. Kept(n, b, Append(Tail(b), h))
    <3> DEFINE e == Append(Tail(b), h)
    <3>1. SUFFICES ASSUME NEW k \in 1..Len(b), b[k].id = n
                   PROVE  \E j \in 1..Len(e) : e[j].id = n /\ Paths(b[k]) \subseteq Paths(e[j])
      BY Zenon DEF Kept
    <3> HIDE DEF b, h
    <3>2. CASE k = 1
      <4>1. Len(b) \in 1..Len(e) /\ e[Len(b)] = h
        BY <2>2, <2>3, <3>2
      <4> QED
        BY <2>3, <3>1, <3>2, <4>1, Zenon
    <3>3. CASE k # 1
      <4>1. k - 1 \in 1..Len(e) /\ e[k - 1] = b[k]
        BY <2>2, <2>3, <3>3
      <4> QED
        BY <3>1, <4>1, Zenon
    <3> QED
      BY <3>2, <3>3, Zenon
  <2> HIDE DEF i, h
  <2> QED
    BY <1>1, <2>1, <2>4, OneBucketKeeps, Zenon
<1>3. CASE ~(b # << >> /\ b[1].id = pings[s].head.id)
  <2>1. UNCHANGED buckets
    BY <1>3, Zenon DEF ProbeAlive
  <2> QED
    BY <2>1, NoBucketKeeps, Zenon
<1> QED
  BY <1>2, <1>3, Zenon

\* maybeEvictHead, when it has not: it is gone, and the candidate is another contact.
LEMMA DeadKeeps ==
  ASSUME GoodTable, ProbesDiffer(pings), NEW s \in Slots, ProbeDead(s), NEW n \in Nodes
  PROVE  PathsKept(n)
<1> DEFINE m == pings[s].head.id
           i == CPL[m]
           b == buckets[i]
           d == Drop(b, m)
           c == [pings[s].cand EXCEPT !.seen = TRUE]
           r == IF Len(d) < K THEN Append(d, c) ELSE d
<1>1. /\ i \in Buckets /\ b \in Seq(Contacts) /\ buckets' = [buckets EXCEPT ![i] = r]
  BY PingFacts, Zenon DEF ProbeDead, InPhase, GoodTable
<1>2. c \in Contacts /\ c.id # m
  <2>1. pings[s].cand \in Contacts /\ pings[s].cand.id # m
    BY PingFacts, Zenon DEF ProbeDead, InPhase, ProbesDiffer
  <2> QED
    BY <2>1, Zenon DEF Contacts
<1>3. OneCopy(n) /\ CPL[n] = i => Kept(n, b, r) \/ Positions(r, n) = {}
  <2> SUFFICES ASSUME OneCopy(n), CPL[n] = i PROVE Kept(n, b, r) \/ Positions(r, n) = {}
    BY Zenon
  <2>1. \A j, k \in Positions(b, n) : j = k
    BY Zenon DEF OneCopy
  <2> HIDE DEF i, b, c, m
  <2>2. /\ d \in Seq(Contacts)
        /\ m # n => Kept(n, b, d)
        /\ m = n => Positions(d, n) = {}
    BY <1>1, <2>1, DropKeeps, Zenon
  <2> HIDE DEF d
  <2>3. CASE m # n
    <3>1. Kept(n, d, Append(d, c))
      BY <1>2, <2>2, AppendKeeps, Zenon
    <3>2. Kept(n, b, Append(d, c))
      BY <2>2, <2>3, <3>1, KeptTwice, Zenon
    <3> QED
      BY <2>2, <2>3, <3>2, Zenon
  <2>4. CASE m = n
    <3>1. Positions(Append(d, c), n) = {}
      <4>1. \A j \in 1..Len(d) : d[j].id # n
        BY <2>2, <2>4, Zenon DEF Positions
      <4>2. \A j \in 1..Len(Append(d, c)) : Append(d, c)[j] = c \/ \E k \in 1..Len(d) : Append(d, c)[j] = d[k]
        BY <1>2, <2>2
      <4> QED
        BY <1>2, <2>4, <4>1, <4>2, Zenon DEF Positions
    <3> QED
      BY <2>2, <2>4, <3>1, Zenon
  <2> QED
    BY <2>3, <2>4, Zenon
<1> HIDE DEF i, r
<1> QED
  BY <1>1, <1>3, OneBucketKeeps, Zenon

\* Every locked section of the routing table.
LEMMA NextKeepsPaths ==
  ASSUME GoodTable, ProbesDiffer(pings), [TableNext]_tableVars
  PROVE  (\A n \in Nodes : PathsKept(n)) /\ ProbesDiffer(pings')
<1>1. ASSUME NEW m \in Nodes, NEW a \in Addrs, NEW alts \in SUBSET (Addrs \ {a}),
             Heard(m, a, alts)
      PROVE  (\A n \in Nodes : PathsKept(n)) /\ ProbesDiffer(pings')
  <2> DEFINE c == [id |-> m, addr |-> a, alts |-> alts, seen |-> TRUE]
  <2>1. c \in Contacts /\ Update(c, pings) /\ PingsOK(pings)
    BY <1>1, Zenon DEF Contacts, Heard, GoodTable
  <2> HIDE DEF c
  <2> QED
    BY <2>1, UpdateKeeps, Zenon
<1>2. ASSUME NEW m \in Nodes, NEW a \in Addrs, Hint(m, a)
      PROVE  (\A n \in Nodes : PathsKept(n)) /\ ProbesDiffer(pings')
  <2> DEFINE c == [id |-> m, addr |-> a, alts |-> {}, seen |-> FALSE]
             i == CPL[m]
             b == buckets[i]
  <2>1. c \in Contacts /\ i \in Buckets /\ b \in Seq(Contacts)
    BY TableAssumption, Zenon DEF Contacts, GoodTable
  <2>2. buckets' = [buckets EXCEPT ![i] = <<c>> \o b] /\ pings' = pings
    BY <1>2, Zenon DEF Hint
  <2> HIDE DEF c, i
  <2>3. ASSUME NEW n \in Nodes PROVE PathsKept(n)
    <3>1. Kept(n, b, <<c>> \o b)
      BY <2>1, PrependKeeps, Zenon
    <3> QED
      BY <2>1, <2>2, <3>1, OneBucketKeeps, Zenon
  <2> QED
    BY <2>2, <2>3, Zenon
<1>3. ASSUME NEW m \in Nodes, RemoveContact(m)
      PROVE  (\A n \in Nodes : PathsKept(n)) /\ ProbesDiffer(pings')
  BY <1>3, RemoveFromKeeps, Zenon DEF RemoveContact
<1>4. ASSUME NEW s \in Slots, CheckStart(s)
      PROVE  (\A n \in Nodes : PathsKept(n)) /\ ProbesDiffer(pings')
  <2>1. UNCHANGED buckets /\ \E c : pings' = [pings EXCEPT ![s] = NewPing("check", c, c)]
    BY <1>4, Zenon DEF CheckStart
  <2>2. \A c : NewPing("check", c, c).phase = "check"
    BY Zenon DEF NewPing
  <2>3. pings'[s].phase = "check" /\ \A t \in Slots : t # s => pings'[t] = pings[t]
    BY <2>1, <2>2, Zenon DEF GoodTable, PingsOK
  <2>4. ProbesDiffer(pings')
    BY <2>3 DEF ProbesDiffer
  <2> QED
    BY <2>1, <2>4, NoBucketKeeps, Zenon
<1>5. ASSUME NEW s \in Slots, CheckAnswered(s)
      PROVE  (\A n \in Nodes : PathsKept(n)) /\ ProbesDiffer(pings')
  <2>1. pings[s].head \in Contacts /\ Update(pings[s].head, Cleared(s))
    BY <1>5, PingFacts, Zenon DEF CheckAnswered, InPhase
  <2> QED
    BY <2>1, ClearedOK, ClearedDiffer, UpdateKeeps, Zenon
<1>6. ASSUME NEW s \in Slots, CheckFailed(s)
      PROVE  (\A n \in Nodes : PathsKept(n)) /\ ProbesDiffer(pings')
  <2>1. pings[s].head.id \in Nodes
    BY <1>6, PingFacts, Zenon DEF CheckFailed, InPhase, Contacts
  <2> QED
    BY <1>6, <2>1, RemoveFromKeeps, ClearedDiffer, Zenon DEF CheckFailed
<1>7. ASSUME NEW s \in Slots, ProbeAnswered(s)
      PROVE  (\A n \in Nodes : PathsKept(n)) /\ ProbesDiffer(pings')
  <2> DEFINE ps == [pings EXCEPT ![s].phase = "alive"]
  <2>1. pings[s] # NoPing /\ Update(pings[s].head, ps)
    BY <1>7, Zenon DEF ProbeAnswered, InPhase
  <2>2. pings[s] \in Pings /\ pings[s].head \in Contacts
    BY <2>1, PingFacts, Zenon
  <2>3. PingsOK(ps)
    BY <2>1, <2>2 DEF GoodTable, PingsOK, Pings
  <2>4. ps[s].phase = "alive" /\ \A t \in Slots : t # s => ps[t] = pings[t]
    BY <2>2 DEF GoodTable, PingsOK, Pings
  <2> HIDE DEF ps
  <2>5. ProbesDiffer(ps)
    BY <2>4 DEF ProbesDiffer
  <2> QED
    BY <2>1, <2>2, <2>3, <2>5, UpdateKeeps, Zenon
<1>8. ASSUME NEW s \in Slots, ProbeAlive(s) \/ ProbeDead(s)
      PROVE  (\A n \in Nodes : PathsKept(n)) /\ ProbesDiffer(pings')
  <2>1. pings' = Cleared(s)
    BY <1>8, Zenon DEF ProbeAlive, ProbeDead
  <2> QED
    BY <1>8, <2>1, AliveKeeps, DeadKeeps, ClearedDiffer, Zenon
<1>9. CASE UNCHANGED tableVars
  BY <1>9, NoBucketKeeps, Zenon DEF tableVars
<1> QED
  BY <1>1, <1>2, <1>3, <1>4, <1>5, <1>6, <1>7, <1>8, <1>9, Zenon DEF TableNext

\* "keep every reachability path the network has ever told us about" (MergeAddresses):
\* while a contact stays in the table no step forgets one of its addresses, however
\* late pings are answered, for any peers, addresses, buckets and pings in flight.
THEOREM AddressesStay == TableSpec => AddressesKept
<1>1. TableInit => ProbesDiffer(pings)
  BY Zenon DEF TableInit, ProbesDiffer
<1>2. ASSUME NEW n \in Nodes, PathsKept(n), Known(n), OneCopy(n), Known(n)'
      PROVE  AddressesOf(n) \subseteq AddressesOf(n)'
  <2> DEFINE b == buckets[CPL[n]]
             d == buckets'[CPL[n]]
  <2>1. Kept(n, b, d)
    BY <1>2, Zenon DEF PathsKept
  <2>2. SUFFICES ASSUME NEW x \in AddressesOf(n) PROVE x \in AddressesOf(n)'
    BY Zenon
  <2>3. PICK k \in Positions(b, n) : x \in Paths(b[k])
    BY <2>2, Zenon DEF AddressesOf, Paths
  <2>4. PICK j \in Positions(d, n) : Paths(b[k]) \subseteq Paths(d[j])
    BY <2>1, <2>3, Zenon DEF Kept, Positions
  <2>5. x \in {d[j].addr} \cup d[j].alts
    BY <2>3, <2>4, Zenon DEF Paths
  <2> QED
    BY <2>4, <2>5, Zenon DEF AddressesOf, Positions
<1>3. GoodTable /\ ProbesDiffer(pings) /\ [TableNext]_tableVars =>
        /\ ProbesDiffer(pings)'
        /\ [\A n \in Nodes : Known(n) /\ OneCopy(n) /\ Known(n)' =>
              AddressesOf(n) \subseteq AddressesOf(n)']_tableVars
  <2> SUFFICES ASSUME GoodTable, ProbesDiffer(pings), [TableNext]_tableVars
               PROVE  /\ ProbesDiffer(pings)'
                      /\ \A n \in Nodes : Known(n) /\ OneCopy(n) /\ Known(n)' =>
                           AddressesOf(n) \subseteq AddressesOf(n)'
    BY Zenon
  <2>1. (\A n \in Nodes : PathsKept(n)) /\ ProbesDiffer(pings')
    BY NextKeepsPaths, Zenon
  <2> QED
    BY <1>2, <2>1, Zenon DEF ProbesDiffer
<1> QED
  BY <1>1, <1>3, TableGood, PTL DEF TableSpec, AddressesKept
-----------------------------------------------------------------------------
(* The relay server *)

\* Start: no session, no dial.
LEMMA RelayStarts == RelayInit => RelayInv
<1> SUFFICES ASSUME RelayInit PROVE RelayInv
  OBVIOUS
<1>1. stopped \in BOOLEAN
  BY Zenon DEF RelayInit
<1>2. RelayTypeOK
  BY <1>1 DEF RelayInit, RelayTypeOK
<1>3. RegistrationsExact /\ SessionsNamed
  BY DEF RelayInit, RegistrationsExact, SessionsNamed
<1>4. PendingExact /\ TunnelsOwned
  BY DEF RelayInit, PendingExact, TunnelsOwned
<1> QED
  BY <1>2, <1>3, <1>4 DEF RelayInv, RelaySound

\* The steps of a control session and its writer.
SessionNext ==
  \E s \in Sessions : \/ \E p \in Peers : Accept(s, p)
                      \/ Disconnect(s)
                      \/ SessionStep(s)

\* The steps of a dial and of the tunnel that answers it.
DialNext ==
  \E d \in Dials : \/ \E p \in Peers : Dial(d, p)
                   \/ DialStep(d) \/ TunnelStep(d)
                   \/ PipeEnds(d)

\* The shapes are kept by the sessions.
LEMMA SessionTypes ==
  ASSUME RelayInv, SessionNext
  PROVE  RelayTypeOK'
<1> USE RelayAssumption DEF RelayInv, RelaySound, RelayTypeOK, SessionsNamed, sessionVars,
        queueVars, dialVars
<1>1. PICK s \in Sessions : \/ \E p \in Peers : Accept(s, p)
                            \/ Disconnect(s)
                            \/ SessionStep(s)
  BY DEF SessionNext
<1>2. ASSUME NEW p \in Peers, Accept(s, p) PROVE RelayTypeOK'
  BY <1>2 DEF Accept
<1>3. CASE Disconnect(s)
  BY <1>3 DEF Disconnect
<1>4. CASE Register(s)
  BY <1>4 DEF Register
<1>5. CASE RegisterReplied(s)
  <2>1. CASE open[s]
    BY <1>5, <2>1, Zenon DEF RegisterReplied
  <2>2. CASE ~open[s]
    <3>1. /\ session[s] = "replying"
          /\ session' = [session EXCEPT ![s] = "gone"]
          /\ dropRegistration(s)
          /\ UNCHANGED <<peerOf, queueVars, dialVars, ch, tunnel, stopped>>
      BY <1>5, <2>2, Zenon DEF RegisterReplied
    <3> QED
      BY <3>1 DEF dropRegistration
  <2> QED
    BY <2>1, <2>2, Zenon
<1>6. CASE SeeEOF(s)
  BY <1>6 DEF SeeEOF, dropRegistration
<1>7. CASE CloseOut(s)
  BY <1>7 DEF CloseOut
<1>8. CASE PushOpen(s)
  BY <1>8 DEF PushOpen
<1>9. CASE WriterEnds(s)
  <2>1. CASE out[s] = <<>>
    BY <1>9, <2>1, Zenon DEF WriterEnds
  <2>2. CASE out[s] # <<>>
    <3>1. /\ out' = [out EXCEPT ![s] = Tail(@)]
          /\ tunnel' = [tunnel EXCEPT ![Head(out[s])] = "failed"]
          /\ writer' = [writer EXCEPT ![s] = FALSE]
          /\ UNCHANGED <<sessionVars, outClosed, dialVars, ch, stopped>>
      BY <1>9, <2>2, Zenon DEF WriterEnds
    <3> QED
      BY <2>2, <3>1
  <2> QED
    BY <2>1, <2>2, Zenon
<1> QED
  BY <1>1, <1>2, <1>3, <1>4, <1>5, <1>6, <1>7, <1>8, <1>9, Zenon DEF SessionStep

\* The shapes are kept by the dials.
LEMMA DialTypes ==
  ASSUME RelayInv, DialNext
  PROVE  RelayTypeOK'
<1> USE RelayAssumption DEF RelayInv, RelaySound, RelayTypeOK, sessionVars, queueVars,
        dialVars
<1>1. PICK d \in Dials : \/ \E p \in Peers : Dial(d, p)
                         \/ DialStep(d) \/ TunnelStep(d)
                         \/ PipeEnds(d)
  BY Zenon DEF DialNext
<1>2. ASSUME NEW p \in Peers, Dial(d, p) PROVE RelayTypeOK'
  <2>1. CASE registrations[p] = None
    <3>1. /\ dial' = [dial EXCEPT ![d] = "ended"]
          /\ reg' = [reg EXCEPT ![d] = registrations[p]]
          /\ answer' = [answer EXCEPT ![d] = "ERR"]
          /\ UNCHANGED <<sessionVars, queueVars, pending, ch, tunnel, stopped>>
      BY <1>2, <2>1, Zenon DEF Dial
    <3> QED
      BY <3>1, Zenon
  <2>2. CASE registrations[p] # None
    <3>1. /\ dial' = [dial EXCEPT ![d] = "found"]
          /\ reg' = [reg EXCEPT ![d] = registrations[p]]
          /\ UNCHANGED <<sessionVars, queueVars, pending, answer, ch, tunnel, stopped>>
      BY <1>2, <2>2, Zenon DEF Dial
    <3>2. reg' \in [Dials -> Sessions \cup {None}]
      BY <3>1, Zenon
    <3>3. dial' \in [Dials -> {"new", "found", "pended", "waiting", "paired", "piping",
                              "leaving", "ended", "panicked"}]
      BY <3>1, Zenon
    <3>4. ASSUME NEW e \in Dials, dial'[e] \notin {"new", "ended"} PROVE reg'[e] # None
      <4>1. CASE e = d
        BY <2>2, <3>1, <4>1, Zenon
      <4>2. CASE e # d
        BY <3>1, <3>4, <4>2, Zenon
      <4> QED
        BY <4>1, <4>2, Zenon
    <3> QED
      BY <3>1, <3>2, <3>3, <3>4, Zenon
  <2> QED
    BY <2>1, <2>2, Zenon
<1>3. CASE DialPend(d)
  BY <1>3 DEF DialPend
<1>4. CASE DialPush(d)
  <2>1. reg[d] \in Sessions
    BY <1>4, Zenon DEF DialPush
  <2>2. CASE Len(out[reg[d]]) < OutCap
    <3>1. /\ out' = [out EXCEPT ![reg[d]] = Append(@, d)]
          /\ dial' = [dial EXCEPT ![d] = "waiting"]
          /\ UNCHANGED <<sessionVars, outClosed, writer, pending, reg, answer, ch, tunnel, stopped>>
      BY <1>4, <2>1, <2>2 DEF DialPush
    <3> QED
      BY <2>1, <3>1
  <2>3. CASE ~(Len(out[reg[d]]) < OutCap)
    <3>1. /\ Leave(d, "ERR")
          /\ UNCHANGED <<sessionVars, queueVars, pending, reg, ch, tunnel, stopped>>
      BY <1>4, <2>1, <2>3 DEF DialPush
    <3> QED
      <4>1. dial[d] = "pended" /\ reg[d] # None
        BY <1>4, Zenon DEF DialPush
      <4>2. dial' \in [Dials -> {"new", "found", "pended", "waiting", "paired", "piping",
                                "leaving", "ended", "panicked"}]
        BY <3>1, Zenon DEF Leave
      <4>3. answer' \in [Dials -> {"none", "OK", "ERR", "lost"}]
        BY <3>1, Zenon DEF Leave
      <4>4. ASSUME NEW e \in Dials, dial'[e] \notin {"new", "ended"} PROVE reg'[e] # None
        <5>1. CASE e = d
          BY <3>1, <4>1, <5>1, Zenon
        <5>2. CASE e # d
          BY <3>1, <4>4, <5>2, Zenon DEF Leave
        <5> QED
          BY <5>1, <5>2, Zenon
      <4> QED
        BY <3>1, <4>2, <4>3, <4>4, Zenon
  <2> QED
    BY <2>2, <2>3, Zenon
<1>5. CASE DialPanics(d)
  BY <1>5, Zenon DEF DialPanics
<1>6. CASE DialTakes(d)
  BY <1>6 DEF DialTakes
<1>7. CASE DialTimeout(d)
  BY <1>7 DEF DialTimeout, Leave
<1>8. CASE DialReplies(d)
  <2>1. dial[d] = "paired" /\ UNCHANGED <<sessionVars, queueVars, pending, reg, ch, stopped>>
    BY <1>8 DEF DialReplies
  <2>2. PICK x \in {"piping", "leaving"}, r \in {"lost", "OK"} :
          /\ dial' = [dial EXCEPT ![d] = x]
          /\ answer' = [answer EXCEPT ![d] = r]
          /\ tunnel' = [tunnel EXCEPT ![d] = IF x = "piping" THEN "piping" ELSE "closed"]
    BY <1>8, Zenon DEF DialReplies, Leave
  <2> QED
    BY <2>1, <2>2, Zenon
<1>9. CASE DialCleanup(d)
  BY <1>9, Zenon DEF DialCleanup
<1>10. CASE TunnelLookup(d)
  BY <1>10, Zenon DEF TunnelLookup
<1>11. CASE TunnelHand(d)
  BY <1>11, Zenon DEF TunnelHand
<1>12. CASE PipeEnds(d)
  BY <1>12, Zenon DEF PipeEnds
<1> QED
  BY <1>1, <1>2, <1>3, <1>4, <1>5, <1>6, <1>7, <1>8, <1>9, <1>10, <1>11, <1>12, Zenon
     DEF DialStep, TunnelStep

\* registrations: a new session closes the one it replaces, and a session that ends
\* takes away its own entry only.
LEMMA SessionsKeepRegistrations ==
  ASSUME RelayInv, SessionNext
  PROVE  RegistrationsExact' /\ SessionsNamed'
<1> USE RelayAssumption DEF RelayInv, RelaySound, RelayTypeOK, RegistrationsExact,
        SessionsNamed, sessionVars, queueVars, dialVars
<1>1. PICK s \in Sessions : \/ \E p \in Peers : Accept(s, p)
                            \/ Disconnect(s)
                            \/ SessionStep(s)
  BY Zenon DEF SessionNext
<1>2. ASSUME NEW p \in Peers, Accept(s, p) PROVE RegistrationsExact' /\ SessionsNamed'
  BY <1>2 DEF Accept
<1>3. CASE Disconnect(s)
  BY <1>3 DEF Disconnect
<1>4. CASE Register(s)
  BY <1>4 DEF Register
<1>5. CASE RegisterReplied(s)
  <2>1. CASE open[s]
    <3>1. /\ session[s] = "replying"
          /\ session' = [session EXCEPT ![s] = "serving"]
          /\ UNCHANGED <<registrations, peerOf, open>>
      BY <1>5, <2>1, Zenon DEF RegisterReplied
    <3> QED
      BY <3>1
  <2>2. CASE ~open[s]
    <3>1. /\ session[s] = "replying"
          /\ session' = [session EXCEPT ![s] = "gone"]
          /\ dropRegistration(s)
          /\ UNCHANGED <<peerOf, queueVars, dialVars, ch, tunnel, stopped>>
      BY <1>5, <2>2, Zenon DEF RegisterReplied
    <3> QED
      BY <3>1 DEF dropRegistration
  <2> QED
    BY <2>1, <2>2
<1>6. CASE SeeEOF(s)
  BY <1>6 DEF SeeEOF, dropRegistration
<1>7. CASE CloseOut(s)
  BY <1>7 DEF CloseOut
<1>8. CASE PushOpen(s)
  BY <1>8, Zenon DEF PushOpen
<1>9. CASE WriterEnds(s)
  BY <1>9, Zenon DEF WriterEnds
<1> QED
  BY <1>1, <1>2, <1>3, <1>4, <1>5, <1>6, <1>7, <1>8, <1>9, Zenon DEF SessionStep

\* A session's steps touch no dial; its writer only moves tunnels nobody uses yet.
LEMMA SessionsKeepDials ==
  ASSUME RelayInv, SessionNext
  PROVE  PendingExact' /\ TunnelsOwned'
<1> USE DEF RelayInv, RelaySound, RelayTypeOK, PendingExact, TunnelsOwned, sessionVars,
        queueVars, dialVars
<1>1. PICK s \in Sessions : \/ \E p \in Peers : Accept(s, p)
                            \/ Disconnect(s)
                            \/ SessionStep(s)
  BY DEF SessionNext
<1>2. CASE PushOpen(s)
  BY <1>2 DEF PushOpen
<1>3. CASE WriterEnds(s)
  BY <1>3 DEF WriterEnds
<1>4. CASE ~PushOpen(s) /\ ~WriterEnds(s)
  <2>1. UNCHANGED <<dialVars, tunnel>>
    BY <1>1, <1>4, Zenon DEF SessionStep, Accept, Disconnect, Register, RegisterReplied, SeeEOF,
                      CloseOut
  <2> QED
    BY <2>1
<1> QED
  BY <1>2, <1>3, <1>4, Zenon

\* A dial leaves the registrations alone, or ends the process with them.
LEMMA DialsKeepRegistrations ==
  ASSUME RelayInv, DialNext
  PROVE  RegistrationsExact' /\ SessionsNamed'
<1> USE DEF RelayInv, RelaySound, RelayTypeOK, RegistrationsExact, SessionsNamed,
        sessionVars, queueVars, dialVars
<1>1. PICK d \in Dials : \/ \E p \in Peers : Dial(d, p)
                         \/ DialStep(d) \/ TunnelStep(d)
                         \/ PipeEnds(d)
  BY DEF DialNext
<1>2. CASE DialPanics(d)
  BY <1>2, Zenon DEF DialPanics
<1>3. CASE ~DialPanics(d)
  <2>1. UNCHANGED sessionVars
    BY <1>1, <1>3, Zenon DEF DialStep, TunnelStep, Dial, DialPend, DialPush, DialTakes, DialTimeout,
                      DialReplies, DialCleanup, TunnelLookup, TunnelHand, PipeEnds
  <2> QED
    BY <2>1, Zenon
<1> QED
  BY <1>2, <1>3, Zenon

\* A dial is in the token table until its cleanup, and closes the tunnel it took.
LEMMA DialsKeepDials ==
  ASSUME RelayInv, DialNext
  PROVE  PendingExact' /\ TunnelsOwned'
<1> USE DEF RelayInv, RelaySound, RelayTypeOK, PendingExact, TunnelsOwned, sessionVars,
        queueVars, dialVars
<1>1. PICK d \in Dials : \/ \E p \in Peers : Dial(d, p)
                         \/ DialStep(d) \/ TunnelStep(d)
                         \/ PipeEnds(d)
  BY Zenon DEF DialNext
<1>2. ASSUME NEW p \in Peers, Dial(d, p) PROVE PendingExact' /\ TunnelsOwned'
  <2>1. dial[d] = "new" /\ UNCHANGED <<pending, tunnel>>
    BY <1>2, Zenon DEF Dial
  <2>2. PICK x \in {"ended", "found"} : dial' = [dial EXCEPT ![d] = x]
    BY <1>2, Zenon DEF Dial
  <2> QED
    BY <2>1, <2>2
<1>3. CASE DialPend(d)
  BY <1>3, Zenon DEF DialPend
<1>4. CASE DialPush(d)
  <2>1. dial[d] = "pended" /\ UNCHANGED <<pending, tunnel>>
    BY <1>4, Zenon DEF DialPush
  <2>2. PICK x \in {"waiting", "leaving"} : dial' = [dial EXCEPT ![d] = x]
    BY <1>4, Zenon DEF DialPush, Leave
  <2> QED
    BY <2>1, <2>2
<1>5. CASE DialPanics(d)
  BY <1>5, Zenon DEF DialPanics
<1>6. CASE DialTakes(d)
  BY <1>6, Zenon DEF DialTakes
<1>7. CASE DialTimeout(d)
  BY <1>7, Zenon DEF DialTimeout, Leave
<1>8. CASE DialReplies(d)
  <2>1. dial[d] = "paired" /\ UNCHANGED <<sessionVars, queueVars, pending, reg, ch, stopped>>
    BY <1>8, Zenon DEF DialReplies
  <2>2. PICK x \in {"piping", "leaving"}, r \in {"lost", "OK"} :
          /\ dial' = [dial EXCEPT ![d] = x]
          /\ answer' = [answer EXCEPT ![d] = r]
          /\ tunnel' = [tunnel EXCEPT ![d] = IF x = "piping" THEN "piping" ELSE "closed"]
    BY <1>8, Zenon DEF DialReplies, Leave
  <2> QED
    BY <2>1, <2>2, Zenon
<1>9. CASE DialCleanup(d)
  BY <1>9, Zenon DEF DialCleanup
<1>10. CASE TunnelLookup(d)
  BY <1>10, Zenon DEF TunnelLookup
<1>11. CASE TunnelHand(d)
  BY <1>11, Zenon DEF TunnelHand
<1>12. CASE PipeEnds(d)
  BY <1>12, Zenon DEF PipeEnds
<1> QED
  BY <1>1, <1>2, <1>3, <1>4, <1>5, <1>6, <1>7, <1>8, <1>9, <1>10, <1>11, <1>12, Zenon
     DEF DialStep, TunnelStep

\* The invariant survives every step of the relay.
LEMMA RelayStep == RelayInv /\ [RelayNext]_relayVars => RelayInv'
<1> SUFFICES ASSUME RelayInv, [RelayNext]_relayVars PROVE RelayInv'
  OBVIOUS
<1>1. CASE SessionNext
  BY <1>1, SessionTypes, SessionsKeepRegistrations, SessionsKeepDials DEF RelayInv, RelaySound
<1>2. CASE DialNext
  BY <1>2, DialTypes, DialsKeepRegistrations, DialsKeepDials DEF RelayInv, RelaySound
<1>3. CASE Stop
  BY <1>3, Zenon DEF Stop, RelayInv, RelaySound, RelayTypeOK, RegistrationsExact, PendingExact,
              SessionsNamed, TunnelsOwned, queueVars, dialVars
<1>4. CASE UNCHANGED relayVars
  BY <1>4, Zenon DEF RelayInv, RelaySound, RelayTypeOK, RegistrationsExact, PendingExact,
              SessionsNamed, TunnelsOwned, relayVars, sessionVars, queueVars, dialVars
<1> QED
  BY <1>1, <1>2, <1>3, <1>4 DEF RelayNext, SessionNext, DialNext

\* RelayInv holds in every reachable state.
THEOREM RelayInvariant == RelaySpec => []RelayInv
BY RelayStarts, RelayStep, PTL DEF RelaySpec

\* An open control session is the registered one of its peer, no registration
\* outlives its handler, and the token table holds exactly the dials under way.
THEOREM RelayStaysSound == RelaySpec => []RelaySound
<1>1. RelayInv => RelaySound
  BY DEF RelayInv
<1> QED
  BY <1>1, RelayInvariant, PTL

\* handleDial returns only after it has closed the tunnel it took: "either side
\* closing tears down both", whichever of its exits it takes.
THEOREM TunnelsClosed == RelaySpec => []TunnelClosedWithDial
<1>1. RelayInv => TunnelClosedWithDial
  BY Zenon DEF RelayInv, TunnelsOwned, TunnelClosedWithDial
<1> QED
  BY <1>1, RelayInvariant, PTL
=============================================================================
