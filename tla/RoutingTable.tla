---------------------------- MODULE RoutingTable ----------------------------
(***************************************************************************)
(* The Kademlia routing table (core/dht/routing.go) and everything that    *)
(* changes it: messages heard from peers, second-hand hints, goodbyes, the *)
(* maintenance ping, and the asynchronous head-of-bucket probe of a full   *)
(* bucket.  Every lock-held section of rt.mu is one action; a ping runs    *)
(* outside the lock, so the contact it was started with is a snapshot that *)
(* may be stale when the answer is applied.                                *)
(***************************************************************************)
EXTENDS Naturals, Sequences

CONSTANTS
  Nodes,     \* ids of remote peers
  Addrs,     \* network addresses
  Buckets,   \* bucket indices
  CPL,       \* CPL[n]: CommonPrefixLen of n's id and our own
  K,         \* bucket capacity
  Slots,     \* bound on the pings in flight
  NoPing     \* an unused slot

\* LastSeen is kept as `seen`: FALSE is the zero time of a hint.  The order of
\* AltAddresses only affects the order of dialling and is dropped.
Contacts == [id : Nodes, addr : Addrs, alts : SUBSET Addrs, seen : BOOLEAN]

\* A ping in flight: for maybeEvictHead ("probe", then "alive" once the head has
\* answered) or for pingAll ("check", with head = cand = the contact pinged).
Pings == [phase : {"probe", "alive", "check"}, head : Contacts, cand : Contacts]

ASSUME TableAssumption ==
  /\ CPL \in [Nodes -> Buckets]
  /\ K \in Nat \ {0}
  /\ NoPing \notin Pings

VARIABLES
  buckets,   \* buckets[i]: sequence of contacts, least recently seen first
  pings      \* pings[s]: a ping running outside the lock, with its snapshots

tableVars == <<buckets, pings>>

TableInit ==
  /\ buckets = [i \in Buckets |-> << >>]
  /\ pings = [s \in Slots |-> NoPing]

Positions(s, n) == {i \in 1..Len(s) : s[i].id = n}

FirstOf(s, n) == CHOOSE i \in Positions(s, n) :
                   \A j \in Positions(s, n) : i <= j

Known(n) == Positions(buckets[CPL[n]], n) # {}

\* Mutant: the previous primary address is forgotten.
MergeAddressesDropsPrimary(fresh, prior) ==
  [fresh EXCEPT !.alts = (fresh.alts \cup prior.alts) \ {fresh.addr}]

MergeAddresses(fresh, prior) ==
  [fresh EXCEPT !.alts = (fresh.alts \cup prior.alts \cup {prior.addr}) \ {fresh.addr}]

\* `append(b.contacts[:i], b.contacts[i+1:]...)`,
RemoveAt(s, i) == SubSeq(s, 1, i - 1) \o SubSeq(s, i + 1, Len(s))

\* for the first entry of n, if any.
Drop(s, n) == IF Positions(s, n) = {} THEN s ELSE RemoveAt(s, FirstOf(s, n))

NewPing(phase, head, cand) == [phase |-> phase, head |-> head, cand |-> cand]
-----------------------------------------------------------------------------
\* Update(c), called while the pings in flight are ps: merge and move to the tail;
\* append; or, when the bucket is full, start the probe of its head.
Update(c, ps) ==
  LET i    == CPL[c.id]
      b    == buckets[i]
      here == [c EXCEPT !.seen = TRUE]
      at   == FirstOf(b, c.id)
  IN  \/ /\ Known(c.id)
         /\ buckets' = [buckets EXCEPT ![i] =
                          Append(RemoveAt(b, at), MergeAddresses(here, b[at]))]
         /\ pings' = ps
      \/ /\ ~Known(c.id) /\ Len(b) < K
         /\ buckets' = [buckets EXCEPT ![i] = Append(b, here)]
         /\ pings' = ps
      \/ /\ ~Known(c.id) /\ Len(b) >= K
         /\ \E s \in Slots :
              /\ ps[s] = NoPing
              /\ pings' = [ps EXCEPT ![s] = NewPing("probe", b[1], here)]
         /\ UNCHANGED buckets

\* A hello of n that advertises address a and the alternates alts (observeHello), or
\* a successful exchange with a contact a caller holds these addresses of.
Heard(n, a, alts) ==
  Update([id |-> n, addr |-> a, alts |-> alts, seen |-> TRUE], pings)

\* Mutant: a hint goes to the tail, like a contact we heard from.
HintAtTail(n, a) ==
  LET b == buckets[CPL[n]]
      c == [id |-> n, addr |-> a, alts |-> {}, seen |-> FALSE]
  IN  /\ ~Known(n)
      /\ Len(b) < K
      /\ buckets' = [buckets EXCEPT ![CPL[n]] = Append(b, c)]
      /\ UNCHANGED pings

\* Hint(c): n was named in another peer's reply.  A no-op when n is known or the
\* bucket is full.
Hint(n, a) ==
  LET b == buckets[CPL[n]]
      c == [id |-> n, addr |-> a, alts |-> {}, seen |-> FALSE]
  IN  /\ ~Known(n)
      /\ Len(b) < K
      /\ buckets' = [buckets EXCEPT ![CPL[n]] = <<c>> \o b]
      /\ UNCHANGED pings

RemoveFrom(n) == [buckets EXCEPT ![CPL[n]] = Drop(@, n)]

\* Remove(id) on a goodbye.
RemoveContact(n) ==
  /\ Known(n)
  /\ buckets' = RemoveFrom(n)
  /\ UNCHANGED pings

\* pingAll takes a snapshot of the table and pings each contact.
CheckStart(s) ==
  /\ pings[s] = NoPing
  /\ \E i \in Buckets : \E j \in 1..Len(buckets[i]) :
       pings' = [pings EXCEPT ![s] = NewPing("check", buckets[i][j], buckets[i][j])]
  /\ UNCHANGED buckets

InPhase(s, phase) == pings[s] # NoPing /\ pings[s].phase = phase

Cleared(s) == [pings EXCEPT ![s] = NoPing]

\* Ping answered: d.rt.Update(c) with the snapshot.
CheckAnswered(s) ==
  /\ InPhase(s, "check")
  /\ Update(pings[s].head, Cleared(s))

CheckFailed(s) ==
  /\ InPhase(s, "check")
  /\ buckets' = RemoveFrom(pings[s].head.id)
  /\ pings' = Cleared(s)

\* The probed head answers: Ping itself first records it with Update ...
ProbeAnswered(s) ==
  /\ InPhase(s, "probe")
  /\ Update(pings[s].head, [pings EXCEPT ![s].phase = "alive"])

\* ... then maybeEvictHead moves it to the tail if it still is (or is again) the
\* head, and drops the candidate.
ProbeAlive(s) ==
  /\ InPhase(s, "alive")
  /\ LET i == CPL[pings[s].head.id]
         b == buckets[i]
     IN  buckets' = IF b # << >> /\ b[1].id = pings[s].head.id
                    THEN [buckets EXCEPT ![i] =
                            Append(Tail(b), [b[1] EXCEPT !.seen = TRUE])]
                    ELSE buckets
  /\ pings' = Cleared(s)

\* Mutant: the candidate is let in without looking at the room left.
ProbeDeadNoRoomCheck(s) ==
  /\ InPhase(s, "probe")
  /\ LET i == CPL[pings[s].head.id]
         b == Drop(buckets[i], pings[s].head.id)
     IN  buckets' = [buckets EXCEPT ![i] =
                       Append(b, [pings[s].cand EXCEPT !.seen = TRUE])]
  /\ pings' = Cleared(s)

\* The probed head does not answer: it goes if it is still there, and the
\* candidate comes in if there is room.
ProbeDead(s) ==
  /\ InPhase(s, "probe")
  /\ LET i == CPL[pings[s].head.id]
         b == Drop(buckets[i], pings[s].head.id)
     IN  buckets' = [buckets EXCEPT ![i] =
                       IF Len(b) < K
                       THEN Append(b, [pings[s].cand EXCEPT !.seen = TRUE])
                       ELSE b]
  /\ pings' = Cleared(s)

TableNext ==
  \/ \E n \in Nodes, a \in Addrs : \E alts \in SUBSET (Addrs \ {a}) : Heard(n, a, alts)
  \/ \E n \in Nodes, a \in Addrs : Hint(n, a)
  \/ \E n \in Nodes : RemoveContact(n)
  \/ \E s \in Slots : CheckStart(s) \/ CheckAnswered(s) \/ CheckFailed(s)
  \/ \E s \in Slots : ProbeAnswered(s) \/ ProbeAlive(s) \/ ProbeDead(s)

TableSpec == TableInit /\ [][TableNext]_tableVars
-----------------------------------------------------------------------------
\* Buckets hold contacts; a probe's head and candidate belong to one bucket.
TableTypeOK ==
  /\ buckets \in [Buckets -> Seq(Contacts)]
  /\ pings \in [Slots -> Pings \cup {NoPing}]
  /\ \A s \in Slots : pings[s] # NoPing =>
       CPL[pings[s].head.id] = CPL[pings[s].cand.id]

\* "bucket holds up to K contacts": no interleaving of updates, hints, removals
\* and late probe answers takes a bucket above K.
BucketBound == \A i \in Buckets : Len(buckets[i]) <= K

\* "bucket[i] holds contacts whose ID has common-prefix-length == i with self",
\* also for a candidate added by a probe that was started long before.
RightBucket ==
  \A i \in Buckets : \A j \in 1..Len(buckets[i]) : CPL[buckets[i][j].id] = i

\* Both at once: K contacts at most, each where Closest and Remove look for it.
BucketsSound == BucketBound /\ RightBucket

\* The table is sound: contacts and pings are well shaped, the head and the candidate
\* of a probe share a bucket, and the buckets are sound, however late the answers to
\* the pings of maybeEvictHead and pingAll are applied.
TableSound == TableTypeOK /\ BucketsSound

\* Contacts we only heard of come before all contacts we heard from: a hint is
\* the first to be probed and evicted, and nothing but a direct exchange ever
\* moves it behind a verified contact (Hint against Update and maybeEvictHead).
HintsFirst ==
  \A i \in Buckets : \A j, k \in 1..Len(buckets[i]) :
    j < k /\ ~buckets[i][k].seen => ~buckets[i][j].seen

AddressesOf(n) ==
  UNION {{buckets[CPL[n]][i].addr} \cup buckets[CPL[n]][i].alts :
           i \in Positions(buckets[CPL[n]], n)}

OneCopy(n) == \A i, j \in Positions(buckets[CPL[n]], n) : i = j

\* "keep every reachability path the network has ever told us about": as long as
\* a contact stays in the table no step forgets one of its addresses, stale
\* snapshots written back by late pings included.
AddressesKept ==
  [][\A n \in Nodes :
       Known(n) /\ OneCopy(n) /\ Known(n)' => AddressesOf(n) \subseteq AddressesOf(n)'
    ]_tableVars

\* "Remove deletes a contact from whatever bucket it lives in. Used when we know
\* a peer is dead": after RemoveContact(n) there is no contact n.
RemoveDeletes == [][\A n \in Nodes : RemoveContact(n) => ~Known(n)']_tableVars
=============================================================================
