------------------------------ MODULE DHTProofs ------------------------------
(***************************************************************************)
(* The DHT in the network, for any number of nodes, contacts and           *)
(* revocations: the flooding of revocations (RevokeGossip) and the walk of *)
(* a lookup (Lookup).                                                      *)
(***************************************************************************)
EXTENDS RevokeGossip, Lookup, FiniteSetTheorems, TLAPS

-----------------------------------------------------------------------------
\* Gossip.  HandledOnce rests on what revokeSeen remembers: an entry is pruned
\* only 2 * MaxAge after it was made, which is at most Skew before the timestamp
\* of the revocation, so that by then the age check refuses it
\* (RememberedWhileFresh); Skew <= MaxAge makes the sum come out.

\* The pruning of revokeSeen keeps a map of the same shape, keeps what it keeps
\* unchanged and forgets only entries older than 2 * MaxAge.
LEMMA PrunedForgetsOldOnly ==
  ASSUME NEW map \in [Revokes -> (0..MaxTime) \cup {Never}]
  PROVE  /\ Pruned(map) \in [Revokes -> (0..MaxTime) \cup {Never}]
         /\ \A r \in Revokes :
              \/ Pruned(map)[r] = map[r]
              \/ map[r] # Never /\ Pruned(map)[r] = Never /\ map[r] + 2 * MaxAge < now
<1> DEFINE kept == [r \in Revokes |->
                      IF map[r] # Never /\ map[r] + 2 * MaxAge < now THEN Never ELSE map[r]]
<1>1. Pruned(map) = kept \/ Pruned(map) = map
  BY Zenon DEF Pruned
<1>2. kept \in [Revokes -> (0..MaxTime) \cup {Never}]
  BY Zenon
<1> QED
  BY <1>1, <1>2, Zenon

\* A fresh network has nothing signed, seen or applied.
LEMMA GossipStarts == GossipInit => GossipInv
BY GossipAssumption
   DEF GossipInit, GossipInv, GossipSound, GossipTypeOK, HandledOnce, SeenInTime,
       RememberedWhileFresh

\* BroadcastRevoke stamps a revocation nobody has seen.
LEMMA BroadcastKeeps ==
  ASSUME GossipInv, NEW n \in Nodes, NEW r \in Revokes, NEW ahead \in {0, Skew},
         BroadcastRevoke(n, r, ahead)
  PROVE  GossipInv'
<1> USE GossipAssumption DEF GossipInv, GossipSound
<1>1. /\ stamp[r] = Never
      /\ stamp' = [stamp EXCEPT ![r] = now + ahead]
      /\ applied' = [applied EXCEPT ![n] = @ \cup {r}]
      /\ UNCHANGED <<now, seen, accepted, handled>>
  BY Zenon DEF BroadcastRevoke
<1>2. sent' = [m \in Nodes |-> IF m \in Links[n] THEN sent[m] \cup {r} ELSE sent[m]]
  BY Zenon DEF BroadcastRevoke, gossipRevoke
<1>3. now + ahead \in 0..MaxTime + Skew
  BY DEF GossipTypeOK
<1>4. \A q \in Revokes : stamp'[q] = IF q = r THEN now + ahead ELSE stamp[q]
  BY <1>1, Zenon DEF GossipTypeOK
<1>5. GossipTypeOK'
  BY <1>1, <1>2, <1>3, <1>4 DEF GossipTypeOK
<1>6. HandledOnce'
  BY <1>1, Zenon DEF HandledOnce
<1>7. SeenInTime'
  BY <1>1, <1>4, Zenon DEF SeenInTime
<1>8. RememberedWhileFresh'
  BY <1>1, <1>4, Zenon DEF RememberedWhileFresh
<1> QED
  BY <1>5, <1>6, <1>7, <1>8, Zenon

\* handleRevoke lets a revocation through only if revokeSeen has no entry for it
\* although it is fresh, so it was not let through before.
LEMMA HandleKeeps ==
  ASSUME GossipInv, NEW n \in Nodes, NEW r \in Revokes, handleRevoke(n, r)
  PROVE  GossipInv'
<1> USE GossipAssumption DEF GossipInv, GossipSound
<1> DEFINE map == [seen[n] EXCEPT ![r] = now]
<1>1. /\ r \in sent[n]
      /\ stamp[r] + MaxAge >= now /\ stamp[r] <= now + Skew
      /\ seen[n][r] = Never
      /\ seen' = [seen EXCEPT ![n] = Pruned(map)]
      /\ accepted' = [accepted EXCEPT ![n] = @ \cup {r}]
      /\ UNCHANGED <<now, stamp, sent, handled, applied>>
  BY Zenon DEF handleRevoke
<1>2. map \in [Revokes -> (0..MaxTime) \cup {Never}]
  BY Zenon DEF GossipTypeOK
<1>3. stamp[r] # Never /\ stamp[r] \in Nat /\ now \in Nat
  BY <1>1 DEF GossipTypeOK
<1>4. \A q \in Revokes : map[q] = IF q = r THEN now ELSE seen[n][q]
  BY Zenon DEF GossipTypeOK
<1> HIDE DEF map
<1>5. /\ seen' \in [Nodes -> [Revokes -> (0..MaxTime) \cup {Never}]]
      /\ \A m \in Nodes : m # n => seen'[m] = seen[m]
      /\ \A q \in Revokes :
           \/ seen'[n][q] = map[q]
           \/ map[q] # Never /\ seen'[n][q] = Never /\ map[q] + 2 * MaxAge < now
  <2>1. PICK p \in [Revokes -> (0..MaxTime) \cup {Never}] :
               /\ seen' = [seen EXCEPT ![n] = p]
               /\ \A q \in Revokes :
                    \/ p[q] = map[q]
                    \/ map[q] # Never /\ p[q] = Never /\ map[q] + 2 * MaxAge < now
    BY <1>1, <1>2, PrunedForgetsOldOnly, Zenon
  <2>2. /\ seen' \in [Nodes -> [Revokes -> (0..MaxTime) \cup {Never}]]
        /\ seen'[n] = p
        /\ \A m \in Nodes : m # n => seen'[m] = seen[m]
    BY <2>1, Zenon DEF GossipTypeOK
  <2> QED
    BY <2>1, <2>2, Zenon
<1>6. seen'[n][r] = now
  BY <1>3, <1>4, <1>5
<1>7. \A m \in Nodes, q \in Revokes : q \in accepted'[m] <=> q \in accepted[m] \/ (m = n /\ q = r)
  <2>1. accepted \in [Nodes -> SUBSET Revokes]
    BY Zenon DEF GossipTypeOK
  <2>2. accepted'[n] = accepted[n] \cup {r} /\ \A m \in Nodes : m # n => accepted'[m] = accepted[m]
    BY <1>1, <2>1, Zenon
  <2> QED
    BY <2>2, Zenon
<1>8. GossipTypeOK'
  BY <1>1, <1>5 DEF GossipTypeOK
<1>9. HandledOnce'
  <2>1. r \notin accepted[n] /\ ~(handled[n][r] > 0) /\ handled[n][r] \in Nat
    BY <1>1, <1>3 DEF RememberedWhileFresh, GossipTypeOK
  <2> QED
    BY <1>1, <1>7, <2>1 DEF HandledOnce
<1>10. SeenInTime'
  <2> SUFFICES ASSUME NEW m \in Nodes, NEW q \in Revokes, seen'[m][q] # Never
               PROVE  stamp[q] # Never /\ stamp[q] <= seen'[m][q] + Skew
    BY <1>1, Zenon DEF SeenInTime
  <2>1. CASE m # n
    BY <1>5, <2>1, Zenon DEF SeenInTime
  <2>2. CASE m = n /\ q = r
    BY <1>1, <1>3, <1>6, <2>2, Zenon
  <2>3. CASE m = n /\ q # r
    BY <1>4, <1>5, <2>3, Zenon DEF SeenInTime
  <2> QED
    BY <2>1, <2>2, <2>3, Zenon
<1>11. RememberedWhileFresh'
  <2> SUFFICES ASSUME NEW m \in Nodes, NEW q \in Revokes,
                      q \in accepted'[m] \/ handled[m][q] > 0
               PROVE  stamp[q] # Never /\ (seen'[m][q] # Never \/ stamp[q] + MaxAge < now)
    BY <1>1, Zenon DEF RememberedWhileFresh
  <2>1. CASE m # n
    BY <1>5, <1>7, <2>1, Zenon DEF RememberedWhileFresh
  <2>2. CASE m = n /\ q = r
    BY <1>3, <1>6, <2>2, Zenon
  <2>3. CASE m = n /\ q # r
    <3>1. stamp[q] # Never /\ (seen[n][q] # Never \/ stamp[q] + MaxAge < now)
      BY <1>7, <2>3, Zenon DEF RememberedWhileFresh
    <3>2. CASE seen[n][q] = Never
      BY <3>1, <3>2, Zenon
    <3>3. CASE seen[n][q] # Never
      <4>1. stamp[q] \in Nat /\ seen[n][q] \in Nat /\ stamp[q] <= seen[n][q] + Skew
        BY <3>1, <3>3 DEF SeenInTime, GossipTypeOK
      <4>2. seen'[n][q] = seen[n][q] \/ seen[n][q] + 2 * MaxAge < now
        BY <1>4, <1>5, <2>3, Zenon
      <4> QED
        BY <1>3, <2>3, <3>1, <3>3, <4>1, <4>2
    <3> QED
      BY <3>2, <3>3, Zenon
  <2> QED
    BY <2>1, <2>2, <2>3, Zenon
<1> QED
  BY <1>8, <1>9, <1>10, <1>11, Zenon

\* applyRevoke turns what was let through into what was handled.
LEMMA ApplyKeeps ==
  ASSUME GossipInv, NEW n \in Nodes, NEW r \in Revokes, applyRevoke(n, r)
  PROVE  GossipInv'
<1> USE GossipAssumption DEF GossipInv, GossipSound
<1>1. /\ r \in accepted[n]
      /\ accepted' = [accepted EXCEPT ![n] = @ \ {r}]
      /\ handled' = [handled EXCEPT ![n][r] = @ + 1]
      /\ applied' = [applied EXCEPT ![n] = @ \cup {r}]
      /\ UNCHANGED <<now, stamp, seen>>
  BY Zenon DEF applyRevoke
<1>2. sent' = [m \in Nodes |-> IF m \in Links[n] THEN sent[m] \cup {r} ELSE sent[m]]
  BY Zenon DEF applyRevoke, gossipRevoke
<1>3. handled' \in [Nodes -> [Revokes -> Nat]]
  BY <1>1 DEF GossipTypeOK
<1>4. \A m \in Nodes, q \in Revokes :
        handled'[m][q] = IF m = n /\ q = r THEN handled[m][q] + 1 ELSE handled[m][q]
  BY <1>1, Zenon DEF GossipTypeOK
<1>5. \A m \in Nodes, q \in Revokes : q \in accepted'[m] <=> q \in accepted[m] /\ ~(m = n /\ q = r)
  BY <1>1, Zenon DEF GossipTypeOK
<1>6. stamp[r] # Never
  BY <1>1, Zenon DEF RememberedWhileFresh
<1>7. GossipTypeOK'
  BY <1>1, <1>2, <1>3, <1>6 DEF GossipTypeOK
<1>8. HandledOnce'
  <2>1. \A m \in Nodes, q \in Revokes : handled[m][q] \in Nat
    BY Zenon DEF GossipTypeOK
  <2> QED
    BY <1>1, <1>4, <1>5, <2>1 DEF HandledOnce
<1>9. SeenInTime'
  BY <1>1, Zenon DEF SeenInTime
<1>10. RememberedWhileFresh'
  BY <1>1, <1>4, <1>5 DEF RememberedWhileFresh
<1> QED
  BY <1>7, <1>8, <1>9, <1>10, Zenon

\* One step of the network keeps GossipInv.
LEMMA GossipStep == GossipInv /\ [GossipNext]_gossipVars => GossipInv'
<1> SUFFICES ASSUME GossipInv, [GossipNext]_gossipVars
             PROVE  GossipInv'
  BY Zenon
<1>1. CASE \E n \in Nodes, r \in Revokes :
             \E ahead \in {0, Skew} : BroadcastRevoke(n, r, ahead)
  BY <1>1, BroadcastKeeps, Zenon
<1>2. CASE \E n \in Nodes, r \in Revokes : handleRevoke(n, r)
  BY <1>2, HandleKeeps, Zenon
<1>3. CASE \E n \in Nodes, r \in Revokes : applyRevoke(n, r)
  BY <1>3, ApplyKeeps
<1>4. CASE Tick
  <2> USE GossipAssumption DEF GossipInv, GossipSound
  <2>1. /\ now < MaxTime /\ now' = now + 1
        /\ UNCHANGED <<stamp, sent, seen, accepted, handled, applied>>
    BY <1>4, Zenon DEF Tick
  <2>2. GossipTypeOK'
    BY <2>1 DEF GossipTypeOK
  <2>3. HandledOnce' /\ SeenInTime'
    BY <2>1, Zenon DEF HandledOnce, SeenInTime
  <2>4. RememberedWhileFresh'
    BY <2>1 DEF RememberedWhileFresh, GossipTypeOK
  <2> QED
    BY <2>2, <2>3, <2>4, Zenon
<1>5. CASE UNCHANGED gossipVars
  BY <1>5, Zenon
     DEF gossipVars, GossipInv, GossipSound, GossipTypeOK, HandledOnce, SeenInTime,
         RememberedWhileFresh
<1> QED
  BY <1>1, <1>2, <1>3, <1>4, <1>5, Zenon DEF GossipNext

\* However late and often a revocation is delivered, and although revokeSeen is
\* pruned, handleRevoke lets it through at most once per node: the flood of one
\* revocation is at most one broadcast per node.
THEOREM FloodHandledOnce == GossipSpec => []GossipSound
<1>1. GossipInv => GossipSound
  BY Zenon DEF GossipInv
<1> QED
  BY <1>1, GossipStarts, GossipStep, PTL DEF GossipSpec

-----------------------------------------------------------------------------
\* The walk of a lookup.  ClosestWasAsked is not inductive: a round may end it
\* long after the contact was asked, so LookupInv adds that a running round has
\* asked the head of its shortlist (ClosestIsAsked).  Convergence follows the live
\* contacts: they stay in the table (LiveStay), and each that answered has put a
\* closer one there (AnswersLeadOn), so the closest asked one can only be node 1.

\* A nonempty set of contacts has a closest one, which Min picks.
LEMMA MinFacts ==
  ASSUME NEW S, S \subseteq Contacts, S # {}
  PROVE  Min(S) \in S /\ \A y \in S : Min(S) <= y
<1> DEFINE T == {1..n : n \in S}
           R == StrictSubsetOrdering(Nat)
<1>0. S \subseteq Nat /\ \A n \in S : n >= 1
  BY LookupAssumption DEF Contacts
<1>1. \A n \in S : 1..n \in FiniteSubsetsOf(Nat)
  BY <1>0, FS_Interval DEF FiniteSubsetsOf
<1>2. T \subseteq FiniteSubsetsOf(Nat) /\ T # {}
  BY Zenon, <1>1
<1>3. PICK t \in T : \A u \in T : ~(<<u, t>> \in R)
  <2>1. IsWellFoundedOn(R, FiniteSubsetsOf(Nat))
    BY FS_StrictSubsetOrderingWellFounded, Zenon
  <2> HIDE DEF T, R
  <2> QED
    BY <1>2, <2>1, WFMin, Zenon
<1>4. PICK m \in S : t = 1..m
  BY Zenon
<1>5. ASSUME NEW y \in S, y < m
      PROVE  FALSE
  <2>1. 1..y \in T /\ 1..y \subseteq 1..m /\ 1..y # 1..m
    BY <1>0, <1>5
  <2>2. <<1..y, 1..m>> \in R
    BY <1>0, <2>1 DEF StrictSubsetOrdering
  <2> QED
    BY <1>3, <1>4, <2>1, <2>2, Zenon
<1>6. \A y \in S : m <= y
  BY <1>0, <1>5
<1> QED
  BY <1>6, Zenon DEF Min

\* And a farthest one.
LEMMA FarthestContact ==
  ASSUME NEW S, S \subseteq Contacts, S # {}
  PROVE  \E m \in S : \A y \in S : y <= m
<1> DEFINE U == {N + 1 - c : c \in S}
<1>0. N \in Nat /\ \A c \in S : c \in 1..N
  BY LookupAssumption, Zenon DEF Contacts
<1>1. U \subseteq Contacts /\ U # {}
  <2>1. \A c \in S : N + 1 - c \in Contacts
    BY <1>0 DEF Contacts
  <2> QED
    BY <2>1, Zenon
<1>2. Min(U) \in U /\ \A y \in U : Min(U) <= y
  BY <1>1, MinFacts, Zenon
<1>3. PICK m \in S : Min(U) = N + 1 - m
  BY <1>2, Zenon
<1>4. \A y \in S : N + 1 - m <= N + 1 - y
  BY <1>2, <1>3, Zenon
<1> QED
  BY <1>0, <1>4

\* Contacts are positive numbers.
LEMMA ContactsNatural == \A c \in Contacts : c \in Nat /\ c >= 1
BY LookupAssumption DEF Contacts

\* Sets of contacts are finite.
LEMMA ContactsFinite ==
  ASSUME NEW S, S \subseteq Contacts
  PROVE  IsFiniteSet(S) /\ Cardinality(S) \in Nat
<1>1. IsFiniteSet(Contacts)
  BY LookupAssumption, FS_Interval DEF Contacts
<1>2. IsFiniteSet(S)
  BY <1>1, FS_Subset, Zenon
<1> QED
  BY <1>2, FS_CardinalityType, Zenon

\* Closest returns at most n of the contacts it is given, and always the closest.
LEMMA ClosestFacts ==
  ASSUME NEW S, S \subseteq Contacts, NEW n \in Nat \ {0}
  PROVE  /\ Closest(S, n) \subseteq S
         /\ Cardinality(Closest(S, n)) <= n
         /\ S # {} => Min(S) \in Closest(S, n)
<1> DEFINE C == Closest(S, n)
           below(c) == {d \in S : d < c}
<1>0. \A c \in S : c \in Nat
  BY LookupAssumption DEF Contacts
<1>1. C \subseteq S /\ \A c \in S : c \in C <=> Cardinality(below(c)) < n
  BY Zenon DEF Closest
<1>2. S # {} => Min(S) \in C
  <2> SUFFICES ASSUME S # {} PROVE Min(S) \in C
    BY Zenon
  <2>1. Min(S) \in S /\ \A y \in S : Min(S) <= y
    BY MinFacts, Zenon
  <2>2. below(Min(S)) = {}
    <3>1. \A y \in S : ~(y < Min(S))
      BY <1>0, <2>1
    <3> QED
      BY <3>1, Zenon
  <2>3. Cardinality(below(Min(S))) = 0
    BY <2>2, FS_EmptySet, Zenon
  <2> QED
    BY <1>1, <2>1, <2>3
<1>3. CASE C = {}
  BY <1>1, <1>2, <1>3, FS_EmptySet
<1>4. CASE C # {}
  <2>1. PICK m \in C : \A y \in C : y <= m
    BY <1>1, <1>4, FarthestContact, Zenon
  <2>2. C \subseteq below(m) \cup {m}
    <3>1. \A y \in C : y \in S /\ (y < m \/ y = m)
      BY <1>0, <1>1, <2>1
    <3> QED
      BY <3>1, Zenon
  <2>3. IsFiniteSet(below(m)) /\ Cardinality(below(m)) \in Nat /\ Cardinality(below(m)) < n
    BY <1>1, ContactsFinite, Zenon
  <2>4. IsFiniteSet(below(m) \cup {m}) /\ Cardinality(below(m) \cup {m}) <= Cardinality(below(m)) + 1
    BY <2>3, FS_AddElement
  <2>5. Cardinality(C) <= Cardinality(below(m) \cup {m})
    BY <2>2, <2>4, FS_Subset, Zenon
  <2>6. Cardinality(C) \in Nat /\ Cardinality(below(m) \cup {m}) \in Nat
    BY <1>1, <2>4, ContactsFinite, FS_CardinalityType, Zenon
  <2> QED
    BY <1>1, <1>2, <2>3, <2>4, <2>5, <2>6
<1> QED
  BY <1>3, <1>4, Zenon

\* A shortlist and a batch of the closest of a set of contacts.
LEMMA ListFacts ==
  ASSUME NEW S, S \subseteq Contacts
  PROVE  /\ Closest(S, K) \subseteq S /\ Cardinality(Closest(S, K)) <= K
         /\ S # {} => Min(S) \in Closest(S, K)
         /\ Closest(S, Alpha) \subseteq S /\ Cardinality(Closest(S, Alpha)) <= Alpha
         /\ S # {} => Min(S) \in Closest(S, Alpha)
BY LookupAssumption, ClosestFacts, Zenon

\* closestHex of a nonempty shortlist is its closest contact, which is not 0.
LEMMA HeadFacts ==
  ASSUME NEW S, S \subseteq Contacts
  PROVE  /\ S = {} => closestHex(S) = 0
         /\ S # {} => /\ closestHex(S) = Min(S) /\ Min(S) \in S /\ Min(S) # 0
                      /\ Min(S) \in Contacts /\ \A y \in S : Min(S) <= y
<1>1. 0 \notin Contacts
  BY DEF Contacts
<1>2. CASE S = {}
  BY <1>2, Zenon DEF closestHex
<1>3. CASE S # {}
  BY <1>1, <1>3, MinFacts, Zenon DEF closestHex
<1> QED
  BY <1>2, <1>3, Zenon

\* A walk begins with the closest of a table that is not empty.
LEMMA LookupStarts == LookupInit => LookupInv
<1> SUFFICES ASSUME LookupInit PROVE LookupInv
  OBVIOUS
<1> USE LookupAssumption
<1>1. table \subseteq Contacts /\ shortlist = Closest(table, K) /\ phase = "round"
  BY Zenon DEF LookupInit
<1>2. LookupTypeOK
  BY <1>1, ListFacts, FS_EmptySet, Zenon DEF LookupInit, LookupTypeOK
<1> QED
  BY <1>1, <1>2, Zenon DEF LookupInit, LookupInv, LookupSound, ClosestWasAsked, ClosestIsAsked

\* Ask: if anyone of the shortlist is left to ask, the closest one has been asked
\* or is asked now.
LEMMA AskKeeps ==
  ASSUME LookupInv, Ask
  PROVE  LookupInv'
<1> USE DEF LookupInv, LookupSound
<1> DEFINE rest == shortlist \ queried
           next == Closest(rest, Alpha)
<1>1. /\ phase = "round"
      /\ batch' = next /\ queried' = queried \cup next
      /\ phase' = IF next = {} THEN "done" ELSE "asking"
      /\ learned' = {}
      /\ UNCHANGED <<mode, know, holders, table, shortlist, found>>
  BY Zenon DEF Ask
<1>2. rest \subseteq Contacts /\ shortlist \subseteq Contacts
  BY Zenon DEF LookupTypeOK
<1>3. /\ next \subseteq rest /\ Cardinality(next) <= Alpha
      /\ rest # {} => Min(rest) \in next
  BY <1>2, ListFacts, Zenon
<1> HIDE DEF next
<1>4. ASSUME shortlist # {}
      PROVE  closestHex(shortlist) \in queried'
  <2>1. closestHex(shortlist) = Min(shortlist) /\ Min(shortlist) \in shortlist
    BY <1>2, <1>4, HeadFacts, Zenon
  <2>2. CASE Min(shortlist) \in queried
    BY <1>1, <2>1, <2>2, Zenon
  <2>3. CASE Min(shortlist) \notin queried
    <3>1. rest # {} /\ Min(shortlist) \in rest
      BY <2>1, <2>3, Zenon
    <3>2. /\ Min(rest) \in rest /\ Min(rest) <= Min(shortlist)
          /\ Min(shortlist) <= Min(rest)
      BY <1>2, <1>4, <3>1, HeadFacts, Zenon
    <3>3. Min(rest) \in Contacts /\ Min(shortlist) \in Contacts
      BY <1>2, <2>1, <3>2, Zenon
    <3>4. Min(rest) = Min(shortlist)
      BY <3>2, <3>3, ContactsNatural
    <3> QED
      BY <1>1, <1>3, <2>1, <3>1, <3>4, Zenon
  <2> QED
    BY <2>2, <2>3, Zenon
<1>5. LookupTypeOK'
  BY <1>1, <1>2, <1>3, FS_EmptySet, LookupAssumption, Zenon DEF LookupTypeOK
<1>6. ClosestIsAsked' /\ ClosestWasAsked'
  BY <1>1, <1>4, Zenon DEF ClosestIsAsked, ClosestWasAsked, closestHex
<1> QED
  BY <1>1, <1>5, <1>6, Zenon

\* An answer or a failure leaves the shortlist and those who were asked alone.
LEMMA AnswerKeeps ==
  ASSUME LookupInv, NEW c \in Contacts, Answer(c) \/ NoAnswer(c)
  PROVE  LookupInv'
<1> USE DEF LookupInv, LookupSound
<1>1. /\ c \in batch /\ batch' = batch \ {c}
      /\ UNCHANGED <<mode, know, holders, shortlist, queried, phase>>
  BY Zenon DEF Answer, NoAnswer
<1>2. /\ table' \subseteq Contacts
      /\ found' \subseteq holders \cap queried
      /\ learned' \subseteq Contacts
  <2>1. Closest(know[c], K) \subseteq Contacts
    BY LookupAssumption, ListFacts
  <2>2. CASE NoAnswer(c)
    BY <2>2, Zenon DEF NoAnswer, LookupTypeOK
  <2>3. CASE Answer(c) /\ c \in holders
    BY <1>1, <2>3, Zenon DEF Answer, LookupTypeOK, Entered
  <2>4. CASE Answer(c) /\ c \notin holders
    BY <1>1, <2>1, <2>4, Zenon DEF Answer, LookupTypeOK, Entered
  <2> QED
    BY <2>2, <2>3, <2>4, Zenon
<1>3. batch \subseteq Contacts /\ phase = "asking"
  BY <1>1, Zenon DEF LookupTypeOK
<1>4. Cardinality(batch') <= Alpha
  <2>1. Cardinality(batch') <= Cardinality(batch)
    BY <1>1, <1>3, ContactsFinite, FS_Subset, Zenon
  <2>2. Cardinality(batch) \in Nat /\ Cardinality(batch') \in Nat /\ Cardinality(batch) <= Alpha
    BY <1>1, <1>3, ContactsFinite, Zenon DEF LookupTypeOK
  <2> QED
    BY <2>1, <2>2, LookupAssumption
<1>5. LookupTypeOK'
  BY <1>1, <1>2, <1>3, <1>4, Zenon DEF LookupTypeOK
<1>6. ClosestIsAsked' /\ ClosestWasAsked'
  BY <1>1, <1>3, Zenon DEF ClosestIsAsked, ClosestWasAsked, closestHex
<1> QED
  BY <1>1, <1>5, <1>6, Zenon

\* A round that recomputes the shortlist ends the walk only if the head of the old
\* one, which was asked, is the head of the new one too.
LEMMA RoundHead ==
  ASSUME LookupInv, RoundEnds, ~(mode = "value" /\ found # {})
  PROVE  /\ table' = Entered(learned) /\ table' \subseteq Contacts
         /\ shortlist' = Closest(table', K)
         /\ shortlist' \subseteq table' /\ Cardinality(shortlist') <= K
         /\ phase' \in {"done", "round"}
         /\ phase' = "done" /\ shortlist' # {} => closestHex(shortlist') \in queried
<1> USE DEF LookupInv, LookupSound
<1>1. /\ phase = "asking" /\ table' = Entered(learned) /\ shortlist' = Closest(table', K)
      /\ phase' = IF closestHex(shortlist') = closestHex(shortlist) THEN "done" ELSE "round"
  BY Zenon DEF RoundEnds
<1>2. table' \subseteq Contacts
  BY <1>1, Zenon DEF Entered, LookupTypeOK
<1>3. shortlist' \subseteq table' /\ Cardinality(shortlist') <= K
  BY <1>1, <1>2, ListFacts, Zenon
<1>4. ASSUME phase' = "done", shortlist' # {}
      PROVE  closestHex(shortlist') \in queried
  <2>1. closestHex(shortlist') = closestHex(shortlist)
    BY <1>1, <1>4, Zenon
  <2>2. closestHex(shortlist') # 0 /\ shortlist \subseteq Contacts
    BY <1>2, <1>3, <1>4, HeadFacts, Zenon DEF LookupTypeOK
  <2>3. shortlist # {}
    BY <2>1, <2>2, HeadFacts, Zenon
  <2> QED
    BY <1>1, <2>1, <2>3, Zenon DEF ClosestIsAsked
<1> QED
  BY <1>1, <1>2, <1>3, <1>4, Zenon

\* The end of a round keeps LookupInv.
LEMMA RoundKeeps ==
  ASSUME LookupInv, RoundEnds
  PROVE  LookupInv'
<1> USE DEF LookupInv, LookupSound
<1>1. /\ phase = "asking" /\ batch = {}
      /\ UNCHANGED <<mode, know, holders, queried, batch, learned, found>>
  BY Zenon DEF RoundEnds
<1>2. CASE mode = "value" /\ found # {}
  <2>1. phase' = "done" /\ UNCHANGED <<table, shortlist>>
    BY <1>2, Zenon DEF RoundEnds
  <2>2. LookupTypeOK'
    BY <1>1, <2>1, Zenon DEF LookupTypeOK
  <2> QED
    BY <1>1, <1>2, <2>1, <2>2, Zenon DEF ClosestIsAsked, ClosestWasAsked
<1>3. CASE ~(mode = "value" /\ found # {})
  <2>1. /\ table' \subseteq Contacts /\ shortlist' \subseteq table'
        /\ Cardinality(shortlist') <= K /\ phase' \in {"done", "round"}
        /\ phase' = "done" /\ shortlist' # {} => closestHex(shortlist') \in queried
    BY <1>3, RoundHead, Zenon
  <2>2. LookupTypeOK'
    BY <1>1, <2>1, Zenon DEF LookupTypeOK
  <2>3. ClosestIsAsked' /\ ClosestWasAsked'
    BY <1>1, <2>1, Zenon DEF ClosestIsAsked, ClosestWasAsked
  <2> QED
    BY <1>1, <2>2, <2>3, Zenon
<1> QED
  BY <1>2, <1>3, Zenon

\* One step of a walk, or of the table under it, keeps LookupInv.
LEMMA LookupStep == LookupInv /\ [LookupNext]_lookupVars => LookupInv'
<1> SUFFICES ASSUME LookupInv, [LookupNext]_lookupVars
             PROVE  LookupInv'
  BY Zenon
<1>1. CASE Ask
  BY <1>1, AskKeeps
<1>2. CASE RoundEnds
  BY <1>2, RoundKeeps
<1>3. CASE \E c \in Contacts : Answer(c) \/ NoAnswer(c)
  BY <1>3, AnswerKeeps, Zenon
<1>4. ASSUME NEW c \in Churn, TableChanges(c)
      PROVE  LookupInv'
  <2>1. /\ table' \in {table \ {c}, table \cup {c}}
        /\ UNCHANGED <<mode, know, holders, shortlist, queried, batch, learned, found, phase>>
    BY <1>4, Zenon DEF TableChanges
  <2>2. table' \subseteq Contacts
    BY <2>1, LookupAssumption DEF LookupInv, LookupSound, LookupTypeOK
  <2> QED
    BY <2>1, <2>2, Zenon
       DEF LookupInv, LookupSound, LookupTypeOK, ClosestIsAsked, ClosestWasAsked, closestHex
<1>5. CASE UNCHANGED lookupVars
  BY <1>5, Zenon
     DEF lookupVars, LookupInv, LookupSound, LookupTypeOK, ClosestIsAsked, ClosestWasAsked,
         closestHex
<1> QED
  BY <1>1, <1>2, <1>3, <1>4, <1>5, Zenon DEF LookupNext, WalkStep

\* LookupInv holds in every state of a walk.
THEOREM LookupInvariant == LookupSpec => []LookupInv
BY LookupStarts, LookupStep, PTL DEF LookupSpec

\* Whatever the network answers and however the table changes meanwhile, shortlist
\* and batch keep to K and Alpha, values come from holders that were asked, and a
\* get that gives up has asked the closest contact it knew of.
THEOREM LookupStaysSound == LookupSpec => []LookupSound
<1>1. LookupInv => LookupSound
  BY Zenon DEF LookupInv
<1> QED
  BY <1>1, LookupInvariant, PTL

\* The heart of convergence.  Let every asked live contact but node 1 have a
\* contact ahead of it in the table, the live part of which is no closer than the
\* list's head m, and let m have been asked.  Then m is alive, because a contact
\* ahead of anyone is closer than the dead, and m is node 1, because otherwise the
\* table has one closer than m.
LEMMA HeadIsClosest ==
  ASSUME NEW T, T \subseteq Contacts, NEW L, L \subseteq Contacts, L # {},
         NEW Q, Q \subseteq Contacts, Min(L) \in Q,
         \A d \in T \ Dead : \E e \in L : e <= d,
         \A c \in Q \ (Dead \cup {1}) : \E d \in Ahead(c) : d \in T,
         1 \in Q \ Dead => 1 \in L, ~(Q \subseteq Dead)
  PROVE  1 \in L
<1> DEFINE m == Min(L)
<1>1. m \in L /\ m \in Contacts /\ \A y \in L : m <= y
  BY HeadFacts, Zenon
<1> HIDE DEF m
<1>2. \A c \in Q \ (Dead \cup {1}) :
        \E d \in T : d < c /\ m <= d /\ \A e \in Dead : d < e
  <2> SUFFICES ASSUME NEW c \in Q \ (Dead \cup {1})
               PROVE  \E d \in T : d < c /\ m <= d /\ \A e \in Dead : d < e
    BY Zenon
  <2>1. PICK d \in Ahead(c) : d \in T
    BY Zenon
  <2>2. d \notin Dead /\ d < c /\ d \in Contacts /\ \A e \in Dead : d < e
    BY <2>1, Zenon DEF Ahead
  <2>3. PICK e \in L : e <= d
    BY <2>1, <2>2, Zenon
  <2>4. m <= e /\ e \in Contacts
    BY <1>1, <2>3, Zenon
  <2>5. m <= d
    BY <1>1, <2>2, <2>3, <2>4, ContactsNatural
  <2> QED
    BY <2>1, <2>2, <2>5, Zenon
<1>3. PICK c \in Q : c \notin Dead
  BY Zenon
<1>4. CASE c = 1
  BY <1>3, <1>4, Zenon
<1>5. CASE c # 1
  <2>1. PICK d \in T : m <= d /\ \A e \in Dead : d < e
    BY <1>2, <1>3, <1>5, Zenon
  <2>2. m \notin Dead
    BY <1>1, <2>1, ContactsNatural
  <2>3. CASE m = 1
    BY <1>1, <2>3, Zenon
  <2>4. CASE m # 1
    <3>1. m \in Q \ (Dead \cup {1})
      BY <2>2, <2>4, Zenon DEF m
    <3>2. PICK x \in T : x < m /\ m <= x
      BY <1>2, <3>1, Zenon
    <3> QED
      BY <1>1, <3>2, ContactsNatural
  <2> QED
    BY <2>3, <2>4, Zenon
<1> QED
  BY <1>4, <1>5, Zenon

\* A list of the K closest of a table is no farther than any of the table, and
\* has node 1 if the table has it.
LEMMA ListLeads ==
  ASSUME NEW T, T \subseteq Contacts
  PROVE  /\ \A d \in T : \E e \in Closest(T, K) : e <= d
         /\ 1 \in T => 1 \in Closest(T, K)
<1>1. ASSUME NEW d \in T
      PROVE  Min(T) \in Closest(T, K) /\ Min(T) <= d /\ Min(T) \in Contacts
  BY <1>1, ListFacts, HeadFacts, Zenon
<1>2. 1 \in T => Min(T) = 1
  BY <1>1, ContactsNatural
<1> QED
  BY <1>1, <1>2, Zenon

\* A walk has asked nobody when it begins.
LEMMA WalkStarts == LookupInit => WalkInv
<1> SUFFICES ASSUME LookupInit PROVE WalkInv
  BY Zenon
<1>1. LookupInv
  BY LookupStarts
<1>2. /\ table \subseteq Contacts /\ shortlist = Closest(table, K)
      /\ phase = "round" /\ queried = {}
  BY Zenon DEF LookupInit
<1>3. shortlist \subseteq table
  BY <1>2, ListFacts, Zenon
<1>4. LiveStay
  BY <1>2, <1>3, ListLeads, Zenon DEF LiveStay
<1> QED
  BY <1>1, <1>2, <1>4, Zenon DEF WalkInv, AnswersLeadOn, ConvergesToClosest

\* Ask ends a walk only if the whole shortlist was asked.
LEMMA WalkAsks ==
  ASSUME WalkInv, Ask
  PROVE  LiveStay' /\ AnswersLeadOn' /\ ConvergesToClosest'
<1> USE DEF WalkInv, LookupInv, LookupSound
<1> DEFINE rest == shortlist \ queried
           next == Closest(rest, Alpha)
<1>1. /\ phase = "round"
      /\ batch' = next /\ queried' = queried \cup next
      /\ phase' = IF next = {} THEN "done" ELSE "asking"
      /\ UNCHANGED <<mode, table, shortlist>>
  BY Zenon DEF Ask
<1>2. /\ rest \subseteq Contacts /\ shortlist \subseteq Contacts /\ table \subseteq Contacts
      /\ queried \subseteq Contacts /\ batch = {}
  BY <1>1, Zenon DEF LookupTypeOK
<1>3. next \subseteq rest /\ (rest # {} => next # {})
  BY <1>2, ListFacts, Zenon
<1> HIDE DEF next
<1>4. LiveStay'
  BY <1>1, <1>3, Zenon DEF LiveStay
<1>5. mode = "node" => \A c \in queried \ (Dead \cup {1}) : \E d \in Ahead(c) : d \in table
  BY <1>1, <1>2, Zenon DEF AnswersLeadOn
<1>6. AnswersLeadOn'
  BY <1>1, <1>5, Zenon DEF AnswersLeadOn
<1>7. ConvergesToClosest'
  <2> SUFFICES ASSUME phase' = "done", mode = "node", ~(queried' \subseteq Dead)
               PROVE  1 \in shortlist
    BY <1>1, Zenon DEF ConvergesToClosest
  <2>1. shortlist \subseteq queried /\ queried' = queried
    BY <1>1, <1>3, Zenon
  <2>2. shortlist # {}
    BY <2>1, Zenon DEF LiveStay
  <2>3. Min(shortlist) \in queried
    BY <1>2, <2>1, <2>2, HeadFacts, Zenon
  <2>4. /\ \A d \in table \ Dead : \E e \in shortlist : e <= d
        /\ 1 \in queried \ Dead => 1 \in shortlist
    BY Zenon DEF LiveStay
  <2> QED
    BY <1>2, <1>5, <2>1, <2>2, <2>3, <2>4, HeadIsClosest, ZenonT(40)
<1> QED
  BY <1>4, <1>6, <1>7, Zenon

\* The end of a round puts what was learned into the table.
LEMMA WalkRounds ==
  ASSUME WalkInv, RoundEnds
  PROVE  LiveStay' /\ AnswersLeadOn' /\ ConvergesToClosest'
<1> USE DEF WalkInv
<1>1. phase = "asking" /\ batch = {} /\ UNCHANGED <<mode, queried, batch, learned, found>>
  BY Zenon DEF RoundEnds
<1>2. CASE mode = "value" /\ found # {}
  <2>1. phase' = "done" /\ UNCHANGED <<table, shortlist>>
    BY <1>2, Zenon DEF RoundEnds
  <2>2. LiveStay'
    BY <1>1, <2>1, Zenon DEF LiveStay
  <2> QED
    BY <1>1, <1>2, <2>2, Zenon DEF AnswersLeadOn, ConvergesToClosest
<1>3. CASE ~(mode = "value" /\ found # {})
  <2>1. /\ table' = Entered(learned) /\ table' \subseteq Contacts
        /\ shortlist' = Closest(table', K) /\ shortlist' \subseteq table'
        /\ phase' \in {"done", "round"}
        /\ phase' = "done" /\ shortlist' # {} => closestHex(shortlist') \in queried
    BY <1>3, RoundHead, Zenon
  <2>2. table \subseteq table' /\ learned \ Full \subseteq table'
    BY <2>1, Zenon DEF Entered
  <2>3. /\ \A d \in table' : \E e \in shortlist' : e <= d
        /\ 1 \in table' => 1 \in shortlist'
    BY <2>1, ListLeads, Zenon
  <2>4. LiveStay'
    BY <1>1, <2>1, <2>2, <2>3, Zenon DEF LiveStay
  <2>5. mode = "node" => \A c \in queried \ (Dead \cup {1}) : \E d \in Ahead(c) : d \in table'
    BY <1>1, <2>2, Zenon DEF AnswersLeadOn, Ahead
  <2>6. AnswersLeadOn'
    BY <1>1, <2>5, Zenon DEF AnswersLeadOn
  <2>7. ASSUME phase' = "done", mode = "node", ~(queried \subseteq Dead)
        PROVE  1 \in shortlist'
    <3>1. shortlist' # {} /\ queried \subseteq Contacts /\ shortlist' \subseteq Contacts
      BY <1>1, <2>1, <2>4, <2>7, Zenon DEF LiveStay, LookupInv, LookupSound, LookupTypeOK
    <3>2. Min(shortlist') \in queried
      BY <2>1, <2>7, <3>1, HeadFacts, Zenon
    <3>3. /\ \A d \in table' \ Dead : \E e \in shortlist' : e <= d
          /\ 1 \in queried \ Dead => 1 \in shortlist'
      BY <1>1, <2>4, Zenon DEF LiveStay
    <3>4. table' \subseteq Contacts /\ ~(queried \subseteq Dead)
      BY <2>1, <2>7, Zenon
    <3>5. \A c \in queried \ (Dead \cup {1}) : \E d \in Ahead(c) : d \in table'
      BY <2>5, <2>7, Zenon
    <3> QED
      BY <3>1, <3>2, <3>3, <3>4, <3>5, HeadIsClosest, Zenon
  <2> QED
    BY <1>1, <2>4, <2>6, <2>7, Zenon DEF ConvergesToClosest
<1> QED
  BY <1>2, <1>3, Zenon

\* An answer leaves the table as it was, for a live contact that was asked is in
\* it, and names a contact ahead of the one that answers.
LEMMA WalkAnswers ==
  ASSUME WalkInv, ProgressiveNetworks, NEW c \in Contacts, Answer(c) \/ NoAnswer(c)
  PROVE  LiveStay' /\ AnswersLeadOn' /\ ConvergesToClosest'
<1> USE DEF WalkInv, LookupInv, LookupSound
<1>1. /\ c \in batch /\ batch' = batch \ {c}
      /\ UNCHANGED <<mode, know, holders, shortlist, queried, phase>>
  BY Zenon DEF Answer, NoAnswer
<1>2. c \in queried /\ phase = "asking" /\ batch \subseteq queried
  BY <1>1, Zenon DEF LookupTypeOK
<1>3. UNCHANGED table
  <2>1. CASE NoAnswer(c)
    BY <2>1, Zenon DEF NoAnswer
  <2>2. CASE Answer(c)
    BY <1>2, <2>2, Zenon DEF Answer, Entered, LiveStay
  <2> QED
    BY <2>1, <2>2, Zenon
<1>4. LiveStay' /\ ConvergesToClosest'
  BY <1>1, <1>2, <1>3, Zenon DEF LiveStay, ConvergesToClosest
<1>5. learned \subseteq learned'
  <2>1. learned' = learned \/ learned' = learned \cup Closest(know[c], K)
    BY Zenon DEF Answer, NoAnswer
  <2> QED
    BY <2>1, Zenon
<1>6. ASSUME mode = "node", c \notin Dead \cup {1}
      PROVE  \E d \in Ahead(c) : d \in learned'
  <2>1. Answer(c) /\ c \notin holders
    BY <1>6, Zenon DEF NoAnswer
  <2>2. learned' = learned \cup Closest(know[c], K)
    BY <2>1, Zenon DEF Answer
  <2>3. Closest(know[c], K) \cap Ahead(c) # {}
    BY <1>6, Zenon DEF ProgressiveNetworks
  <2> QED
    BY <2>2, <2>3, Zenon
<1>7. AnswersLeadOn'
  <2> SUFFICES ASSUME mode = "node", NEW x \in queried \ (batch' \cup Dead \cup {1})
               PROVE  \E d \in Ahead(x) : d \in table \/ d \in learned'
    BY <1>1, <1>2, <1>3, Zenon DEF AnswersLeadOn
  <2>1. CASE x = c
    BY <1>6, <2>1, Zenon
  <2>2. CASE x # c
    BY <1>1, <1>5, <2>2, Zenon DEF AnswersLeadOn
  <2> QED
    BY <2>1, <2>2, Zenon
<1> QED
  BY <1>4, <1>7, Zenon

\* One step keeps WalkInv in a progressive network.
LEMMA WalkSteps ==
  ASSUME ProgressiveNetworks, WalkInv, [LookupNext]_lookupVars
  PROVE  WalkInv'
<1>0. LookupInv'
  BY LookupStep, Zenon DEF WalkInv
<1> SUFFICES LiveStay' /\ AnswersLeadOn' /\ ConvergesToClosest'
  BY <1>0, Zenon DEF WalkInv
<1>1. CASE Ask
  BY <1>1, WalkAsks, Zenon
<1>2. CASE RoundEnds
  BY <1>2, WalkRounds
<1>3. CASE \E c \in Contacts : Answer(c) \/ NoAnswer(c)
  BY <1>3, WalkAnswers, Zenon
<1>4. ASSUME NEW c \in Churn, TableChanges(c)
      PROVE  LiveStay' /\ AnswersLeadOn' /\ ConvergesToClosest'
  <2>1. /\ table' \in {table \ {c}, table \cup {c}} /\ phase # "done"
        /\ UNCHANGED <<mode, shortlist, queried, batch, learned, phase>>
    BY <1>4, Zenon DEF TableChanges
  <2>2. \A d : d \notin Dead => (d \in table' <=> d \in table)
    BY <2>1, Zenon DEF ProgressiveNetworks
  <2>3. LiveStay'
    BY <2>1, <2>2, Zenon DEF WalkInv, LiveStay
  <2>4. AnswersLeadOn'
    BY <2>1, <2>2, Zenon DEF WalkInv, AnswersLeadOn, Ahead
  <2> QED
    BY <2>1, <2>3, <2>4, Zenon DEF ConvergesToClosest
<1>5. CASE UNCHANGED lookupVars
  BY <1>5, Zenon DEF lookupVars, WalkInv, LiveStay, AnswersLeadOn, ConvergesToClosest
<1> QED
  BY <1>1, <1>2, <1>3, <1>4, <1>5, Zenon DEF LookupNext, WalkStep

\* In every progressive network, of any size and with any dead contacts, a walk
\* that asked a live contact ends with the node closest to the target in its list.
THEOREM WalkConverges ==
  ASSUME ProgressiveNetworks
  PROVE  LookupSpec => []ConvergesToClosest
<1>1. WalkInv => ConvergesToClosest
  BY Zenon DEF WalkInv
<1>2. WalkInv /\ [LookupNext]_lookupVars => WalkInv'
  BY WalkSteps
<1> QED
  BY <1>1, <1>2, WalkStarts, PTL DEF LookupSpec
=============================================================================
