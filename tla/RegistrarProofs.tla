-------------------------- MODULE RegistrarProofs ---------------------------
(***************************************************************************)
(* The safety of the registrar's name records, for any number of names,    *)
(* nodes, records and restarts, and any TTL that is not below the          *)
(* republish interval.  Neither property is inductive.  That a superseded  *)
(* record stops resolving rests on the versions and the timestamps of all  *)
(* records, stored or on their way, being in the same order                *)
(* (VersionsInOrder); that names stay alive rests on where the newest      *)
(* record of each registered name is between two walks (PublishedFresh,    *)
(* RegisteredFresh).                                                       *)
(***************************************************************************)
EXTENDS Registrar, WellFoundedInduction, TLAPS

\* Every nonempty set of naturals has a least element.
LEMMA LeastElement ==
  ASSUME NEW P, P \subseteq Nat, P # {}
  PROVE  \E i \in P : \A j \in P : i <= j
<1> DEFINE R == OpToRel(<, Nat)
<1>1. IsWellFoundedOn(R, Nat)
  BY NatLessThanWellFounded, Zenon
<1>2. \A i, j \in Nat : i < j => <<i, j>> \in R
  BY Zenon DEF OpToRel
<1> HIDE DEF R
<1>3. PICK i \in P : \A j \in P : ~(<<j, i>> \in R)
  BY <1>1, WFMin, Zenon
<1>4. \A j \in P : i \in Nat /\ j \in Nat /\ ~(j < i)
  BY <1>2, <1>3, Zenon
<1> QED
  BY <1>4

\* A record that is not expired at time t is younger than one that is.
LEMMA Younger ==
  ASSUME NEW t \in Nat, NEW ttl \in Nat, NEW a \in Nat, NEW b \in Nat,
         ~(t > a + ttl), t > b + ttl
  PROVE  ~(a <= b)
OBVIOUS

-----------------------------------------------------------------------------
\* The fields of a publication, the idle one included.
LEMMA PubFields ==
  ASSUME RegistrarTypeOK, NEW w \in Workers
  PROVE  /\ pub[w] \in Publications
         /\ pub[w].name \in Names \cup {None} /\ pub[w].rec \in Records
         /\ pub[w].first \in Nodes /\ pub[w].todo \subseteq Nodes
         /\ pub[w] # Idle => pub[w].name \in Names
         /\ pub[w].todo # {} => pub[w] # Idle
<1>1. pub[w] \in Publications /\ (pub[w] # Idle => pub[w].name # None)
  BY DEF RegistrarTypeOK
<1>2. Idle.todo = {}
  BY DEF Idle
<1> QED
  BY <1>1, <1>2 DEF Publications

\* The fields of a record.
LEMMA RecordFields ==
  ASSUME NEW r \in Records
  PROVE  r.version \in Nat /\ r.ts \in Nat /\ r.version <= MaxPublish /\ r.ts <= MaxTime
BY RegistrarAssumption DEF Records

\* The idle publication, and what it is not.
LEMMA IdleFits ==
  /\ Idle \in Publications /\ Idle.name = None /\ Idle.todo = {} /\ Idle.rec = NoRecord
  /\ NoRecord \in Records /\ NoRecord.version = 0 /\ NoRecord.ts = 0
BY RegistrarAssumption DEF Idle, NoRecord, Publications, Records, Nodes

\* What is in Kept is a record, what is stored or on its way is in Kept.
LEMMA KeptRecords ==
  ASSUME RegistrarTypeOK
  PROVE  /\ \A a \in Kept : a \in Records /\ a.version \in Nat /\ a.ts \in Nat
         /\ \A x \in Nodes, n \in Names : holds[x][n] \in Kept
         /\ \A w \in Workers : pub[w].rec \in Kept
         /\ NoRecord \in Kept
<1>1. \A x \in Nodes, n \in Names : holds[x][n] \in Records
  BY DEF RegistrarTypeOK
<1>2. \A w \in Workers : pub[w].rec \in Records
  BY PubFields
<1>3. \A a \in Kept : a \in Records
  BY <1>1, <1>2, IdleFits DEF Kept
<1> QED
  BY <1>3, RecordFields DEF Kept

\* A step that stores nothing and publishes only what is in Kept adds nothing to it.
LEMMA KeptStays ==
  ASSUME holds' = holds, \A w \in Workers : pub'[w].rec \in Kept
  PROVE  Kept' \subseteq Kept
BY DEF Kept

\* A step that brings no new record keeps the order of versions and timestamps,
LEMMA OrderStays ==
  ASSUME RegistrarTypeOK, VersionsInOrder, Kept' \subseteq Kept,
         signed' = signed, now' \in Nat, now' >= now
  PROVE  VersionsInOrder'
<1>1. \A a \in Kept : a.version <= signed /\ a.ts <= now /\ a.ts \in Nat
  BY KeptRecords DEF VersionsInOrder
<1>2. now \in Nat
  BY DEF RegistrarTypeOK
<1>3. \A a \in Kept' : a.version <= signed' /\ a.ts <= now'
  BY <1>1, <1>2
<1>4. \A a, b \in Kept' : a.version <= b.version => a.ts <= b.ts
  BY DEF VersionsInOrder
<1> QED
  BY <1>3, <1>4 DEF VersionsInOrder

\* and so does one that brings a record signed now.
LEMMA OrderGrows ==
  ASSUME RegistrarTypeOK, VersionsInOrder, NEW r, r.version = signed + 1, r.ts = now,
         Kept' \subseteq Kept \cup {r}, signed' = signed + 1, now' = now
  PROVE  VersionsInOrder'
<1>1. signed \in Nat /\ now \in Nat
  BY DEF RegistrarTypeOK
<1>2. \A a \in Kept : a.version <= signed /\ a.ts <= now /\ a.version \in Nat /\ a.ts \in Nat
  BY KeptRecords DEF VersionsInOrder
<1>3. \A a \in Kept' : a.version <= signed' /\ a.ts <= now'
  BY <1>1, <1>2
<1>4. \A a, b \in Kept' : a.version <= b.version => a.ts <= b.ts
  <2> SUFFICES ASSUME NEW a \in Kept', NEW b \in Kept', a.version <= b.version
               PROVE  a.ts <= b.ts
    OBVIOUS
  <2>1. CASE a \in Kept /\ b \in Kept
    BY <2>1 DEF VersionsInOrder
  <2>2. CASE a \in Kept /\ b = r
    BY <1>2, <2>2
  <2>3. CASE a = r /\ b \in Kept
    BY <1>1, <1>2, <2>3
  <2>4. CASE a = r /\ b = r
    BY <1>1, <2>4
  <2> QED
    BY <2>1, <2>2, <2>3, <2>4
<1> QED
  BY <1>3, <1>4 DEF VersionsInOrder

-----------------------------------------------------------------------------
\* dht.Store begins: worker w has the record to give to every node.
LEMMA Started ==
  ASSUME RegistrarTypeOK, NEW w \in Workers, NEW n \in Names, NEW rec \in Records,
         NEW x \in Nodes, StartPublish(w, n, rec, x)
  PROVE  /\ pub' \in [Workers -> Publications]
         /\ pub'[w].name = n /\ pub'[w].rec = rec /\ pub'[w].first = x
         /\ pub'[w].todo = Nodes /\ pub'[w] # Idle
         /\ \A v \in Workers \ {w} : pub'[v] = pub[v]
<1> DEFINE p == [name |-> n, rec |-> rec, first |-> x, todo |-> Nodes]
<1>1. p \in Publications
  BY DEF Publications
<1>2. p.name = n /\ p.rec = rec /\ p.first = x /\ p.todo = Nodes
  OBVIOUS
<1>3. p # Idle
  BY <1>2, IdleFits, RegistrarAssumption
<1>4. pub' = [pub EXCEPT ![w] = p] /\ pub \in [Workers -> Publications]
  BY DEF StartPublish, RegistrarTypeOK
<1> HIDE DEF p
<1> QED
  BY <1>1, <1>2, <1>3, <1>4

\* PublishWithTTL by the handler or the walk: worker w signs r for n and begins to
\* store it.
Signs(w, n, r) ==
  /\ pub[w] = Idle /\ signed < MaxPublish /\ (w = "walk" => walking)
  /\ StartPublish(w, n, SignedRecord(r), Self)
  /\ signed' = signed + 1
  /\ clobbered' = clobbered \ {n}
  /\ UNCHANGED <<now, registry, disk, holds, snapshot, walking, due, crashes, answered>>

\* The new record is the newest of all, and it comes to the registrar.
LEMMA SignsKeep ==
  ASSUME RegistrarInv, NEW w \in Signers, NEW n \in Names, NEW r \in Roots, Signs(w, n, r)
  PROVE  RegistrarInv'
<1> USE DEF RegistrarInv
<1> DEFINE rec == SignedRecord(r)
<1>0. w \in Workers /\ Self \in Nodes /\ Signers \subseteq Workers
  BY DEF Signers, Workers, Nodes
<1>1. /\ pub[w] = Idle /\ signed < MaxPublish /\ (w = "walk" => walking)
      /\ StartPublish(w, n, rec, Self)
      /\ signed' = signed + 1 /\ clobbered' = clobbered \ {n}
      /\ UNCHANGED <<now, registry, disk, holds, snapshot, walking, due, crashes, answered>>
  BY DEF Signs
<1>2. /\ rec \in Records /\ rec.version = signed + 1 /\ rec.ts = now /\ rec.version > 0
      /\ signed' \in 0..MaxPublish
  BY <1>1, RegistrarAssumption DEF SignedRecord, Records, RegistrarTypeOK
<1> HIDE DEF rec
<1>3. /\ pub' \in [Workers -> Publications]
      /\ pub'[w].name = n /\ pub'[w].rec = rec /\ pub'[w].first = Self
      /\ pub'[w].todo = Nodes /\ pub'[w] # Idle
      /\ \A v \in Workers \ {w} : pub'[v] = pub[v]
  BY <1>0, <1>1, <1>2, Started, Zenon
<1>4. RegistrarTypeOK'
  BY <1>0, <1>1, <1>2, <1>3, RegistrarAssumption DEF RegistrarTypeOK, Workers
<1>5. VersionsInOrder'
  <2>1. Kept' \subseteq Kept \cup {rec}
    BY <1>1, <1>3 DEF Kept
  <2> QED
    BY <1>1, <1>2, <2>1, OrderGrows
<1>6. SignersFit'
  BY <1>0, <1>1, <1>2, <1>3, Zenon DEF SignersFit
<1>7. Coming(n)'
  BY <1>0, <1>3 DEF Coming
<1>8. \A m : (Coming(m) => Coming(m)') /\ (Fresh(m) => Fresh(m)')
  BY <1>0, <1>1, <1>3, IdleFits, Zenon DEF Coming, Fresh
<1>9. PublishedFresh'
  <2> SUFFICES ASSUME NEW v \in Signers, NEW m \in Names \ clobbered', pub'[v].name = m
               PROVE  Coming(m)' \/ Fresh(m)'
    BY DEF PublishedFresh
  <2>1. CASE m = n
    BY <1>7, <2>1
  <2>2. CASE m # n
    <3>1. pub[v].name = m /\ m \notin clobbered
      BY <1>0, <1>1, <1>3, <2>2, Zenon
    <3> QED
      BY <1>8, <3>1 DEF PublishedFresh
  <2> QED
    BY <2>1, <2>2
<1>10. RegisteredFresh'
  <2> SUFFICES ASSUME NEW m \in Names \ clobbered', registry[m] # None, now < due
               PROVE  Coming(m)' \/ Fresh(m)' \/ (walking /\ snapshot[m] # None)
    BY <1>1, Zenon DEF RegisteredFresh
  <2>1. CASE m = n
    BY <1>7, <2>1
  <2>2. CASE m # n
    BY <1>1, <1>8, <2>2, Zenon DEF RegisteredFresh
  <2> QED
    BY <2>1, <2>2
<1> QED
  BY <1>4, <1>5, <1>6, <1>9, <1>10

\* handleRegister, handleUpdate and the walk sign in this way.
LEMMA RequestSigns ==
  ASSUME RegistrarInv, NEW n \in Names, NEW r \in Roots, Register(n, r) \/ Update(n, r)
  PROVE  RegistrarInv'
<1>1. Signs("handler", n, r)
  BY Zenon DEF Register, Update, Request, LockFree, Signs
<1>2. "handler" \in Signers
  BY DEF Signers
<1> QED
  BY <1>1, <1>2, SignsKeep

\* republishAll signs a copy of what it read from the registry.
LEMMA WalkSigns ==
  ASSUME RegistrarInv, NEW n \in Names, WalkPublish(n)
  PROVE  RegistrarInv'
<1>1. Signs("walk", n, snapshot[n])
  BY Zenon DEF WalkPublish, Signs
<1>2. "walk" \in Signers
  BY DEF Signers
<1>3. snapshot[n] \in Roots
  BY DEF WalkPublish, RegistrarInv, RegistrarTypeOK
<1> QED
  BY <1>1, <1>2, <1>3, SignsKeep

-----------------------------------------------------------------------------
\* A worker takes x off its list; the rest of its publication is as it was.
LEMMA TodoFields ==
  ASSUME RegistrarTypeOK, NEW w \in Workers, NEW x, pub' = [pub EXCEPT ![w].todo = @ \ {x}]
  PROVE  /\ pub' \in [Workers -> Publications]
         /\ \A v \in Workers \ {w} : pub'[v] = pub[v]
         /\ \A v \in Workers : /\ pub'[v].name = pub[v].name /\ pub'[v].rec = pub[v].rec
                               /\ pub'[v].first = pub[v].first
         /\ pub'[w].todo = pub[w].todo \ {x}
<1>1. pub[w] \in Publications /\ pub \in [Workers -> Publications]
  BY DEF RegistrarTypeOK
<1>2. PICK p : p = [pub[w] EXCEPT !.todo = pub[w].todo \ {x}]
  BY Zenon
<1>3. /\ p \in Publications /\ p.name = pub[w].name /\ p.rec = pub[w].rec
      /\ p.first = pub[w].first /\ p.todo = pub[w].todo \ {x}
  BY <1>1, <1>2 DEF Publications
<1>4. pub' = [pub EXCEPT ![w] = p]
  BY <1>2
<1> QED
  BY <1>1, <1>3, <1>4

\* handleStore at x: a record replaces what x had.  If it is older than that the
\* name counts as clobbered; otherwise the registrar's copy only gets fresher.
LEMMA DeliverKeeps ==
  ASSUME RegistrarInv, NEW w \in Workers, NEW x \in Nodes, Deliver(w, x)
  PROVE  RegistrarInv'
<1> USE DEF RegistrarInv
<1> DEFINE n == pub[w].name
           rec == pub[w].rec
<1>0. Self \in Nodes /\ Signers \subseteq Workers
  BY DEF Signers, Workers, Nodes
<1>1. /\ x \in pub[w].todo
      /\ holds' = [holds EXCEPT ![x][n] = rec]
      /\ pub' = [pub EXCEPT ![w].todo = @ \ {x}]
      /\ UNCHANGED <<now, signed, registry, disk, snapshot, walking, due, crashes, answered>>
  BY DEF Deliver
<1>2. clobbered' = IF holds[x][n].version > rec.version THEN clobbered \cup {n} ELSE clobbered
  BY DEF Deliver
<1>3. pub[w] # Idle /\ n \in Names /\ rec \in Records /\ rec \in Kept
  BY <1>1, PubFields, KeptRecords
<1>4. /\ pub' \in [Workers -> Publications]
      /\ \A v \in Workers \ {w} : pub'[v] = pub[v]
      /\ \A v \in Workers : /\ pub'[v].name = pub[v].name /\ pub'[v].rec = pub[v].rec
                            /\ pub'[v].first = pub[v].first
      /\ pub'[w].todo = pub[w].todo \ {x}
  BY <1>1, TodoFields, Zenon
<1>5. \A v \in Workers : pub'[v] # Idle => pub[v] # Idle
  BY <1>3, <1>4, Zenon
<1> HIDE DEF n, rec
<1>6. /\ holds' \in [Nodes -> [Names -> Records]]
      /\ \A y \in Nodes, m \in Names :
           holds'[y][m] = IF y = x /\ m = n THEN rec ELSE holds[y][m]
  BY <1>1, <1>3 DEF RegistrarTypeOK
<1>7. clobbered \subseteq clobbered' /\ clobbered' \subseteq Names
  BY <1>2, <1>3, Zenon DEF RegistrarTypeOK
<1>8. RegistrarTypeOK'
  <2>1. \A v \in Workers : pub'[v] # Idle => pub'[v].name # None
    BY <1>4, <1>5, Zenon DEF RegistrarTypeOK
  <2>2. pub'["walk"] # Idle => walking'
    BY <1>1, <1>5, Zenon DEF RegistrarTypeOK, Workers
  <2> QED
    BY <1>1, <1>4, <1>6, <1>7, <2>1, <2>2, Zenon DEF RegistrarTypeOK
<1>9. VersionsInOrder'
  <2>1. \A y \in Nodes, m \in Names : holds'[y][m] \in Kept
    BY <1>3, <1>6, KeptRecords, Zenon
  <2>2. \A v \in Workers : pub'[v].rec \in Kept
    BY <1>4, KeptRecords, Zenon
  <2>3. Kept' \subseteq Kept
    BY <2>1, <2>2 DEF Kept
  <2> QED
    BY <1>1, <2>3, OrderStays DEF RegistrarTypeOK
<1>10. SignersFit'
  BY <1>0, <1>1, <1>4, <1>5 DEF SignersFit
<1>11. ASSUME NEW m \in Names \ clobbered', Coming(m) \/ Fresh(m)
       PROVE  Coming(m)' \/ Fresh(m)'
  <2>0. now \in Nat /\ due \in Nat /\ Interval \in Nat
    BY RegistrarAssumption DEF RegistrarTypeOK
  <2>1. CASE ~(x = Self /\ m = n)
    <3>1. Fresh(m) => Fresh(m)'
      BY <1>0, <1>1, <1>6, <2>1 DEF Fresh
    <3>2. ASSUME NEW v \in Signers, pub[v].name = m, Self \in pub[v].todo
          PROVE  pub'[v].name = m /\ Self \in pub'[v].todo
      BY <1>0, <1>4, <2>1, <3>2, Zenon DEF n
    <3> QED
      BY <1>11, <3>1, <3>2 DEF Coming
  <2>2. CASE x = Self /\ m = n
    <3>1. holds'[Self][m] = rec
      BY <1>0, <1>6, <2>2
    <3>2. /\ holds[Self][n] \in Kept /\ holds[Self][n].version \in Nat
          /\ holds[Self][n].ts \in Nat /\ rec.version \in Nat /\ rec.ts \in Nat
      BY <1>0, <1>3, KeptRecords, Zenon
    <3>3. holds[Self][n].version <= rec.version
      BY <1>2, <2>2, <3>2
    <3>4. holds[Self][n].ts <= rec.ts
      BY <1>3, <3>2, <3>3, Zenon DEF VersionsInOrder
    <3>5. CASE Fresh(m)
      BY <1>1, <2>0, <2>2, <3>1, <3>2, <3>3, <3>4, <3>5, RegistrarAssumption DEF Fresh
    <3>6. CASE Coming(m)
      <4>1. PICK v \in Signers : pub[v].name = m /\ Self \in pub[v].todo
        BY <3>6 DEF Coming
      <4>2. CASE v = w
        <5>1. rec.ts = now /\ rec.version > 0 /\ due <= now + Interval
          BY <1>3, <4>2, Zenon DEF SignersFit, rec
        <5> QED
          BY <1>1, <2>0, <3>1, <3>2, <5>1, Zenon DEF Fresh
      <4>3. CASE v # w
        BY <1>0, <1>4, <4>1, <4>3, Zenon DEF Coming
      <4> QED
        BY <4>2, <4>3, Zenon
    <3> QED
      BY <1>11, <3>5, <3>6
  <2> QED
    BY <2>1, <2>2
<1>12. PublishedFresh'
  <2> SUFFICES ASSUME NEW v \in Signers, NEW m \in Names \ clobbered', pub'[v].name = m
               PROVE  Coming(m)' \/ Fresh(m)'
    BY Zenon DEF PublishedFresh
  <2> QED
    BY <1>0, <1>4, <1>7, <1>11, Zenon DEF PublishedFresh
<1>13. RegisteredFresh'
  <2> SUFFICES ASSUME NEW m \in Names \ clobbered', registry[m] # None, now < due
               PROVE  Coming(m)' \/ Fresh(m)' \/ (walking /\ snapshot[m] # None)
    BY <1>1 DEF RegisteredFresh
  <2> QED
    BY <1>7, <1>11, Zenon DEF RegisteredFresh
<1> QED
  BY <1>8, <1>9, <1>10, <1>12, <1>13

\* A store to a peer that is lost changes nothing but the worker's list; the
\* registrar itself always gets the record.
LEMMA LoseKeeps ==
  ASSUME RegistrarInv, NEW w \in Workers, NEW x \in Nodes, Lose(w, x)
  PROVE  RegistrarInv'
<1> USE DEF RegistrarInv
<1>0. Self \in Nodes /\ Signers \subseteq Workers
  BY DEF Signers, Workers, Nodes
<1>1. /\ x \in pub[w].todo /\ pub[w].first \notin pub[w].todo
      /\ pub' = [pub EXCEPT ![w].todo = @ \ {x}]
      /\ UNCHANGED <<now, signed, registry, disk, holds, snapshot, walking, due, crashes,
                     answered, clobbered>>
  BY DEF Lose
<1>2. pub[w] # Idle
  BY <1>1, PubFields
<1>3. /\ pub' \in [Workers -> Publications]
      /\ \A v \in Workers \ {w} : pub'[v] = pub[v]
      /\ \A v \in Workers : /\ pub'[v].name = pub[v].name /\ pub'[v].rec = pub[v].rec
                            /\ pub'[v].first = pub[v].first
      /\ pub'[w].todo = pub[w].todo \ {x}
  BY <1>1, TodoFields, Zenon
<1>4. \A v \in Workers : pub'[v] # Idle => pub[v] # Idle
  BY <1>2, <1>3
<1>5. RegistrarTypeOK'
  <2>1. \A v \in Workers : pub'[v] # Idle => pub'[v].name # None
    BY <1>3, <1>4 DEF RegistrarTypeOK
  <2>2. pub'["walk"] # Idle => walking'
    BY <1>1, <1>4, Zenon DEF RegistrarTypeOK, Workers
  <2> QED
    BY <1>1, <1>3, <2>1, <2>2, Zenon DEF RegistrarTypeOK
<1>6. VersionsInOrder'
  <2>1. Kept' \subseteq Kept
    BY <1>1, <1>3 DEF Kept
  <2> QED
    BY <1>1, <2>1, OrderStays DEF RegistrarTypeOK
<1>7. SignersFit'
  BY <1>0, <1>1, <1>3, <1>4 DEF SignersFit
<1>8. \A m : (Coming(m) => Coming(m)') /\ (Fresh(m) => Fresh(m)')
  <2>1. \A v \in Signers : Self \in pub[v].todo => Self \in pub'[v].todo
    BY <1>0, <1>1, <1>2, <1>3 DEF SignersFit
  <2> QED
    BY <1>0, <1>1, <1>3, <2>1 DEF Coming, Fresh
<1>9. PublishedFresh'
  BY <1>0, <1>1, <1>3, <1>8 DEF PublishedFresh
<1>10. RegisteredFresh'
  BY <1>1, <1>8 DEF RegisteredFresh
<1> QED
  BY <1>5, <1>6, <1>7, <1>9, <1>10

-----------------------------------------------------------------------------
\* A publication that is over leaves all records where they are.
LEMMA EndKeeps ==
  ASSUME RegistrarInv, NEW w \in Workers, pub[w].todo = {}, pub' = [pub EXCEPT ![w] = Idle],
         UNCHANGED <<now, signed, holds, due, clobbered>>
  PROVE  /\ pub' \in [Workers -> Publications]
         /\ \A v \in Workers : pub'[v] # Idle => pub'[v] = pub[v]
         /\ VersionsInOrder' /\ SignersFit' /\ PublishedFresh'
         /\ \A m \in Names : Coming(m) \/ Fresh(m) => Coming(m)' \/ Fresh(m)'
<1> USE DEF RegistrarInv
<1>0. Signers \subseteq Workers
  BY DEF Signers, Workers
<1>1. /\ pub' \in [Workers -> Publications] /\ pub'[w] = Idle
      /\ \A v \in Workers \ {w} : pub'[v] = pub[v]
  BY IdleFits, Zenon DEF RegistrarTypeOK
<1>2. VersionsInOrder'
  <2>1. \A v \in Workers : pub'[v].rec \in Kept
    BY <1>1, KeptRecords, IdleFits, Zenon
  <2>2. Kept' \subseteq Kept
    BY <2>1 DEF Kept
  <2> QED
    BY <2>2, OrderStays DEF RegistrarTypeOK
<1>3. SignersFit'
  BY <1>0, <1>1, Zenon DEF SignersFit
<1>4. \A m \in Names : Coming(m) \/ Fresh(m) => Coming(m)' \/ Fresh(m)'
  BY <1>0, <1>1, Zenon DEF Coming, Fresh
<1>5. PublishedFresh'
  <2> SUFFICES ASSUME NEW v \in Signers, NEW m \in Names \ clobbered, pub'[v].name = m
               PROVE  Coming(m)' \/ Fresh(m)'
    BY Zenon DEF PublishedFresh
  <2>1. v # w
    BY <1>1, IdleFits, RegistrarAssumption, Zenon
  <2> QED
    BY <1>0, <1>1, <1>4, <2>1, Zenon DEF PublishedFresh
<1> QED
  BY <1>1, <1>2, <1>3, <1>4, <1>5, Zenon

\* The end of a request: the name is registered, and its record, which was stored
\* here first, is the newest or has been clobbered.
LEMMA RequestDoneKeeps ==
  ASSUME RegistrarInv, RequestDone
  PROVE  RegistrarInv'
<1> USE DEF RegistrarInv
<1> DEFINE n == pub["handler"].name
           root == pub["handler"].rec.root
<1>0. "handler" \in Workers /\ "handler" \in Signers /\ "walk" \in Workers
  BY DEF Workers, Signers
<1>1. /\ pub["handler"] # Idle /\ pub["handler"].todo = {}
      /\ registry' = [registry EXCEPT ![n] = root]
      /\ (disk' = registry' \/ disk' = disk)
      /\ answered' = [answered EXCEPT ![n] = pub["handler"].rec]
      /\ pub' = [pub EXCEPT !["handler"] = Idle]
      /\ UNCHANGED <<now, signed, holds, snapshot, walking, due, crashes, clobbered>>
  BY Zenon DEF RequestDone, save
<1>2. n \in Names /\ pub["handler"].rec \in Records /\ root \in Roots \cup {None}
  BY <1>0, <1>1, PubFields, Zenon DEF Records
<1>3. /\ pub' \in [Workers -> Publications]
      /\ \A v \in Workers : pub'[v] # Idle => pub'[v] = pub[v]
      /\ VersionsInOrder' /\ SignersFit' /\ PublishedFresh'
      /\ \A m \in Names : Coming(m) \/ Fresh(m) => Coming(m)' \/ Fresh(m)'
  BY <1>0, <1>1, EndKeeps, Zenon
<1>4. n \notin clobbered => Coming(n) \/ Fresh(n)
  BY <1>0, <1>2 DEF PublishedFresh
<1> HIDE DEF n, root
<1>5. registry' \in [Names -> Roots \cup {None}] /\ \A m \in Names : m # n => registry'[m] = registry[m]
  BY <1>1, <1>2, Zenon DEF RegistrarTypeOK
<1>6. disk' \in [Names -> Roots \cup {None}] /\ answered' \in [Names -> Records]
  BY <1>1, <1>2, <1>5, Zenon DEF RegistrarTypeOK
<1>7. RegistrarTypeOK'
  BY <1>0, <1>1, <1>3, <1>5, <1>6, Zenon DEF RegistrarTypeOK
<1>8. RegisteredFresh'
  <2> SUFFICES ASSUME NEW m \in Names \ clobbered, registry'[m] # None, now < due
               PROVE  Coming(m)' \/ Fresh(m)' \/ (walking /\ snapshot[m] # None)
    BY <1>1, Zenon DEF RegisteredFresh
  <2>1. CASE m = n
    BY <1>3, <1>4, <2>1, Zenon
  <2>2. CASE m # n
    BY <1>3, <1>5, <2>2, Zenon DEF RegisteredFresh
  <2> QED
    BY <2>1, <2>2, Zenon
<1> QED
  BY <1>3, <1>7, <1>8

\* A step that leaves records, publications and the clock alone keeps what is
\* coming and fresh.
LEMMA StillFresh ==
  ASSUME RegistrarInv, UNCHANGED <<now, signed, holds, pub, due, clobbered>>
  PROVE  /\ VersionsInOrder' /\ SignersFit' /\ PublishedFresh'
         /\ \A m \in Names : Coming(m) \/ Fresh(m) => Coming(m)' \/ Fresh(m)'
BY DEF RegistrarInv, VersionsInOrder, Kept, SignersFit, PublishedFresh, Coming, Fresh

\* handleUnregister and handleRevoke take a name out of the registry.
LEMMA DropKeeps ==
  ASSUME RegistrarInv, NEW n \in Names, Unregister(n) \/ Revoke(n)
  PROVE  RegistrarInv'
<1> USE DEF RegistrarInv
<1>1. /\ registry' = [registry EXCEPT ![n] = None]
      /\ (disk' = registry' \/ disk' = disk)
      /\ UNCHANGED <<now, signed, holds, pub, snapshot, walking, due, crashes, answered, clobbered>>
  BY Zenon DEF Unregister, Revoke, save
<1>2. /\ registry' \in [Names -> Roots \cup {None}]
      /\ \A m \in Names : registry'[m] # None => registry[m] # None
  BY <1>1, Zenon DEF RegistrarTypeOK
<1>3. disk' \in [Names -> Roots \cup {None}]
  BY <1>1, <1>2, Zenon DEF RegistrarTypeOK
<1>4. RegistrarTypeOK'
  BY <1>1, <1>2, <1>3, Zenon DEF RegistrarTypeOK
<1>5. /\ VersionsInOrder' /\ SignersFit' /\ PublishedFresh'
      /\ \A m \in Names : Coming(m) \/ Fresh(m) => Coming(m)' \/ Fresh(m)'
  BY <1>1, StillFresh, Zenon
<1>6. RegisteredFresh'
  BY <1>1, <1>2, <1>5, Zenon DEF RegisteredFresh
<1> QED
  BY <1>4, <1>5, <1>6

\* republishAll copies the registry: from here on every registered name is one
\* that the walk has yet to reach.
LEMMA WalkStartKeeps ==
  ASSUME RegistrarInv, WalkStart
  PROVE  RegistrarInv'
<1> USE DEF RegistrarInv
<1>1. /\ ~walking /\ pub["handler"] = Idle /\ now >= due
      /\ walking' = TRUE /\ snapshot' = registry /\ due' = now + Interval
      /\ UNCHANGED <<now, signed, registry, disk, holds, pub, crashes, answered, clobbered>>
  BY Zenon DEF WalkStart, LockFree
<1>2. \A w \in Signers : pub[w] = Idle
  BY <1>1, Zenon DEF RegistrarTypeOK, Signers
<1>3. due' \in 0..(MaxTime + Interval) /\ due' <= now + Interval
  BY <1>1, RegistrarAssumption DEF RegistrarTypeOK
<1>4. walking' \in BOOLEAN
  BY <1>1, Zenon
<1>5. RegistrarTypeOK'
  BY <1>1, <1>3, <1>4, Zenon DEF RegistrarTypeOK
<1>6. VersionsInOrder'
  BY <1>1 DEF VersionsInOrder, Kept
<1>7. SignersFit'
  BY <1>1, <1>2, <1>3, Zenon DEF SignersFit
<1>8. PublishedFresh'
  BY <1>1, <1>2, IdleFits, RegistrarAssumption, Zenon DEF PublishedFresh
<1>9. RegisteredFresh'
  BY <1>1, Zenon DEF RegisteredFresh
<1> QED
  BY <1>5, <1>6, <1>7, <1>8, <1>9

\* The walk is done with a name: what it published is fresh or clobbered.
LEMMA WalkPublishedKeeps ==
  ASSUME RegistrarInv, WalkPublished
  PROVE  RegistrarInv'
<1> USE DEF RegistrarInv
<1> DEFINE n == pub["walk"].name
<1>0. "walk" \in Workers /\ "walk" \in Signers
  BY DEF Workers, Signers
<1>1. /\ pub["walk"] # Idle /\ pub["walk"].todo = {}
      /\ snapshot' = [snapshot EXCEPT ![n] = None]
      /\ pub' = [pub EXCEPT !["walk"] = Idle]
      /\ UNCHANGED <<now, signed, registry, disk, holds, walking, due, crashes, answered, clobbered>>
  BY Zenon DEF WalkPublished
<1>2. n \in Names
  BY <1>0, <1>1, PubFields, Zenon
<1>3. /\ pub' \in [Workers -> Publications]
      /\ \A v \in Workers : pub'[v] # Idle => pub'[v] = pub[v]
      /\ VersionsInOrder' /\ SignersFit' /\ PublishedFresh'
      /\ \A m \in Names : Coming(m) \/ Fresh(m) => Coming(m)' \/ Fresh(m)'
  BY <1>0, <1>1, EndKeeps, Zenon
<1>4. n \notin clobbered => Coming(n) \/ Fresh(n)
  BY <1>0, <1>2 DEF PublishedFresh
<1> HIDE DEF n
<1>5. /\ snapshot' \in [Names -> Roots \cup {None}]
      /\ \A m \in Names : m # n => snapshot'[m] = snapshot[m]
  BY <1>1, <1>2, Zenon DEF RegistrarTypeOK
<1>6. RegistrarTypeOK'
  BY <1>0, <1>1, <1>3, <1>5, Zenon DEF RegistrarTypeOK
<1>7. RegisteredFresh'
  <2> SUFFICES ASSUME NEW m \in Names \ clobbered, registry[m] # None, now < due
               PROVE  Coming(m)' \/ Fresh(m)' \/ (walking /\ snapshot'[m] # None)
    BY <1>1, Zenon DEF RegisteredFresh
  <2>1. CASE m = n
    BY <1>3, <1>4, <2>1, Zenon
  <2>2. CASE m # n
    BY <1>3, <1>5, <2>2, Zenon DEF RegisteredFresh
  <2> QED
    BY <2>1, <2>2, Zenon
<1> QED
  BY <1>3, <1>6, <1>7

\* The walk ends when it has reached every name of its copy.
LEMMA WalkEndKeeps ==
  ASSUME RegistrarInv, WalkEnd
  PROVE  RegistrarInv'
<1> USE DEF RegistrarInv
<1>1. /\ pub["walk"] = Idle /\ (\A n \in Names : snapshot[n] = None)
      /\ walking' = FALSE /\ registry' = registry
      /\ (disk' = registry' \/ disk' = disk)
      /\ UNCHANGED <<now, signed, holds, pub, snapshot, due, crashes, answered, clobbered>>
  BY Zenon DEF WalkEnd, save
<1>2. walking' \in BOOLEAN
  BY <1>1, Zenon
<1>3. disk' \in [Names -> Roots \cup {None}]
  BY <1>1, Zenon DEF RegistrarTypeOK
<1>4. RegistrarTypeOK'
  BY <1>1, <1>2, <1>3, Zenon DEF RegistrarTypeOK
<1>5. /\ VersionsInOrder' /\ SignersFit' /\ PublishedFresh'
      /\ \A m \in Names : Coming(m) \/ Fresh(m) => Coming(m)' \/ Fresh(m)'
  BY <1>1, StillFresh, Zenon
<1>6. RegisteredFresh'
  BY <1>1, <1>5, Zenon DEF RegisteredFresh
<1> QED
  BY <1>4, <1>5, <1>6

\* The maintenance loop of a node starts to re-store the record it holds, as it
\* is, with its version and its timestamp.
LEMMA MaintenanceKeeps ==
  ASSUME RegistrarInv, NEW x \in Maintainers, NEW n \in Names, Maintenance(x, n)
  PROVE  RegistrarInv'
<1> USE DEF RegistrarInv
<1>0. "maintenance" \in Workers /\ "maintenance" \notin Signers /\ Signers \subseteq Workers
  BY DEF Workers, Signers
<1>1. /\ StartPublish("maintenance", n, holds[x][n], x)
      /\ UNCHANGED <<now, signed, registry, disk, holds, snapshot, walking, due, crashes,
                     answered, clobbered>>
  BY DEF Maintenance
<1>2. x \in Nodes /\ holds[x][n] \in Records /\ holds[x][n] \in Kept
  BY RegistrarAssumption, KeptRecords, Zenon DEF RegistrarTypeOK
<1>3. /\ pub' \in [Workers -> Publications]
      /\ pub'["maintenance"].name = n /\ pub'["maintenance"].rec = holds[x][n]
      /\ \A v \in Workers \ {"maintenance"} : pub'[v] = pub[v]
  BY <1>0, <1>1, <1>2, Started
<1>4. RegistrarTypeOK'
  <2>1. \A v \in Workers : pub'[v] # Idle => pub'[v].name # None
    BY <1>0, <1>3, RegistrarAssumption DEF RegistrarTypeOK
  <2>2. pub'["walk"] = pub["walk"]
    BY <1>3, Zenon DEF Workers
  <2> QED
    BY <1>1, <1>3, <2>1, <2>2, Zenon DEF RegistrarTypeOK
<1>5. VersionsInOrder'
  <2>1. \A v \in Workers : pub'[v].rec \in Kept
    BY <1>2, <1>3, KeptRecords, Zenon
  <2>2. Kept' \subseteq Kept
    BY <1>1, <2>1, KeptStays, Zenon
  <2> QED
    BY <1>1, <2>2, OrderStays DEF RegistrarTypeOK
<1>6. \A v \in Signers : pub'[v] = pub[v]
  BY <1>0, <1>3, Zenon
<1>7. \A m : (Coming(m) => Coming(m)') /\ (Fresh(m) => Fresh(m)')
  BY <1>1, <1>6, Zenon DEF Coming, Fresh
<1>8. SignersFit' /\ PublishedFresh'
  BY <1>1, <1>6, <1>7, Zenon DEF SignersFit, PublishedFresh
<1>9. RegisteredFresh'
  BY <1>1, <1>7, Zenon DEF RegisteredFresh
<1> QED
  BY <1>4, <1>5, <1>8, <1>9

\* It is done with a record.
LEMMA MaintenanceDoneKeeps ==
  ASSUME RegistrarInv, MaintenanceDone
  PROVE  RegistrarInv'
<1> USE DEF RegistrarInv
<1>0. "maintenance" \in Workers /\ "walk" \in Workers
  BY DEF Workers
<1>1. /\ pub["maintenance"].todo = {} /\ pub' = [pub EXCEPT !["maintenance"] = Idle]
      /\ UNCHANGED <<now, signed, registry, disk, holds, snapshot, walking, due, crashes,
                     answered, clobbered>>
  BY Zenon DEF MaintenanceDone
<1>2. /\ pub' \in [Workers -> Publications]
      /\ \A v \in Workers : pub'[v] # Idle => pub'[v] = pub[v]
      /\ VersionsInOrder' /\ SignersFit' /\ PublishedFresh'
      /\ \A m \in Names : Coming(m) \/ Fresh(m) => Coming(m)' \/ Fresh(m)'
  BY <1>0, <1>1, EndKeeps, Zenon
<1>3. RegistrarTypeOK'
  BY <1>0, <1>1, <1>2, Zenon DEF RegistrarTypeOK
<1>4. RegisteredFresh'
  BY <1>1, <1>2, Zenon DEF RegisteredFresh
<1> QED
  BY <1>2, <1>3, <1>4

\* A restart ends the registrar's publications and makes a walk due at once.
LEMMA RestartKeeps ==
  ASSUME RegistrarInv, Restart
  PROVE  RegistrarInv'
<1> USE DEF RegistrarInv
<1>0. Signers \subseteq Workers /\ "maintenance" \notin Signers /\ "walk" \in Signers
  BY DEF Workers, Signers
<1>1. /\ crashes < MaxCrashes /\ crashes' = crashes + 1 /\ registry' = disk
      /\ pub' = [w \in Workers |->
                   IF w = "maintenance" /\ pub[w].first # Self THEN pub[w] ELSE Idle]
      /\ snapshot' = [n \in Names |-> None] /\ walking' = FALSE /\ due' = now
      /\ UNCHANGED <<now, signed, disk, holds, answered, clobbered>>
  BY Zenon DEF Restart
<1>2. /\ pub' \in [Workers -> Publications]
      /\ \A w \in Workers : pub'[w] = pub[w] \/ pub'[w] = Idle
      /\ \A w \in Signers : pub'[w] = Idle
  BY <1>0, <1>1, IdleFits, Zenon DEF RegistrarTypeOK
<1>3. walking' \in BOOLEAN
  BY <1>1, Zenon
<1>4. RegistrarTypeOK'
  <2>1. \A w \in Workers : pub'[w] # Idle => pub'[w].name # None
    BY <1>2, Zenon DEF RegistrarTypeOK
  <2>2. /\ crashes' \in 0..MaxCrashes /\ due' \in 0..(MaxTime + Interval)
        /\ snapshot' \in [Names -> Roots \cup {None}]
    BY <1>1, RegistrarAssumption DEF RegistrarTypeOK
  <2> QED
    BY <1>0, <1>1, <1>2, <1>3, <2>1, <2>2, Zenon DEF RegistrarTypeOK
<1>5. VersionsInOrder'
  <2>1. \A w \in Workers : pub'[w].rec \in Kept
    BY <1>2, KeptRecords, IdleFits, Zenon
  <2>2. Kept' \subseteq Kept
    BY <1>1, <2>1, KeptStays, Zenon
  <2> QED
    BY <1>1, <2>2, OrderStays DEF RegistrarTypeOK
<1>6. SignersFit'
  BY <1>1, <1>2, RegistrarAssumption DEF SignersFit, RegistrarTypeOK
<1>7. PublishedFresh'
  BY <1>1, <1>2, IdleFits, RegistrarAssumption, Zenon DEF PublishedFresh
<1>8. RegisteredFresh'
  BY <1>1 DEF RegisteredFresh, RegistrarTypeOK
<1> QED
  BY <1>4, <1>5, <1>6, <1>7, <1>8

\* Time passes between publications only.
LEMMA TickKeeps ==
  ASSUME RegistrarInv, Tick
  PROVE  RegistrarInv'
<1> USE DEF RegistrarInv
<1>0. Signers \subseteq Workers
  BY DEF Workers, Signers
<1>1. /\ now < MaxTime /\ now < due /\ ~walking /\ (\A w \in Workers : pub[w] = Idle)
      /\ now' = now + 1
      /\ UNCHANGED <<signed, registry, disk, holds, pub, snapshot, walking, due, crashes,
                     answered, clobbered>>
  BY DEF Tick
<1>2. now \in Nat /\ due \in Nat /\ Interval \in Nat /\ now' \in 0..MaxTime
  BY <1>1, RegistrarAssumption DEF RegistrarTypeOK
<1>3. RegistrarTypeOK'
  BY <1>1, <1>2, Zenon DEF RegistrarTypeOK
<1>4. VersionsInOrder'
  <2>1. Kept' \subseteq Kept
    BY <1>1, KeptRecords, KeptStays, Zenon
  <2> QED
    BY <1>1, <1>2, <2>1, OrderStays
<1>5. SignersFit'
  BY <1>0, <1>1, <1>2 DEF SignersFit
<1>6. \A m : (Coming(m) => Coming(m)') /\ (Fresh(m) => Fresh(m)')
  BY <1>1, Zenon DEF Coming, Fresh
<1>7. PublishedFresh'
  BY <1>1, <1>6, Zenon DEF PublishedFresh
<1>8. RegisteredFresh'
  BY <1>1, <1>6, Zenon DEF RegisteredFresh
<1> QED
  BY <1>3, <1>4, <1>5, <1>7, <1>8

-----------------------------------------------------------------------------
\* A fresh registrar: no name, no record, a walk due at once.
LEMMA RegistrarStarts == Init => RegistrarInv
<1> SUFFICES ASSUME Init PROVE RegistrarInv
  OBVIOUS
<1>0. Signers \subseteq Workers
  BY DEF Workers, Signers
<1>1. /\ now = 0 /\ signed = 0 /\ crashes = 0 /\ due = 0 /\ clobbered = {}
      /\ registry = [n \in Names |-> None] /\ disk = registry /\ snapshot = registry
      /\ holds = [x \in Nodes |-> [n \in Names |-> NoRecord]]
      /\ pub = [w \in Workers |-> Idle]
      /\ answered = [n \in Names |-> NoRecord]
  BY Zenon DEF Init
<1>2. walking \in BOOLEAN
  BY Zenon DEF Init
<1>3. RegistrarTypeOK
  BY <1>1, <1>2, IdleFits, RegistrarAssumption DEF RegistrarTypeOK, Workers
<1>4. VersionsInOrder
  <2>1. \A a \in Kept : a = NoRecord
    BY <1>1, IdleFits DEF Kept
  <2> QED
    BY <1>1, <2>1, IdleFits DEF VersionsInOrder
<1>5. SignersFit /\ PublishedFresh /\ RegisteredFresh
  BY <1>0, <1>1, IdleFits, RegistrarAssumption DEF SignersFit, PublishedFresh, RegisteredFresh
<1> QED
  BY <1>3, <1>4, <1>5 DEF RegistrarInv

\* One step of the registrar, the network or the clock keeps RegistrarInv.
LEMMA RegistrarStep == RegistrarInv /\ [Next]_vars => RegistrarInv'
<1> SUFFICES ASSUME RegistrarInv, [Next]_vars
             PROVE  RegistrarInv'
  BY Zenon
<1>1. CASE \E n \in Names, r \in Roots : Register(n, r) \/ Update(n, r)
  BY <1>1, RequestSigns
<1>2. CASE RequestDone
  BY <1>2, RequestDoneKeeps
<1>3. CASE \E n \in Names : Unregister(n) \/ Revoke(n)
  BY <1>3, DropKeeps
<1>4. CASE \E n \in Names : WalkPublish(n)
  BY <1>4, WalkSigns
<1>5. CASE \E w \in Workers, x \in Nodes : Deliver(w, x)
  BY <1>5, DeliverKeeps
<1>6. CASE \E w \in Workers, x \in Nodes : Lose(w, x)
  BY <1>6, LoseKeeps
<1>7. CASE WalkStart
  BY <1>7, WalkStartKeeps
<1>8. CASE WalkPublished
  BY <1>8, WalkPublishedKeeps
<1>9. CASE WalkEnd
  BY <1>9, WalkEndKeeps
<1>10. CASE \E x \in Maintainers, n \in Names : Maintenance(x, n)
  BY <1>10, MaintenanceKeeps
<1>11. CASE MaintenanceDone
  BY <1>11, MaintenanceDoneKeeps
<1>12. CASE Restart
  BY <1>12, RestartKeeps
<1>13. CASE Tick
  BY <1>13, TickKeeps
<1>14. CASE UNCHANGED vars
  <2>1. UNCHANGED <<now, signed, registry, disk, holds, pub, snapshot, walking, due, crashes,
                    answered, clobbered>>
    BY <1>14, Zenon DEF vars
  <2>2. VersionsInOrder' /\ SignersFit' /\ PublishedFresh'
    BY <2>1, StillFresh, Zenon
  <2>3. RegistrarTypeOK' /\ RegisteredFresh'
    BY <2>1, Zenon DEF RegistrarInv, RegistrarTypeOK, RegisteredFresh, Coming, Fresh
  <2> QED
    BY <2>2, <2>3 DEF RegistrarInv
<1> QED
  BY <1>1, <1>2, <1>3, <1>4, <1>5, <1>6, <1>7, <1>8, <1>9, <1>10, <1>11, <1>12, <1>13, <1>14,
     ZenonT(60) DEF Next

\* RegistrarInv holds in every reachable state.
THEOREM RegistrarInvariant == Spec => []RegistrarInv
BY RegistrarStarts, RegistrarStep, PTL DEF Spec

-----------------------------------------------------------------------------
\* pickBestRecord of one node's copy is that copy, unless it is expired.
LEMMA ResolveOne ==
  ASSUME RegistrarTypeOK, NEW x \in Nodes, NEW n \in Names, Resolve({x}, n) # NoRecord
  PROVE  Resolve({x}, n) = holds[x][n] /\ ~Expired(holds[x][n])
<1> DEFINE valid == {rec \in Candidates({x}, n) : ~Expired(rec)}
<1>1. valid # {} /\ Resolve({x}, n) = CHOOSE rec \in valid :
                                        \A other \in valid : other.version <= rec.version
  BY Zenon DEF Resolve
<1>2. \A rec \in valid : rec = holds[x][n] /\ ~Expired(holds[x][n])
  BY Zenon DEF Candidates
<1>3. holds[x][n].version <= holds[x][n].version
  BY RecordFields DEF RegistrarTypeOK
<1> HIDE DEF valid
<1>4. \E rec \in valid : \A other \in valid : other.version <= rec.version
  BY <1>1, <1>2, <1>3, Zenon
<1>5. Resolve({x}, n) \in valid
  BY <1>1, <1>4, Zenon
<1> QED
  BY <1>2, <1>5, Zenon

\* pickBestRecord over any nodes finds a record if one of them has one that is
\* not expired: versions are bounded, so some unexpired copy has the highest.
LEMMA ResolveSome ==
  ASSUME RegistrarTypeOK, NEW n \in Names, NEW x \in Nodes,
         holds[x][n] # NoRecord, ~Expired(holds[x][n])
  PROVE  Resolve(Nodes, n) # NoRecord
<1> DEFINE valid == {rec \in Candidates(Nodes, n) : ~Expired(rec)}
           P == {MaxPublish - rec.version : rec \in valid}
<1>1. holds[x][n] \in valid
  BY Zenon DEF Candidates
<1>2. \A rec \in valid : rec \in Records /\ rec # NoRecord
  BY DEF Candidates, RegistrarTypeOK
<1> HIDE DEF valid
<1>3. \A rec \in valid : rec.version \in Nat /\ MaxPublish - rec.version \in Nat
  BY <1>2, RecordFields, RegistrarAssumption
<1>4. P \subseteq Nat /\ P # {}
  BY <1>1, <1>3, Zenon
<1>5. PICK i \in P : \A j \in P : i <= j
  BY <1>4, LeastElement, Zenon
<1>6. PICK best \in valid : i = MaxPublish - best.version
  BY <1>5, Zenon
<1>7. \A other \in valid : MaxPublish - best.version <= MaxPublish - other.version
  BY <1>5, <1>6, Zenon
<1>8. \A other \in valid : other.version <= best.version
  BY <1>3, <1>7, RegistrarAssumption
<1>9. Resolve(Nodes, n) = CHOOSE rec \in valid : \A other \in valid : other.version <= rec.version
  BY <1>1, Zenon DEF Resolve, valid
<1>10. Resolve(Nodes, n) \in valid
  BY <1>8, <1>9, Zenon
<1> QED
  BY <1>2, <1>10, Zenon

\* Once a record is older than the TTL nothing that was signed before it resolves
\* on any node, however often the nodes have re-stored old copies.
THEOREM RegistrarStaysSound == Spec => []RegistrarSound
<1>1. RegistrarInv => RegistrarSound
  <2> SUFFICES ASSUME RegistrarInv, NEW n \in Names, NEW x \in Nodes, NEW y \in Nodes,
                      Resolve({x}, n) # NoRecord, now > holds[y][n].ts + TTL
               PROVE  Resolve({x}, n).version > holds[y][n].version
    BY Zenon DEF RegistrarInv, RegistrarSound, SupersededWithinTTL
  <2>1. RegistrarTypeOK /\ VersionsInOrder
    BY Zenon DEF RegistrarInv
  <2>2. Resolve({x}, n) = holds[x][n] /\ ~(now > holds[x][n].ts + TTL)
    BY <2>1, ResolveOne, Zenon DEF Expired
  <2>3. /\ holds[x][n] \in Kept /\ holds[y][n] \in Kept
        /\ holds[x][n].version \in Nat /\ holds[y][n].version \in Nat
        /\ holds[x][n].ts \in Nat /\ holds[y][n].ts \in Nat /\ now \in Nat /\ TTL \in Nat
    BY <2>1, KeptRecords, RegistrarAssumption DEF RegistrarTypeOK
  <2>4. ~(holds[x][n].ts <= holds[y][n].ts)
    BY <2>2, <2>3, Younger, Zenon
  <2>5. ~(holds[x][n].version <= holds[y][n].version)
    BY <2>1, <2>3, <2>4, Zenon DEF VersionsInOrder
  <2> QED
    BY <2>2, <2>3, <2>5
<1> QED
  BY <1>1, RegistrarInvariant, PTL

\* A registered name always resolves between two walks, through lost replica
\* stores, failed saves and restarts, unless an old copy has just replaced the
\* newest record.
THEOREM RegisteredNamesStayAlive == Spec => []NamesStayAlive
<1>1. RegistrarInv => NamesStayAlive
  <2> SUFFICES ASSUME RegistrarInv, NEW n \in Names \ clobbered,
                      Quiet, now < due, ~walking, registry[n] # None
               PROVE  Resolve(Nodes, n) # NoRecord
    BY Zenon DEF NamesStayAlive
  <2>1. RegistrarTypeOK /\ RegisteredFresh /\ Self \in Nodes
    BY DEF RegistrarInv, Nodes
  <2>2. ~Coming(n)
    BY IdleFits, Zenon DEF Quiet, Coming, Signers, Workers
  <2>3. Fresh(n)
    BY <2>1, <2>2, Zenon DEF RegisteredFresh
  <2>4. /\ holds[Self][n].ts \in Nat /\ now \in Nat /\ due \in Nat
        /\ TTL \in Nat /\ Interval \in Nat /\ Interval <= TTL
    BY <2>1, RecordFields, RegistrarAssumption DEF RegistrarTypeOK
  <2>5. ~Expired(holds[Self][n])
    BY <2>3, <2>4 DEF Expired, Fresh
  <2>6. holds[Self][n] # NoRecord
    BY <2>3, IdleFits DEF Fresh
  <2> QED
    BY <2>1, <2>5, <2>6, ResolveSome, Zenon
<1> QED
  BY <1>1, RegistrarInvariant, PTL
=============================================================================
