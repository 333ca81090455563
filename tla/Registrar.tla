----------------------------- MODULE Registrar ------------------------------
(***************************************************************************)
(* The registrar (apps/registrar/registrar.go) and the signed name records *)
(* it keeps in the DHT (core/name/name.go).  A registration or an update   *)
(* holds reg.mu while its record is stored on this node and on the closest *)
(* peers; the republish walk copies the registry under the lock and then   *)
(* publishes without it; every node that holds a record re-stores it from  *)
(* time to time (core/dht/maintenance.go).  A store replaces whatever the  *)
(* receiver had.  Resolvers collect the copies and take the unexpired one  *)
(* with the highest version.                                               *)
(***************************************************************************)
EXTENDS Naturals

CONSTANTS
  Names,
  Roots,         \* what a name can point to
  Self,          \* the registrar's own node
  Replicas,      \* the peers closest to the record keys
  Maintainers,   \* the nodes whose maintenance loop runs
  TTL,           \* DefaultNameTTL
  Interval,      \* republishInterval
  MaxTime,       \* bound on the clock
  MaxPublish,    \* bound on the records signed
  MaxCrashes,    \* bound on the restarts of the registrar
  None

Nodes == {Self} \cup Replicas

ASSUME RegistrarAssumption ==
  /\ Self \notin Replicas /\ Maintainers \subseteq Nodes
  /\ TTL \in Nat /\ Interval \in Nat \ {0} /\ Interval <= TTL
  /\ MaxTime \in Nat /\ MaxPublish \in Nat /\ MaxCrashes \in Nat
  /\ None \notin Roots \cup Names

VARIABLES
  now,
  signed,     \* number of records signed so far: the next version
  registry,   \* registry[n]: the root n points to, None if not registered
  disk,       \* the registry as saved in registrar.json
  holds,      \* holds[x][n]: the record node x stores for n
  pub,        \* pub[w]: the publication worker w is busy with
  snapshot,   \* what the republish walk has still to publish
  walking,
  due,        \* when the next walk starts
  crashes,
  answered,   \* history: the record of the last answered request for n
  clobbered   \* history: names of which an old copy has replaced a newer one since
              \* they were last signed

vars == <<now, signed, registry, disk, holds, pub, snapshot, walking, due, crashes,
          answered, clobbered>>

Records == [root : Roots \cup {None}, version : 0..MaxPublish, ts : 0..MaxTime]
NoRecord == [root |-> None, version |-> 0, ts |-> 0]

Workers == {"handler", "walk", "maintenance"}
Publications == [name : Names \cup {None}, rec : Records, first : Nodes, todo : SUBSET Nodes]
Idle == [name |-> None, rec |-> NoRecord, first |-> Self, todo |-> {}]

Init ==
  /\ now = 0 /\ signed = 0 /\ crashes = 0
  /\ registry = [n \in Names |-> None]
  /\ disk = registry
  /\ holds = [x \in Nodes |-> [n \in Names |-> NoRecord]]
  /\ pub = [w \in Workers |-> Idle]
  /\ snapshot = registry
  /\ walking = FALSE
  /\ due = 0
  /\ answered = [n \in Names |-> NoRecord]
  /\ clobbered = {}
-----------------------------------------------------------------------------
\* PublishWithTTL: sign a record with the next version and the current time.  The
\* versions of the code are nanosecond clock readings, strictly increasing here.
SignedRecord(r) == [root |-> r, version |-> signed + 1, ts |-> now]

StartPublish(w, n, rec, x) ==
  pub' = [pub EXCEPT ![w] = [name |-> n, rec |-> rec, first |-> x, todo |-> Nodes]]

LockFree == pub["handler"] = Idle

\* handleRegister (for a name that is free) and handleUpdate (for one that is
\* not) up to the publication, during which they keep the lock.
Request(n, r, registered) ==
  /\ LockFree /\ signed < MaxPublish
  /\ (registry[n] # None) = registered
  /\ StartPublish("handler", n, SignedRecord(r), Self)
  /\ signed' = signed + 1
  /\ clobbered' = clobbered \ {n}
  /\ UNCHANGED <<now, registry, disk, holds, snapshot, walking, due, crashes, answered>>

Register(n, r) == Request(n, r, FALSE)
Update(n, r) == Request(n, r, TRUE)

\* save: the file is replaced in one rename; when that fails the old one stays.
save == disk' = registry' \/ disk' = disk

\* Their end: track the registration, save, answer, unlock.
RequestDone ==
  /\ pub["handler"] # Idle /\ pub["handler"].todo = {}
  /\ registry' = [registry EXCEPT ![pub["handler"].name] = pub["handler"].rec.root]
  /\ save
  /\ answered' = [answered EXCEPT ![pub["handler"].name] = pub["handler"].rec]
  /\ pub' = [pub EXCEPT !["handler"] = Idle]
  /\ UNCHANGED <<now, signed, holds, snapshot, walking, due, crashes, clobbered>>

\* handleRevoke of the registrar: its locked section (the broadcast that follows is
\* RevokeGossip's).
Revoke(n) ==
  /\ LockFree
  /\ registry' = [registry EXCEPT ![n] = None]
  /\ save
  /\ UNCHANGED <<now, signed, holds, pub, snapshot, walking, due, crashes, answered, clobbered>>

\* handleUnregister.
Unregister(n) ==
  /\ LockFree /\ registry[n] # None
  /\ registry' = [registry EXCEPT ![n] = None]
  /\ save
  /\ UNCHANGED <<now, signed, holds, pub, snapshot, walking, due, crashes, answered, clobbered>>

\* dht.Store: the publishing node keeps the record first, then each of the closest
\* peers gets it (handleStore), in any order, ...
Deliver(w, x) ==
  /\ x \in pub[w].todo
  /\ pub[w].first \in pub[w].todo => x = pub[w].first
  /\ holds' = [holds EXCEPT ![x][pub[w].name] = pub[w].rec]
  /\ pub' = [pub EXCEPT ![w].todo = @ \ {x}]
  /\ clobbered' = IF holds[x][pub[w].name].version > pub[w].rec.version
                  THEN clobbered \cup {pub[w].name} ELSE clobbered
  /\ UNCHANGED <<now, signed, registry, disk, snapshot, walking, due, crashes, answered>>

\* ... or does not: replication is best effort.
Lose(w, x) ==
  /\ x \in pub[w].todo /\ pub[w].first \notin pub[w].todo
  /\ pub' = [pub EXCEPT ![w].todo = @ \ {x}]
  /\ UNCHANGED <<now, signed, registry, disk, holds, snapshot, walking, due, crashes, answered, clobbered>>
-----------------------------------------------------------------------------
\* Mutant: the walk starts from the registry on disk at startup and skips later
\* passes.
WalkStartOnce ==
  /\ ~walking /\ LockFree /\ now >= due
  /\ walking' = TRUE
  /\ snapshot' = registry
  /\ due' = MaxTime + 1
  /\ UNCHANGED <<now, signed, registry, disk, holds, pub, crashes, answered, clobbered>>

\* republishAll: copy the registry under the read lock,
WalkStart ==
  /\ ~walking /\ LockFree /\ now >= due
  /\ walking' = TRUE
  /\ snapshot' = registry
  /\ due' = now + Interval
  /\ UNCHANGED <<now, signed, registry, disk, holds, pub, crashes, answered, clobbered>>

\* publish each copy with a fresh version, without the lock,
WalkPublish(n) ==
  /\ walking /\ pub["walk"] = Idle /\ snapshot[n] # None /\ signed < MaxPublish
  /\ StartPublish("walk", n, SignedRecord(snapshot[n]), Self)
  /\ signed' = signed + 1
  /\ clobbered' = clobbered \ {n}
  /\ UNCHANGED <<now, registry, disk, holds, snapshot, walking, due, crashes, answered>>

\* touch the live entry's version and time under the lock,
WalkPublished ==
  /\ pub["walk"] # Idle /\ pub["walk"].todo = {} /\ LockFree
  /\ snapshot' = [snapshot EXCEPT ![pub["walk"].name] = None]
  /\ pub' = [pub EXCEPT !["walk"] = Idle]
  /\ UNCHANGED <<now, signed, registry, disk, holds, walking, due, crashes, answered, clobbered>>

\* and save once at the end.
WalkEnd ==
  /\ walking /\ pub["walk"] = Idle /\ LockFree /\ \A n \in Names : snapshot[n] = None
  /\ walking' = FALSE
  /\ UNCHANGED registry /\ save
  /\ UNCHANGED <<now, signed, holds, pub, snapshot, due, crashes, answered, clobbered>>

\* Mutant: re-storing a record renews its timestamp.
MaintenanceRenews(x, n) ==
  /\ pub["maintenance"] = Idle /\ holds[x][n] # NoRecord
  /\ StartPublish("maintenance", n, [holds[x][n] EXCEPT !.ts = now], x)
  /\ UNCHANGED <<now, signed, registry, disk, holds, snapshot, walking, due, crashes, answered, clobbered>>

\* Maintenance.republishAll on node x: read its own copy of a record, then store it
\* here and on the closest peers.
Maintenance(x, n) ==
  /\ pub["maintenance"] = Idle /\ holds[x][n] # NoRecord
  /\ StartPublish("maintenance", n, holds[x][n], x)
  /\ UNCHANGED <<now, signed, registry, disk, holds, snapshot, walking, due, crashes, answered, clobbered>>

MaintenanceDone ==
  /\ pub["maintenance"] # Idle /\ pub["maintenance"].todo = {}
  /\ pub' = [pub EXCEPT !["maintenance"] = Idle]
  /\ UNCHANGED <<now, signed, registry, disk, holds, snapshot, walking, due, crashes, answered, clobbered>>

\* The registrar's process restarts: load reads the saved registry, and a walk
\* follows shortly after startup.
Restart ==
  /\ crashes < MaxCrashes
  /\ crashes' = crashes + 1
  /\ registry' = disk
  /\ pub' = [w \in Workers |->
               IF w = "maintenance" /\ pub[w].first # Self THEN pub[w] ELSE Idle]
  /\ snapshot' = [n \in Names |-> None]
  /\ walking' = FALSE
  /\ due' = now
  /\ UNCHANGED <<now, signed, disk, holds, answered, clobbered>>

\* Hours pass.  Publications take seconds and a walk that is due is not delayed by
\* hours, so time passes only between them.
Tick ==
  /\ now < MaxTime /\ now < due /\ ~walking
  /\ \A w \in Workers : pub[w] = Idle
  /\ now' = now + 1
  /\ UNCHANGED <<signed, registry, disk, holds, pub, snapshot, walking, due, crashes, answered, clobbered>>

Next ==
  \/ \E n \in Names, r \in Roots : Register(n, r) \/ Update(n, r)
  \/ RequestDone
  \/ \E n \in Names : Unregister(n) \/ Revoke(n) \/ WalkPublish(n)
  \/ \E w \in Workers, x \in Nodes : Deliver(w, x) \/ Lose(w, x)
  \/ WalkStart \/ WalkPublished \/ WalkEnd
  \/ \E x \in Maintainers, n \in Names : Maintenance(x, n)
  \/ MaintenanceDone
  \/ Restart
  \/ Tick

Spec == Init /\ [][Next]_vars
-----------------------------------------------------------------------------
\* NameRecord.Expired, for a signer and a resolver with the same clock.
Expired(rec) == now > rec.ts + TTL

\* pickBestRecord over the copies on the nodes in S.
Candidates(S, n) == {holds[x][n] : x \in S} \ {NoRecord}
Resolve(S, n) ==
  LET valid == {rec \in Candidates(S, n) : ~Expired(rec)}
  IN  IF valid = {} THEN NoRecord
      ELSE CHOOSE rec \in valid : \A other \in valid : other.version <= rec.version

Quiet == \A w \in Workers : pub[w] = Idle
-----------------------------------------------------------------------------
\* Shapes; a publication has a name, and one of the walk's belongs to a walk.
RegistrarTypeOK ==
  /\ now \in 0..MaxTime /\ signed \in 0..MaxPublish /\ crashes \in 0..MaxCrashes
  /\ registry \in [Names -> Roots \cup {None}]
  /\ disk \in [Names -> Roots \cup {None}]
  /\ holds \in [Nodes -> [Names -> Records]]
  /\ pub \in [Workers -> Publications]
  /\ snapshot \in [Names -> Roots \cup {None}]
  /\ answered \in [Names -> Records] /\ clobbered \subseteq Names
  /\ \A w \in Workers : pub[w] # Idle => pub[w].name # None
  /\ pub["walk"] # Idle => walking
  /\ walking \in BOOLEAN /\ due \in 0..(MaxTime + Interval)

\* "Without this, names quietly die after name.DefaultNameTTL": a registered name
\* always resolves between two walks, through losses of every replica store,
\* failed saves and restarts, unless a re-stored old copy has just replaced the
\* newest record.
NamesStayAlive ==
  \A n \in Names \ clobbered :
    Quiet /\ now < due /\ ~walking /\ registry[n] # None => Resolve(Nodes, n) # NoRecord

\* "a fresh Publish definitively supersedes prior records across the network
\* within at most one TTL window": once a record is older than the TTL, nothing
\* signed before it resolves on any node, though every node may have re-stored
\* the old records in between.
SupersededWithinTTL ==
  \A n \in Names, x \in Nodes, y \in Nodes :
    Resolve({x}, n) # NoRecord /\ now > holds[y][n].ts + TTL =>
      Resolve({x}, n).version > holds[y][n].version

\* The shapes above, and no superseded record that resolves for longer than a TTL.
RegistrarSound == RegistrarTypeOK /\ SupersededWithinTTL

\* The records in the network and on their way: none is of the future, and of two
\* the one with the higher version is not the older one.
Kept ==
  {holds[x][n] : x \in Nodes, n \in Names} \cup {pub[w].rec : w \in Workers} \cup {NoRecord}

VersionsInOrder ==
  /\ \A a \in Kept : a.version <= signed /\ a.ts <= now
  /\ \A a, b \in Kept : a.version <= b.version => a.ts <= b.ts

\* The handler and the walk publish what they have just signed, at the registrar
\* first; and a walk is never more than an interval away.
Signers == {"handler", "walk"}

SignersFit ==
  /\ \A w \in Signers : pub[w] # Idle =>
       pub[w].first = Self /\ pub[w].rec.ts = now /\ pub[w].rec.version > 0
  /\ due <= now + Interval

\* A record of n signed since the last walk began is at the registrar, or comes.
Fresh(n) == holds[Self][n].version > 0 /\ holds[Self][n].ts + Interval >= due

Coming(n) == \E w \in Signers : pub[w].name = n /\ Self \in pub[w].todo

\* What was being published is there or comes, and so does what is registered,
\* unless the walk has yet to reach it.
PublishedFresh ==
  \A w \in Signers, n \in Names \ clobbered : pub[w].name = n => Coming(n) \/ Fresh(n)

RegisteredFresh ==
  \A n \in Names \ clobbered : registry[n] # None /\ now < due =>
    Coming(n) \/ Fresh(n) \/ (walking /\ snapshot[n] # None)

\* The inductive invariant of the registrar.
RegistrarInv ==
  /\ RegistrarTypeOK /\ VersionsInOrder /\ SignersFit
  /\ PublishedFresh /\ RegisteredFresh

\* "so concurrent registrations during the walk are fine": when nothing is in
\* progress a registered name resolves to the root the registry has for it.
ResolvesToRegistry ==
  \A n \in Names : Quiet /\ registry[n] # None => Resolve(Nodes, n).root = registry[n]

\* "the version vote here converges to the freshest signed record": when nothing is
\* in progress a resolver that asks every node gets at least the version of the
\* last request that was answered.
FreshestSurvives ==
  \A n \in Names :
    Quiet /\ answered[n] # NoRecord /\ ~Expired(answered[n]) =>
      Resolve(Nodes, n).version >= answered[n].version
=============================================================================
