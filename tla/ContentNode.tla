---------------------------- MODULE ContentNode -----------------------------
(***************************************************************************)
(* How one node accepts, serves, fetches and revokes content               *)
(* (core/dht/dht.go, revoke.go, blocklist.go): store and find_value        *)
(* requests of peers, local publishing, Get with its coalescing of         *)
(* concurrent lookups, and the application of revocations.  Every request  *)
(* runs in a goroutine of its own; the blocklist, the store and the table  *)
(* of lookups in flight each have their own lock and are read and written  *)
(* one at a time.  The store itself is LocalStore; here a key holds        *)
(* nothing, the content that hashes to it, or something else.              *)
(***************************************************************************)
EXTENDS Naturals

CONSTANTS
  Keys,         \* content addresses
  Threads,      \* bound on the requests handled at once
  Configured,   \* the cases considered: was SetBlocklist called at startup?
  None

ASSUME NodeAssumption ==
  /\ None \notin Keys \cup Threads
  /\ Configured \subseteq BOOLEAN

Values == {"absent", "good", "bad"}

Kinds == {"idle", "store", "local", "get", "serve", "revoke"}

\* The phases in which a get is the lookup in flight.
Leading == {"gate", "cache", "walk", "fill", "finish"}

Phases == {"idle", "put", "read", "wait", "close", "done", "install", "add", "delete"} \cup Leading

VARIABLES
  held,        \* held[k]: what the local store has under k
  installed,   \* d.blocklist is not nil
  blocklist,   \* the keys on it
  op,          \* op[t]: the request thread t is working on
  inflight,    \* inflight[k][verify]: the thread that leads the lookup
  revoked,     \* history: keys whose revocation has been applied
  mine,        \* history: keys published here, not blocked, overwritten or evicted since
  wiped        \* history: keys on a blocklist that another one has replaced

nodeVars == <<held, installed, blocklist, op, inflight, revoked, mine, wiped>>

\* `late` and `own` remember, for the properties, whether the key was revoked and
\* whether it was ours when the request began.
Ops == [kind : Kinds, key : Keys \cup {None}, verify : BOOLEAN, phase : Phases,
        val : Values, todo : SUBSET Keys, leader : Threads \cup {None},
        late : BOOLEAN, own : BOOLEAN]

IdleOp == [kind |-> "idle", key |-> None, verify |-> FALSE, phase |-> "idle",
           val |-> "absent", todo |-> {}, leader |-> None, late |-> FALSE, own |-> FALSE]

NodeInit ==
  /\ held = [k \in Keys |-> "absent"]
  /\ installed \in Configured
  /\ blocklist = {}
  /\ op = [t \in Threads |-> IdleOp]
  /\ inflight = [k \in Keys |-> [verify \in BOOLEAN |-> None]]
  /\ revoked = {}
  /\ mine = {}
  /\ wiped = {}

IsBlocked(k) == installed /\ k \in blocklist

Request(kind, k, phase) ==
  [IdleOp EXCEPT !.kind = kind, !.key = k, !.phase = phase,
                 !.late = k \in revoked, !.own = k \in mine]

At(t, kind, phase) == op[t].kind = kind /\ op[t].phase = phase

SetOp(t, o) == op' = [op EXCEPT ![t] = o]
-----------------------------------------------------------------------------
\* handleStore (kind "store") and StoreLocal (kind "local"), up to the gate.
BeginStore(t, kind, k, v) ==
  /\ op[t] = IdleOp
  /\ kind = "local" => v = "good"
  /\ ~IsBlocked(k)
  /\ SetOp(t, [Request(kind, k, "put") EXCEPT !.val = v])
  /\ UNCHANGED <<held, installed, blocklist, inflight, revoked, mine, wiped>>

\* The write, or the silent drop of a peer that is over its quota.
StorePut(t) ==
  /\ op[t].phase = "put"
  /\ LET k == op[t].key
         v == op[t].val
     IN  /\ held' = [held EXCEPT ![k] = v]
         /\ mine' = IF v = "bad" THEN mine \ {k}
                    ELSE IF op[t].kind = "local" /\ ~IsBlocked(k) THEN mine \cup {k}
                    ELSE mine
  /\ SetOp(t, IdleOp)
  /\ UNCHANGED <<installed, blocklist, inflight, revoked, wiped>>

StoreDropped(t) ==
  /\ At(t, "store", "put")
  /\ SetOp(t, IdleOp)
  /\ UNCHANGED <<held, installed, blocklist, inflight, revoked, mine, wiped>>

\* A put under some other key evicts k (LocalStore).
Evict(k) ==
  /\ held[k] # "absent"
  /\ held' = [held EXCEPT ![k] = "absent"]
  /\ mine' = mine \ {k}
  /\ UNCHANGED <<installed, blocklist, op, inflight, revoked, wiped>>

\* Mutant: find_value is answered from the store without asking the blocklist.
BeginServeUngated(t, k) ==
  /\ op[t] = IdleOp
  /\ SetOp(t, Request("serve", k, "read"))
  /\ UNCHANGED <<held, installed, blocklist, inflight, revoked, mine, wiped>>

\* handleFindValue: the gate, then the read of the store.
BeginServe(t, k) ==
  /\ op[t] = IdleOp
  /\ SetOp(t, Request("serve", k, IF IsBlocked(k) THEN "done" ELSE "read"))
  /\ UNCHANGED <<held, installed, blocklist, inflight, revoked, mine, wiped>>

ServeRead(t) ==
  /\ At(t, "serve", "read")
  /\ SetOp(t, [op[t] EXCEPT !.phase = "done", !.val = held[op[t].key]])
  /\ UNCHANGED <<held, installed, blocklist, inflight, revoked, mine, wiped>>

\* Mutant: a lookup in flight is not joined, a second one is started.
BeginGetNoJoin(t, k, verify) ==
  /\ op[t] = IdleOp
  /\ SetOp(t, [Request("get", k, "gate") EXCEPT !.verify = verify])
  /\ inflight' = [inflight EXCEPT ![k][verify] = t]
  /\ UNCHANGED <<held, installed, blocklist, revoked, mine, wiped>>

\* get: join the lookup in flight for (key, verify) or lead a new one.
BeginGet(t, k, verify) ==
  /\ op[t] = IdleOp
  /\ IF inflight[k][verify] # None
     THEN /\ SetOp(t, [Request("get", k, "wait") EXCEPT
                         !.verify = verify, !.leader = inflight[k][verify]])
          /\ UNCHANGED inflight
     ELSE /\ SetOp(t, [Request("get", k, "gate") EXCEPT !.verify = verify])
          /\ inflight' = [inflight EXCEPT ![k][verify] = t]
  /\ UNCHANGED <<held, installed, blocklist, revoked, mine, wiped>>

\* getInner: the gate,
GetGate(t) ==
  /\ At(t, "get", "gate")
  /\ SetOp(t, [op[t] EXCEPT !.phase = IF IsBlocked(op[t].key) THEN "finish" ELSE "cache"])
  /\ UNCHANGED <<held, installed, blocklist, inflight, revoked, mine, wiped>>

\* Mutant: a value of the local cache is not verified.
GetCacheUnverified(t) ==
  /\ At(t, "get", "cache")
  /\ LET v == held[op[t].key]
     IN  SetOp(t, IF v # "absent"
                  THEN [op[t] EXCEPT !.phase = "finish", !.val = v]
                  ELSE [op[t] EXCEPT !.phase = "walk"])
  /\ UNCHANGED <<held, installed, blocklist, inflight, revoked, mine, wiped>>

Acceptable(t, v) == v = "good" \/ (v = "bad" /\ ~op[t].verify)

\* the local cache,
GetCache(t) ==
  /\ At(t, "get", "cache")
  /\ LET v == held[op[t].key]
     IN  SetOp(t, IF Acceptable(t, v)
                  THEN [op[t] EXCEPT !.phase = "finish", !.val = v]
                  ELSE [op[t] EXCEPT !.phase = "walk"])
  /\ UNCHANGED <<held, installed, blocklist, inflight, revoked, mine, wiped>>

\* the walk over the network, which returns v or nothing acceptable,
GetWalk(t, v) ==
  /\ At(t, "get", "walk")
  /\ SetOp(t, IF ~Acceptable(t, v) THEN [op[t] EXCEPT !.phase = "finish"]
              ELSE [op[t] EXCEPT !.val = v,
                                 !.phase = IF op[t].verify THEN "fill" ELSE "finish"])
  /\ UNCHANGED <<held, installed, blocklist, inflight, revoked, mine, wiped>>

\* and the copy kept of verified content.
GetFill(t) ==
  /\ At(t, "get", "fill")
  /\ held' = [held EXCEPT ![op[t].key] = op[t].val]
  /\ SetOp(t, [op[t] EXCEPT !.phase = "finish"])
  /\ UNCHANGED <<installed, blocklist, inflight, revoked, mine, wiped>>

\* The leader takes its lookup out of the table,
GetFinish(t) ==
  /\ At(t, "get", "finish")
  /\ inflight' = [inflight EXCEPT ![op[t].key][op[t].verify] = None]
  /\ SetOp(t, [op[t] EXCEPT !.phase = "close"])
  /\ UNCHANGED <<held, installed, blocklist, revoked, mine, wiped>>

\* and then, without the lock, hands its result to all who joined it.
GetClose(t) ==
  /\ At(t, "get", "close")
  /\ op' = [u \in Threads |->
              IF u = t THEN [op[t] EXCEPT !.phase = "done"]
              ELSE IF At(u, "get", "wait") /\ op[u].leader = t
              THEN [op[u] EXCEPT !.phase = "done", !.val = op[t].val, !.leader = None]
              ELSE op[u]]
  /\ UNCHANGED <<held, installed, blocklist, inflight, revoked, mine, wiped>>

\* A get or a find_value returns to its caller.
Return(t) ==
  /\ op[t].phase = "done"
  /\ SetOp(t, IdleOp)
  /\ UNCHANGED <<held, installed, blocklist, inflight, revoked, mine, wiped>>

\* applyRevoke of the chunks ks: look whether there is a blocklist at all,
BeginRevoke(t, ks) ==
  /\ op[t] = IdleOp
  /\ SetOp(t, [IdleOp EXCEPT !.kind = "revoke", !.todo = ks,
                             !.phase = IF installed THEN "add" ELSE "install"])
  /\ UNCHANGED <<held, installed, blocklist, inflight, revoked, mine, wiped>>

\* install one (d.blocklist is not protected by a lock),
RevokeInstall(t) ==
  /\ At(t, "revoke", "install")
  /\ installed' = TRUE
  /\ blocklist' = {}
  /\ wiped' = wiped \cup blocklist
  /\ SetOp(t, [op[t] EXCEPT !.phase = "add"])
  /\ UNCHANGED <<held, inflight, revoked, mine>>

\* then for each chunk: Add ...
RevokeAdd(t) ==
  /\ At(t, "revoke", "add")
  /\ \E k \in op[t].todo :
       /\ blocklist' = blocklist \cup {k}
       /\ mine' = mine \ {k}
       /\ SetOp(t, [op[t] EXCEPT !.phase = "delete", !.key = k])
  /\ UNCHANGED <<held, installed, inflight, revoked, wiped>>

\* ... and Delete.
RevokeDelete(t) ==
  /\ At(t, "revoke", "delete")
  /\ LET k == op[t].key
     IN  /\ held' = [held EXCEPT ![k] = "absent"]
         /\ mine' = mine \ {k}
         /\ revoked' = revoked \cup {k}
         /\ SetOp(t, IF op[t].todo = {k} THEN IdleOp
                     ELSE [op[t] EXCEPT !.phase = "add", !.key = None,
                                        !.todo = @ \ {k}])
  /\ UNCHANGED <<installed, blocklist, inflight, wiped>>

GetStep(t) ==
  \/ GetGate(t) \/ GetCache(t) \/ GetFill(t) \/ GetFinish(t) \/ GetClose(t)
  \/ \E v \in Values : GetWalk(t, v)

NodeNext ==
  \/ \E k \in Keys : Evict(k)
  \/ \E t \in Threads :
       \/ \E k \in Keys : \/ \E kind \in {"store", "local"}, v \in {"good", "bad"} :
                               BeginStore(t, kind, k, v)
                          \/ BeginServe(t, k)
                          \/ \E verify \in BOOLEAN : BeginGet(t, k, verify)
       \/ \E ks \in (SUBSET Keys) \ {{}} : BeginRevoke(t, ks)
       \/ StorePut(t) \/ StoreDropped(t)
       \/ ServeRead(t)
       \/ GetStep(t)
       \/ Return(t)
       \/ RevokeInstall(t) \/ RevokeAdd(t) \/ RevokeDelete(t)

NodeSpec == NodeInit /\ [][NodeNext]_nodeVars
-----------------------------------------------------------------------------
\* Tables of the right shape; a revocation being applied has chunks left, and only
\* a get that joined another one has a leader.
NodeTypeOK ==
  /\ held \in [Keys -> Values]
  /\ installed \in BOOLEAN
  /\ blocklist \subseteq Keys
  /\ op \in [Threads -> Ops]
  /\ inflight \in [Keys -> [BOOLEAN -> Threads \cup {None}]]
  /\ revoked \subseteq Keys
  /\ mine \subseteq Keys /\ wiped \subseteq Keys
  /\ \A t \in Threads : /\ op[t].kind = "revoke" <=> op[t].todo # {}
                        /\ op[t].leader # None <=> At(t, "get", "wait")

\* "DISCARD any value whose hash does not match the requested key": a verified
\* get returns the right content or nothing, also when a peer has overwritten the
\* local copy and also to the callers that joined the lookup.
OnlyVerifiedReturned ==
  \A t \in Threads :
    At(t, "get", "done") /\ op[t].verify => op[t].val \in {"good", "absent"}

\* "never serve blocked content to other peers": a find_value that arrives after
\* the key was revoked is not answered with the content, even though a store that
\* passed its gate earlier may have put it back; unless a second first revocation
\* has replaced the blocklist the key was on.
RevokedNotServed ==
  \A t \in Threads :
    At(t, "serve", "done") /\ op[t].late /\ op[t].key \notin wiped => op[t].val = "absent"

\* "coalesces concurrent calls for the same (key, verify) into a single in-flight
\* lookup": there is one lookup per key, its leader is in the table, and whoever
\* waits is waiting for a leader of the same key that has yet to close its channel,
\* even when a later lookup has taken its place in the table.
OneLookupPerKey ==
  /\ \A t \in Threads :
       op[t].kind = "get" /\ op[t].phase \in Leading => inflight[op[t].key][op[t].verify] = t
  /\ \A t \in Threads : At(t, "get", "wait") =>
       LET o == op[op[t].leader]
       IN  /\ o.kind = "get" /\ o.key = op[t].key /\ o.verify = op[t].verify
           /\ o.phase \in Leading \cup {"close"}

\* The node is sound: well shaped, and the table of lookups in flight is as
\* OneLookupPerKey says.
NodeSound == NodeTypeOK /\ OneLookupPerKey

\* Each kind of request has its own phases, and its key by the time it needs one.
PhasesFit(o) ==
  /\ o.kind = "idle" => o.phase = "idle"
  /\ o.kind \in {"store", "local"} => o.phase = "put" /\ o.key \in Keys
  /\ o.kind = "serve" => o.phase \in {"read", "done"} /\ o.key \in Keys
  /\ o.kind = "get" => o.phase \in Leading \cup {"close", "wait", "done"} /\ o.key \in Keys
  /\ o.kind = "revoke" => o.phase \in {"install", "add", "delete"}
  /\ o.phase = "delete" => o.key \in Keys

\* A verified get never holds anything but verified content, in any of its phases.
ValuesVerified ==
  \A t \in Threads : op[t].kind = "get" /\ op[t].verify => op[t].val # "bad"

\* The table of lookups in flight names a thread that leads that lookup.
InflightLed ==
  \A k \in Keys, verify \in BOOLEAN :
    LET t == inflight[k][verify]
    IN  t # None => /\ op[t].kind = "get" /\ op[t].phase \in Leading
                    /\ op[t].key = k /\ op[t].verify = verify

\* What was revoked is on the blocklist, or was when another one replaced it; and a
\* revocation deletes a chunk only after it has blocked it.
BlockedFirst ==
  /\ \A k \in revoked : IsBlocked(k) \/ k \in wiped
  /\ \A t \in Threads :
       op[t].kind = "revoke" =>
         /\ op[t].phase \in {"add", "delete"} => installed
         /\ op[t].phase = "delete" => op[t].key \in blocklist \cup wiped

\* A find_value for a key revoked before it arrived has not passed the gate.
LateStopped ==
  \A t \in Threads :
    op[t].kind = "serve" /\ op[t].late /\ op[t].key \notin wiped =>
      op[t].phase = "done" /\ op[t].val = "absent"

\* The inductive invariant of the node.
NodeInv ==
  /\ NodeSound
  /\ \A t \in Threads : PhasesFit(op[t])
  /\ ValuesVerified /\ InflightLed /\ BlockedFirst /\ LateStopped

\* "adds them to the in-memory blocklist so they can't be re-accepted": a revoked
\* chunk is not in the store once no request is being handled.
RevokedNotHeld ==
  (\A t \in Threads : op[t] = IdleOp) => \A k \in revoked : held[k] = "absent"

\* "Get/GetUnverified for blocked hashes return ErrNotFound": a get that begins
\* after the key was revoked finds nothing.
RevokedNotFound ==
  \A t \in Threads : At(t, "get", "done") /\ op[t].late => op[t].val = "absent"

\* "install an empty one now so revoke-driven blocking still works for the life of
\* this process": what was revoked stays on the blocklist.
RevokedStaysBlocked == \A k \in revoked : IsBlocked(k)

\* StoreLocal: "The value is immediately retrievable from this node".
OwnContentFound ==
  \A t \in Threads :
    At(t, "get", "done") /\ op[t].own /\ op[t].key \in mine => op[t].val = "good"
=============================================================================
