----------------------------- MODULE LocalStore -----------------------------
(***************************************************************************)
(* The content store of a node (core/dht/store.go): a map from keys to     *)
(* values with a byte budget kept by LRU eviction, and a per-peer quota    *)
(* for the bytes remote peers stored here.  This module is the in-memory   *)
(* half: everything localStore does while it holds s.mu.  Each action is   *)
(* one lock-held section, hence atomic.  StoreDisk adds the files.         *)
(*                                                                         *)
(* A value is abstracted to its identity and its size in units.  Sizes are *)
(* int64 in the code; real totals stay below 2^40, so width is irrelevant. *)
(***************************************************************************)
EXTENDS Integers, Sequences, FiniteSetsExt, SequencesExt

CONSTANTS
  Keys,      \* keys under test
  Values,    \* values
  Size,      \* Size[v]: bytes of v
  Allowed,   \* Allowed[k]: the values ever stored under k.  A singleton for a
             \* content-addressed chunk, several for a (mutable) name record
  Peers,     \* ids of the remote peers
  None,      \* "no value"
  Self,      \* the empty peer id "" (a local store, not attributed)
  MaxBytes,  \* maxBytes; 0 = unlimited
  Quotas     \* arguments SetPerPeerMax is called with; 0 = unlimited

ASSUME StoreAssumption ==
  /\ Size \in [Values -> Nat]
  /\ Allowed \in [Keys -> SUBSET Values]
  /\ None \notin Values /\ Self \notin Peers
  /\ MaxBytes \in Nat /\ Quotas \subseteq Nat

VARIABLES
  data,         \* data[k]: the value held under k, or None
  lru,          \* the keys held, least recently accessed first (s.access)
  total,        \* s.total
  attribution,  \* attribution[k]: the peer that stored k, or Self
  perPeer,      \* perPeer[p]: bytes attributed to p (0 = no map entry)
  perPeerMax,   \* s.perPeerMax
  selfEvicted   \* history: the first key that a put evicted while overwriting it

storeVars == <<data, lru, total, attribution, perPeer, perPeerMax, selfEvicted>>

StoreInit ==
  /\ data = [k \in Keys |-> None]
  /\ lru = << >>
  /\ total = 0
  /\ attribution = [k \in Keys |-> Self]
  /\ perPeer = [p \in Peers |-> 0]
  /\ perPeerMax = 0
  /\ selfEvicted = None
-----------------------------------------------------------------------------
Held == {k \in Keys : data[k] # None}

SizeAt(k) == IF data[k] = None THEN 0 ELSE Size[data[k]]

Bytes(ks) == MapThenSumSet(SizeAt, ks)

\* Bytes really held, and bytes really held on behalf of p.
HeldBytes == Bytes(Held)
HeldFor(p) == Bytes({k \in Held : attribution[k] = p})

\* perPeer[x] -= size; the map entry goes away once it is not positive.
Deduct(n, size) == Max({0, n - size})

Without(keys) == SelectSeq(lru, LAMBDA k : k \notin keys)

\* Mutant: the loop never breaks, one eviction clears the whole store.
EvictUntilUnderNoBreak(t, cap) ==
  IF (cap <= 0 /\ MaxBytes <= 0) \/ t <= cap THEN {} ELSE Held

\* The loop of evictUntilUnder(cap) entered with s.total = t: the keys that go,
\* oldest first, until the total is under the cap or nothing is left.
EvictUntilUnder(t, cap) ==
  LET gone(n) == {lru[i] : i \in 1..n}
      enough  == {n \in 0..Len(lru) : t - Bytes(gone(n)) <= cap}
  IN  IF cap <= 0 /\ MaxBytes <= 0 THEN {}
      ELSE gone(IF enough = {} THEN Len(lru) ELSE Min(enough))

EvictToFit(t, needed) ==
  IF MaxBytes <= 0 THEN {} ELSE EvictUntilUnder(t, Max({0, MaxBytes - needed}))

\* What put(k, v) evicts.  The old entry under k has been refunded from the total
\* but is still in s.data, so k itself may be among the victims.
Evicted(k, v) == EvictToFit(total - SizeAt(k), Size[v])
-----------------------------------------------------------------------------
\* Mutant: the admission check forgets the incoming value.
AdmittedIgnoresSize(k, v, p) ==
  (p # Self /\ perPeerMax > 0) =>
    perPeer[p] <= perPeerMax

\* The admission check of put; a rejected put changes nothing.
Admitted(k, v, p) ==
  (p # Self /\ perPeerMax > 0) =>
    perPeer[p] - (IF attribution[k] = p THEN SizeAt(k) ELSE 0) + Size[v]
      <= perPeerMax

\* Mutant: an evicted entry's bytes stay charged to the peer that stored it.
PerPeerAfterPutNoEvictRefund(k, v, p, q, gone) ==
  Deduct(perPeer[q], IF attribution[k] = q THEN SizeAt(k) ELSE 0)
    + (IF q = p THEN Size[v] ELSE 0)

\* perPeer[q] when put(k, v, p) has evicted `gone`: the overwritten entry is refunded,
\* then the evicted ones (with k's old entry again when it is a victim), then p pays.
PerPeerAfterPut(k, v, p, q, gone) ==
  LET refunded == Deduct(perPeer[q], IF attribution[k] = q THEN SizeAt(k) ELSE 0)
      charged  == {x \in gone : attribution[x] = q}
  IN  Deduct(refunded, Bytes(charged)) + (IF q = p THEN Size[v] ELSE 0)

\* put(key, value, peerID), from Lock to Unlock, with peerID # "" (PutAttributed)
\* or "" (Put).  `now` is read before the lock is taken and the caller may wait
\* for the lock arbitrarily long, so the new entry can land anywhere in the
\* recency order.
Put(k, v, p) ==
  /\ v \in Allowed[k]
  /\ Admitted(k, v, p)
  /\ \E gone \in {Evicted(k, v)} :
       /\ data' = [x \in Keys |-> IF x = k THEN v
                                  ELSE IF x \in gone THEN None ELSE data[x]]
       /\ total' = total - SizeAt(k) - Bytes(gone) + Size[v]
       /\ attribution' = [x \in Keys |-> IF x = k THEN p
                                         ELSE IF x \in gone THEN Self
                                         ELSE attribution[x]]
       /\ perPeer' = [q \in Peers |-> PerPeerAfterPut(k, v, p, q, gone)]
       /\ selfEvicted' = IF selfEvicted = None /\ k \in gone THEN k ELSE selfEvicted
       /\ \E rest \in {Without(gone \cup {k})} :
            \E i \in 1..(Len(rest) + 1) : lru' = InsertAt(rest, i, k)
  /\ UNCHANGED perPeerMax

\* Delete(key): a no-op when the key is absent.
Delete(k) ==
  /\ k \in Held
  /\ data' = [data EXCEPT ![k] = None]
  /\ lru' = Without({k})
  /\ total' = total - SizeAt(k)
  /\ attribution' = [attribution EXCEPT ![k] = Self]
  /\ perPeer' = [q \in Peers |->
                   IF attribution[k] = q THEN Deduct(perPeer[q], SizeAt(k))
                   ELSE perPeer[q]]
  /\ UNCHANGED <<perPeerMax, selfEvicted>>

\* Get(key) on a hit refreshes the access time, under the lock.
Get(k) ==
  /\ k \in Held
  /\ lru' = Append(Without({k}), k)
  /\ UNCHANGED <<data, total, attribution, perPeer, perPeerMax, selfEvicted>>

SetPerPeerMax(q) ==
  /\ perPeerMax' = q
  /\ UNCHANGED <<data, lru, total, attribution, perPeer, selfEvicted>>

\* The operations, on the entries `keys`.
StoreStep(keys) ==
  \/ \E k \in keys, v \in Values, p \in Peers \cup {Self} : Put(k, v, p)
  \/ \E k \in keys : Delete(k)
  \/ \E k \in keys : Get(k)
  \/ \E q \in Quotas : SetPerPeerMax(q)
-----------------------------------------------------------------------------
\* s.data, s.access and s.attribution describe the same set of entries: every
\* entry held has exactly one access time, and only held entries are attributed.
\* (put, Delete and the eviction loop update the three maps separately.)
StoreTypeOK ==
  /\ data \in [Keys -> Values \cup {None}]
  /\ lru \in Seq(Keys) /\ IsInjective(lru) /\ ToSet(lru) = Held
  /\ total \in Int
  /\ attribution \in [Keys -> Peers \cup {Self}]
  /\ perPeer \in [Peers -> Nat]
  /\ perPeerMax \in Nat /\ selfEvicted \in Keys \cup {None}
  /\ \A k \in Keys : attribution[k] # Self => k \in Held

\* "current total bytes" and "how many bytes that peer has currently stored at
\* us": the running counters are never more than the bytes held, so nothing is
\* evicted and no peer refused for bytes that are gone; and they are exactly those
\* bytes as long as no put has evicted the very entry it was overwriting (which put
\* refunds a second time).  It takes a key whose value changes: chunks alone keep
\* the counters exact.
AccountingExact ==
  /\ total <= HeldBytes /\ \A p \in Peers : perPeer[p] <= HeldFor(p)
  /\ selfEvicted = None =>
       total = HeldBytes /\ \A p \in Peers : perPeer[p] = HeldFor(p)
  /\ selfEvicted # None => Cardinality(Allowed[selfEvicted]) > 1

\* "Capacity is bounded by maxBytes": the bytes really held stay within the
\* budget, except for one entry that is bigger than the budget by itself.
WithinBudget ==
  MaxBytes > 0 =>
    \/ HeldBytes <= MaxBytes
    \/ \E k \in Held : SizeAt(k) > MaxBytes /\ HeldBytes = SizeAt(k)

\* The store is sound: put, delete, eviction and reload keep the three maps in step and
\* the byte counters as AccountingExact says, and the bytes within the budget as long
\* as the counters are exact.
StoreSound ==
  /\ StoreTypeOK
  /\ AccountingExact
  /\ selfEvicted = None => WithinBudget

\* "Each remote peer is allowed up to maxBytes attributed to them in our store":
\* no step takes the bytes held for a peer above the quota in force, as long as
\* the counters are exact.
QuotaStep ==
  \A p \in Peers : selfEvicted = None /\ HeldFor(p)' > HeldFor(p) /\ perPeerMax > 0
                     => HeldFor(p)' <= perPeerMax
QuotaRespected == [][QuotaStep]_storeVars

\* Eviction is minimal: when a put of v drops other entries, the survivors
\* together with the youngest victim and v would not have fitted the budget.
EvictionStep ==
  LET lost == {k \in Held : data'[k] = None}
      new  == {k \in Keys : data'[k] # data[k] /\ data'[k] # None}
      young == CHOOSE k \in lost : \A i, j \in 1..Len(lru) :
                 lru[i] = k /\ lru[j] \in lost => j <= i
  IN  new # {} /\ lost # {} => HeldBytes' + SizeAt(young) > MaxBytes
EvictionMinimal == [][EvictionStep]_storeVars
=============================================================================
