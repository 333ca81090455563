------------------------- MODULE ContentNodeProofs --------------------------
(***************************************************************************)
(* The content a node holds, serves, fetches and revokes (ContentNode),    *)
(* for any number of keys and of requests handled at once.                 *)
(***************************************************************************)
EXTENDS ContentNode, TLAPS

-----------------------------------------------------------------------------
\* Content and revocation.  NodeInv follows a request through its phases
\* (PhasesFit), what a get holds (ValuesVerified), the table of lookups in both
\* directions (OneLookupPerKey, InflightLed), the order of Add and Delete of a
\* revocation (BlockedFirst) and the gate of find_value (LateStopped).

\* What is true of the record of one request.
OpOK(o) ==
  /\ o \in Ops
  /\ PhasesFit(o)
  /\ o.kind = "revoke" <=> o.todo # {}
  /\ o.leader # None <=> o.kind = "get" /\ o.phase = "wait"

\* The idle request.
LEMMA IdleFits == OpOK(IdleOp)
BY Zenon DEF OpOK, IdleOp, Ops, Kinds, Phases, Leading, Values, PhasesFit

\* A request as it begins: it has no value, no key to revoke and no leader, and it
\* is late if the key was revoked before it came.
LEMMA RequestFits ==
  ASSUME NEW k \in Keys, NEW kind \in Kinds, NEW phase0 \in Phases,
         NEW o, o = Request(kind, k, phase0)
  PROVE  /\ o \in Ops /\ o.kind = kind /\ o.key = k /\ o.phase = phase0
         /\ o.val = "absent" /\ o.todo = {} /\ o.leader = None
         /\ o.late <=> k \in revoked
<1> DEFINE a == k \in revoked
           b == k \in mine
<1>1. a \in BOOLEAN /\ b \in BOOLEAN
  OBVIOUS
<1>2. o = [IdleOp EXCEPT !.kind = kind, !.key = k, !.phase = phase0, !.late = a, !.own = b]
  BY Zenon DEF Request
<1> HIDE DEF a, b
<1>3. o = [kind |-> kind, key |-> k, verify |-> FALSE, phase |-> phase0, val |-> "absent",
           todo |-> {}, leader |-> None, late |-> a, own |-> b]
  BY <1>2, Zenon DEF IdleOp
<1>4. o \in Ops
  BY <1>1, <1>3 DEF Ops, Values
<1>5. /\ o.kind = kind /\ o.key = k /\ o.phase = phase0
      /\ o.val = "absent" /\ o.todo = {} /\ o.leader = None /\ o.late = a
  BY <1>3
<1> QED
  BY <1>4, <1>5, Zenon DEF a

\* What every request satisfies, under the invariant.
LEMMA OpsFit ==
  ASSUME NodeInv
  PROVE  op \in [Threads -> Ops] /\ \A t \in Threads : OpOK(op[t])
BY Zenon DEF NodeInv, NodeSound, NodeTypeOK, OpOK, At

\* A request moves on to a record that fits.
LEMMA SetOpFits ==
  ASSUME NodeInv, NEW t \in Threads, NEW o, OpOK(o), SetOp(t, o)
  PROVE  op' \in [Threads -> Ops] /\ \A u \in Threads : OpOK(op'[u])
BY OpsFit DEF SetOp, OpOK

\* The phases of a request.
LEMMA OpsStep ==
  ASSUME NodeInv, NodeNext
  PROVE  op' \in [Threads -> Ops] /\ \A u \in Threads : OpOK(op'[u])
<1> DEFINE Goal == op' \in [Threads -> Ops] /\ \A u \in Threads : OpOK(op'[u])
<1>0. /\ {"store", "local", "serve", "get"} \subseteq Kinds
      /\ Leading \cup {"put", "read", "wait", "close", "done", "add", "delete"} \subseteq Phases
      /\ {"good", "bad"} \subseteq Values
      /\ held \in [Keys -> Values] /\ inflight \in [Keys -> [BOOLEAN -> Threads \cup {None}]]
  BY Zenon DEF Kinds, Phases, Values, NodeInv, NodeSound, NodeTypeOK
<1>1. ASSUME NEW k \in Keys, Evict(k) PROVE Goal
  BY <1>1, OpsFit DEF Evict
<1>2. ASSUME NEW t \in Threads, NEW k \in Keys, NEW kind \in {"store", "local"},
             NEW v \in {"good", "bad"}, BeginStore(t, kind, k, v)
      PROVE  Goal
  <2>1. PICK q : q = Request(kind, k, "put")
    BY Zenon
  <2>2. /\ q \in Ops /\ q.kind = kind /\ q.key = k /\ q.phase = "put"
        /\ q.todo = {} /\ q.leader = None
    <3>1. kind \in Kinds /\ "put" \in Phases
      BY <1>0
    <3> QED
      BY <2>1, <3>1, RequestFits
  <2>3. PICK o : o = [q EXCEPT !.val = v]
    BY Zenon
  <2>4. OpOK(o)
    BY <1>0, <2>2, <2>3, Zenon DEF OpOK, Ops, PhasesFit
  <2> QED
    BY <1>2, <2>1, <2>3, <2>4, SetOpFits DEF BeginStore
<1>3. ASSUME NEW t \in Threads, NEW k \in Keys, BeginServe(t, k) PROVE Goal
  <2>1. PICK ph \in {"done", "read"} : SetOp(t, Request("serve", k, ph))
    BY <1>3, Zenon DEF BeginServe
  <2>2. PICK o : o = Request("serve", k, ph)
    OBVIOUS
  <2>3. /\ o \in Ops /\ o.kind = "serve" /\ o.key = k /\ o.phase = ph
        /\ o.todo = {} /\ o.leader = None
    <3>1. "serve" \in Kinds /\ ph \in Phases
      BY <1>0
    <3> QED
      BY <2>2, <3>1, RequestFits
  <2>4. OpOK(o)
    BY <2>3 DEF OpOK, PhasesFit
  <2> QED
    BY <2>1, <2>2, <2>4, SetOpFits
<1>4. ASSUME NEW t \in Threads, NEW k \in Keys, NEW verify \in BOOLEAN, BeginGet(t, k, verify)
      PROVE  Goal
  <2>1. CASE inflight[k][verify] # None
    <3>1. PICK q : q = Request("get", k, "wait")
      BY Zenon
    <3>2. /\ q \in Ops /\ q.kind = "get" /\ q.key = k /\ q.phase = "wait" /\ q.todo = {}
      <4>1. "get" \in Kinds /\ "wait" \in Phases
        BY <1>0
      <4> QED
        BY <3>1, <4>1, RequestFits
    <3>3. PICK l \in Threads : l = inflight[k][verify]
      BY <1>0, <2>1
    <3>4. PICK o : o = [q EXCEPT !.verify = verify, !.leader = l]
      OBVIOUS
    <3>5. l # None
      BY <2>1, <3>3
    <3>6. OpOK(o)
      BY <3>2, <3>4, <3>5, Zenon DEF OpOK, Ops, PhasesFit
    <3> QED
      BY <1>4, <2>1, <3>1, <3>3, <3>4, <3>6, SetOpFits, Zenon DEF BeginGet
  <2>2. CASE inflight[k][verify] = None
    <3>1. PICK q : q = Request("get", k, "gate")
      BY Zenon
    <3>2. "gate" \in Leading
      BY DEF Leading
    <3>3. /\ q \in Ops /\ q.kind = "get" /\ q.key = k /\ q.phase = "gate" /\ q.todo = {}
          /\ q.leader = None
      <4>1. "get" \in Kinds /\ "gate" \in Phases
        BY <1>0, <3>2, Zenon
      <4> QED
        BY <3>1, <4>1, RequestFits
    <3>4. PICK o : o = [q EXCEPT !.verify = verify]
      BY Zenon
    <3>5. OpOK(o)
      BY <3>2, <3>3, <3>4 DEF OpOK, Ops, PhasesFit
    <3> QED
      BY <1>4, <2>2, <3>1, <3>4, <3>5, SetOpFits, Zenon DEF BeginGet
  <2> QED
    BY <2>1, <2>2
<1>5. ASSUME NEW t \in Threads, NEW ks \in (SUBSET Keys) \ {{}}, BeginRevoke(t, ks)
      PROVE  Goal
  <2>1. PICK ph \in {"add", "install"} :
          SetOp(t, [IdleOp EXCEPT !.kind = "revoke", !.todo = ks, !.phase = ph])
    BY <1>5, Zenon DEF BeginRevoke
  <2>2. PICK o : o = [IdleOp EXCEPT !.kind = "revoke", !.todo = ks, !.phase = ph]
    OBVIOUS
  <2>3. OpOK(o)
    BY <2>2, IdleFits, Zenon DEF OpOK, Ops, PhasesFit, IdleOp, Kinds, Phases
  <2> QED
    BY <2>1, <2>2, <2>3, SetOpFits
<1>6. ASSUME NEW t \in Threads, StorePut(t) \/ StoreDropped(t) \/ Return(t) PROVE Goal
  BY <1>6, IdleFits, SetOpFits, Zenon DEF StorePut, StoreDropped, Return
<1>7. ASSUME NEW t \in Threads, ServeRead(t) PROVE Goal
  <2>1. PICK o : o = [op[t] EXCEPT !.phase = "done", !.val = held[op[t].key]]
    BY Zenon
  <2>2. OpOK(op[t]) /\ op[t].kind = "serve"
    BY <1>7, OpsFit DEF ServeRead, At
  <2>3. held[op[t].key] \in Values
    BY <1>0, <2>2, Zenon DEF OpOK, PhasesFit
  <2>4. OpOK(o)
    BY <1>0, <2>1, <2>2, <2>3, Zenon DEF OpOK, Ops, PhasesFit, Leading
  <2> QED
    BY <1>7, <2>1, <2>4, SetOpFits, Zenon DEF ServeRead
\* A get that goes on to one of its later phases, with the value it has or a new one.
<1>8. ASSUME NEW t \in Threads, op[t].kind = "get", op[t].phase \in Leading,
             NEW ph \in Leading \cup {"close"}, NEW v \in Values,
             \/ SetOp(t, [op[t] EXCEPT !.phase = ph])
             \/ SetOp(t, [op[t] EXCEPT !.phase = ph, !.val = v])
             \/ SetOp(t, [op[t] EXCEPT !.val = v, !.phase = ph])
      PROVE  Goal
  <2>1. OpOK(op[t])
    BY OpsFit, Zenon
  <2>2. ASSUME NEW o, \/ o = [op[t] EXCEPT !.phase = ph]
                      \/ o = [op[t] EXCEPT !.phase = ph, !.val = v]
                      \/ o = [op[t] EXCEPT !.val = v, !.phase = ph]
        PROVE  OpOK(o)
    <3>0. op[t] \in Ops /\ ph \in Phases
      BY <1>8, <2>1, Zenon DEF OpOK, Phases
    <3> DEFINE Fields == /\ o \in Ops /\ o.kind = "get" /\ o.key = op[t].key /\ o.phase = ph
                         /\ o.todo = op[t].todo /\ o.leader = op[t].leader
    <3>a. ASSUME o = [op[t] EXCEPT !.phase = ph] PROVE Fields
      BY <1>8, <3>0, <3>a DEF Ops
    <3>b. ASSUME o = [op[t] EXCEPT !.phase = ph, !.val = v] PROVE Fields
      BY <1>8, <3>0, <3>b, Zenon DEF Ops
    <3>c. ASSUME o = [op[t] EXCEPT !.val = v, !.phase = ph] PROVE Fields
      BY <1>8, <3>0, <3>c, Zenon DEF Ops
    <3>1. Fields
      BY <2>2, <3>a, <3>b, <3>c, Zenon
    <3> QED
      BY <1>8, <2>1, <3>1, Zenon DEF OpOK, PhasesFit, Leading
  <2> QED
    BY <1>8, <2>2, SetOpFits, Zenon
<1>9. ASSUME NEW t \in Threads, GetGate(t) \/ GetCache(t) \/ GetFill(t) \/ GetFinish(t)
      PROVE  Goal
  <2>1. op[t].kind = "get" /\ op[t].phase \in Leading /\ held[op[t].key] \in Values
    BY <1>0, <1>9, OpsFit, Zenon DEF GetGate, GetCache, GetFill, GetFinish, At, Leading, OpOK, PhasesFit
  <2>2. \E ph \in Leading \cup {"close"} :
          \/ SetOp(t, [op[t] EXCEPT !.phase = ph])
          \/ SetOp(t, [op[t] EXCEPT !.phase = ph, !.val = held[op[t].key]])
    BY <1>9, Zenon DEF GetGate, GetCache, GetFill, GetFinish, Leading
  <2> QED
    BY <1>8, <2>1, <2>2, Zenon
<1>10. ASSUME NEW t \in Threads, NEW v \in Values, GetWalk(t, v) PROVE Goal
  <2>1. op[t].kind = "get" /\ op[t].phase \in Leading
    BY <1>10, Zenon DEF GetWalk, At, Leading
  <2>2. \E ph \in Leading :
          \/ SetOp(t, [op[t] EXCEPT !.phase = ph])
          \/ SetOp(t, [op[t] EXCEPT !.val = v, !.phase = ph])
    BY <1>10, Zenon DEF GetWalk, Leading
  <2> QED
    BY <1>8, <2>1, <2>2, Zenon
<1>11. ASSUME NEW t \in Threads, GetClose(t) PROVE Goal
  <2>1. ASSUME NEW u \in Threads PROVE OpOK(op'[u])
    <3>1. CASE u = t
      <4>1. op'[u] = [op[t] EXCEPT !.phase = "done"] /\ op[t].kind = "get" /\ op[t].phase = "close"
        BY <1>11, <3>1, Zenon DEF GetClose, At
      <4>2. /\ op'[u] \in Ops /\ op'[u].kind = "get" /\ op'[u].phase = "done"
            /\ op'[u].key = op[t].key /\ op'[u].todo = op[t].todo /\ op'[u].leader = op[t].leader
        BY <3>1, <4>1, OpsFit DEF Ops, Phases
      <4> QED
        BY <3>1, <4>1, <4>2, OpsFit, Zenon DEF OpOK, PhasesFit
    <3>2. CASE u # t /\ At(u, "get", "wait") /\ op[u].leader = t
      <4>1. op'[u] = [op[u] EXCEPT !.phase = "done", !.val = op[t].val, !.leader = None]
        BY <1>11, <3>2, Zenon DEF GetClose
      <4>2. op[t].val \in Values
        BY <1>11, OpsFit, Zenon DEF OpOK, Ops
      <4> QED
        BY <1>0, <3>2, <4>1, <4>2, OpsFit, ZenonT(40) DEF OpOK, Ops, PhasesFit, Leading, At
    <3>3. CASE u # t /\ ~(At(u, "get", "wait") /\ op[u].leader = t)
      BY <1>11, <3>3, OpsFit, Zenon DEF GetClose
    <3> QED
      BY <3>1, <3>2, <3>3, Zenon
  <2>2. op' = [u \in Threads |-> op'[u]]
    BY <1>11, Zenon DEF GetClose
  <2> QED
    BY <2>1, <2>2, Zenon DEF OpOK
<1>12. ASSUME NEW t \in Threads, RevokeInstall(t) PROVE Goal
  <2>1. PICK o : o = [op[t] EXCEPT !.phase = "add"]
    BY Zenon
  <2>2. OpOK(op[t]) /\ op[t].kind = "revoke"
    BY <1>12, OpsFit DEF RevokeInstall, At
  <2>3. OpOK(o)
    BY <1>0, <2>1, <2>2, Zenon DEF OpOK, Ops, PhasesFit
  <2> QED
    BY <1>12, <2>1, <2>3, SetOpFits DEF RevokeInstall
<1>13. ASSUME NEW t \in Threads, RevokeAdd(t) PROVE Goal
  <2>1. PICK k \in op[t].todo : SetOp(t, [op[t] EXCEPT !.phase = "delete", !.key = k])
    BY <1>13, Zenon DEF RevokeAdd
  <2>2. PICK o : o = [op[t] EXCEPT !.phase = "delete", !.key = k]
    OBVIOUS
  <2>3. OpOK(op[t]) /\ op[t].kind = "revoke"
    BY <1>13, OpsFit DEF RevokeAdd, At
  <2>4. k \in Keys
    BY <2>3, Zenon DEF OpOK, Ops
  <2>5. OpOK(o)
    BY <1>0, <2>2, <2>3, <2>4, Zenon DEF OpOK, Ops, PhasesFit
  <2> QED
    BY <2>1, <2>2, <2>5, SetOpFits, Zenon
<1>14. ASSUME NEW t \in Threads, RevokeDelete(t) PROVE Goal
  <2>1. CASE op[t].todo = {op[t].key}
    BY <1>14, <2>1, IdleFits, SetOpFits, Zenon DEF RevokeDelete
  <2>2. CASE op[t].todo # {op[t].key}
    <3>1. PICK o : o = [op[t] EXCEPT !.phase = "add", !.key = None, !.todo = @ \ {op[t].key}]
      BY Zenon
    <3>2. OpOK(op[t]) /\ op[t].kind = "revoke"
      BY <1>14, OpsFit DEF RevokeDelete, At
    <3>3. o \in Ops /\ o.kind = "revoke" /\ o.phase = "add" /\ o.leader = op[t].leader
      BY <1>0, <3>1, <3>2, Zenon DEF OpOK, Ops
    <3>4. o.todo = op[t].todo \ {op[t].key}
      BY <3>1, <3>2, Zenon DEF OpOK, Ops
    <3>5. o.todo # {}
      BY <2>2, <3>2, <3>4, Zenon DEF OpOK
    <3>6. OpOK(o)
      BY <3>2, <3>3, <3>5, Zenon DEF OpOK, PhasesFit
    <3> QED
      BY <1>14, <2>2, <3>1, <3>6, SetOpFits, Zenon DEF RevokeDelete
  <2> QED
    BY <2>1, <2>2, Zenon
<1> QED
  BY <1>1, <1>2, <1>3, <1>4, <1>5, <1>6, <1>7, <1>9, <1>10, <1>11, <1>12, <1>13, <1>14, Zenon
     DEF NodeNext, GetStep

\* What a step can mean for the table of lookups: thread t joins a lookup, leads a
\* new one, moves on as a leader or is busy with something else.
Alone(t) == \A u \in Threads \ {t} : op'[u] = op[u]

Joins(t, k, verify) ==
  /\ Alone(t) /\ op[t] = IdleOp /\ inflight[k][verify] # None /\ UNCHANGED inflight
  /\ op'[t].kind = "get" /\ op'[t].key = k /\ op'[t].verify = verify
  /\ op'[t].phase = "wait" /\ op'[t].leader = inflight[k][verify] /\ op'[t].val = "absent"

Leads(t, k, verify) ==
  /\ Alone(t) /\ op[t] = IdleOp /\ inflight[k][verify] = None
  /\ inflight' = [inflight EXCEPT ![k][verify] = t]
  /\ op'[t].kind = "get" /\ op'[t].key = k /\ op'[t].verify = verify
  /\ op'[t].phase = "gate" /\ op'[t].val = "absent"

Moves(t) ==
  /\ Alone(t) /\ UNCHANGED inflight
  /\ op[t].kind = "get" /\ op[t].phase \in Leading
  /\ op'[t].kind = "get" /\ op'[t].phase \in Leading
  /\ op'[t].key = op[t].key /\ op'[t].verify = op[t].verify
  /\ op'[t].val = op[t].val \/ Acceptable(t, op'[t].val)

Elsewhere(t) ==
  /\ Alone(t) /\ UNCHANGED inflight
  /\ op[t].kind = "get" => op[t].phase = "done"
  /\ op'[t].kind # "get"

\* get: a call joins the lookup in flight or leads a new one.
LEMMA GetBegins ==
  ASSUME NodeInv, NEW t \in Threads, NEW k \in Keys, NEW verify \in BOOLEAN,
         BeginGet(t, k, verify)
  PROVE  Joins(t, k, verify) \/ Leads(t, k, verify)
<1>0. /\ op \in [Threads -> Ops] /\ \A u \in Threads : OpOK(op[u])
      /\ \A u \in Threads : \A o : SetOp(u, o) => op'[u] = o /\ Alone(u)
  BY OpsFit, Zenon DEF SetOp, Alone
<1>1. CASE inflight[k][verify] # None
  <2>0. /\ SetOp(t, [Request("get", k, "wait") EXCEPT !.verify = verify,
                                                        !.leader = inflight[k][verify]])
        /\ op[t] = IdleOp /\ UNCHANGED inflight
    BY <1>1, Zenon DEF BeginGet
  <2>1. PICK q, l : q = Request("get", k, "wait") /\ l = inflight[k][verify]
    BY Zenon
  <2>5. op'[t] = [q EXCEPT !.verify = verify, !.leader = l] /\ Alone(t)
    BY <1>0, <2>0, <2>1, Zenon
  <2>2. "get" \in Kinds /\ "wait" \in Phases
    BY Zenon DEF Kinds, Phases
  <2>3. q \in Ops /\ q.kind = "get" /\ q.key = k /\ q.phase = "wait" /\ q.val = "absent"
    BY <2>1, <2>2, RequestFits
  <2>4. /\ op'[t].kind = "get" /\ op'[t].key = k /\ op'[t].verify = verify
        /\ op'[t].phase = "wait" /\ op'[t].leader = l /\ op'[t].val = "absent"
    BY <2>5, <2>3, Zenon DEF Ops
  <2> QED
    BY <1>1, <2>0, <2>1, <2>5, <2>4 DEF Joins
<1>2. CASE inflight[k][verify] = None
  <2>0. /\ SetOp(t, [Request("get", k, "gate") EXCEPT !.verify = verify])
        /\ op[t] = IdleOp /\ inflight' = [inflight EXCEPT ![k][verify] = t]
    BY <1>2, Zenon DEF BeginGet
  <2>1. PICK q : /\ q = Request("get", k, "gate")
                 /\ op'[t] = [q EXCEPT !.verify = verify] /\ Alone(t)
    BY <1>0, <2>0, Zenon
  <2>2. "get" \in Kinds /\ "gate" \in Phases
    BY Zenon DEF Kinds, Phases, Leading
  <2>3. q \in Ops /\ q.kind = "get" /\ q.key = k /\ q.phase = "gate" /\ q.val = "absent"
    BY <2>1, <2>2, RequestFits
  <2>4. /\ op'[t].kind = "get" /\ op'[t].key = k /\ op'[t].verify = verify
        /\ op'[t].phase = "gate" /\ op'[t].val = "absent"
    BY <2>1, <2>3, Zenon DEF Ops
  <2> QED
    BY <1>2, <2>0, <2>1, <2>4, Zenon DEF Leads
<1> QED
  BY <1>1, <1>2, Zenon

\* getInner: the gate, the cache, the walk and the copy kept.
LEMMA GetMoves ==
  ASSUME NodeInv, NEW t \in Threads,
         GetGate(t) \/ GetCache(t) \/ GetFill(t) \/ \E v \in Values : GetWalk(t, v)
  PROVE  Moves(t)
<1>0. /\ op \in [Threads -> Ops] /\ \A u \in Threads : OpOK(op[u])
      /\ \A u \in Threads : \A o : SetOp(u, o) => op'[u] = o /\ Alone(u)
  BY OpsFit, Zenon DEF SetOp, Alone
<1>1. /\ op[t] \in Ops /\ op[t].kind = "get" /\ op[t].phase \in Leading
      /\ Alone(t) /\ UNCHANGED inflight
  BY <1>0, Zenon DEF GetGate, GetCache, GetFill, GetWalk, At, Leading
<1>2. ASSUME NEW ph \in Leading, SetOp(t, [op[t] EXCEPT !.phase = ph]) PROVE Moves(t)
  <2>1. op'[t] = [op[t] EXCEPT !.phase = ph]
    BY <1>0, <1>2, Zenon
  <2> QED
    BY <1>1, <2>1, Zenon DEF Moves, Ops
<1>3. ASSUME NEW ph \in Leading, NEW v, Acceptable(t, v),
             \/ SetOp(t, [op[t] EXCEPT !.phase = ph, !.val = v])
             \/ SetOp(t, [op[t] EXCEPT !.val = v, !.phase = ph])
      PROVE  Moves(t)
  <2>1. \/ op'[t] = [op[t] EXCEPT !.phase = ph, !.val = v]
        \/ op'[t] = [op[t] EXCEPT !.val = v, !.phase = ph]
    BY <1>0, <1>3, Zenon
  <2>2. /\ op'[t].kind = "get" /\ op'[t].phase = ph /\ op'[t].val = v
        /\ op'[t].key = op[t].key /\ op'[t].verify = op[t].verify
    BY <1>1, <2>1, Zenon DEF Ops
  <2> QED
    BY <1>1, <1>3, <2>2, Zenon DEF Moves
<1>4. CASE GetGate(t) \/ GetFill(t)
  <2>1. \E ph \in Leading : SetOp(t, [op[t] EXCEPT !.phase = ph])
    BY <1>4, Zenon DEF GetGate, GetFill, Leading
  <2> QED
    BY <1>2, <2>1, Zenon
<1>5. CASE GetCache(t)
  <2>1. \/ \E ph \in Leading : SetOp(t, [op[t] EXCEPT !.phase = ph])
        \/ \E ph \in Leading : \E v :
             /\ SetOp(t, [op[t] EXCEPT !.phase = ph, !.val = v])
             /\ Acceptable(t, v)
    BY <1>5, Zenon DEF GetCache, Leading
  <2> QED
    BY <1>2, <1>3, <2>1, Zenon
<1>6. CASE \E v \in Values : GetWalk(t, v)
  <2>1. \/ \E ph \in Leading : SetOp(t, [op[t] EXCEPT !.phase = ph])
        \/ \E ph \in Leading : \E v :
             /\ SetOp(t, [op[t] EXCEPT !.val = v, !.phase = ph])
             /\ Acceptable(t, v)
    BY <1>6, Zenon DEF GetWalk, Leading
  <2> QED
    BY <1>2, <1>3, <2>1, Zenon
<1> QED
  BY <1>4, <1>5, <1>6, Zenon

\* Every step of the node but the end of a lookup is one of these.
LEMMA LookupSteps ==
  ASSUME NodeInv, NodeNext, \A t \in Threads : ~GetFinish(t) /\ ~GetClose(t)
  PROVE  \/ UNCHANGED <<op, inflight>>
         \/ \E t \in Threads : \/ \E k \in Keys, verify \in BOOLEAN : Joins(t, k, verify)
                               \/ \E k \in Keys, verify \in BOOLEAN : Leads(t, k, verify)
                               \/ Moves(t) \/ Elsewhere(t)
<1> DEFINE Goal ==
      \/ UNCHANGED <<op, inflight>>
      \/ \E t \in Threads : \/ \E k \in Keys, verify \in BOOLEAN : Joins(t, k, verify)
                            \/ \E k \in Keys, verify \in BOOLEAN : Leads(t, k, verify)
                            \/ Moves(t) \/ Elsewhere(t)
<1>0. /\ op \in [Threads -> Ops] /\ \A t \in Threads : OpOK(op[t])
      /\ \A t \in Threads : \A o : SetOp(t, o) => op'[t] = o /\ Alone(t)
  BY OpsFit, Zenon DEF SetOp, Alone
<1>1. ASSUME NEW k \in Keys, Evict(k) PROVE Goal
  BY <1>1, Zenon DEF Evict
<1>2. ASSUME NEW t \in Threads, NEW k \in Keys, NEW kind \in {"store", "local"},
             NEW v \in {"good", "bad"}, BeginStore(t, kind, k, v)
      PROVE  Elsewhere(t)
  <2>1. op'[t] = [Request(kind, k, "put") EXCEPT !.val = v] /\ Alone(t) /\ UNCHANGED inflight
    BY <1>0, <1>2, Zenon DEF BeginStore
  <2>2. PICK q : q = Request(kind, k, "put")
    BY Zenon
  <2>3. kind \in Kinds /\ "put" \in Phases
    BY DEF Kinds, Phases
  <2>4. q \in Ops /\ q.kind = kind
    BY <2>2, <2>3, RequestFits
  <2>5. op'[t].kind = kind
    BY <2>1, <2>2, <2>4, Zenon DEF Ops
  <2> QED
    BY <1>2, <2>1, <2>5 DEF BeginStore, Elsewhere, IdleOp
<1>3. ASSUME NEW t \in Threads, NEW k \in Keys, BeginServe(t, k) PROVE Elsewhere(t)
  <2>1. PICK ph \in {"done", "read"} : op'[t] = Request("serve", k, ph) /\ Alone(t)
    BY <1>0, <1>3, Zenon DEF BeginServe
  <2>2. "serve" \in Kinds /\ ph \in Phases
    BY Zenon DEF Kinds, Phases
  <2>3. op'[t].kind = "serve"
    BY <2>1, <2>2, RequestFits
  <2> QED
    BY <1>3, <2>1, <2>3 DEF BeginServe, Elsewhere, IdleOp
<1>4. ASSUME NEW t \in Threads, NEW k \in Keys, NEW verify \in BOOLEAN, BeginGet(t, k, verify)
      PROVE  Joins(t, k, verify) \/ Leads(t, k, verify)
  BY <1>4, GetBegins, Zenon
<1>5. ASSUME NEW t \in Threads, NEW ks \in (SUBSET Keys) \ {{}}, BeginRevoke(t, ks)
      PROVE  Elsewhere(t)
  <2>1. PICK ph : /\ op'[t] = [IdleOp EXCEPT !.kind = "revoke", !.todo = ks, !.phase = ph]
                  /\ Alone(t) /\ op[t] = IdleOp /\ UNCHANGED inflight
    BY <1>0, <1>5, Zenon DEF BeginRevoke
  <2>2. op'[t].kind = "revoke"
    BY <2>1, Zenon DEF IdleOp
  <2> QED
    BY <2>1, <2>2 DEF Elsewhere, IdleOp
<1>6. ASSUME NEW t \in Threads, StorePut(t) \/ StoreDropped(t) \/ Return(t)
      PROVE  Elsewhere(t)
  <2>1. op'[t] = IdleOp /\ Alone(t) /\ UNCHANGED inflight
    BY <1>0, <1>6, Zenon DEF StorePut, StoreDropped, Return
  <2>2. op[t].kind = "get" => op[t].phase = "done"
    BY <1>0, <1>6, Zenon DEF StorePut, StoreDropped, Return, At, OpOK, PhasesFit, Leading
  <2> QED
    BY <2>1, <2>2 DEF Elsewhere, IdleOp
<1>7. ASSUME NEW t \in Threads, ServeRead(t) PROVE Elsewhere(t)
  <2>1. /\ op'[t] = [op[t] EXCEPT !.phase = "done", !.val = held[op[t].key]]
        /\ op[t].kind = "serve" /\ Alone(t) /\ UNCHANGED inflight
    BY <1>0, <1>7, Zenon DEF ServeRead, At
  <2>2. op'[t].kind = "serve"
    BY <1>0, <2>1 DEF Ops
  <2> QED
    BY <2>1, <2>2, Zenon DEF Elsewhere
<1>8. ASSUME NEW t \in Threads,
             GetGate(t) \/ GetCache(t) \/ GetFill(t) \/ \E v \in Values : GetWalk(t, v)
      PROVE  Moves(t)
  BY <1>8, GetMoves, Zenon
<1>9. ASSUME NEW t \in Threads, RevokeInstall(t) \/ RevokeAdd(t) \/ RevokeDelete(t)
      PROVE  Elsewhere(t)
  <2>1. op[t] \in Ops /\ op[t].kind = "revoke" /\ UNCHANGED inflight
    BY <1>0, <1>9, Zenon DEF RevokeInstall, RevokeAdd, RevokeDelete, At
  <2>2. CASE RevokeInstall(t)
    <3>1. op'[t] = [op[t] EXCEPT !.phase = "add"] /\ Alone(t)
      BY <1>0, <2>2, Zenon DEF RevokeInstall
    <3> QED
      BY <2>1, <3>1, Zenon DEF Elsewhere, Ops
  <2>3. CASE RevokeAdd(t)
    <3>1. PICK k : op'[t] = [op[t] EXCEPT !.phase = "delete", !.key = k] /\ Alone(t)
      BY <1>0, <2>3, Zenon DEF RevokeAdd
    <3> QED
      BY <2>1, <3>1, Zenon DEF Elsewhere, Ops
  <2>4. CASE RevokeDelete(t)
    <3>1. CASE op[t].todo = {op[t].key}
      <4>1. op'[t] = IdleOp /\ Alone(t)
        BY <1>0, <2>4, <3>1, Zenon DEF RevokeDelete
      <4> QED
        BY <2>1, <4>1 DEF Elsewhere, IdleOp
    <3>2. CASE op[t].todo # {op[t].key}
      <4>1. PICK ks : ks = op[t].todo \ {op[t].key}
        BY Zenon
      <4>2. op'[t] = [op[t] EXCEPT !.phase = "add", !.key = None, !.todo = ks] /\ Alone(t)
        BY <1>0, <2>4, <3>2, <4>1, Zenon DEF RevokeDelete
      <4> QED
        BY <2>1, <4>2, Zenon DEF Elsewhere, Ops
    <3> QED
      BY <3>1, <3>2, Zenon
  <2> QED
    BY <1>9, <2>2, <2>3, <2>4, Zenon
<1> QED
  BY <1>1, <1>2, <1>3, <1>4, <1>5, <1>6, <1>7, <1>8, <1>9, Zenon DEF NodeNext, GetStep

\* The end of a lookup: the leader leaves the table,
LEMMA FinishFields ==
  ASSUME NodeInv, NEW t \in Threads, GetFinish(t)
  PROVE  /\ Alone(t) /\ op[t].kind = "get" /\ op[t].phase = "finish" /\ op[t].key \in Keys
         /\ op[t].verify \in BOOLEAN
         /\ op'[t].kind = "get" /\ op'[t].phase = "close" /\ op'[t].val = op[t].val
         /\ op'[t].key = op[t].key /\ op'[t].verify = op[t].verify
         /\ inflight' = [inflight EXCEPT ![op[t].key][op[t].verify] = None]
<1>1. /\ op'[t] = [op[t] EXCEPT !.phase = "close"] /\ Alone(t)
      /\ op[t].kind = "get" /\ op[t].phase = "finish"
      /\ inflight' = [inflight EXCEPT ![op[t].key][op[t].verify] = None]
  BY OpsFit, Zenon DEF GetFinish, SetOp, At, Alone
<1>2. op[t] \in Ops /\ op[t].key \in Keys
  BY <1>1, OpsFit, Zenon DEF OpOK, PhasesFit
<1> QED
  BY <1>1, <1>2, Zenon DEF Ops

\* and then closes its channel, which hands its result to everyone who joined it.
LEMMA CloseFields ==
  ASSUME NodeInv, NEW t \in Threads, GetClose(t)
  PROVE  /\ UNCHANGED inflight
         /\ op[t].kind = "get" /\ op[t].phase = "close"
         /\ op'[t].kind = "get" /\ op'[t].phase = "done" /\ op'[t].val = op[t].val
         /\ op'[t].verify = op[t].verify
         /\ \A u \in Threads \ {t} :
              IF At(u, "get", "wait") /\ op[u].leader = t
              THEN /\ op'[u].kind = "get" /\ op'[u].phase = "done" /\ op'[u].val = op[t].val
                   /\ op'[u].verify = op[u].verify
              ELSE op'[u] = op[u]
<1>1. /\ UNCHANGED inflight /\ op[t].kind = "get" /\ op[t].phase = "close"
      /\ op'[t] = [op[t] EXCEPT !.phase = "done"]
  BY OpsFit, Zenon DEF GetClose, At
<1>2. ASSUME NEW u \in Threads \ {t}, At(u, "get", "wait"), op[u].leader = t
      PROVE  /\ op'[u].kind = "get" /\ op'[u].phase = "done" /\ op'[u].val = op[t].val
             /\ op'[u].verify = op[u].verify
  <2>1. op'[u] = [op[u] EXCEPT !.phase = "done", !.val = op[t].val, !.leader = None]
    BY <1>2, Zenon DEF GetClose
  <2> QED
    BY <1>2, <2>1, OpsFit DEF Ops, At
<1>3. ASSUME NEW u \in Threads \ {t}, ~(At(u, "get", "wait") /\ op[u].leader = t)
      PROVE  op'[u] = op[u]
  BY <1>3, Zenon DEF GetClose
<1>4. /\ op'[t].kind = "get" /\ op'[t].phase = "done" /\ op'[t].val = op[t].val
      /\ op'[t].verify = op[t].verify
  BY <1>1, OpsFit DEF Ops
<1> QED
  BY <1>1, <1>2, <1>3, <1>4, Zenon

\* The table of lookups and what the lookups hold.
LEMMA LookupsKept ==
  ASSUME NodeInv, NodeNext
  PROVE  OneLookupPerKey' /\ InflightLed' /\ ValuesVerified'
<1> DEFINE Goal == OneLookupPerKey' /\ InflightLed' /\ ValuesVerified'
           Follows(u) == LET o == op'[op'[u].leader]
                         IN  /\ o.kind = "get" /\ o.key = op'[u].key
                             /\ o.verify = op'[u].verify /\ o.phase \in Leading \cup {"close"}
<1>0. /\ OneLookupPerKey /\ InflightLed /\ ValuesVerified
      /\ \A t \in Threads : op[t].leader # None <=> At(t, "get", "wait")
      /\ \A t \in Threads : op[t].leader \in Threads \cup {None} /\ op[t].verify \in BOOLEAN
      /\ \A t \in Threads : op[t].kind = "get" => op[t].key \in Keys
      /\ inflight \in [Keys -> [BOOLEAN -> Threads \cup {None}]]
      /\ None \notin Threads
  BY OpsFit, NodeAssumption, Zenon
     DEF NodeInv, NodeSound, NodeTypeOK, OpOK, PhasesFit, Ops
<1>a. /\ "gate" \in Leading /\ "finish" \in Leading
      /\ "wait" \notin Leading /\ "close" \notin Leading /\ "done" \notin Leading
  BY Zenon DEF Leading
\* The leaders, of the table and of those who wait, are threads in a get.
<1>b. \A k \in Keys, verify \in BOOLEAN : inflight[k][verify] # None =>
        /\ inflight[k][verify] \in Threads
        /\ op[inflight[k][verify]].kind = "get" /\ op[inflight[k][verify]].phase \in Leading
        /\ op[inflight[k][verify]].key = k /\ op[inflight[k][verify]].verify = verify
  <2>1. \A k \in Keys, verify \in BOOLEAN : inflight[k][verify] \in Threads \cup {None}
    BY <1>0, Zenon
  <2> QED
    BY <1>0, <2>1 DEF InflightLed
<1>c. \A u \in Threads : At(u, "get", "wait") =>
        /\ op[u].leader \in Threads /\ op[op[u].leader].kind = "get"
        /\ op[op[u].leader].key = op[u].key /\ op[op[u].leader].verify = op[u].verify
        /\ op[op[u].leader].phase \in Leading \cup {"close"}
  BY <1>0, Zenon DEF OneLookupPerKey
<1>d. \A u \in Threads : op[u].kind = "get" /\ op[u].phase \in Leading =>
        inflight[op[u].key][op[u].verify] = u
  BY <1>0, Zenon DEF OneLookupPerKey
\* What has to be shown of each thread and of each entry of the table.
<1>e. ASSUME \A u \in Threads : op'[u].kind = "get" /\ op'[u].phase \in Leading =>
               inflight'[op'[u].key][op'[u].verify] = u,
             \A u \in Threads : op'[u].kind = "get" /\ op'[u].phase = "wait" =>
               Follows(u)
      PROVE  OneLookupPerKey'
  BY <1>e, Zenon DEF OneLookupPerKey, At
<1>f. ASSUME \A k \in Keys, verify \in BOOLEAN : inflight'[k][verify] # None =>
               LET o == op'[inflight'[k][verify]]
               IN  /\ o.kind = "get" /\ o.phase \in Leading
                   /\ o.key = k /\ o.verify = verify
      PROVE  InflightLed'
  BY <1>f, Zenon DEF InflightLed
<1>1. CASE UNCHANGED <<op, inflight>>
  BY <1>0, <1>1 DEF OneLookupPerKey, InflightLed, ValuesVerified, At
<1>2. ASSUME NEW t \in Threads, NEW k \in Keys, NEW verify \in BOOLEAN, Joins(t, k, verify)
      PROVE  Goal
  <2>1. /\ \A u \in Threads : u # t => op'[u] = op[u]
        /\ inflight' = inflight /\ op[t].kind = "idle"
        /\ op'[t].kind = "get" /\ op'[t].key = k /\ op'[t].verify = verify
        /\ op'[t].phase = "wait" /\ op'[t].leader = inflight[k][verify] /\ op'[t].val = "absent"
        /\ inflight[k][verify] # None
    BY <1>2 DEF Joins, Alone, IdleOp
  <2>2. OneLookupPerKey'
    <3>1. ASSUME NEW u \in Threads, op'[u].kind = "get", op'[u].phase \in Leading
          PROVE  inflight'[op'[u].key][op'[u].verify] = u
      BY <1>a, <1>d, <2>1, <3>1, Zenon
    <3>2. ASSUME NEW u \in Threads, op'[u].kind = "get", op'[u].phase = "wait"
          PROVE  Follows(u)
      <4>1. CASE u = t
        <5>1. op'[inflight[k][verify]] = op[inflight[k][verify]]
          BY <1>b, <2>1, Zenon
        <5> QED
          BY <1>b, <2>1, <4>1, <5>1
      <4>2. CASE u # t
        <5>1. op'[u] = op[u] /\ At(u, "get", "wait")
          BY <2>1, <3>2, <4>2, Zenon DEF At
        <5>2. op'[op[u].leader] = op[op[u].leader]
          BY <1>c, <2>1, <5>1, Zenon
        <5> QED
          BY <1>c, <5>1, <5>2
      <4> QED
        BY <4>1, <4>2, Zenon
    <3> QED
      BY <1>e, <3>1, <3>2, Zenon
  <2>3. InflightLed'
    <3>1. ASSUME NEW j \in Keys, NEW w \in BOOLEAN, inflight[j][w] # None
          PROVE  op'[inflight[j][w]] = op[inflight[j][w]]
      BY <1>b, <2>1, <3>1, Zenon
    <3> QED
      BY <1>b, <1>f, <2>1, <3>1
  <2>4. ValuesVerified'
    BY <1>0, <2>1 DEF ValuesVerified
  <2> QED
    BY <2>2, <2>3, <2>4, Zenon
<1>3. ASSUME NEW t \in Threads, NEW k \in Keys, NEW verify \in BOOLEAN, Leads(t, k, verify)
      PROVE  Goal
  <2>1. \A j \in Keys, w \in BOOLEAN :
          inflight'[j][w] = IF j = k /\ w = verify THEN t ELSE inflight[j][w]
    BY <1>0, <1>3 DEF Leads
  <2>2. /\ \A u \in Threads : u # t => op'[u] = op[u]
        /\ op[t].kind = "idle" /\ inflight[k][verify] = None
        /\ op'[t].kind = "get" /\ op'[t].key = k /\ op'[t].verify = verify
        /\ op'[t].phase = "gate" /\ op'[t].val = "absent"
    BY <1>3 DEF Leads, Alone, IdleOp
  <2>3. OneLookupPerKey'
    <3>1. ASSUME NEW u \in Threads, op'[u].kind = "get", op'[u].phase \in Leading
          PROVE  inflight'[op'[u].key][op'[u].verify] = u
      <4>1. CASE u = t
        BY <2>1, <2>2, <4>1, Zenon
      <4>2. CASE u # t
        <5>1. op'[u] = op[u] /\ inflight[op[u].key][op[u].verify] = u
          BY <1>d, <2>2, <3>1, <4>2, Zenon
        <5>2. op[u].key \in Keys /\ op[u].verify \in BOOLEAN /\ u # None
          BY <1>0, <3>1, <5>1, Zenon
        <5> QED
          BY <2>1, <2>2, <5>1, <5>2
      <4> QED
        BY <4>1, <4>2, Zenon
    <3>2. ASSUME NEW u \in Threads, op'[u].kind = "get", op'[u].phase = "wait"
          PROVE  Follows(u)
      <4>1. op'[u] = op[u] /\ At(u, "get", "wait")
        BY <2>2, <3>2, Zenon DEF At
      <4>2. op'[op[u].leader] = op[op[u].leader]
        BY <1>c, <2>2, <4>1, Zenon
      <4> QED
        BY <1>c, <4>1, <4>2
    <3> QED
      BY <1>e, <3>1, <3>2, Zenon
  <2>4. InflightLed'
    <3>1. ASSUME NEW j \in Keys, NEW w \in BOOLEAN, inflight'[j][w] # None
          PROVE  LET o == op'[inflight'[j][w]]
                 IN  o.kind = "get" /\ o.phase \in Leading /\ o.key = j /\ o.verify = w
      <4>1. CASE j = k /\ w = verify
        BY <1>a, <2>1, <2>2, <4>1
      <4>2. CASE ~(j = k /\ w = verify)
        <5>1. inflight'[j][w] = inflight[j][w] /\ inflight[j][w] # None
          BY <2>1, <3>1, <4>2, Zenon
        <5>2. op'[inflight[j][w]] = op[inflight[j][w]]
          BY <1>b, <2>2, <5>1, Zenon
        <5> QED
          BY <1>b, <5>1, <5>2
      <4> QED
        BY <4>1, <4>2, Zenon
    <3> QED
      BY <1>f, <3>1
  <2>5. ValuesVerified'
    BY <1>0, <2>2 DEF ValuesVerified
  <2> QED
    BY <2>3, <2>4, <2>5, Zenon
<1>4. ASSUME NEW t \in Threads, Moves(t) PROVE Goal
  <2>1. /\ \A u \in Threads : u # t => op'[u] = op[u]
        /\ inflight' = inflight /\ op[t].kind = "get" /\ op[t].phase \in Leading
        /\ op'[t].kind = "get" /\ op'[t].phase \in Leading
        /\ op'[t].key = op[t].key /\ op'[t].verify = op[t].verify
        /\ op'[t].val = op[t].val \/ op'[t].val # "bad" \/ ~op[t].verify
    BY <1>4, Zenon DEF Moves, Alone, Acceptable
  <2>2. \A u \in Threads :
          /\ op'[u].kind = op[u].kind /\ op'[u].key = op[u].key /\ op'[u].verify = op[u].verify
          /\ op[u].phase \in Leading <=> op'[u].phase \in Leading
    BY <2>1, Zenon
  <2>3. OneLookupPerKey'
    <3>1. ASSUME NEW u \in Threads, op'[u].kind = "get", op'[u].phase = "wait"
          PROVE  Follows(u)
      <4>1. op'[u] = op[u] /\ At(u, "get", "wait")
        BY <1>a, <2>1, <3>1, Zenon DEF At
      <4>2. PICK m \in Threads : m = op[u].leader
        BY <1>c, <4>1, Zenon
      <4>3. /\ op[m].kind = "get" /\ op[m].key = op[u].key /\ op[m].verify = op[u].verify
            /\ op[m].phase \in Leading \cup {"close"}
        BY <1>c, <4>1, <4>2, Zenon
      <4>4. op'[m].phase \in Leading \cup {"close"}
        BY <2>1, <4>3, Zenon
      <4> QED
        BY <2>2, <4>1, <4>2, <4>3, <4>4, Zenon
    <3>2. \A u \in Threads : op'[u].kind = "get" /\ op'[u].phase \in Leading =>
            inflight'[op'[u].key][op'[u].verify] = u
      BY <1>d, <2>1, <2>2, Zenon
    <3> QED
      BY <1>e, <3>1, <3>2, Zenon
  <2>4. InflightLed'
    BY <1>b, <1>f, <2>1, <2>2
  <2>5. ValuesVerified'
    BY <1>0, <2>1 DEF ValuesVerified
  <2> QED
    BY <2>3, <2>4, <2>5, Zenon
<1>5. ASSUME NEW t \in Threads, Elsewhere(t) PROVE Goal
  <2>1. /\ \A u \in Threads : u # t => op'[u] = op[u]
        /\ inflight' = inflight /\ op'[t].kind # "get"
        /\ op[t].kind = "get" => op[t].phase \notin Leading \cup {"close"}
    BY <1>5, <1>a, Zenon DEF Elsewhere, Alone
  <2>2. OneLookupPerKey'
    <3>1. ASSUME NEW u \in Threads, op'[u].kind = "get", op'[u].phase = "wait"
          PROVE  Follows(u)
      <4>1. op'[u] = op[u] /\ At(u, "get", "wait")
        BY <2>1, <3>1, Zenon DEF At
      <4>2. op'[op[u].leader] = op[op[u].leader]
        BY <1>c, <2>1, <4>1, Zenon
      <4> QED
        BY <1>c, <4>1, <4>2
    <3>2. \A u \in Threads : op'[u].kind = "get" /\ op'[u].phase \in Leading =>
            inflight'[op'[u].key][op'[u].verify] = u
      BY <1>d, <2>1, Zenon
    <3> QED
      BY <1>e, <3>1, <3>2, Zenon
  <2>3. InflightLed'
    <3>1. ASSUME NEW j \in Keys, NEW w \in BOOLEAN, inflight[j][w] # None
          PROVE  op'[inflight[j][w]] = op[inflight[j][w]]
      BY <1>b, <2>1, <3>1
    <3> QED
      BY <1>b, <1>f, <2>1, <3>1
  <2>4. ValuesVerified'
    BY <1>0, <2>1, Zenon DEF ValuesVerified
  <2> QED
    BY <2>2, <2>3, <2>4, Zenon
<1>6. ASSUME NEW t \in Threads, GetFinish(t) PROVE Goal
  <2>1. \A j \in Keys, w \in BOOLEAN :
          inflight'[j][w] = IF j = op[t].key /\ w = op[t].verify THEN None ELSE inflight[j][w]
    <3>1. PICK k \in Keys, verify \in BOOLEAN :
            /\ k = op[t].key /\ verify = op[t].verify
            /\ inflight' = [inflight EXCEPT ![k][verify] = None]
      <4>1. /\ op[t].key \in Keys /\ op[t].verify \in BOOLEAN
            /\ inflight' = [inflight EXCEPT ![op[t].key][op[t].verify] = None]
        BY <1>6, FinishFields, Zenon
      <4> QED
        BY <4>1, Zenon
    <3>2. \A j \in Keys, w \in BOOLEAN :
            inflight'[j][w] = IF j = k /\ w = verify THEN None ELSE inflight[j][w]
      BY <1>0, <3>1
    <3> QED
      BY <3>1, <3>2
  <2>2. /\ \A u \in Threads : u # t => op'[u] = op[u]
        /\ op[t].kind = "get" /\ op[t].phase = "finish"
        /\ op'[t].kind = "get" /\ op'[t].phase = "close" /\ op'[t].val = op[t].val
        /\ op'[t].key = op[t].key /\ op'[t].verify = op[t].verify
    BY <1>6, FinishFields, Zenon DEF Alone
  <2>3. OneLookupPerKey'
    <3>1. ASSUME NEW u \in Threads, op'[u].kind = "get", op'[u].phase \in Leading
          PROVE  inflight'[op'[u].key][op'[u].verify] = u
      <4>1. u # t
        BY <1>a, <2>2, <3>1, Zenon
      <4>2. op'[u] = op[u] /\ inflight[op[u].key][op[u].verify] = u
        BY <1>d, <2>2, <3>1, <4>1, Zenon
      <4>3. op[u].key \in Keys /\ op[u].verify \in BOOLEAN
        BY <1>0, <3>1, <4>2, Zenon
      <4>4. inflight[op[t].key][op[t].verify] = t
        BY <1>a, <1>d, <2>2, Zenon
      <4> QED
        BY <2>1, <4>1, <4>2, <4>3, <4>4, Zenon
    <3>2. ASSUME NEW u \in Threads, op'[u].kind = "get", op'[u].phase = "wait"
          PROVE  Follows(u)
      <4>1. op'[u] = op[u] /\ At(u, "get", "wait")
        BY <2>2, <3>2, Zenon DEF At
      <4>2. PICK m \in Threads : m = op[u].leader
        BY <1>c, <4>1, Zenon
      <4>3. /\ op[m].kind = "get" /\ op[m].key = op[u].key /\ op[m].verify = op[u].verify
            /\ op[m].phase \in Leading \cup {"close"}
        BY <1>c, <4>1, <4>2, Zenon
      <4> QED
        BY <2>2, <4>1, <4>2, <4>3, Zenon
    <3> QED
      BY <1>e, <3>1, <3>2, Zenon
  <2>4. InflightLed'
    <3>1. ASSUME NEW j \in Keys, NEW w \in BOOLEAN, inflight'[j][w] # None
          PROVE  LET o == op'[inflight'[j][w]]
                 IN  o.kind = "get" /\ o.phase \in Leading /\ o.key = j /\ o.verify = w
      <4>1. ~(j = op[t].key /\ w = op[t].verify) /\ inflight'[j][w] = inflight[j][w]
        BY <2>1, <3>1, Zenon
      <4>2. inflight[j][w] # t
        BY <1>b, <3>1, <4>1
      <4>3. op'[inflight[j][w]] = op[inflight[j][w]]
        BY <1>b, <2>2, <3>1, <4>1, <4>2, Zenon
      <4> QED
        BY <1>b, <3>1, <4>1, <4>3
    <3> QED
      BY <1>f, <3>1
  <2>5. ValuesVerified'
    BY <1>0, <2>2 DEF ValuesVerified
  <2> QED
    BY <2>3, <2>4, <2>5, Zenon
<1>7. ASSUME NEW t \in Threads, GetClose(t) PROVE Goal
  <2>1. /\ inflight' = inflight /\ op[t].kind = "get" /\ op[t].phase = "close"
        /\ op'[t].kind = "get" /\ op'[t].phase = "done"
        /\ op'[t].val = op[t].val /\ op'[t].verify = op[t].verify
    BY <1>7, CloseFields, Zenon
  <2>2. ASSUME NEW u \in Threads, u # t, ~(At(u, "get", "wait") /\ op[u].leader = t)
        PROVE  op'[u] = op[u]
    BY <1>7, <2>2, CloseFields
  <2>3. ASSUME NEW u \in Threads, At(u, "get", "wait"), op[u].leader = t
        PROVE  /\ op'[u].phase = "done" /\ op'[u].val = op[t].val
               /\ op'[u].verify = op[u].verify /\ op[u].verify = op[t].verify
    <3>1. u # t
      BY <2>1, <2>3, Zenon DEF At
    <3> QED
      BY <1>7, <1>c, <2>3, <3>1, CloseFields, Zenon
  <2>4. \A u \in Threads : u # t /\ op[u].phase # "wait" => op'[u] = op[u]
    BY <2>2, Zenon DEF At
  <2>5. ASSUME NEW u \in Threads, op'[u].phase # "done"
        PROVE  u # t /\ op'[u] = op[u] /\ ~(At(u, "get", "wait") /\ op[u].leader = t)
    BY <2>1, <2>2, <2>3, <2>5, Zenon
  <2>6. OneLookupPerKey'
    <3>1. ASSUME NEW u \in Threads, op'[u].kind = "get", op'[u].phase \in Leading
          PROVE  inflight'[op'[u].key][op'[u].verify] = u
      <4>1. op'[u] = op[u]
        BY <1>a, <2>5, <3>1, Zenon
      <4> QED
        BY <1>d, <2>1, <3>1, <4>1, Zenon
    <3>2. ASSUME NEW u \in Threads, op'[u].kind = "get", op'[u].phase = "wait"
          PROVE  Follows(u)
      <4>1. op'[u] = op[u] /\ At(u, "get", "wait") /\ op[u].leader # t
        BY <2>5, <3>2, Zenon DEF At
      <4>2. PICK m \in Threads : m = op[u].leader
        BY <1>c, <4>1, Zenon
      <4>3. /\ op[m].kind = "get" /\ op[m].key = op[u].key /\ op[m].verify = op[u].verify
            /\ op[m].phase \in Leading \cup {"close"}
        BY <1>c, <4>1, <4>2, Zenon
      <4>4. op'[m] = op[m]
        BY <1>a, <2>4, <4>1, <4>2, <4>3, Zenon
      <4> QED
        BY <4>1, <4>2, <4>3, <4>4, Zenon
    <3> QED
      BY <1>e, <3>1, <3>2, Zenon
  <2>7. InflightLed'
    <3>1. ASSUME NEW j \in Keys, NEW w \in BOOLEAN, inflight[j][w] # None
          PROVE  op'[inflight[j][w]] = op[inflight[j][w]]
      BY <1>a, <1>b, <2>1, <2>4, <3>1
    <3> QED
      BY <1>b, <1>f, <2>1, <3>1
  <2>8. ValuesVerified'
    <3>1. ASSUME NEW u \in Threads, op'[u].kind = "get", op'[u].verify
          PROVE  op'[u].val # "bad"
      <4>1. CASE u = t
        BY <1>0, <2>1, <3>1, <4>1, Zenon DEF ValuesVerified
      <4>2. CASE At(u, "get", "wait") /\ op[u].leader = t
        BY <1>0, <2>1, <2>3, <3>1, <4>2 DEF ValuesVerified
      <4>3. CASE u # t /\ ~(At(u, "get", "wait") /\ op[u].leader = t)
        BY <1>0, <2>2, <3>1, <4>3, Zenon DEF ValuesVerified
      <4> QED
        BY <4>1, <4>2, <4>3, Zenon
    <3> QED
      BY <3>1, Zenon DEF ValuesVerified
  <2> QED
    BY <2>6, <2>7, <2>8, Zenon
<1> QED
  BY <1>1, <1>2, <1>3, <1>4, <1>5, <1>6, <1>7, LookupSteps, Zenon

\* No step takes a key out of wiped; so a find_value stays stopped.
LEMMA LateKept ==
  ASSUME NodeInv, NEW t \in Threads, Alone(t), wiped \subseteq wiped',
         op'[t].kind = "serve" => ~op'[t].late \/ op'[t].key \in wiped'
  PROVE  LateStopped'
<1>1. ASSUME NEW u \in Threads, op'[u].kind = "serve", op'[u].late, op'[u].key \notin wiped'
      PROVE  op'[u].phase = "done" /\ op'[u].val = "absent"
  <2>1. u # t
    BY <1>1, Zenon
  <2>2. op'[u] = op[u]
    BY <2>1, Zenon DEF Alone
  <2> QED
    BY <1>1, <2>2, Zenon DEF NodeInv, LateStopped
<1> QED
  BY <1>1, Zenon DEF LateStopped

\* The blocklist and the gate of find_value.
LEMMA GateKept ==
  ASSUME NodeInv, NodeNext
  PROVE  BlockedFirst' /\ LateStopped'
<1> DEFINE Goal == BlockedFirst' /\ LateStopped'
<1>0. /\ op \in [Threads -> Ops] /\ \A t \in Threads : OpOK(op[t])
      /\ BlockedFirst /\ LateStopped
      /\ \A t \in Threads : \A o : SetOp(t, o) => op'[t] = o /\ Alone(t)
  BY OpsFit, Zenon DEF NodeInv, SetOp, Alone
\* A step of some other request leaves both alone.
<1>1. ASSUME UNCHANGED <<installed, blocklist, revoked, wiped>>,
             \A t \in Threads : op'[t] = op[t] \/ op'[t].kind \notin {"serve", "revoke"}
      PROVE  Goal
  BY <1>0, <1>1, Zenon DEF BlockedFirst, LateStopped, IsBlocked
<1>2. ASSUME NEW k \in Keys, Evict(k) PROVE Goal
  BY <1>1, <1>2, Zenon DEF Evict
<1>3. ASSUME NEW t \in Threads, NEW k \in Keys, NEW kind \in {"store", "local"},
             NEW v \in {"good", "bad"}, BeginStore(t, kind, k, v)
      PROVE  Goal
  <2>1. PICK q : q = Request(kind, k, "put")
    BY Zenon
  <2>2. op'[t] = [q EXCEPT !.val = v] /\ Alone(t)
    BY <1>0, <1>3, <2>1, Zenon DEF BeginStore
  <2>3. kind \in Kinds /\ "put" \in Phases
    BY Zenon DEF Kinds, Phases
  <2>4. q \in Ops /\ q.kind = kind
    BY <2>1, <2>3, RequestFits
  <2>5. op'[t].kind = kind
    BY <2>2, <2>4, Zenon DEF Ops
  <2> QED
    BY <1>1, <1>3, <2>2, <2>5, Zenon DEF BeginStore, Alone
<1>4. ASSUME NEW t \in Threads, NEW k \in Keys, BeginServe(t, k) PROVE Goal
  <2>1. PICK ph : /\ op'[t] = Request("serve", k, ph) /\ Alone(t)
                  /\ ph = IF IsBlocked(k) THEN "done" ELSE "read"
    BY <1>0, <1>4, Zenon DEF BeginServe
  <2>2. "serve" \in Kinds /\ ph \in Phases
    BY <2>1, Zenon DEF Kinds, Phases
  <2>3. /\ op'[t].kind = "serve" /\ op'[t].key = k /\ op'[t].phase = ph
        /\ op'[t].val = "absent" /\ (op'[t].late <=> k \in revoked)
    BY <2>1, <2>2, RequestFits
  <2>4. UNCHANGED <<installed, blocklist, revoked, wiped>>
    BY <1>4, Zenon DEF BeginServe
  <2>5. BlockedFirst'
    BY <1>0, <2>1, <2>3, <2>4, Zenon DEF BlockedFirst, IsBlocked, Alone
  <2>6. k \in revoked /\ k \notin wiped => IsBlocked(k)
    BY <1>0, Zenon DEF BlockedFirst
  <2>7. LateStopped'
    BY <1>0, <2>1, <2>3, <2>4, <2>6 DEF LateStopped, Alone
  <2> QED
    BY <2>5, <2>7, Zenon
<1>5. ASSUME NEW t \in Threads, NEW k \in Keys, NEW verify \in BOOLEAN, BeginGet(t, k, verify)
      PROVE  Goal
  <2>1. UNCHANGED <<installed, blocklist, revoked, wiped>>
    BY <1>5, Zenon DEF BeginGet
  <2> QED
    BY <1>1, <1>5, <2>1, GetBegins, Zenon DEF Joins, Leads, Alone
<1>6. ASSUME NEW t \in Threads,
             GetGate(t) \/ GetCache(t) \/ GetFill(t) \/ \E v \in Values : GetWalk(t, v)
      PROVE  Goal
  <2>1. UNCHANGED <<installed, blocklist, revoked, wiped>>
    BY <1>6, Zenon DEF GetGate, GetCache, GetFill, GetWalk
  <2> QED
    BY <1>1, <1>6, <2>1, GetMoves, Zenon DEF Moves, Alone
<1>7. ASSUME NEW t \in Threads, NEW ks \in (SUBSET Keys) \ {{}}, BeginRevoke(t, ks)
      PROVE  Goal
  <2>1. PICK ph : /\ op'[t] = [IdleOp EXCEPT !.kind = "revoke", !.todo = ks, !.phase = ph]
                  /\ Alone(t) /\ ph = IF installed THEN "add" ELSE "install"
    BY <1>0, <1>7, Zenon DEF BeginRevoke
  <2>2. op'[t].kind = "revoke" /\ op'[t].phase = ph
    BY <2>1, Zenon DEF IdleOp
  <2>3. UNCHANGED <<installed, blocklist, revoked, wiped>>
    BY <1>7, Zenon DEF BeginRevoke
  <2>4. LateStopped'
    BY <2>1, <2>2, <2>3, LateKept, Zenon
  <2>5. ph # "delete" /\ (ph = "add" => installed)
    BY <2>1
  <2>6. BlockedFirst'
    BY <1>0, <2>1, <2>2, <2>3, <2>5, Zenon DEF BlockedFirst, IsBlocked, Alone
  <2> QED
    BY <2>4, <2>6, Zenon
<1>8. ASSUME NEW t \in Threads, StorePut(t) \/ StoreDropped(t) \/ Return(t)
      PROVE  Goal
  <2>1. /\ op'[t] = IdleOp /\ Alone(t) /\ UNCHANGED <<installed, blocklist, revoked, wiped>>
    BY <1>0, <1>8, Zenon DEF StorePut, StoreDropped, Return
  <2> QED
    BY <1>1, <2>1 DEF Alone, IdleOp
<1>9. ASSUME NEW t \in Threads, ServeRead(t) PROVE Goal
  <2>1. /\ op'[t] = [op[t] EXCEPT !.phase = "done", !.val = held[op[t].key]]
        /\ op[t].kind = "serve" /\ op[t].phase = "read" /\ Alone(t)
        /\ UNCHANGED <<installed, blocklist, revoked, wiped>>
    BY <1>0, <1>9, Zenon DEF ServeRead, At
  <2>2. op'[t].kind = "serve" /\ op'[t].key = op[t].key /\ (op'[t].late <=> op[t].late)
    BY <1>0, <2>1 DEF Ops
  <2>3. BlockedFirst'
    BY <1>0, <2>1, <2>2, Zenon DEF BlockedFirst, IsBlocked, Alone
  <2>4. ~op[t].late \/ op[t].key \in wiped
    BY <1>0, <2>1, Zenon DEF LateStopped
  <2>5. LateStopped'
    BY <2>1, <2>2, <2>4, LateKept, Zenon
  <2> QED
    BY <2>3, <2>5, Zenon
<1>10. ASSUME NEW t \in Threads, RevokeInstall(t) PROVE Goal
  <2>1. /\ op'[t] = [op[t] EXCEPT !.phase = "add"] /\ Alone(t) /\ op[t].kind = "revoke"
        /\ installed' /\ blocklist' = {} /\ wiped' = wiped \cup blocklist /\ UNCHANGED revoked
    BY <1>0, <1>10, Zenon DEF RevokeInstall, At
  <2>2. op'[t].kind = "revoke" /\ op'[t].phase = "add"
    BY <1>0, <2>1 DEF Ops
  <2>3. BlockedFirst'
    BY <1>0, <2>1, <2>2, Zenon DEF BlockedFirst, IsBlocked, Alone
  <2>4. LateStopped'
    BY <2>1, <2>2, LateKept, Zenon
  <2> QED
    BY <2>3, <2>4, Zenon
<1>11. ASSUME NEW t \in Threads, RevokeAdd(t) PROVE Goal
  <2>1. PICK k \in op[t].todo :
          /\ op'[t] = [op[t] EXCEPT !.phase = "delete", !.key = k] /\ Alone(t)
          /\ blocklist' = blocklist \cup {k}
    BY <1>0, <1>11, Zenon DEF RevokeAdd
  <2>2. /\ op[t].kind = "revoke" /\ op[t].phase = "add"
        /\ UNCHANGED <<installed, revoked, wiped>>
    BY <1>11, Zenon DEF RevokeAdd, At
  <2>3. op'[t].kind = "revoke" /\ op'[t].phase = "delete" /\ op'[t].key = k
    BY <1>0, <2>1, <2>2 DEF Ops
  <2>4. BlockedFirst'
    BY <1>0, <2>1, <2>2, <2>3, Zenon DEF BlockedFirst, IsBlocked, Alone
  <2>5. LateStopped'
    BY <2>1, <2>2, <2>3, LateKept, Zenon
  <2> QED
    BY <2>4, <2>5, Zenon
<1>12. ASSUME NEW t \in Threads, RevokeDelete(t) PROVE Goal
  <2>1. /\ op[t].kind = "revoke" /\ op[t].phase = "delete" /\ Alone(t)
        /\ revoked' = revoked \cup {op[t].key} /\ UNCHANGED <<installed, blocklist, wiped>>
    BY <1>0, <1>12, Zenon DEF RevokeDelete, At
  <2>2. op'[t].kind # "serve" /\ (op'[t].kind = "revoke" => op'[t].phase = "add")
    <3>1. CASE op[t].todo = {op[t].key}
      <4>1. op'[t] = IdleOp
        BY <1>0, <1>12, <3>1, Zenon DEF RevokeDelete
      <4> QED
        BY <4>1 DEF IdleOp
    <3>2. CASE op[t].todo # {op[t].key}
      <4>1. PICK ks : ks = op[t].todo \ {op[t].key}
        BY Zenon
      <4>2. op'[t] = [op[t] EXCEPT !.phase = "add", !.key = None, !.todo = ks]
        BY <1>0, <1>12, <3>2, <4>1, Zenon DEF RevokeDelete
      <4> QED
        BY <1>0, <2>1, <4>2 DEF Ops
    <3> QED
      BY <3>1, <3>2, Zenon
  <2> QED
    BY <1>0, <2>1, <2>2 DEF BlockedFirst, LateStopped, IsBlocked, Alone
<1>13. ASSUME NEW t \in Threads, GetFinish(t) PROVE Goal
  BY <1>1, <1>13, FinishFields, Zenon DEF GetFinish, Alone
<1>14. ASSUME NEW t \in Threads, GetClose(t) PROVE Goal
  <2>1. \A u \in Threads : op'[u] = op[u] \/ op'[u].kind = "get"
    BY <1>14, CloseFields, Zenon
  <2> QED
    BY <1>1, <1>14, <2>1, Zenon DEF GetClose
<1> QED
  BY <1>2, <1>3, <1>4, <1>5, <1>6, <1>7, <1>8, <1>9, <1>10, <1>11, <1>12, <1>13, <1>14, Zenon
     DEF NodeNext, GetStep

\* The tables besides the requests.
LEMMA NodeTypes ==
  ASSUME NodeInv, NodeNext
  PROVE  NodeTypeOK'
<1>1. /\ op' \in [Threads -> Ops]
      /\ \A t \in Threads : /\ op'[t].kind = "revoke" <=> op'[t].todo # {}
                            /\ op'[t].leader # None <=> At(t, "get", "wait")'
  BY OpsStep, Zenon DEF OpOK, At
<1>2. inflight' \in [Keys -> [BOOLEAN -> Threads \cup {None}]]
  <2>1. inflight \in [Keys -> [BOOLEAN -> Threads \cup {None}]]
    BY Zenon DEF NodeInv, NodeSound, NodeTypeOK
  <2>2. \/ UNCHANGED inflight
        \/ \E t \in Threads \cup {None}, k \in Keys, verify \in BOOLEAN :
             inflight' = [inflight EXCEPT ![k][verify] = t]
    <3>1. CASE \E t \in Threads : GetFinish(t)
      <4>1. PICK t \in Threads : /\ op[t].key \in Keys /\ op[t].verify \in BOOLEAN
                                 /\ inflight' = [inflight EXCEPT ![op[t].key][op[t].verify] = None]
        BY <3>1, FinishFields, Zenon
      <4> QED
        BY <4>1, Zenon
    <3>2. CASE \E t \in Threads : GetClose(t)
      BY <3>2, CloseFields, Zenon
    <3>3. CASE \A t \in Threads : ~GetFinish(t) /\ ~GetClose(t)
      <4>1. ASSUME NEW t \in Threads, NEW k \in Keys, NEW verify \in BOOLEAN, Leads(t, k, verify)
            PROVE  inflight' = [inflight EXCEPT ![k][verify] = t]
        BY <4>1, Zenon DEF Leads
      <4>2. ASSUME NEW t, NEW k, NEW verify, Joins(t, k, verify) PROVE UNCHANGED inflight
        BY <4>2, Zenon DEF Joins
      <4>3. ASSUME NEW t, Moves(t) \/ Elsewhere(t) PROVE UNCHANGED inflight
        BY <4>3, Zenon DEF Moves, Elsewhere
      <4> QED
        BY <3>3, <4>1, <4>2, <4>3, LookupSteps
    <3> QED
      BY <3>1, <3>2, <3>3, Zenon
  <2> QED
    BY <2>1, <2>2
<1>3. held' \in [Keys -> Values]
  <2>1. /\ \A t \in Threads : op[t].val \in Values
        /\ held \in [Keys -> Values] /\ "absent" \in Values
    BY OpsFit, Zenon DEF OpOK, Ops, Values, NodeInv, NodeSound, NodeTypeOK
  <2>2. ASSUME NEW k \in Keys, Evict(k) PROVE held' \in [Keys -> Values]
    BY <2>1, <2>2, Zenon DEF Evict
  <2>3. ASSUME NEW t \in Threads, StorePut(t) \/ GetFill(t) \/ RevokeDelete(t)
        PROVE  held' \in [Keys -> Values]
    <3>1. PICK k, v : v \in Values /\ held' = [held EXCEPT ![k] = v]
      <4>1. CASE StorePut(t)
        BY <2>1, <4>1, Zenon DEF StorePut
      <4>2. CASE GetFill(t)
        BY <2>1, <4>2, Zenon DEF GetFill
      <4>3. CASE RevokeDelete(t)
        BY <2>1, <4>3, Zenon DEF RevokeDelete
      <4> QED
        BY <2>3, <4>1, <4>2, <4>3, Zenon
    <3> QED
      BY <2>1, <3>1, Zenon
  <2>4. \/ UNCHANGED held \/ \E k \in Keys : Evict(k)
        \/ \E t \in Threads : StorePut(t) \/ GetFill(t) \/ RevokeDelete(t)
    BY ZenonT(40) DEF NodeNext, GetStep, BeginStore, BeginServe, BeginGet, BeginRevoke, StoreDropped,
           ServeRead, Return, GetGate, GetCache, GetWalk, GetFinish, GetClose,
           RevokeInstall, RevokeAdd
  <2> QED
    BY <2>1, <2>2, <2>3, <2>4, Zenon
<1>4. /\ installed' \in BOOLEAN /\ blocklist' \subseteq Keys /\ revoked' \subseteq Keys
      /\ mine' \subseteq Keys /\ wiped' \subseteq Keys
  <2>1. /\ installed \in BOOLEAN /\ blocklist \subseteq Keys /\ revoked \subseteq Keys
        /\ mine \subseteq Keys /\ wiped \subseteq Keys
        /\ \A t \in Threads : op[t].todo \subseteq Keys
        /\ \A t \in Threads : op[t].phase \in {"put", "delete"} => op[t].key \in Keys
    BY OpsFit, Zenon DEF OpOK, Ops, Kinds, PhasesFit, Leading, NodeInv, NodeSound, NodeTypeOK
  <2>2. CASE UNCHANGED <<installed, blocklist, revoked, mine, wiped>>
    BY <2>1, <2>2, Zenon
  <2>3. ASSUME NEW k \in Keys, Evict(k)
        PROVE  mine' \subseteq Keys /\ UNCHANGED <<installed, blocklist, revoked, wiped>>
    BY <2>1, <2>3, Zenon DEF Evict
  <2>4. ASSUME NEW t \in Threads, StorePut(t)
        PROVE  mine' \subseteq Keys /\ UNCHANGED <<installed, blocklist, revoked, wiped>>
    BY <2>1, <2>4, Zenon DEF StorePut
  <2>5. ASSUME NEW t \in Threads, RevokeInstall(t)
        PROVE  /\ installed' \in BOOLEAN /\ blocklist' \subseteq Keys /\ wiped' \subseteq Keys
               /\ UNCHANGED <<revoked, mine>>
    BY <2>1, <2>5, Zenon DEF RevokeInstall
  <2>6. ASSUME NEW t \in Threads, RevokeAdd(t)
        PROVE  /\ blocklist' \subseteq Keys /\ mine' \subseteq Keys
               /\ UNCHANGED <<installed, revoked, wiped>>
    BY <2>1, <2>6, Zenon DEF RevokeAdd
  <2>7. ASSUME NEW t \in Threads, RevokeDelete(t)
        PROVE  /\ revoked' \subseteq Keys /\ mine' \subseteq Keys
               /\ UNCHANGED <<installed, blocklist, wiped>>
    BY <2>1, <2>7, Zenon DEF RevokeDelete, At
  <2>8. ASSUME NEW t \in Threads,
               \/ StoreDropped(t) \/ ServeRead(t) \/ GetStep(t) \/ Return(t)
               \/ \E k \in Keys, kind \in {"store", "local"}, v \in {"good", "bad"} :
                    BeginStore(t, kind, k, v)
               \/ \E k \in Keys : BeginServe(t, k)
               \/ \E k \in Keys, verify \in BOOLEAN : BeginGet(t, k, verify)
               \/ \E ks \in (SUBSET Keys) \ {{}} : BeginRevoke(t, ks)
        PROVE  UNCHANGED <<installed, blocklist, revoked, mine, wiped>>
    <3>1. CASE GetStep(t)
      BY <3>1, Zenon DEF GetStep, GetGate, GetCache, GetFill, GetWalk, GetFinish, GetClose
    <3>2. CASE StoreDropped(t) \/ ServeRead(t) \/ Return(t)
      BY <3>2, Zenon DEF StoreDropped, ServeRead, Return
    <3> QED
      BY <2>8, <3>1, <3>2, Zenon DEF BeginStore, BeginServe, BeginGet, BeginRevoke
  <2>9. \/ UNCHANGED <<installed, blocklist, revoked, mine, wiped>>
        \/ \E k \in Keys : Evict(k)
        \/ \E t \in Threads : \/ StorePut(t) \/ RevokeInstall(t) \/ RevokeAdd(t)
                              \/ RevokeDelete(t)
    BY <2>8, Zenon DEF NodeNext
  <2> QED
    BY <2>1, <2>2, <2>3, <2>4, <2>5, <2>6, <2>7, <2>9, Zenon
<1> QED
  BY <1>1, <1>2, <1>3, <1>4, Zenon DEF NodeTypeOK

\* An idle node with an empty store.
LEMMA NodeStarts == NodeInit => NodeInv
<1> SUFFICES ASSUME NodeInit PROVE NodeInv
  BY Zenon
<1>1. installed \in BOOLEAN
  BY NodeAssumption, Zenon DEF NodeInit
<1>2. \A t \in Threads : op[t] = IdleOp
  BY Zenon DEF NodeInit
<1>3. NodeTypeOK
  BY <1>1, <1>2, IdleFits, Zenon DEF NodeInit, NodeTypeOK, Values, OpOK, At
<1>4. \A t \in Threads : PhasesFit(op[t])
  BY <1>2, IdleFits, Zenon DEF OpOK
<1>5. OneLookupPerKey /\ ValuesVerified /\ LateStopped
  BY <1>2 DEF OneLookupPerKey, ValuesVerified, LateStopped, At, IdleOp
<1>6. InflightLed /\ BlockedFirst
  BY <1>2, Zenon DEF NodeInit, InflightLed, BlockedFirst, IdleOp
<1> QED
  BY <1>3, <1>4, <1>5, <1>6, Zenon DEF NodeInv, NodeSound

\* The invariant survives every step of the node.
LEMMA NodeStep == NodeInv /\ [NodeNext]_nodeVars => NodeInv'
<1>1. ASSUME NodeInv, NodeNext PROVE NodeInv'
  BY <1>1, NodeTypes, OpsStep, LookupsKept, GateKept, Zenon DEF NodeInv, NodeSound, OpOK
<1>2. ASSUME NodeInv, UNCHANGED nodeVars PROVE NodeInv'
  <2>1. NodeSound'
    BY <1>2, Zenon DEF NodeInv, NodeSound, NodeTypeOK, OneLookupPerKey, At, nodeVars
  <2>2. \A t \in Threads : PhasesFit(op'[t])
    BY <1>2, Zenon DEF NodeInv, nodeVars
  <2>3. ValuesVerified' /\ InflightLed' /\ BlockedFirst' /\ LateStopped'
    BY <1>2 DEF NodeInv, ValuesVerified, InflightLed, BlockedFirst, LateStopped, IsBlocked, nodeVars
  <2> QED
    BY <2>1, <2>2, <2>3, Zenon DEF NodeInv
<1> QED
  BY <1>1, <1>2, Zenon

\* NodeInv holds in every reachable state.
THEOREM NodeInvariant == NodeSpec => []NodeInv
BY NodeStarts, NodeStep, PTL DEF NodeSpec

\* Concurrent gets of a key are one lookup, its leader is in the table, and whoever
\* waits waits for a leader that has yet to close its channel.
THEOREM NodeStaysSound == NodeSpec => []NodeSound
<1>1. NodeInv => NodeSound
  BY Zenon DEF NodeInv
<1> QED
  BY <1>1, NodeInvariant, PTL

\* A verified get returns the right content or nothing, to its caller and to all
\* who joined it, whatever peers have stored under the key.
THEOREM GetsVerified == NodeSpec => []OnlyVerifiedReturned
<1>1. NodeInv => OnlyVerifiedReturned
  BY OpsFit, Zenon DEF NodeInv, ValuesVerified, OnlyVerifiedReturned, At, OpOK, Ops, Values
<1> QED
  BY <1>1, NodeInvariant, PTL

\* A find_value that arrives after the key was revoked is not answered with the
\* content, unless a second first revocation has replaced the blocklist.
THEOREM RevokedStaysUnserved == NodeSpec => []RevokedNotServed
<1>1. NodeInv => RevokedNotServed
  BY Zenon DEF NodeInv, LateStopped, RevokedNotServed, At
<1> QED
  BY <1>1, NodeInvariant, PTL

=============================================================================
