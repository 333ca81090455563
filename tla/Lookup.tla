------------------------------- MODULE Lookup -------------------------------
(***************************************************************************)
(* The iterative walk of core/dht/dht.go towards one target, which Lookup, *)
(* getInner and GetAllUnverified share: ask the Alpha closest contacts not *)
(* yet asked, enter what they tell us into the routing table, take the K   *)
(* closest of the table again, and stop when the closest did not change.   *)
(* Contacts are numbered by their distance to the target, so that 1 is the *)
(* closest of all.  Answers arrive in any order; while the walk runs, the  *)
(* rest of the program adds and removes contacts of the same table.        *)
(***************************************************************************)
EXTENDS Naturals, FiniteSetsExt

CONSTANTS
  N,         \* number of nodes besides this one
  K,         \* bucket and reply size
  Alpha,     \* parallel requests
  Modes,     \* the callers considered: "node", "value" or "all"
  Dead,      \* contacts that never answer
  Bad,       \* nodes whose value fails the verification of getInner
  Full,      \* contacts for which our table has no room
  Churn,     \* contacts the rest of the program may remove meanwhile
  Networks   \* the know functions considered

Contacts == 1..N

ASSUME LookupAssumption ==
  /\ N \in Nat \ {0} /\ K \in Nat \ {0} /\ Alpha \in Nat \ {0}
  /\ Modes \subseteq {"node", "value", "all"}
  /\ Dead \subseteq Contacts /\ Churn \subseteq Contacts /\ Full \subseteq Contacts
  /\ Bad \subseteq Contacts
  /\ Networks \subseteq [Contacts -> SUBSET Contacts]

VARIABLES
  mode,
  know,        \* know[c]: the routing table of c
  holders,     \* the nodes that have a value for the target
  table,       \* our routing table
  shortlist,
  queried,
  batch,       \* contacts asked in this round that have not answered
  learned,     \* contacts named in the answers of this round
  found,       \* holders that answered with their value
  phase        \* "round", "asking" or "done"

lookupVars == <<mode, know, holders, table, shortlist, queried, batch, learned, found, phase>>

\* RoutingTable.Closest: the n closest of S.
Closest(S, n) == {c \in S : Cardinality({d \in S : d < c}) < n}

\* closestHex; 0 for the empty string.
closestHex(S) == IF S = {} THEN 0 ELSE Min(S)

LookupInit ==
  /\ mode \in Modes
  /\ know \in Networks
  /\ holders \in IF mode = "node" THEN {{}} ELSE SUBSET Contacts
  /\ table \in (SUBSET Contacts) \ {{}}
  /\ shortlist = Closest(table, K)
  /\ queried = {} /\ batch = {} /\ learned = {} /\ found = {}
  /\ phase = "round"

\* Update and Hint: a contact whose bucket is full stays out.
Entered(S) == table \cup (S \ Full)

\* The head of the loop: the next batch, or the end when everyone was asked.
Ask ==
  /\ phase = "round"
  /\ LET next == Closest(shortlist \ queried, Alpha)
     IN  /\ batch' = next
         /\ queried' = queried \cup next
         /\ phase' = IF next = {} THEN "done" ELSE "asking"
  /\ learned' = {}
  /\ UNCHANGED <<mode, know, holders, table, shortlist, found>>

\* FindNode or sendFindValue succeeds: the contact is refreshed in our table and
\* answers with its value or with the closest it knows.
Answer(c) ==
  /\ c \in batch \ Dead
  /\ batch' = batch \ {c}
  /\ table' = Entered({c})
  /\ IF c \in holders
     THEN /\ found' = IF mode = "value" /\ c \in Bad THEN found ELSE found \cup {c}
          /\ UNCHANGED learned
     ELSE learned' = learned \cup Closest(know[c], K) /\ UNCHANGED found
  /\ UNCHANGED <<mode, know, holders, shortlist, queried, phase>>

\* Mutant: a request that fails is never reported to the WaitGroup.
NoAnswerNoDone(c) ==
  /\ c \in batch \cap Dead
  /\ UNCHANGED lookupVars

\* The request fails or times out; the contact stays in the table.
NoAnswer(c) ==
  /\ c \in batch \cap Dead
  /\ batch' = batch \ {c}
  /\ UNCHANGED <<mode, know, holders, table, shortlist, queried, learned, found, phase>>

\* Mutant: what the answers named is not entered into the table.
RoundEndsUnhinted ==
  /\ phase = "asking" /\ batch = {}
  /\ shortlist' = Closest(table, K)
  /\ phase' = IF \/ mode = "value" /\ found # {}
                 \/ closestHex(shortlist') = closestHex(shortlist)
              THEN "done" ELSE "round"
  /\ UNCHANGED <<mode, know, holders, table, queried, batch, learned, found>>

\* Mutant: the old and the new shortlist are compared after both were replaced.
RoundEndsAtOnce ==
  /\ phase = "asking" /\ batch = {}
  /\ table' = Entered(learned)
  /\ shortlist' = Closest(table', K)
  /\ phase' = "done"
  /\ UNCHANGED <<mode, know, holders, queried, batch, learned, found>>

\* After wg.Wait: getInner returns the value it found; otherwise the contacts are
\* entered (Hint) and the shortlist is computed again.
RoundEnds ==
  /\ phase = "asking" /\ batch = {}
  /\ IF mode = "value" /\ found # {}
     THEN phase' = "done" /\ UNCHANGED <<table, shortlist>>
     ELSE /\ table' = Entered(learned)
          /\ shortlist' = Closest(table', K)
          /\ phase' = IF closestHex(shortlist') = closestHex(shortlist)
                      THEN "done" ELSE "round"
  /\ UNCHANGED <<mode, know, holders, queried, batch, learned, found>>

\* The peer check removes a contact, or a hello brings it back.
TableChanges(c) ==
  /\ phase # "done" /\ c \notin Full
  /\ table' = IF c \in table THEN table \ {c} ELSE table \cup {c}
  /\ UNCHANGED <<mode, know, holders, shortlist, queried, batch, learned, found, phase>>

WalkStep ==
  \/ Ask \/ RoundEnds
  \/ \E c \in Contacts : Answer(c) \/ NoAnswer(c)

LookupNext ==
  \/ WalkStep
  \/ \E c \in Churn : TableChanges(c)

LookupSpec == LookupInit /\ [][LookupNext]_lookupVars

\* The walk runs on: every request is answered or times out.
FairLookupSpec == LookupSpec /\ WF_lookupVars(WalkStep)
-----------------------------------------------------------------------------
\* Shapes; shortlist and batch keep to K and Alpha, and every value that was found
\* came from a holder that was asked.
LookupTypeOK ==
  /\ table \subseteq Contacts /\ shortlist \subseteq Contacts /\ Cardinality(shortlist) <= K
  /\ queried \subseteq Contacts /\ batch \subseteq queried /\ Cardinality(batch) <= Alpha
  /\ learned \subseteq Contacts /\ found \subseteq holders \cap queried
  /\ phase \in {"round", "asking", "done"}
  /\ phase # "asking" => batch = {}

\* "loop until no progress": the walk ends, although the table it is recomputed
\* from keeps changing under it.
WalkEnds == <>(phase = "done")

\* The live contacts our table has room for that are closer to the target than c
\* and than every dead contact.
Ahead(c) == {d \in Contacts \ (Dead \cup Full) : d < c /\ \A e \in Dead : d < e}

\* The networks in which a walk cannot be led astray: everyone alive but the
\* closest node of all answers with such a contact, and only dead contacts are
\* removed from our table.
ProgressiveNetworks ==
  /\ Churn \subseteq Dead
  /\ \A f \in Networks, c \in Contacts \ (Dead \cup {1}) : Closest(f[c], K) \cap Ahead(c) # {}

\* "It returns the K closest contacts found across the network": in a progressive
\* network a walk that asked any live contact ends with the node closest to the
\* target, although dead contacts are asked too and come and go in the table.
ConvergesToClosest ==
  phase = "done" /\ mode = "node" /\ ~(queried \subseteq Dead) => 1 \in shortlist

\* "all returned values failed verification" or "no peer holds a value": a get that
\* ends without a value has at least asked the closest contact of its final
\* shortlist, however many rounds it took to learn of it.
ClosestWasAsked ==
  phase = "done" /\ mode = "value" /\ found = {} /\ shortlist # {} =>
    closestHex(shortlist) \in queried

\* The shapes above, and a get that asked the closest contact it learnt of.
LookupSound == LookupTypeOK /\ ClosestWasAsked

\* While a round runs the closest contact of the shortlist has been asked.
ClosestIsAsked ==
  phase = "asking" => shortlist = {} \/ closestHex(shortlist) \in queried

\* The inductive invariant of the walk.
LookupInv ==
  /\ LookupSound /\ ClosestIsAsked
  /\ mode \in Modes /\ know \in Networks /\ (mode = "node" => holders = {})

\* And of its convergence: what is alive stays in the table and no farther than
\* the head of the shortlist; node 1, once asked, stays; every answer has left a
\* contact ahead in the table or in what this round learned.
LiveStay ==
  /\ (shortlist \cup queried) \ Dead \subseteq table
  /\ \A d \in table \ Dead : \E e \in shortlist : e <= d
  /\ 1 \in queried \ Dead => 1 \in shortlist

AnswersLeadOn ==
  mode = "node" =>
    \A c \in queried \ (batch \cup Dead \cup {1}) :
      \E d \in Ahead(c) : d \in table \/ (phase = "asking" /\ d \in learned)

WalkInv == LookupInv /\ LiveStay /\ AnswersLeadOn /\ ConvergesToClosest

\* "Resolve queries every replica that holds a candidate record": a walk that
\* collects all values has asked every holder among the K closest it knows.
AsksEveryReplica ==
  phase = "done" /\ mode = "all" => shortlist \cap holders \subseteq queried
=============================================================================
