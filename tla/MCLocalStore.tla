---------------------------- MODULE MCLocalStore ----------------------------
(* A TLC instance of Publish and LocalStore: one key holds a content-        *)
(* addressed chunk, the records' value and size change; and a site of one    *)
(* file with two chunks.                                                     *)
EXTENDS Publish

CONSTANTS
  Chunks,    \* content-addressed keys
  Record,    \* a name record: empty, small, as big as the budget or bigger
  SmallRecord  \* a name record that fits

MCFile == <<1, 2>>

MCSites == {<<MCFile>>}

MCWatched == ChunkBlob(1)

MCListed == {ChunkBlob(2)}

MCKeys == {Record, SmallRecord} \cup Chunks \cup UNION {ToSet(PublishDir(s)) : s \in MCSites}

MCSize == [v \in Values |-> v]

MCAllowed ==
  [k \in MCKeys |-> IF k = Record THEN Values ELSE IF k = SmallRecord THEN {1, 2} ELSE {1}]

\* A node that sets the quota before it publishes.
QuotaSpec ==
  /\ PublishInit /\ site # NoSite
  /\ [][PublishNext \/ (lru = <<>> /\ SetPerPeerMax(1) /\ UNCHANGED siteVars)]_publishVars
=============================================================================
