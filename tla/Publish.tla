------------------------------ MODULE Publish -------------------------------
(***************************************************************************)
(* Publishing a site from a node and fetching it from another (apps/files: *)
(* PublishDir, PublishBytes, publishStore, FetchDir, FetchBytes), on top   *)
(* of the node's LocalStore: every blob is put into the store and pushed   *)
(* to the network by a goroutine of its own, republishAll pushes again     *)
(* what the store still holds, and other traffic evicts from the store.    *)
(* The process may die and come back with the entries on its disk.         *)
(*                                                                         *)
(* A blob is named by its content, as its key is the hash of it.  The      *)
(* directory lists the files in the order they are published in: the code  *)
(* sorts the entries by path, and each file is complete before the next.   *)
(***************************************************************************)
EXTENDS LocalStore

CONSTANTS
  Sites,     \* the sites: sequences of files, a file being the sequence of its chunks
  NoSite,    \* nothing is published: the store alone
  Listed,    \* the chunks that may be on the blocklist
  Watched,   \* the blob whose replication is followed
  Traffic    \* bound: the keys other peers store while a site is published

ChunkBlob(c) == <<"chunk", c>>
ManifestBlob(f) == <<"manifest", f>>
DirectoryBlob(s) == <<"directory", s>>

\* PublishBytes: the chunks of a file, then its manifest.
PublishBytes(f) == Append([i \in 1..Len(f) |-> ChunkBlob(f[i])], ManifestBlob(f))

\* Mutant: the directory is stored before the files it lists.
PublishDirRootFirst(s) ==
  <<DirectoryBlob(s)>> \o FlattenSeq([i \in 1..Len(s) |-> PublishBytes(s[i])])

\* PublishDir: all files, then the directory.
PublishDir(s) ==
  Append(FlattenSeq([i \in 1..Len(s) |-> PublishBytes(s[i])]), DirectoryBlob(s))

\* What each site is stored as; none of it exists before the site does.
Blobs == [s \in Sites |-> PublishDir(s)]
AllBlobs == UNION {ToSet(Blobs[s]) : s \in Sites}

ASSUME PublishAssumption ==
  /\ NoSite \notin Sites
  /\ AllBlobs \cup Traffic \subseteq Keys
  /\ Watched \in AllBlobs

VARIABLES
  site,      \* what is published
  pub,       \* the next blob of PublishDir; 0 once it has failed
  copy,      \* copy[k]: "none", "flying" (its Replicate runs) or "net" (others hold it)
  copying,   \* the entry republishAll has read and will store again
  origin,    \* history: origin[k]: the peer that stored k here
  blocked,   \* the blocklist
  up,        \* the process runs
  todo,      \* the blobs FetchDir has still to get; None before and after
  fetched    \* the chunks it has got

siteVars == <<site, pub, copy, copying, origin, blocked, up, todo, fetched>>

PublishInit ==
  /\ StoreInit
  /\ site \in Sites \cup {NoSite}
  /\ pub = 1
  /\ copy = [k \in Keys |-> "none"]
  /\ copying = None
  /\ origin = [k \in Keys |-> Self]
  /\ blocked \in IF site = NoSite THEN {{}} ELSE {{}, Listed}
  /\ up = TRUE
  /\ todo = None /\ fetched = <<>>

Publishing == site # NoSite /\ up
-----------------------------------------------------------------------------
(* The publisher *)

\* publishStore of the next blob: StoreLocal, and a goroutine for Replicate; both
\* silently skip a blob that is blocked.  (A push of what others hold changes nothing.)
PublishBlob ==
  /\ Publishing /\ pub \in 1..Len(Blobs[site])
  /\ LET b == Blobs[site][pub]
     IN  IF b \in blocked THEN UNCHANGED <<storeVars, copy, origin>>
         ELSE /\ \E v \in Allowed[b] : Put(b, v, Self)
              /\ copy' = [copy EXCEPT ![b] = IF @ = "net" THEN @ ELSE "flying"]
              /\ origin' = [origin EXCEPT ![b] = Self]
  /\ pub' = pub + 1
  /\ UNCHANGED <<site, copying, blocked, up, todo, fetched>>

\* A file cannot be read: PublishDir returns an error.
PublishFails ==
  /\ Publishing /\ pub \in 1..Len(Blobs[site])
  /\ pub' = 0
  /\ UNCHANGED <<storeVars, site, copy, copying, origin, blocked, up, todo, fetched>>

\* Replicate: some of the closest peers acknowledge the blob,
Replicated(b) ==
  /\ Publishing /\ copy[b] = "flying"
  /\ copy' = [copy EXCEPT ![b] = "net"]
  /\ UNCHANGED <<storeVars, site, pub, copying, origin, blocked, up, todo, fetched>>

\* or none does (no goroutine will try again); or those that did lose it later.
ReplicaLost(b) ==
  /\ copy[b] # "none" /\ (copy[b] = "flying" => Publishing)
  /\ copy' = [copy EXCEPT ![b] = "none"]
  /\ UNCHANGED <<storeVars, site, pub, copying, origin, blocked, up, todo, fetched>>

\* republishAll reads an entry,
RepublishRead(k) ==
  /\ Publishing /\ copying = None
  /\ Get(k)
  /\ copying' = k
  /\ UNCHANGED <<site, pub, copy, origin, blocked, up, todo, fetched>>

\* Mutant: the pass stores the entry again without pushing it.
RepublishStoreLocal ==
  /\ Publishing /\ copying # None
  /\ \E v \in Allowed[copying] : Put(copying, v, Self)
  /\ copying' = None
  /\ UNCHANGED <<site, pub, copy, origin, blocked, up, todo, fetched>>

\* and hands it to Store: StoreLocal, which attributes it to nobody, and Replicate.
RepublishStore ==
  /\ Publishing /\ copying # None
  /\ \E v \in Allowed[copying] : Put(copying, v, Self)
  /\ copy' = [copy EXCEPT ![copying] = IF copying \in AllBlobs /\ @ # "net" THEN "flying" ELSE @]
  /\ copying' = None
  /\ UNCHANGED <<site, pub, origin, blocked, up, todo, fetched>>

\* Another peer stores something here.
Others(k, p) ==
  /\ Publishing /\ k \in Traffic
  /\ \E v \in Allowed[k] : Put(k, v, p)
  /\ origin' = [origin EXCEPT ![k] = p]
  /\ UNCHANGED <<site, pub, copy, copying, blocked, up, todo, fetched>>

\* The process dies; the entries it held are on its disk (StoreDisk), within the
\* budget, so that loadFromDisk has nothing to trim.
Dies ==
  /\ Publishing
  /\ up' = FALSE
  /\ pub' = IF pub > Len(Blobs[site]) THEN pub ELSE 0
  /\ copy' = [k \in Keys |-> IF copy[k] = "flying" THEN "none" ELSE copy[k]]
  /\ copying' = None
  /\ UNCHANGED <<storeVars, site, origin, blocked, todo, fetched>>

Restarts ==
  /\ ~up
  /\ up' = TRUE
  /\ lru' \in SetToSeqs(Held)
  /\ total' = HeldBytes
  /\ attribution' = [k \in Keys |-> Self]
  /\ perPeer' = [p \in Peers |-> 0]
  /\ selfEvicted' = None
  /\ UNCHANGED <<data, perPeerMax, site, pub, copy, copying, origin, blocked, todo, fetched>>
-----------------------------------------------------------------------------
(* FetchDir on another node *)

\* What a blob refers to.
Refs(b) ==
  CASE b[1] = "directory" -> [i \in 1..Len(b[2]) |-> ManifestBlob(b[2][i])]
    [] b[1] = "manifest" -> [i \in 1..Len(b[2]) |-> ChunkBlob(b[2][i])]
    [] OTHER -> <<>>

\* The root hash is what PublishDir returns.
FetchDir ==
  /\ site # NoSite /\ pub > Len(Blobs[site]) /\ todo = None
  /\ todo' = <<DirectoryBlob(site)>>
  /\ UNCHANGED <<storeVars, site, pub, copy, copying, origin, blocked, up, fetched>>

\* Get from the publisher or from another node; without the blob the fetch fails.
FetchGet ==
  /\ todo # None /\ todo # <<>>
  /\ LET b == Head(todo)
     IN  \/ /\ \/ up /\ Get(b)
               \/ copy[b] = "net" /\ UNCHANGED storeVars
            /\ todo' = Refs(b) \o Tail(todo)
            /\ fetched' = IF b[1] = "chunk" THEN Append(fetched, b[2]) ELSE fetched
         \/ /\ ~(up /\ b \in Held) /\ copy[b] # "net"
            /\ todo' = None /\ fetched' = <<>>
            /\ UNCHANGED storeVars
  /\ UNCHANGED <<site, pub, copy, copying, origin, blocked, up>>

\* The visitor is done with what was fetched.
FetchEnds ==
  /\ todo = <<>>
  /\ todo' = None /\ fetched' = <<>>
  /\ UNCHANGED <<storeVars, site, pub, copy, copying, origin, blocked, up>>
-----------------------------------------------------------------------------
PublishNext ==
  \/ site = NoSite /\ StoreStep(Keys \ AllBlobs) /\ UNCHANGED siteVars
  \/ PublishBlob \/ PublishFails
  \/ \E b \in AllBlobs : Replicated(b) \/ ReplicaLost(b)
  \/ \E k \in Keys : RepublishRead(k)
  \/ RepublishStore
  \/ \E k \in Traffic, p \in Peers : Others(k, p)
  \/ Dies \/ Restarts
  \/ FetchDir \/ FetchGet \/ FetchEnds

publishVars == <<storeVars, siteVars>>

\* As long as all peers read (sendOn has no write deadline), a republish pass does not
\* stop at an entry it has read, unless it dies with the process;
\* passes come round again and again, and each reads every entry its snapshot holds, so
\* an entry that stays is read again and again.  The network assumption: a blob pushed
\* again and again is taken again and again.
PublishFair ==
  /\ []<>(copying = None)
  /\ []<>(~Publishing \/ Watched \notin Held) \/ []<>(copying = Watched)
  /\ []<>(copy[Watched] = "flying") => []<>(copy[Watched] = "net")

PublishSpec == PublishInit /\ [][PublishNext]_publishVars /\ PublishFair
-----------------------------------------------------------------------------
\* A site is whole before it can be seen: nobody can find the directory before every
\* other blob of the site was put into the store (or is blocked), whatever eviction,
\* death and republishing do to the blobs later, and a fetch that succeeds has the
\* site's chunks in order.
SiteSound ==
  site # NoSite =>
    /\ DirectoryBlob(site) \in Held \/ copy[DirectoryBlob(site)] # "none"
         => pub > Len(Blobs[site])
    /\ todo = <<>> => fetched = FlattenSeq(site)

\* "This is what keeps content alive across peer churn": a blob (Watched, any one) that
\* the running node keeps holding is on other nodes again and again, however often a
\* Replicate fails, the process dies with it or the other nodes lose their copies.
SiteSpreads ==
  <>[](Publishing /\ Watched \in Held) => []<>(copy[Watched] = "net")

\* "until then the publishing node serves it directly": once PublishDir has
\* returned, every blob of the site can be fetched while the node is up.
ServedDirectly ==
  site # NoSite /\ up /\ pub > Len(Blobs[site]) =>
    \A b \in ToSet(Blobs[site]) \ blocked : b \in Held \/ copy[b] = "net"

\* "max bytes any single remote peer can have STORE'd at us": of the entries held,
\* those a peer stored stay within the quota.
StoredWithinQuota ==
  \A p \in Peers : perPeerMax > 0 => Bytes({k \in Held : origin[k] = p}) <= perPeerMax
=============================================================================
