----------------------------- MODULE StoreDisk ------------------------------
(***************************************************************************)
(* LocalStore with its files (core/dht/store.go, dataDir # "").  put and   *)
(* Delete change the maps under s.mu but touch the disk after releasing    *)
(* it; eviction removes files while the lock is held.  Several threads     *)
(* (one read loop per connection, the local API, maintenance) run these    *)
(* operations, and the process may be killed and restarted at any point.   *)
(*                                                                         *)
(* Values are byte sequences, Size[v] = Len(v).  Per key there are two     *)
(* directory entries, <hex> and <hex>.tmp, and an open descriptor follows  *)
(* its inode: a thread's fd says under which entry its inode is linked.    *)
(* A kill leaves the files as they are (fsync against power loss is not    *)
(* modelled).                                                              *)
(***************************************************************************)
EXTENDS LocalStore

CONSTANTS Threads, NoJob

VARIABLES
  file,     \* file[k]: contents of <hex>, or None
  tmp,      \* tmp[k]: contents of <hex>.tmp, or None
  job,      \* job[t]: the disk work thread t has left after its unlock
  lost,     \* history: keys whose last put could not be written to disk
  shared,   \* history: keys on which the disk work of two operations overlapped
  booting   \* newLocalStoreWithLimit is between load and trim

diskVars == <<file, tmp, job, lost, shared, booting>>
vars == <<storeVars, diskVars>>

Job(step, k, v, fd) == [step |-> step, key |-> k, value |-> v, fd |-> fd]

DiskInit ==
  /\ StoreInit
  /\ file = [k \in Keys |-> None]
  /\ tmp = [k \in Keys |-> None]
  /\ job = [t \in Threads |-> NoJob]
  /\ lost = {}
  /\ shared = {}
  /\ booting = FALSE

Idle(k) == \A t \in Threads : job[t] = NoJob \/ job[t].key # k

Running(t, step) == job[t] # NoJob /\ job[t].step = step

\* Every descriptor open on an entry of k in `from` is moved to `to[entry]`.
Relink(jobs, k, to) ==
  [t \in Threads |->
     IF jobs[t] # NoJob /\ jobs[t].key = k /\ jobs[t].fd \in DOMAIN to
     THEN [jobs[t] EXCEPT !.fd = to[@]] ELSE jobs[t]]

Unlinked(jobs, ks) ==
  [t \in Threads |->
     IF jobs[t] # NoJob /\ jobs[t].key \in ks /\ jobs[t].fd = "file"
     THEN [jobs[t] EXCEPT !.fd = "gone"] ELSE jobs[t]]

\* The keys in ks some thread still has disk work for.
Busy(ks) == {k \in ks : ~Idle(k)}

Unlink(ks) == file' = [k \in Keys |-> IF k \in ks THEN None ELSE file[k]]
-----------------------------------------------------------------------------
\* put: the locked section (evicted files go with it), then writeAtomic.
PutLocked(t, k, v, p) ==
  /\ ~booting /\ job[t] = NoJob
  /\ Put(k, v, p)
  /\ Unlink(Evicted(k, v))
  /\ job' = [Unlinked(job, Evicted(k, v)) EXCEPT ![t] = Job("open", k, v, "none")]
  /\ shared' = shared \cup Busy(Evicted(k, v) \cup {k})
  /\ UNCHANGED <<tmp, lost, booting>>

\* Mutant: the value is written to the final path instead of the temp file.
OpenTmpInPlace(t) ==
  /\ Running(t, "open")
  /\ file' = [file EXCEPT ![job[t].key] = << >>]
  /\ job' = [job EXCEPT ![t].step = "write", ![t].fd = "file"]
  /\ UNCHANGED <<storeVars, tmp, lost, shared, booting>>

\* os.OpenFile(tmp, O_CREATE|O_TRUNC): an existing tmp file is truncated, so a
\* second writer of the same key shares the first one's inode.
OpenTmp(t) ==
  /\ Running(t, "open")
  /\ tmp' = [tmp EXCEPT ![job[t].key] = << >>]
  /\ job' = [job EXCEPT ![t].step = "write", ![t].fd = "tmp"]
  /\ UNCHANGED <<storeVars, file, lost, shared, booting>>

Overlay(new, old) == new \o SubSeq(old, Len(new) + 1, Len(old))

\* io.Copy, Sync and Close: bytes land at offset 0 of the thread's inode,
\* wherever that inode is linked by now.
WriteTmp(t) ==
  /\ Running(t, "write")
  /\ LET k == job[t].key  v == job[t].value
     IN  /\ tmp' = IF job[t].fd = "tmp"
                   THEN [tmp EXCEPT ![k] = Overlay(v, @)] ELSE tmp
         /\ file' = IF job[t].fd = "file"
                    THEN [file EXCEPT ![k] = Overlay(v, @)] ELSE file
  /\ job' = [job EXCEPT ![t].step = "rename"]
  /\ UNCHANGED <<storeVars, lost, shared, booting>>

\* Opening or writing the temp file fails (disk full, I/O error): the temp entry
\* is removed and put only logs a warning.
PersistFails(t) ==
  /\ Running(t, "open") \/ Running(t, "write")
  /\ LET k == job[t].key
         removes == job[t].step = "write"
     IN  /\ lost' = lost \cup {k}
         /\ tmp' = IF removes THEN [tmp EXCEPT ![k] = None] ELSE tmp
         /\ job' = IF removes
                   THEN Relink([job EXCEPT ![t] = NoJob], k, [tmp |-> "gone"])
                   ELSE [job EXCEPT ![t] = NoJob]
  /\ UNCHANGED <<storeVars, file, shared, booting>>

\* os.Rename(tmp, path): moves whatever inode the temp name denotes; fails when
\* another writer has already moved or removed it.
RenameTmp(t) ==
  /\ Running(t, "rename")
  /\ LET k == job[t].key
         done == [job EXCEPT ![t] = NoJob]
     IN  IF tmp[k] = None
         THEN /\ job' = done
              /\ UNCHANGED <<file, tmp, lost>>
         ELSE /\ file' = [file EXCEPT ![k] = tmp[k]]
              /\ tmp' = [tmp EXCEPT ![k] = None]
              /\ job' = Relink(done, k, [tmp |-> "file", file |-> "gone"])
              /\ lost' = lost \ {k}
  /\ UNCHANGED <<storeVars, shared, booting>>

\* Delete: the locked section; then os.Remove.
DeleteLocked(t, k) ==
  /\ ~booting /\ job[t] = NoJob
  /\ Delete(k)
  /\ job' = [job EXCEPT ![t] = Job("remove", k, None, "none")]
  /\ shared' = shared \cup Busy({k})
  /\ UNCHANGED <<file, tmp, lost, booting>>

\* Mutant: Delete purges the map but leaves the file.
RemoveFileSkipped(t) ==
  /\ Running(t, "remove")
  /\ job' = [job EXCEPT ![t] = NoJob]
  /\ UNCHANGED <<storeVars, file, tmp, lost, shared, booting>>

RemoveFile(t) ==
  /\ Running(t, "remove")
  /\ Unlink({job[t].key})
  /\ job' = [Unlinked(job, {job[t].key}) EXCEPT ![t] = NoJob]
  /\ lost' = lost \ {job[t].key}
  /\ UNCHANGED <<storeVars, tmp, shared, booting>>

GetLocked(k) ==
  /\ ~booting
  /\ Get(k)
  /\ UNCHANGED diskVars

SetQuota(q) ==
  /\ ~booting
  /\ SetPerPeerMax(q)
  /\ UNCHANGED diskVars

\* The process is killed and started again: loadFromDisk reads every <hex> file
\* back; temp files are skipped; attribution and quotas start empty.  Access
\* times come from file mtimes, whose order the model leaves open.
Crash ==
  /\ job' = [t \in Threads |-> NoJob]
  /\ data' = file
  /\ total' = MapThenSumSet(LAMBDA k : IF file[k] = None THEN 0 ELSE Size[file[k]], Keys)
  /\ lru' \in SetToSeqs({k \in Keys : file[k] # None})
  /\ attribution' = [k \in Keys |-> Self]
  /\ perPeer' = [p \in Peers |-> 0]
  /\ perPeerMax' = 0
  /\ booting' = TRUE
  /\ lost' = {}
  /\ selfEvicted' = None
  /\ UNCHANGED <<file, tmp, shared>>

\* Mutant: the startup trim keeps the files of the entries it evicts.
TrimKeepsFiles ==
  /\ booting
  /\ LET out == EvictUntilUnder(total, MaxBytes)
     IN  /\ data' = [k \in Keys |-> IF k \in out THEN None ELSE data[k]]
         /\ lru' = Without(out)
         /\ total' = total - Bytes(out)
  /\ booting' = FALSE
  /\ UNCHANGED <<attribution, perPeer, perPeerMax, selfEvicted, file, tmp, job, lost, shared>>

\* evictUntilUnder(maxBytes) at the end of newLocalStoreWithLimit.
Trim ==
  /\ booting
  /\ LET out == EvictUntilUnder(total, MaxBytes)
     IN  /\ data' = [k \in Keys |-> IF k \in out THEN None ELSE data[k]]
         /\ lru' = Without(out)
         /\ total' = total - Bytes(out)
         /\ Unlink(out)
  /\ booting' = FALSE
  /\ UNCHANGED <<attribution, perPeer, perPeerMax, selfEvicted, tmp, job, lost, shared>>

DiskNext ==
  \/ \E t \in Threads, k \in Keys, v \in Values, p \in Peers \cup {Self} :
       PutLocked(t, k, v, p)
  \/ \E t \in Threads, k \in Keys : DeleteLocked(t, k)
  \/ \E t \in Threads : OpenTmp(t) \/ WriteTmp(t) \/ PersistFails(t)
                          \/ RenameTmp(t) \/ RemoveFile(t)
  \/ \E k \in Keys : GetLocked(k)
  \/ \E q \in Quotas : SetQuota(q)
  \/ Crash
  \/ Trim

DiskSpec == DiskInit /\ [][DiskNext]_vars
-----------------------------------------------------------------------------
\* The store's own consistency, and a file system and pending disk work of the
\* right shape; it holds across a restart too (loadFromDisk rebuilds the maps).
DiskTypeOK ==
  /\ StoreTypeOK
  /\ file \in [Keys -> Values \cup {None}]
  /\ tmp \in [Keys -> Values \cup {None}]
  /\ \A t \in Threads : job[t] = NoJob \/
       /\ job[t].step \in {"open", "write", "rename", "remove"}
       /\ job[t].key \in Keys /\ job[t].value \in Values \cup {None}
       /\ job[t].fd \in {"none", "tmp", "file", "gone"}
  /\ lost \subseteq Keys /\ shared \subseteq Keys /\ booting \in BOOLEAN

\* "optionally mirrored to disk so values survive process restarts": once the
\* disk work on a key is done and none of it failed, <hex> holds exactly the
\* value in memory, and is absent when the key is; a restart then loads the same
\* entry.  It holds for every key whose operations did not overlap on disk,
\* whatever other threads do to other keys.  (put, Delete and eviction against
\* writeAtomic, os.Remove and load.)
DiskMirrors ==
  ~booting => \A k \in Keys \ (lost \cup shared) : Idle(k) => file[k] = data[k]

\* "readers see either the old data or the new data -- never a half-written
\* file": every <hex> file holds a whole value some put stored under the key,
\* at every instant, so also when the process dies; again unless two operations
\* on the key overlapped.
WholeFile(k) == file[k] # None => file[k] \in Allowed[k]
NoTornFile == \A k \in Keys \ shared : WholeFile(k)

\* The shapes above, and no torn file.
DiskSound == DiskTypeOK /\ NoTornFile

\* A restart repairs whatever the previous run left behind: when the constructor
\* returns, memory and files agree, the total is the bytes held and the budget
\* holds, even if the old process died between an unlock and its disk write.
RestartHeals ==
  [][booting /\ ~booting' =>
       data' = file' /\ total' = HeldBytes' /\ WithinBudget']_vars

\* The same promise without the exception.
NeverTornFile == \A k \in Keys : WholeFile(k)

\* "purge revoked chunks from local cache + disk": once every operation has
\* returned, a key that is gone from the cache has no file either.
PurgedFromDisk ==
  ~booting /\ (\A t \in Threads : job[t] = NoJob)
    => \A k \in Keys : data[k] = None => file[k] = None
=============================================================================
