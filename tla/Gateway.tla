------------------------------- MODULE Gateway -------------------------------
(***************************************************************************)
(* The HTTP gateway (apps/gateway/gateway.go): a visit passes the rate     *)
(* limiter, takes one of the concurrency slots or is turned away, resolves *)
(* its name, fetches the directory and the manifest, and streams the file  *)
(* through a ChunkReader (apps/files/stream.go) that fetches the chunks    *)
(* PublishBytes (apps/files/chunk.go) made; then the visit is recorded in  *)
(* the site statistics and the slot is given back.  Every Get from the DHT *)
(* may fail; what it returns is verified against its hash.                 *)
(***************************************************************************)
EXTENDS RateLimiter, Sequences, FiniteSets

CONSTANTS
  MaxConcurrent,  \* slots of the semaphore
  Files,          \* contents of published files: sequences of bytes
  ChunkSize,
  BufSize,        \* what one Read of http.ServeContent asks for
  SniffSize,      \* what the content-type sniffer asks for
  Names,          \* spellings of the site's name a visitor may use
  Canonical       \* the one the registrar uses

ASSUME GatewayAssumption ==
  /\ IsFiniteSet(Visits)
  /\ MaxConcurrent \in Nat \ {0}
  /\ ChunkSize \in Nat \ {0} /\ BufSize \in Nat \ {0} /\ SniffSize \in Nat \ {0}
  /\ Canonical \in Names

VARIABLES
  load,    \* bound: "pages", short visits while time passes, or "files", long ones
  file,    \* the file visitors ask for
  visit,   \* where every visit is
  asked,   \* the name a visit is recorded under, or "" (a visit by content hash)
  reader,  \* its ChunkReader
  span,    \* the byte range it serves: [from, len]
  sent,    \* the body bytes it has written
  sem,     \* slots taken
  sites,   \* the spellings with counters in the statistics
  closing  \* the listener is closed

visitVars == <<visit, asked, reader, span, sent>>
gwVars == <<limiterVars, load, file, visitVars, sem, sites, closing>>
-----------------------------------------------------------------------------
(* Files and their reader *)

CeilDiv(a, b) == (a + b - 1) \div b

\* PublishBytes: the chunks of a file; the manifest lists them and the size.
ChunksOf(data) ==
  [i \in 1..CeilDiv(Len(data), ChunkSize) |->
     SubSeq(data, (i - 1) * ChunkSize + 1,
            IF i * ChunkSize > Len(data) THEN Len(data) ELSE i * ChunkSize)]

NewReader == [pos |-> 0, cachedIdx |-> -1, cachedChunk |-> <<>>]

\* Mutant: the cache is used whatever chunk it holds.
FetchedAnyChunk(r, idx) ==
  IF r.cachedIdx # -1 THEN {r}
  ELSE IF idx >= Len(ChunksOf(file)) THEN {}
  ELSE {[r EXCEPT !.cachedIdx = idx, !.cachedChunk = ChunksOf(file)[idx + 1]]}

\* fetchChunk: the reader with the chunk in its cache; none if there is no such chunk.
Fetched(r, idx) ==
  IF idx = r.cachedIdx THEN {r}
  ELSE IF idx >= Len(ChunksOf(file)) THEN {}
  ELSE {[r EXCEPT !.cachedIdx = idx, !.cachedChunk = ChunksOf(file)[idx + 1]]}

\* Read of at most n bytes, with every fetch succeeding: the bytes and the reader
\* after it; no result at the end of the file or past the end of a chunk.
Read(r, n) ==
  LET idx == r.pos \div ChunkSize
      off == r.pos % ChunkSize
  IN IF r.pos >= Len(file) THEN {}
     ELSE {[bytes |-> SubSeq(f.cachedChunk, off + 1, Min2(off + n, Len(f.cachedChunk))),
            reader |-> [f EXCEPT !.pos = @ + Min2(n, Len(f.cachedChunk) - off)]] :
           f \in {g \in Fetched(r, idx) : off < Len(g.cachedChunk)}}

Seek(r, pos) == [r EXCEPT !.pos = pos]
-----------------------------------------------------------------------------
NoSpan == [from |-> 0, len |-> 0]

GatewayInit(started) ==
  /\ LimiterInit
  /\ load \in IF started THEN {"pages", "files"} ELSE {"pages"}
  /\ file \in IF load = "files" THEN Files ELSE {<<>>}
  /\ visit = [v \in Visits |-> "idle"]
  /\ asked = [v \in Visits |-> ""]
  /\ reader = [v \in Visits |-> NewReader]
  /\ span = [v \in Visits |-> NoSpan]
  /\ sent = [v \in Visits |-> <<>>]
  /\ sem = 0
  /\ sites = {}
  /\ closing = FALSE

\* handleWithLimits: the limiter,
Arrive(v) ==
  /\ visit[v] = "idle" /\ ~closing
  /\ \E c \in Clients : Ask(v, c)
  /\ visit' = [visit EXCEPT ![v] = "limit"]
  /\ UNCHANGED <<load, file, asked, reader, span, sent, sem, sites, closing>>

Limit(v) ==
  /\ visit[v] = "limit"
  /\ Allow(v)
  /\ visit' = [visit EXCEPT ![v] = IF verdict'[v] = "granted" THEN "slot" ELSE "answered"]
  /\ UNCHANGED <<load, file, asked, reader, span, sent, sem, sites, closing>>

\* and a slot, or 503.
TakeSlot(v) ==
  /\ visit[v] = "slot"
  /\ IF sem < MaxConcurrent
     THEN visit' = [visit EXCEPT ![v] = "route"] /\ sem' = sem + 1
     ELSE visit' = [visit EXCEPT ![v] = "answered"] /\ UNCHANGED sem
  /\ UNCHANGED <<limiterVars, load, file, asked, reader, span, sent, sites, closing>>

\* handle: pages and errors of its own, a content hash, or a name that resolves.
Route(v) ==
  /\ visit[v] = "route"
  /\ \/ visit' = [visit EXCEPT ![v] = "leave"] /\ UNCHANGED asked
     \/ visit' = [visit EXCEPT ![v] = "directory"] /\ UNCHANGED asked
     \/ \E n \in Names : /\ load = "files"
                         /\ visit' = [visit EXCEPT ![v] = "directory"]
                         /\ asked' = [asked EXCEPT ![v] = n]
  /\ UNCHANGED <<limiterVars, load, file, reader, span, sent, sem, sites, closing>>

\* serveFromRoot: the directory and its entry, the manifest, and the reader, read
\* from once and rewound where the type must be sniffed; then ServeContent seeks to
\* the start of the range that was asked for.  Any of it may fail.
Open(v) ==
  /\ visit[v] = "directory"
  /\ \/ visit' = [visit EXCEPT ![v] = "record"] /\ UNCHANGED <<reader, span>>
     \/ \E r \in {NewReader} \cup {Seek(f.reader, 0) : f \in Read(NewReader, SniffSize)},
          from \in 0..Len(file), len \in 0..Len(file) :
            /\ from + len <= Len(file)
            /\ reader' = [reader EXCEPT ![v] = Seek(r, from)]
            /\ span' = [span EXCEPT ![v] = [from |-> from, len |-> len]]
            /\ visit' = [visit EXCEPT ![v] = "stream"]
  /\ UNCHANGED <<limiterVars, load, file, asked, sent, sem, sites, closing>>

\* One turn of the copy loop.
Stream(v) ==
  /\ visit[v] = "stream"
  /\ IF Len(sent[v]) = span[v].len
     THEN visit' = [visit EXCEPT ![v] = "record"] /\ UNCHANGED <<reader, sent>>
     ELSE \E r \in Read(reader[v], Min2(BufSize, span[v].len - Len(sent[v]))) :
            /\ reader' = [reader EXCEPT ![v] = r.reader]
            /\ sent' = [sent EXCEPT ![v] = @ \o r.bytes]
            /\ UNCHANGED visit
  /\ UNCHANGED <<limiterVars, load, file, asked, span, sem, sites, closing>>

\* A chunk cannot be fetched, or the visitor is gone.
StreamFails(v) ==
  /\ visit[v] = "stream"
  /\ visit' = [visit EXCEPT ![v] = "record"]
  /\ UNCHANGED <<limiterVars, load, file, asked, reader, span, sent, sem, sites, closing>>

\* stats.Record, for visits by name.
Record(v) ==
  /\ visit[v] = "record"
  /\ sites' = sites \cup ({asked[v]} \ {""})
  /\ visit' = [visit EXCEPT ![v] = "leave"]
  /\ UNCHANGED <<limiterVars, load, file, asked, reader, span, sent, sem, closing>>

\* The deferred release of the slot.
ReleaseSlot(v) ==
  /\ visit[v] = "leave"
  /\ sem' = sem - 1
  /\ visit' = [visit EXCEPT ![v] = "answered"]
  /\ UNCHANGED <<limiterVars, load, file, asked, reader, span, sent, sites, closing>>

\* The response is complete.
Answer(v) ==
  /\ visit[v] = "answered"
  /\ Answered(v)
  /\ visit' = [visit EXCEPT ![v] = "idle"]
  /\ asked' = [asked EXCEPT ![v] = ""]
  /\ reader' = [reader EXCEPT ![v] = NewReader]
  /\ span' = [span EXCEPT ![v] = NoSpan]
  /\ sent' = [sent EXCEPT ![v] = <<>>]
  /\ UNCHANGED <<load, file, sem, sites, closing>>

\* The registrar takes the site down: Stats.Forget.
Forget ==
  /\ sites' = sites \ {Canonical}
  /\ UNCHANGED <<limiterVars, load, file, visitVars, sem, closing>>

Clock ==
  /\ load = "pages"
  /\ Tick
  /\ UNCHANGED <<load, file, visitVars, sem, sites, closing>>

VisitStep(v) ==
  \/ Limit(v) \/ TakeSlot(v) \/ Route(v) \/ Open(v) \/ Stream(v) \/ StreamFails(v)
  \/ Record(v) \/ ReleaseSlot(v) \/ Answer(v)
-----------------------------------------------------------------------------
Inside(v) == visit[v] \in {"route", "directory", "stream", "record", "leave"}

\* Slots: as many are taken as visits are inside, never more than MaxConcurrent.
SlotsExact ==
  /\ sem = Cardinality({v \in Visits : Inside(v)})
  /\ sem <= MaxConcurrent

\* A visitor receives exactly the bytes of the range, in order, whatever chunk
\* boundaries, sniffing and seeking do; and while a visit streams, the next read
\* has bytes for it: no read meets the end of the file or a short chunk early.
ServedExact ==
  \A v \in Visits :
    /\ sent[v] = SubSeq(file, span[v].from + 1, span[v].from + Len(sent[v]))
    /\ Len(sent[v]) <= span[v].len
    /\ visit[v] = "stream" /\ Len(sent[v]) < span[v].len =>
         \E r \in Read(reader[v], span[v].len - Len(sent[v])) : r.bytes # <<>>

\* "The gateway (writer) records each request with the resolved name": visits are
\* counted under the name the registrar reads, however the visitor spelt it.
RecordedCanonical == sites \subseteq {Canonical}
=============================================================================
