--------------------------- MODULE ResourcePackCache ---------------------------
(***************************************************************************)
(* The relay's resource-pack proxy (apps/bridge/dist/main.js): requests    *)
(* for one pack share a download, which is spooled to a temporary file;    *)
(* the file is served while it grows or once it is whole, and stays as a   *)
(* cache entry that is evicted by age and by size.                         *)
(*                                                                         *)
(* An action is what runs between two awaits of a request, or a client, an *)
(* upstream or a timer.  A request downloads at most one pack, so a file   *)
(* and its cache entry are named by the request that downloads it.  The    *)
(* bytes of a body are abstracted to its size in units of the cache; a     *)
(* body the cache may not keep (not status 200, or empty) is like one that *)
(* is too large for it.  The cache is enabled.                             *)
(***************************************************************************)
EXTENDS Naturals, Sequences, FiniteSets, SequencesExt

CONSTANTS
    Requests,
    Streaming,    \* those with stream=1
    Keys,         \* cache keys: the URL with the forwarded headers
    Wanted,       \* the keys each request may ask for
    None,
    MaxEntries,   \* maximumResourcePackCacheEntries
    MaxBytes,     \* maximumResourcePackCacheBytes
    MaxAttempts   \* resourcePackBodyAttempts

ASSUME ResourcePackCacheAssumption ==
    /\ None \notin Requests \cup Keys /\ Streaming \subseteq Requests
    /\ Wanted \in [Requests -> SUBSET Keys]
    /\ {MaxEntries, MaxBytes, MaxAttempts} \subseteq Nat \ {0}

VARIABLES
    req,      \* what each request is doing
    writer,   \* what its download is doing to its temporary file
    cache,    \* resourcePackCache, its bytes and readers, and the temporary files
    inflight  \* resourcePackInflight: the request that downloads a key

packVars == <<req, writer, cache, inflight>>

\* A request starts with neither a pack nor a client that has left.
Fresh == [stage |-> "new", key |-> None, attempt |-> 1,
          waits |-> None,   \* whose download it waits for
          reads |-> None,   \* the cache entry it reads
          aborted |-> FALSE]  \* its client has left, or its stream was aborted

PackInit ==
    /\ req = [r \in Requests |-> Fresh]
    /\ writer = [r \in Requests |-> "none"]
    /\ cache = [order |-> <<>>, bytes |-> 0, size |-> [r \in Requests |-> 0],
                readers |-> [r \in Requests |-> 0],
                file |-> [r \in Requests |-> "none"]]
    /\ inflight = [k \in Keys |-> None]

Less(a, b) == IF a > b THEN a - b ELSE 0
-----------------------------------------------------------------------------
(* The cache, as functions of its record.  order lists the entries from    *)
(* the least to the most recently accessed.  An evicted entry keeps its    *)
(* file until its last reader is done.                                     *)

\* The bytes of some entries.
Total(c, entries) ==
    Cardinality({u \in entries \X (1 .. MaxBytes + 1) : u[2] <= c.size[u[1]]})

\* The entries without some, in their order.
OrderWithout(order, entries) ==
    LET kept[n \in 0 .. Len(order)] ==
          IF n = 0 THEN <<>>
          ELSE IF order[n] \in entries THEN kept[n - 1]
          ELSE Append(kept[n - 1], order[n])
    IN  kept[Len(order)]

\* Variant: the file goes with the entry.
EvictedMutant(c, entries) ==
    [c EXCEPT !.order = OrderWithout(@, entries),
              !.bytes = Less(@, Total(c, entries)),
              !.file = [e \in Requests |-> IF e \in entries THEN "removing" ELSE @[e]]]

\* evictResourcePackCacheEntry
Evicted(c, entries) ==
    [c EXCEPT !.order = OrderWithout(@, entries),
              !.bytes = Less(@, Total(c, entries)),
              !.file = [e \in Requests |->
                          IF e \notin entries THEN @[e]
                          ELSE IF c.readers[e] = 0 THEN "removing" ELSE "evicted"]]

Oldest(c, n) == ToSet(SubSeq(c.order, 1, n))

\* What is left without the n oldest entries keeps both limits.
CacheFits(c, n) ==
    /\ Len(c.order) - n <= MaxEntries
    /\ Less(c.bytes, Total(c, Oldest(c, n))) <= MaxBytes

Trimmed(c) ==
    IF CacheFits(c, 0) THEN c
    ELSE LET cut == CHOOSE n \in 1 .. Len(c.order) :
                      CacheFits(c, n) /\ \A m \in 1 .. (n - 1) : ~CacheFits(c, m)
         IN  Evicted(c, Oldest(c, cut))

\* pruneResourcePackCache: whatever has expired goes, then the oldest entries
\* until the rest fits.
Prunings(c) == {Trimmed(Evicted(c, old)) : old \in SUBSET ToSet(c.order)}

acquireCached(c, e) ==
    [c EXCEPT !.order = Append(OrderWithout(@, {e}), e),
              !.readers[e] = @ + 1]

\* The file of a download becomes the newest entry, with its request as reader.
Retained(c, e, bytes) ==
    Trimmed([c EXCEPT !.order = Append(@, e), !.bytes = @ + bytes,
                      !.size[e] = bytes, !.readers[e] = 1])

\* A reader is done: the file of an evicted entry goes with the last one.
Unread(c, e) ==
    IF c.file[e] = "evicted" /\ c.readers[e] = 0
    THEN [c EXCEPT !.file[e] = "removing"] ELSE c
-----------------------------------------------------------------------------
(* A request.                                                              *)

Is(r, stages) == req[r].stage \in stages

\* A request that is over keeps its key, which names its entry.
Over(r) ==
    req' = [req EXCEPT ![r] = [Fresh EXCEPT !.stage = "done", !.key = req[r].key]]

Set(r, stage) == req' = [req EXCEPT ![r].stage = stage]

\* Variant: the waiters hear of the end, but the key is not free.
settleMutant(r) == UNCHANGED inflight

\* settleResourcePackInflight: the key is free and those who wait run.
settle(r) ==
    inflight' = [inflight EXCEPT ![req[r].key] = IF @ = r THEN None ELSE @]

\* The loop of acquireResourcePackDownload: a live entry, or a download of
\* someone else to wait for, or a download of its own.
Acquire(r, k) ==
    LET now == [req[r] EXCEPT !.key = k, !.waits = None]
    IN  \E c \in Prunings(cache) :
          LET hits == {e \in ToSet(c.order) : req[e].key = k}
          IN  \/ /\ \E e \in hits :
                      /\ cache' = acquireCached(c, e)
                      /\ req' = [req EXCEPT ![r] =
                                   [now EXCEPT !.stage = "serve", !.reads = e]]
                 /\ UNCHANGED <<writer, inflight>>
              \/ /\ hits = {} /\ inflight[k] # None
                 /\ cache' = c
                 /\ req' = [req EXCEPT ![r] =
                              [now EXCEPT !.stage = "wait", !.waits = inflight[k]]]
                 /\ UNCHANGED <<writer, inflight>>
              \/ /\ hits = {} /\ inflight[k] = None
                 /\ cache' = c
                 /\ req' = [req EXCEPT ![r] = [now EXCEPT !.stage = "fetch"]]
                 /\ inflight' = [inflight EXCEPT ![k] = r]
                 /\ UNCHANGED writer

Arrives(r) ==
    /\ Is(r, {"new"})
    /\ \E k \in Wanted[r] : Acquire(r, k)

\* waitForResourcePackInflight
WaitEnds(r) ==
    /\ Is(r, {"wait"})
    /\ \/ /\ req[r].aborted
          /\ Over(r)
          /\ UNCHANGED <<writer, cache, inflight>>
       \/ /\ ~req[r].aborted /\ inflight[req[r].key] # req[r].waits
          /\ Acquire(r, req[r].key)

\* releaseResourcePackDownload: also what a stream does that was not consumed.
Release(r) ==
    LET e == req[r].reads
    IN  /\ settle(r)
        /\ \/ /\ e # None
              /\ \E c \in Prunings([cache EXCEPT !.readers[e] = Less(@, 1)]) :
                   cache' = Unread(c, e)
              /\ Over(r)
           \/ /\ e = None /\ writer[r] = "done"        \* deleteAfterUse
              /\ cache' = [cache EXCEPT !.file[r] = "removing"]
              /\ Set(r, "release")
           \/ /\ e = None /\ writer[r] # "done"
              /\ Over(r)
              /\ UNCHANGED cache
        /\ UNCHANGED writer
-----------------------------------------------------------------------------
(* A download, buffered or streamed.                                       *)

\* The request ends without an answer of the pack.
Fails(r) == Over(r) /\ settle(r)

\* A buffered download tries again, unless its client has left, the attempts
\* are used up or the error is final (too large, a deadline).
AttemptFails(r) ==
    \/ Fails(r)
    \/ /\ ~req[r].aborted /\ req[r].attempt < MaxAttempts
       /\ req' = [req EXCEPT ![r].stage = "backoff", ![r].attempt = @ + 1]
       /\ UNCHANGED inflight

BackoffEnds(r) ==
    /\ Is(r, {"backoff"})
    /\ IF req[r].aborted THEN Fails(r) ELSE Set(r, "fetch") /\ UNCHANGED inflight
    /\ UNCHANGED <<writer, cache>>

\* The headers arrive, or the fetch fails or is aborted.  A stream's response
\* begins with its headers; its spool is opened first.
FetchEnds(r) ==
    /\ Is(r, {"fetch"})
    /\ \/ /\ ~req[r].aborted
          /\ Set(r, IF r \in Streaming THEN "serve" ELSE "download")
          /\ writer' = [writer EXCEPT ![r] = "opening"]
          /\ UNCHANGED inflight
       \/ /\ IF r \in Streaming THEN Fails(r) ELSE AttemptFails(r)
          /\ UNCHANGED writer
    /\ UNCHANGED cache

SpoolOpens(r) ==
    /\ writer[r] = "opening"
    /\ \/ /\ writer' = [writer EXCEPT ![r] = "writing"]
          /\ cache' = [cache EXCEPT !.file[r] = "there"]
          /\ UNCHANGED <<req, inflight>>
       \/ /\ writer' = [writer EXCEPT ![r] = "none"]
          /\ IF r \in Streaming THEN Fails(r) ELSE AttemptFails(r)
          /\ UNCHANGED cache

\* retainCompletedResourcePack: keep the file as an entry, or only until it
\* has been used.  Its branch for an entry that another request has stored
\* meanwhile is left out: SharedDownload says that it is never taken.
Retain(r) ==
    /\ \E c \in Prunings(cache) :
         \/ /\ \E bytes \in 1 .. MaxBytes : cache' = Retained(c, r, bytes)
            /\ req' = [req EXCEPT ![r].stage = "serve", ![r].reads = r]
         \/ /\ cache' = c
            /\ Set(r, "serve")
    /\ settle(r)

\* Variant: the key is free as soon as the body has arrived.
BodyEndsMutant(r) ==
    /\ writer[r] = "writing"
    /\ \/ /\ ~req[r].aborted
          /\ writer' = [writer EXCEPT ![r] = "done"]
          /\ Retain(r)
       \/ /\ writer' = [writer EXCEPT ![r] = "failing"]
          /\ cache' = [cache EXCEPT !.file[r] = "removing"]
          /\ settle(r)
          /\ UNCHANGED req

\* The body is whole and is kept, or fails: upstream ends it early, it grows
\* too large, or the client or a deadline has aborted it.
BodyEnds(r) ==
    /\ writer[r] = "writing"
    /\ \/ /\ ~req[r].aborted
          /\ writer' = [writer EXCEPT ![r] = "done"]
          /\ Retain(r)
       \/ /\ writer' = [writer EXCEPT ![r] = "failing"]
          /\ cache' = [cache EXCEPT !.file[r] = "removing"]
          /\ UNCHANGED <<req, inflight>>

\* A failed body has closed and removed its file.  The key is free only now.
SpoolRemoved(r) ==
    /\ writer[r] = "failing"
    /\ cache' = [cache EXCEPT !.file[r] = "none"]
    /\ \/ /\ r \in Streaming
          /\ writer' = [writer EXCEPT ![r] = "failed"]
          /\ settle(r)
          /\ UNCHANGED req
       \/ /\ r \notin Streaming
          /\ writer' = [writer EXCEPT ![r] = "none"]
          /\ AttemptFails(r)
-----------------------------------------------------------------------------
(* The response.                                                           *)

\* A stream's own response needs the whole body, and the entry to be kept.
Streams(r) == r \in Streaming /\ writer[r] # "none"

\* The client has read everything.
ServeEnds(r) ==
    /\ Is(r, {"serve"}) /\ ~req[r].aborted
    /\ Streams(r) => writer[r] = "done"
    /\ Release(r)

\* A write fails because the client has left or the response was destroyed, or
\* there is nothing more to read.  A stream aborts its download and awaits it.
ServeFails(r) ==
    /\ Is(r, {"serve"})
    /\ req[r].aborted \/ writer[r] \in {"failing", "failed"}
    /\ IF Streams(r) /\ writer[r] \notin {"done", "failed"}
       THEN /\ writer[r] # "opening"
            /\ req' = [req EXCEPT ![r].stage = "settle", ![r].aborted = TRUE]
            /\ UNCHANGED <<writer, cache, inflight>>
       ELSE Release(r)

SettleEnds(r) ==
    /\ Is(r, {"settle"}) /\ writer[r] \in {"done", "failed"}
    /\ Release(r)

\* The removal of an evicted entry's file, which nobody awaits, or of a file
\* that was used once.
FileRemoved(r) ==
    /\ cache.file[r] = "removing" /\ writer[r] = "done"
    /\ cache' = [cache EXCEPT !.file[r] = "none"]
    /\ IF Is(r, {"release"}) THEN Over(r) ELSE UNCHANGED req
    /\ UNCHANGED <<writer, inflight>>
-----------------------------------------------------------------------------
(* Clients, time and other handlers.                                       *)

\* A client leaves at any time, but for the moments no await depends on it.
ClientLeaves(r) ==
    /\ ~Is(r, {"new", "done", "release"}) /\ ~req[r].aborted
    /\ req' = [req EXCEPT ![r].aborted = TRUE]
    /\ UNCHANGED <<writer, cache, inflight>>

\* A stream's overall deadline, or its body timer, which runs on after the
\* body is whole.
Deadline(r) ==
    /\ Is(r, {"serve"}) /\ Streams(r) /\ ~req[r].aborted
    /\ req' = [req EXCEPT ![r].aborted = TRUE]
    /\ UNCHANGED <<writer, cache, inflight>>

\* The manifest's handler prunes too.
Manifest ==
    /\ cache' \in Prunings(cache) \ {cache}
    /\ UNCHANGED <<req, writer, inflight>>

Continue(r) ==
    \/ WaitEnds(r) \/ BackoffEnds(r) \/ FetchEnds(r) \/ SpoolOpens(r)
    \/ BodyEnds(r) \/ SpoolRemoved(r) \/ SettleEnds(r) \/ FileRemoved(r)

\* What follows by itself once a request has arrived.
Step(r) == Continue(r) \/ ServeFails(r) \/ Deadline(r)

PackNext ==
    \/ \E r \in Requests :
         Arrives(r) \/ Step(r) \/ ServeEnds(r) \/ ClientLeaves(r)
    \/ Manifest

PackSpec == PackInit /\ [][PackNext]_packVars

\* Every await of a download ends, by an abort or a deadline at the latest; a
\* write to a response that was destroyed fails.  No client has to read on.
PackFairSpec == PackSpec /\ \A r \in Requests : WF_packVars(Step(r))
-----------------------------------------------------------------------------
(* Properties.                                                             *)

Stages == {"new", "wait", "fetch", "backoff", "download", "serve", "settle",
           "release", "done"}

PackTypeOK ==
    /\ req \in [Requests ->
                  [stage : Stages, key : Keys \cup {None},
                   attempt : 1 .. MaxAttempts, waits : Requests \cup {None},
                   reads : Requests \cup {None}, aborted : BOOLEAN]]
    /\ writer \in [Requests ->
                    {"none", "opening", "writing", "failing", "failed", "done"}]
    /\ cache.bytes \in 0 .. MaxBytes /\ Len(cache.order) <= MaxEntries
    /\ inflight \in [Keys -> Requests \cup {None}]

Readers(e) == {r \in Requests : req[r].reads = e}

\* The counters agree with what they count, although a response may end by its
\* client, its body, its deadline or an error: entries' bytes with the entries,
\* an entry's readers with the responses that read it.
CountsAgree ==
    /\ cache.bytes = Total(cache, ToSet(cache.order))
    /\ \A e \in Requests : cache.readers[e] = Cardinality(Readers(e))

\* No file is removed under a response that reads it or while it is an entry,
\* and none stays behind once it is neither.
FilesAreOwned ==
    \A e \in Requests :
      /\ cache.file[e] = "there" <=>
           \/ e \in ToSet(cache.order)
           \/ writer[e] = "writing"
           \/ /\ writer[e] = "done" /\ req[e].reads = None
              /\ Is(e, {"serve", "settle"})
      /\ cache.file[e] = "evicted" <=> e \notin ToSet(cache.order) /\ Readers(e) # {}

CacheIsSound == PackTypeOK /\ CountsAgree /\ FilesAreOwned

Downloads(r) ==
    Is(r, {"fetch", "backoff", "download"}) \/ writer[r] \in {"opening", "writing", "failing"}

\* "Cache misses for the same request identity must share one upstream spool"
\* (main.js:125): a key has one download at a time, none while an entry has it,
\* and is taken exactly as long as that download runs, however it ends.
SharedDownload ==
    /\ \A r \in Requests : Downloads(r) <=> \E k \in Keys : inflight[k] = r
    /\ \A r \in Requests : Downloads(r) =>
         /\ inflight[req[r].key] = r
         /\ \A e \in ToSet(cache.order) : req[e].key # req[r].key

\* Every request gets its answer or an error however slowly other clients read,
\* and however the download it waits for ends.  Only a client that reads a file
\* that is whole is waited for, and not by anyone else.
Progress ==
    \A r \in Requests :
      ~Is(r, {"new"}) ~> Is(r, {"done"}) \/ (Is(r, {"serve"}) /\ ~Streams(r))
=============================================================================
