---------------------------- MODULE WorkerStorage ---------------------------
(***************************************************************************)
(* The life of a single-player worker as its storage sees it (server-      *)
(* worker-bootstrap.js): the start that waits for a port, loads a script   *)
(* and opens storage; the writes the Java server queues for IndexedDB and  *)
(* the flushes that store them; the stop that ends the server, flushes and *)
(* closes.  A stop may come at every await.                                *)
(*                                                                         *)
(* The worker is one thread.  What it does between two events is either    *)
(* one action or a chain of actions that Quiet keeps other events out of.  *)
(* What the log in OPFS holds is RegionStore's subject: here a region      *)
(* written to it only sets and clears opfsDirty.                           *)
(***************************************************************************)
EXTENDS Integers, FiniteSets

CONSTANTS
  Regions,     \* paths with a region cache entry when there is no OPFS
  Files,       \* the other paths
  Saved,       \* the regions IndexedDB may hold at the start
  Backends,    \* what openOpfsRegionStore may find: "opfs", "indexeddb"
  Budget,      \* regions the cache has room for
  FaultKinds,  \* what may fail
  MaxChanges, MaxFaults   \* bounds of the exploration

Paths == Regions \cup Files

ASSUME PathsKnown == Regions \cap Files = {} /\ Saved \subseteq Regions
ASSUME BackendsKnown == Backends \subseteq {"opfs", "indexeddb"}
ASSUME FaultKindsKnown ==
  FaultKinds \subseteq {"asset", "open", "flush", "txn", "main"}
ASSUME BoundsAreNat == {Budget, MaxChanges, MaxFaults} \subseteq Nat

VARIABLES
  startup,        \* how far onmessage is with the start message
  asset,          \* prepareServerScript
  install,        \* the await installPersistentFileSystem is at
  unread,         \* rows readWorldFiles has not read yet
  handles,        \* database and opfsAccessHandle, when open
  barrier,        \* persistentStorageClosed
  handlesClosed,  \* storageHandlesClosed
  close,          \* storageClosePromise waits for the installation
  deferred,       \* deferStorageCloseUntil has a retry waiting
  server,         \* the Java server
  serverFlush,    \* the flush it asks for as it exits
  stopRequested,
  stop,           \* how far stopServerImpl is
  attempt,        \* of flushForShutdown
  opfsDirty,
  pending,        \* pendingChanges
  batch,          \* the changes drainPendingChanges has taken
  txn,            \* activeFlushTransaction
  flush,          \* flushInFlight
  abortRequested, \* flushAbortRequested
  timer,          \* flushTimer is set
  cache,          \* regionCache without OPFS
  stored,         \* the version IndexedDB holds of a path
  latest,         \* the last version a callback accepted for a path
  changeVersion,
  faults          \* counter of the exploration

opening == << startup, asset, install, unread >>
closeState == << handles, barrier, handlesClosed, close, deferred >>
running == << server, serverFlush >>
ending  == << stopRequested, stop, attempt >>
writing == << pending, batch, txn, flush, abortRequested, opfsDirty, cache >>
data    == << stored, latest, changeVersion >>
storageVars == << opening, closeState, running, ending, writing, timer, data, faults >>

-----------------------------------------------------------------------------
NoChange == [version |-> 0, region |-> FALSE]
Nothing  == [p \in Paths |-> NoChange]
Entry(v, isDirty, isPinned) ==
  [version |-> v, dirty |-> isDirty, flushing |-> FALSE, pinned |-> isPinned]

Fault(kind) ==
  kind \in FaultKinds /\ faults < MaxFaults /\ faults' = faults + 1

\* storageStartupInFlight
InstallInFlight == install \in {"opening", "opfs", "reading", "deleting"}

\* storageStateIsClean
Clean ==
  /\ flush = "idle" /\ txn = "none" /\ pending = Nothing /\ ~opfsDirty
  /\ \A p \in DOMAIN cache : ~cache[p].dirty /\ ~cache[p].flushing

\* No continuation of the worker is due: an event may be handled.
Quiet ==
  /\ stop \notin {"flush", "flushed", "unflushed", "close", "stopped"}
  /\ startup # "failing"
  /\ flush # "spinning"
  /\ (close \/ deferred) => InstallInFlight

-----------------------------------------------------------------------------
(* The flush.                                                               *)

\* Who waits for a flush hears of it: the stop and the exiting server.
Answer(outcome, exiting) ==
  /\ stop' =
       IF stop \in {"flush", "flushing"}
       THEN CASE outcome = "ok"     -> "flushed"
              [] outcome = "failed" -> "unflushed"
              [] outcome = "none"   -> "flushing"
       ELSE IF stop = "settling" /\ outcome # "none" THEN "unflushed" ELSE stop
  /\ serverFlush' = IF exiting \/ serverFlush = "pending"
                    THEN IF outcome = "none" THEN "pending" ELSE "done"
                    ELSE serverFlush

Settled(outcome, exiting) ==
  /\ flush' = "idle" /\ abortRequested' = FALSE
  /\ Answer(outcome, exiting)

\* writeBatch marks the entries it writes.
Marked(cached, changes) ==
  [p \in DOMAIN cached |->
     IF changes[p].region /\ changes[p].version = cached[p].version
     THEN [cached[p] EXCEPT !.flushing = TRUE] ELSE cached[p]]

\* One turn of the loop in drainPendingChanges.  Without a handle a dirty log
\* is never cleaned and the loop never awaits.
Turn(cached, exiting) ==
  \/ /\ opfsDirty /\ "opfs" \in handles /\ Fault("flush")
     /\ Settled("failed", exiting)
     /\ txn' = "none" /\ batch' = Nothing /\ cache' = cached
     /\ UNCHANGED << pending, opfsDirty >>
  \/ /\ opfsDirty' = (opfsDirty /\ "opfs" \notin handles)
     /\ pending # Nothing
     /\ batch' = pending /\ pending' = Nothing /\ cache' = Marked(cached, pending)
     /\ txn' = "active" /\ flush' = "running"
     /\ Answer("none", exiting)
     /\ UNCHANGED << abortRequested, faults >>
  \/ /\ opfsDirty' = (opfsDirty /\ "opfs" \notin handles)
     /\ pending = Nothing
     /\ txn' = "none" /\ batch' = Nothing /\ cache' = cached
     /\ IF opfsDirty' THEN /\ flush' = "spinning" /\ Answer("none", exiting)
                           /\ UNCHANGED abortRequested
                      ELSE Settled("ok", exiting)
     /\ UNCHANGED << pending, faults >>

FlushPendingChanges(exiting) ==
  /\ timer' = FALSE
  /\ \/ /\ flush = "running" /\ Answer("none", exiting)
        /\ UNCHANGED << writing, faults >>
     \/ flush = "idle" /\ Turn(cache, exiting)

FlushTimer ==
  /\ Quiet /\ timer
  /\ FlushPendingChanges(FALSE)
  /\ UNCHANGED << opening, closeState, server, stopRequested, attempt, data >>

\* The database commits or gives up a transaction; the event comes later.
Commit ==
  /\ txn = "active" /\ txn' = "committed"
  /\ stored' = [p \in Paths |-> IF batch[p] = NoChange THEN stored[p]
                                ELSE batch[p].version]
  /\ UNCHANGED << opening, closeState, running, ending, pending, batch, flush,
                  abortRequested, opfsDirty, cache, timer, latest,
                  changeVersion, faults >>

TransactionFails ==
  /\ txn = "active" /\ txn' = "aborted" /\ Fault("txn")
  /\ UNCHANGED << opening, closeState, running, ending, pending, batch, flush,
                  abortRequested, opfsDirty, cache, timer, data >>

\* The entries whose version was written are clean.
Cleaned(cached) ==
  [p \in DOMAIN cached |->
     IF batch[p].region /\ batch[p].version = cached[p].version
     THEN [cached[p] EXCEPT !.dirty = FALSE, !.flushing = FALSE] ELSE cached[p]]

\* Variant: a failed batch replaces what was queued meanwhile.
RequeueMutant(cached) ==
  /\ pending' = [p \in Paths |-> IF batch[p] = NoChange THEN pending[p]
                                 ELSE batch[p]]
  /\ cache' = [p \in DOMAIN cached |->
       IF batch[p].version > 0 /\ batch[p].version = cached[p].version
       THEN [cached[p] EXCEPT !.dirty = TRUE, !.flushing = FALSE] ELSE cached[p]]
  /\ batch' = Nothing

\* A failed batch is queued again, behind what was queued meanwhile.
Requeue(cached) ==
  /\ pending' = [p \in Paths |-> IF pending[p] = NoChange THEN batch[p]
                                 ELSE pending[p]]
  /\ cache' = [p \in DOMAIN cached |->
       IF batch[p].version > 0 /\ batch[p].version = cached[p].version
       THEN [cached[p] EXCEPT !.dirty = TRUE, !.flushing = FALSE] ELSE cached[p]]
  /\ batch' = Nothing

BatchFails(cached) ==
  /\ Requeue(cached) /\ txn' = "none"
  /\ Settled("failed", FALSE)
  /\ UNCHANGED << opfsDirty, faults >>

TransactionSettles ==
  /\ Quiet
  /\ \/ txn = "aborted" /\ BatchFails(cache)
     \/ txn = "committed" /\ abortRequested /\ BatchFails(Cleaned(cache))
     \/ txn = "committed" /\ ~abortRequested /\ Turn(Cleaned(cache), FALSE)
  /\ UNCHANGED << opening, closeState, server, stopRequested, attempt, timer, data >>

-----------------------------------------------------------------------------
(* The callbacks of the Java server.                                        *)

JavaRuns == server \in {"booting", "up", "halting"}
Callbacks == install = "done" /\ ~barrier

Queue(p, isRegion) ==
  /\ changeVersion' = changeVersion + 1
  /\ pending' = [pending EXCEPT ![p] = [version |-> changeVersion',
                                        region |-> isRegion]]
  /\ latest' = [latest EXCEPT ![p] = changeVersion']
  /\ timer' = TRUE

Accepting == Quiet /\ JavaRuns /\ Callbacks /\ changeVersion < MaxChanges

Put(p) ==
  /\ Accepting /\ p \in Files
  /\ Queue(p, FALSE)
  /\ UNCHANGED << opening, closeState, running, ending, batch, txn, flush,
                  abortRequested, opfsDirty, cache, stored, faults >>

Evictable(q) == ~cache[q].dirty /\ ~cache[q].pinned /\ ~cache[q].flushing

\* What putRegionCache may evict to make room for p.  The least recently used
\* entry goes first; reads are not modelled, so it may be any.
Victims(p) ==
  LET others == DOMAIN cache \ {p}
  IN  IF Cardinality(others) < Budget THEN {{}}
      ELSE {{q} : q \in {o \in others : Evictable(o)}}

Cache(p, entry, victims) ==
  cache' = [q \in (DOMAIN cache \cup {p}) \ victims |->
              IF q = p THEN entry ELSE cache[q]]

\* Without OPFS a region is cached and queued; when the cache has no room the
\* file is put as a string, which no cache entry stands for.
PutRegion(p) ==
  /\ Accepting /\ p \in Regions /\ "opfs" \notin handles
  /\ \/ \E victims \in Victims(p) :
          Cache(p, Entry(changeVersion + 1, TRUE, FALSE), victims) /\ Queue(p, TRUE)
     \/ Victims(p) = {} /\ Queue(p, FALSE) /\ UNCHANGED cache
  /\ UNCHANGED << opening, closeState, running, ending, batch, txn, flush,
                  abortRequested, opfsDirty, stored, faults >>

\* A region that is in the log leaves a tombstone there first.
DeleteRegion(p) ==
  /\ Accepting /\ p \in Regions
  /\ \/ /\ "opfs" \in handles /\ Fault("flush") /\ opfsDirty' = TRUE
        /\ UNCHANGED << pending, latest, changeVersion, timer, cache >>
     \/ /\ opfsDirty' \in {opfsDirty, FALSE}
        /\ cache' = [q \in DOMAIN cache \ {p} |-> cache[q]]
        /\ Queue(p, TRUE) /\ UNCHANGED faults
  /\ UNCHANGED << opening, closeState, running, ending, batch, txn, flush,
                  abortRequested, stored >>

\* With OPFS a record is appended and flushed; a refused region is put as a
\* string.
AppendRegion(p) ==
  /\ Accepting /\ p \in Regions /\ "opfs" \in handles
  /\ \/ /\ opfsDirty' = FALSE
        /\ UNCHANGED << pending, latest, changeVersion, timer, faults >>
     \/ Fault("flush") /\ opfsDirty' = TRUE /\ Queue(p, FALSE)
  /\ UNCHANGED << opening, closeState, running, ending, batch, txn, flush,
                  abortRequested, cache, stored >>

-----------------------------------------------------------------------------
(* The start.                                                               *)

Loading ==
  /\ startup' = "loading" /\ asset' = "loading" /\ install' = "opening"

StartWorker ==
  /\ Quiet /\ startup = "idle"
  /\ IF stopRequested
     THEN /\ startup' = "cancelled" /\ stop' = "flush" /\ attempt' = 1
          /\ UNCHANGED << asset, install >>
     ELSE /\ \/ Loading
             \/ startup' = "waiting" /\ UNCHANGED << asset, install >>
          /\ UNCHANGED << stop, attempt >>
  /\ UNCHANGED << unread, closeState, running, stopRequested, writing, timer, data,
                  faults >>

\* The port comes late, or not within the five seconds it is given.
AwaitPort ==
  /\ Quiet /\ startup = "waiting"
  /\ \/ Loading
     \/ startup' = "failing" /\ UNCHANGED << asset, install >>
  /\ UNCHANGED << unread, closeState, running, ending, writing, timer, data, faults >>

\* Only a start that still waits for the script or for storage fails by it.
Failing == startup' = IF startup = "loading" THEN "failing" ELSE startup

PrepareServerScript ==
  /\ Quiet /\ asset = "loading"
  /\ \/ asset' = "ready" /\ UNCHANGED << startup, faults >>
     \/ asset' = "failed" /\ Fault("asset") /\ Failing
  /\ UNCHANGED << install, unread, closeState, running, ending, writing, timer, data >>

\* Variant: a database that opens after the barrier is kept.
OpenDatabaseMutant ==
  /\ Quiet /\ install = "opening"
  /\ \/ barrier /\ handles' = {"db"} /\ install' = "ended"
        /\ UNCHANGED << startup, faults >>
     \/ ~barrier /\ handles' = {"db"} /\ install' = "opfs"
        /\ UNCHANGED << startup, faults >>
     \/ Fault("open") /\ install' = "ended" /\ UNCHANGED handles
        /\ IF barrier THEN UNCHANGED startup ELSE Failing
  /\ UNCHANGED << asset, unread, barrier, handlesClosed, close, deferred, running,
                  ending, writing, timer, data >>

OpenDatabase ==
  /\ Quiet /\ install = "opening"
  /\ \/ barrier /\ install' = "ended" /\ UNCHANGED << handles, startup, faults >>
     \/ ~barrier /\ handles' = {"db"} /\ install' = "opfs"
        /\ UNCHANGED << startup, faults >>
     \/ Fault("open") /\ install' = "ended" /\ UNCHANGED handles
        /\ IF barrier THEN UNCHANGED startup ELSE Failing
  /\ UNCHANGED << asset, unread, barrier, handlesClosed, close, deferred, running,
                  ending, writing, timer, data >>

\* The installation notices the barrier at its next await and closes whatever
\* it opened itself.
Cancelled ==
  /\ barrier /\ install' = "ended" /\ handles' = {}

OpenOpfsRegionStore ==
  /\ Quiet /\ install = "opfs"
  /\ \/ Cancelled
     \/ /\ ~barrier /\ install' = "reading"
        /\ \E backend \in Backends :
             handles' = IF backend = "opfs" THEN {"db", "opfs"} ELSE {"db"}
  /\ UNCHANGED << startup, asset, unread, barrier, handlesClosed, close, deferred,
                  running, ending, writing, timer, data, faults >>

\* One row: into the log, or into the cache when there is no log.  A world that
\* does not fit the cache fails the start.
ReadWorldFiles ==
  /\ Quiet /\ install = "reading" /\ unread # {}
  /\ \/ Cancelled /\ UNCHANGED << startup, unread, opfsDirty, cache >>
     \/ /\ ~barrier
        /\ \E p \in unread :
             /\ unread' = unread \ {p}
             /\ \/ /\ "opfs" \in handles /\ opfsDirty' = TRUE
                   /\ UNCHANGED << startup, install, cache >>
                \/ /\ "opfs" \notin handles /\ Victims(p) # {}
                   /\ \E victims \in Victims(p) : Cache(p, Entry(0, FALSE, TRUE), victims)
                   /\ UNCHANGED << startup, install, opfsDirty >>
                \/ /\ "opfs" \notin handles /\ Victims(p) = {}
                   /\ install' = "ended" /\ Failing
                   /\ UNCHANGED << opfsDirty, cache >>
        /\ UNCHANGED handles
  /\ UNCHANGED << asset, barrier, handlesClosed, close, deferred, running, ending,
                  pending, batch, txn, flush, abortRequested, timer, data, faults >>

\* What was copied to the log is flushed and its rows are deleted; without such
\* rows the callbacks are installed at once.
FinishInstall ==
  /\ Quiet
  /\ \/ /\ install = "reading" /\ unread = {} /\ ~barrier
        /\ \/ opfsDirty /\ Fault("flush") /\ install' = "ended" /\ Failing
              /\ UNCHANGED opfsDirty
           \/ opfsDirty /\ opfsDirty' = FALSE /\ install' = "deleting"
              /\ UNCHANGED << startup, faults >>
           \/ ~opfsDirty /\ install' = "done"
              /\ UNCHANGED << startup, opfsDirty, faults >>
        /\ UNCHANGED handles
     \/ /\ install = "deleting" /\ ~barrier /\ install' = "done"
        /\ UNCHANGED << startup, opfsDirty, handles, faults >>
     \/ /\ \/ install = "deleting"
           \/ install = "reading" /\ unread = {}
        /\ Cancelled /\ UNCHANGED << startup, opfsDirty, faults >>
  /\ UNCHANGED << asset, unread, barrier, handlesClosed, close, deferred, running,
                  ending, pending, batch, txn, flush, abortRequested, cache, timer,
                  data >>

\* The script is imported and main dispatched; the startup pins go.
StartRuntime ==
  /\ Quiet /\ startup = "loading" /\ asset = "ready" /\ install = "done"
  /\ \/ /\ startup' = "running" /\ server' = "booting"
        /\ cache' = [p \in DOMAIN cache |-> [cache[p] EXCEPT !.pinned = FALSE]]
        /\ UNCHANGED faults
     \/ /\ Fault("asset") /\ startup' = "failing" /\ UNCHANGED << server, cache >>
  /\ UNCHANGED << asset, install, unread, closeState, serverFlush, ending, pending,
                  batch, txn, flush, abortRequested, opfsDirty, timer, data >>

-----------------------------------------------------------------------------
(* The Java server: main is dispatched, the server registers itself, halts  *)
(* when it is told to and exits when everything is saved.                   *)

RegisterServer ==
  /\ Quiet /\ server = "booting"
  /\ \/ server' = "up" /\ UNCHANGED faults
     \/ server' = "failed" /\ Fault("main")
  /\ UNCHANGED << opening, closeState, serverFlush, ending, writing, timer, data >>

\* markIntegratedServerStopped asks for a flush.  It would settle at once for a
\* server without callbacks; after "stopped" the worker is gone.
ServerExits ==
  /\ Quiet /\ server \in {"up", "halting"} /\ Callbacks
  /\ server' = "exited"
  /\ FlushPendingChanges(TRUE)
  /\ UNCHANGED << opening, closeState, stopRequested, attempt, data >>

ServerFlushTimesOut ==
  /\ Quiet /\ stop = "runtime" /\ serverFlush = "pending"
  /\ serverFlush' = "done"
  /\ UNCHANGED << opening, closeState, server, ending, writing, timer, data, faults >>

\* isIntegratedServerStopped: before the server registers there is none.
IntegratedServerStopped ==
  \/ server \in {"booting", "failed"}
  \/ server = "exited" /\ serverFlush # "pending"

-----------------------------------------------------------------------------
(* The stop.                                                                *)

\* Before main is dispatched a stop raises the barrier and cancels the start;
\* afterwards the callbacks stay open for the server's last save.
RequestStop ==
  /\ Quiet /\ ~stopRequested
  /\ stopRequested' = TRUE
  /\ IF startup = "idle" THEN UNCHANGED << startup, stop, attempt, barrier, server >>
     ELSE /\ attempt' = 1
          /\ barrier' = (barrier \/ startup # "running")
          /\ startup' = IF startup \in {"waiting", "loading"} THEN "cancelled"
                        ELSE startup
          /\ stop' = IF startup = "running" /\ ~IntegratedServerStopped
                     THEN "runtime" ELSE "flush"
          /\ server' = IF server = "up" THEN "halting" ELSE server
  /\ UNCHANGED << asset, install, unread, handles, handlesClosed, close, deferred,
                  serverFlush, writing, timer, data, faults >>

\* The poll every 50 ms sees the server stopped, or its watchdog fires.
PollRuntime ==
  /\ Quiet /\ stop = "runtime"
  /\ stop' = IF IntegratedServerStopped THEN "flush" ELSE "failed"
  /\ UNCHANGED << opening, closeState, running, stopRequested, attempt, writing, timer,
                  data, faults >>

FlushForShutdown ==
  /\ stop = "flush" /\ flush # "spinning"
  /\ FlushPendingChanges(FALSE)
  /\ UNCHANGED << opening, closeState, server, stopRequested, attempt, data >>

\* requestFlushAbort: a transaction that is committed cannot be aborted.
FlushWatchdog ==
  /\ Quiet /\ stop = "flushing"
  /\ stop' = "settling" /\ abortRequested' = TRUE
  /\ txn' = IF txn = "active" THEN "aborted" ELSE txn
  /\ UNCHANGED << opening, closeState, running, stopRequested, attempt, pending, batch,
                  flush, opfsDirty, cache, timer, data, faults >>

\* Variant: the aborted flush is awaited without a watchdog.
SettleTimesOutMutant == FALSE

SettleTimesOut ==
  /\ Quiet /\ stop = "settling"
  /\ stop' = "failed"
  /\ UNCHANGED << opening, closeState, running, stopRequested, attempt, writing, timer,
                  data, faults >>

\* A second attempt when the first failed or left something behind.
Flushed ==
  /\ stop \in {"flushed", "unflushed"}
  /\ IF stop = "flushed" /\ Clean
     THEN stop' = "close" /\ UNCHANGED attempt
     ELSE IF attempt = 1 THEN stop' = "flush" /\ attempt' = 2
                         ELSE stop' = "failed" /\ UNCHANGED attempt
  /\ UNCHANGED << opening, closeState, running, stopRequested, writing, timer, data,
                  faults >>

-----------------------------------------------------------------------------
(* Closing.                                                                 *)

CloseStorageHandles ==
  IF ~handlesClosed /\ Clean
  THEN handles' = {} /\ handlesClosed' = TRUE /\ timer' = FALSE
  ELSE UNCHANGED << handles, handlesClosed, timer >>

\* Whoever waits for the close goes on; only the stop minds the result.
CloseAnswered ==
  /\ stop' = IF stop \in {"close", "closing"}
             THEN IF handlesClosed' /\ Clean THEN "stopped" ELSE "failed"
             ELSE stop
  /\ startup' = IF startup \in {"failing", "crashing"} THEN "crashed" ELSE startup

\* closePersistentStorage, from the stop or from a start that failed
ClosePersistentStorage ==
  /\ stop = "close" \/ startup = "failing"
  /\ barrier' = TRUE
  /\ IF close \/ InstallInFlight
     THEN /\ close' = TRUE
          /\ stop' = IF stop = "close" THEN "closing" ELSE stop
          /\ startup' = IF startup = "failing" THEN "crashing" ELSE startup
          /\ UNCHANGED << handles, handlesClosed, timer >>
     ELSE /\ CloseStorageHandles /\ CloseAnswered /\ UNCHANGED close
  /\ UNCHANGED << asset, install, unread, deferred, running, stopRequested, attempt,
                  writing, data, faults >>

CloseResumes ==
  /\ close /\ ~InstallInFlight
  /\ close' = FALSE
  /\ CloseStorageHandles /\ CloseAnswered
  /\ UNCHANGED << asset, install, unread, barrier, deferred, running, stopRequested,
                  attempt, writing, data, faults >>

CloseTimesOut ==
  /\ Quiet /\ close
  /\ close' = FALSE /\ deferred' = TRUE
  /\ stop' = IF stop = "closing" THEN "failed" ELSE stop
  /\ startup' = IF startup = "crashing" THEN "crashed" ELSE startup
  /\ UNCHANGED << asset, install, unread, handles, barrier, handlesClosed, running,
                  stopRequested, attempt, writing, timer, data, faults >>

DeferredClose ==
  /\ deferred /\ ~InstallInFlight
  /\ deferred' = FALSE
  /\ CloseStorageHandles
  /\ UNCHANGED << opening, barrier, close, running, ending, writing, data, faults >>

-----------------------------------------------------------------------------
WorkerInit ==
  /\ startup = "idle" /\ asset = "none" /\ install = "none"
  /\ unread \in SUBSET Saved
  /\ handles = {} /\ barrier = FALSE /\ handlesClosed = FALSE
  /\ close = FALSE /\ deferred = FALSE
  /\ server = "none" /\ serverFlush = "none"
  /\ stopRequested = FALSE /\ stop = "none" /\ attempt = 0
  /\ opfsDirty = FALSE /\ pending = Nothing /\ batch = Nothing
  /\ txn = "none" /\ flush = "idle" /\ abortRequested = FALSE /\ timer = FALSE
  /\ cache = [p \in {} |-> Entry(0, FALSE, FALSE)]
  /\ stored = [p \in Paths |-> 0] /\ latest = [p \in Paths |-> 0]
  /\ changeVersion = 0 /\ faults = 0

\* What the worker does by itself, without another event
Continue ==
  FlushForShutdown \/ Flushed \/ ClosePersistentStorage \/ CloseResumes
    \/ DeferredClose

Watchdogs == PollRuntime \/ FlushWatchdog \/ SettleTimesOut \/ CloseTimesOut

Java ==
  \/ \E p \in Paths : Put(p) \/ PutRegion(p) \/ DeleteRegion(p) \/ AppendRegion(p)
  \/ RegisterServer \/ ServerExits \/ ServerFlushTimesOut

Startup ==
  \/ StartWorker \/ AwaitPort \/ PrepareServerScript \/ OpenDatabase
  \/ OpenOpfsRegionStore \/ ReadWorldFiles \/ FinishInstall \/ StartRuntime

WorkerNext ==
  \/ Startup \/ Java \/ RequestStop \/ Continue \/ Watchdogs
  \/ FlushTimer \/ Commit \/ TransactionFails \/ TransactionSettles

\* The worker runs its continuations and its timers fire.
WorkerSpec ==
  /\ WorkerInit /\ [][WorkerNext]_storageVars
  /\ WF_storageVars(Continue) /\ WF_storageVars(Watchdogs)
-----------------------------------------------------------------------------
(* Properties.                                                              *)

\* Every variable stays in its set, and the cache within its budget.
WorkerTypeOK ==
  /\ startup \in {"idle", "waiting", "loading", "failing", "crashing", "crashed",
                  "cancelled", "running"}
  /\ asset \in {"none", "loading", "ready", "failed"}
  /\ install \in {"none", "opening", "opfs", "reading", "deleting", "done", "ended"}
  /\ unread \subseteq Saved /\ handles \subseteq {"db", "opfs"}
  /\ {barrier, handlesClosed, close, deferred, stopRequested, opfsDirty,
      abortRequested, timer} \subseteq BOOLEAN
  /\ server \in {"none", "booting", "up", "halting", "exited", "failed"}
  /\ serverFlush \in {"none", "pending", "done"}
  /\ stop \in {"none", "runtime", "flush", "flushing", "settling", "flushed",
               "unflushed", "close", "closing", "stopped", "failed"}
  /\ attempt \in 0..2
  /\ {pending, batch} \subseteq
       [Paths -> [version : 0..MaxChanges, region : BOOLEAN]]
  /\ txn \in {"none", "active", "committed", "aborted"}
  /\ flush \in {"idle", "running", "spinning"}
  /\ DOMAIN cache \subseteq Regions /\ Cardinality(DOMAIN cache) <= Budget
  /\ \A p \in DOMAIN cache :
       cache[p] \in [version : 0..MaxChanges, dirty : BOOLEAN, flushing : BOOLEAN,
                    pinned : BOOLEAN]
  /\ {stored, latest} \subseteq [Paths -> 0..MaxChanges]
  /\ changeVersion \in 0..MaxChanges /\ faults \in 0..MaxFaults

\* The newest change a callback accepted for a path is queued, else being
\* written, else stored: no flush, abort, retry or eviction drops or reorders
\* it (flushPendingChanges, drainPendingChanges, writeBatch).
NoAcceptedChangeLost ==
  \A p \in Paths :
    latest[p] = IF pending[p] # NoChange THEN pending[p].version
                ELSE IF batch[p] # NoChange THEN batch[p].version
                ELSE stored[p]

\* "stopped" is posted only over closed handles, with every accepted change in
\* the database and nothing in flight that could still fail (stopServerImpl).
StoppedIsClean ==
  stop = "stopped" =>
    /\ handles = {} /\ handlesClosed /\ barrier /\ ~InstallInFlight
    /\ flush = "idle" /\ txn = "none" /\ ~opfsDirty
    /\ stored = latest

\* A region the cache may evict, having no other copy in memory, has its bytes in
\* the database: an entry rewritten while its earlier version was being written
\* stays dirty (writeBatch, evictRegionCache).
EvictableIsStored ==
  \A p \in DOMAIN cache : Evictable(p) => stored[p] >= cache[p].version

\* The cache keeps its budget, and gives up only what has been stored.
CacheIsSound == WorkerTypeOK /\ EvictableIsStored

\* What is queued has a timer, or a flush whose loop will see it, unless a flush
\* has failed or the worker is stopping (scheduleFlush, drainPendingChanges).
QueuedHasTurn ==
  pending # Nothing => timer \/ flush = "running" \/ faults > 0 \/ stop # "none"

\* Wherever its newest version is, in the cache, in the queue, in a batch that
\* may have failed or in the database, no accepted change is lost or forgotten.
StorageIsSound == CacheIsSound /\ NoAcceptedChangeLost /\ QueuedHasTurn

\* Storage that was closed stays closed: whatever an installation opens late, it
\* closes itself (installPersistentFileSystem, openOpfsRegionStore).
ClosedStaysClosed ==
  /\ handlesClosed => handles = {}
  /\ startup = "cancelled" /\ install = "ended" => handles = {}

\* A server that was told to halt finds its callbacks until it has exited, so that
\* its last save is accepted (requestStop).
LastSaveIsAccepted ==
  server = "halting" => Callbacks

\* Nobody waits for what is over, a flush or the end of an installation, and a
\* stop that came before the start is not forgotten (stopServerImpl, onmessage).
WaitsAreAnswered ==
  /\ stop \in {"flushing", "settling"} \/ serverFlush = "pending" => flush # "idle"
  /\ stop = "closing" \/ startup = "crashing" => close
  /\ stopRequested /\ startup # "idle" => stop # "none"

\* A stop is complete and final, whatever it interrupted, not before the server's
\* last save, and never left waiting.
StopIsClean ==
  StoppedIsClean /\ ClosedStaysClosed /\ LastSaveIsAccepted /\ WaitsAreAnswered

\* A worker asked to stop answers "stopped" or reports that it could not, however
\* slow the database, the installation or the server is (the watchdogs).  The one
\* exception is a flush that spins in drainPendingChanges because the log was
\* closed unflushed; only a start whose script failed leaves it so.
StopIsAnswered ==
  (stopRequested /\ startup # "idle") ~>
    \/ stop \in {"stopped", "failed"}
    \/ flush = "spinning" /\ startup = "crashed" /\ handles = {}

\* Without a failure or a stop, a database that finishes its transactions gets
\* every queued change (scheduleFlush, drainPendingChanges).
ChangesReachStore ==
  WF_storageVars(FlushTimer) /\ WF_storageVars(Commit)
      /\ WF_storageVars(TransactionSettles) =>
    \A p \in Paths :
      (latest[p] > stored[p]) ~>
        (latest[p] = stored[p] \/ faults > 0 \/ stop # "none")

\* The worker makes progress: changes reach the database, stops are answered.
Progress == StopIsAnswered /\ ChangesReachStore
=============================================================================
