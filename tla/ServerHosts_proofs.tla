--------------------------- MODULE ServerHosts_proofs ---------------------------
(* Proofs about the two hosts a Minecraft server has, which are independent  *)
(* of each other: WorkerStorage (the single-player worker) and PaperGateway  *)
(* (the plugin of a Paper server), each for every value of its constants.    *)
EXTENDS WorkerStorage, PaperGateway, FiniteSetTheorems, TLAPS

-----------------------------------------------------------------------------
(* The inductive invariant of WorkerStorage.                                *)

\* The parts of WorkerTypeOK.
StageTypes ==
  /\ startup \in {"idle", "waiting", "loading", "failing", "crashing", "crashed",
                  "cancelled", "running"}
  /\ asset \in {"none", "loading", "ready", "failed"}
  /\ install \in {"none", "opening", "opfs", "reading", "deleting", "done", "ended"}
  /\ server \in {"none", "booting", "up", "halting", "exited", "failed"}
  /\ serverFlush \in {"none", "pending", "done"}
  /\ stop \in {"none", "runtime", "flush", "flushing", "settling", "flushed",
               "unflushed", "close", "closing", "stopped", "failed"}
  /\ attempt \in 0..2
  /\ barrier \in BOOLEAN /\ handlesClosed \in BOOLEAN /\ close \in BOOLEAN
  /\ deferred \in BOOLEAN /\ stopRequested \in BOOLEAN /\ timer \in BOOLEAN
  /\ unread \subseteq Saved /\ handles \subseteq {"db", "opfs"}
  /\ faults \in 0..MaxFaults

Changes == [Paths -> [version : 0..MaxChanges, region : BOOLEAN]]

WriteTypes ==
  /\ pending \in Changes /\ batch \in Changes
  /\ txn \in {"none", "active", "committed", "aborted"}
  /\ flush \in {"idle", "running", "spinning"}
  /\ abortRequested \in BOOLEAN /\ opfsDirty \in BOOLEAN
  /\ stored \in [Paths -> 0..MaxChanges] /\ latest \in [Paths -> 0..MaxChanges]
  /\ changeVersion \in 0..MaxChanges

Entries == [version : 0..MaxChanges, dirty : BOOLEAN, flushing : BOOLEAN, pinned : BOOLEAN]

CacheTypes(cached) ==
  /\ IsFiniteSet(DOMAIN cached)
  /\ DOMAIN cached \subseteq Regions /\ Cardinality(DOMAIN cached) <= Budget
  /\ \A p \in DOMAIN cached : cached[p] \in Entries

\* An entry that is not marked dirty has been stored.
StoredOrDirty(cached) ==
  \A p \in DOMAIN cached : cached[p].dirty \/ stored[p] >= cached[p].version

\* Only a flush that runs has a batch; what is committed is in the database.
FlushOK ==
  /\ txn # "none" <=> flush = "running"
  /\ txn = "none" => batch = Nothing
  /\ txn = "committed" =>
       \A p \in Paths : batch[p] # NoChange => stored[p] = batch[p].version

\* The database, the batch and the queue follow each other.
VersionsOK ==
  \A p \in Paths :
    /\ stored[p] <= latest[p] /\ latest[p] <= changeVersion
    /\ batch[p] # NoChange =>
         stored[p] <= batch[p].version /\ batch[p].version <= latest[p]

\* A start that is stopped or has failed goes no further, and what it had opened
\* is closed by it or is left to who raised the barrier.
StartOK ==
  /\ barrier \/ stop # "none" => startup \notin {"idle", "waiting", "loading"}
  /\ stop # "none" => startup # "failing" /\ stopRequested
  /\ startup \in {"idle", "waiting"} => install = "none"
  /\ install = "ended" => startup # "loading"
  /\ startup = "cancelled" => barrier \/ install = "none"
  /\ install \in {"none", "opening"} => handles = {}

\* Nothing is closed before the barrier.
CloseOK ==
  /\ close \/ deferred \/ handlesClosed => barrier
  /\ handlesClosed => ~InstallInFlight
  /\ startup = "running" /\ barrier => stop # "none"

\* The server belongs to a worker that has started; a stop that has told it to
\* halt does not close before it has exited.
ServerOK ==
  /\ server # "none" => startup = "running" /\ install = "done"
  /\ server = "halting" => ~barrier /\ stop \in {"runtime", "failed"}

DataInv ==
  /\ WriteTypes /\ CacheTypes(cache) /\ StoredOrDirty(cache)
  /\ FlushOK /\ VersionsOK /\ NoAcceptedChangeLost

ControlInv == StageTypes /\ StartOK /\ CloseOK /\ ServerOK /\ ClosedStaysClosed

WorkerInv == DataInv /\ ControlInv /\ StoppedIsClean

\* The invariants are about the state of the storage only.
LEMMA DataStays ==
  DataInv /\ UNCHANGED << writing, data >> => DataInv'
  BY DEF DataInv, WriteTypes, CacheTypes, StoredOrDirty, FlushOK, VersionsOK,
     NoAcceptedChangeLost, writing, data

\* A change that is not NoChange is one of a typed table.
LEMMA NothingTyped ==
  Nothing \in Changes /\ NoChange \in [version : 0..MaxChanges, region : BOOLEAN]
  BY BoundsAreNat DEF Nothing, Changes, NoChange

\* Who waits for a flush hears of its end, and only of that.
LEMMA AnswerFacts ==
  ASSUME StageTypes, NEW outcome \in {"ok", "failed", "none"}, NEW exiting \in BOOLEAN,
         Answer(outcome, exiting)
  PROVE  /\ stop' \in {"none", "runtime", "flush", "flushing", "settling", "flushed",
                       "unflushed", "close", "closing", "stopped", "failed"}
         /\ serverFlush' \in {"none", "pending", "done"}
         /\ stop' = "none" <=> stop = "none"
         /\ stop \in {"runtime", "failed"} => stop' = stop
         /\ stop' = "stopped" => stop = "stopped"
<1>1. CASE outcome = "ok"
  BY <1>1 DEF StageTypes, Answer
<1>2. CASE outcome = "failed"
  BY <1>2 DEF StageTypes, Answer
<1>3. CASE outcome = "none"
  BY <1>3 DEF StageTypes, Answer
<1> QED
  BY <1>1, <1>2, <1>3

\* A batch that is committed is out of the account.
Drained ==
  \A p \in Paths :
    latest[p] = IF pending[p] # NoChange THEN pending[p].version ELSE stored[p]

\* Marking the entries that are written changes neither their versions nor
\* whether they are dirty.
LEMMA MarkedFacts ==
  ASSUME NEW cached, CacheTypes(cached), StoredOrDirty(cached), NEW changes \in Changes
  PROVE  CacheTypes(Marked(cached, changes)) /\ StoredOrDirty(Marked(cached, changes))
<1>1. DOMAIN Marked(cached, changes) = DOMAIN cached
  BY DEF Marked
<1>2. ASSUME NEW p \in DOMAIN cached
      PROVE  /\ Marked(cached, changes)[p] \in Entries
             /\ Marked(cached, changes)[p].dirty = cached[p].dirty
             /\ Marked(cached, changes)[p].version = cached[p].version
  <2>1. cached[p] \in Entries
    BY DEF CacheTypes
  <2>2. Marked(cached, changes)[p] \in {cached[p], [cached[p] EXCEPT !.flushing = TRUE]}
    BY DEF Marked
  <2> QED
    BY <2>1, <2>2 DEF Entries
<1> QED
  BY <1>1, <1>2 DEF CacheTypes, StoredOrDirty

\* What a committed batch cleans is in the database.
LEMMA CleanedFacts ==
  ASSUME DataInv, txn = "committed"
  PROVE  CacheTypes(Cleaned(cache)) /\ StoredOrDirty(Cleaned(cache))
<1>1. DOMAIN Cleaned(cache) = DOMAIN cache
  BY DEF Cleaned
<1>2. ASSUME NEW p \in DOMAIN cache
      PROVE  /\ Cleaned(cache)[p] \in Entries
             /\ Cleaned(cache)[p].dirty \/ stored[p] >= Cleaned(cache)[p].version
  <2>1. cache[p] \in Entries /\ p \in Paths
    BY DEF DataInv, CacheTypes, Paths
  <2>2. CASE batch[p].region /\ batch[p].version = cache[p].version
    <3>1. Cleaned(cache)[p] = [cache[p] EXCEPT !.dirty = FALSE, !.flushing = FALSE]
      BY <2>2 DEF Cleaned
    <3>2. batch[p] # NoChange
      BY <2>2 DEF NoChange
    <3>3. stored[p] = cache[p].version
      BY <2>1, <2>2, <3>2 DEF DataInv, FlushOK
    <3>4. Cleaned(cache)[p].version = cache[p].version
      BY <2>1, <3>1 DEF Entries
    <3>5. stored[p] \in Nat
      BY <2>1, BoundsAreNat DEF DataInv, WriteTypes
    <3>6. Cleaned(cache)[p] \in Entries
      BY <2>1, <3>1 DEF Entries
    <3> QED
      BY <3>3, <3>4, <3>5, <3>6
  <2>3. CASE ~(batch[p].region /\ batch[p].version = cache[p].version)
    BY <2>1, <2>3 DEF Cleaned, DataInv, StoredOrDirty
  <2> QED
    BY <2>2, <2>3
<1> QED
  BY <1>1, <1>2 DEF DataInv, CacheTypes, StoredOrDirty

\* One turn of the loop loses nothing.
LEMMA TurnData ==
  ASSUME DataInv, Drained, NEW cached, CacheTypes(cached), StoredOrDirty(cached),
         NEW exiting \in BOOLEAN, Turn(cached, exiting), UNCHANGED data
  PROVE  DataInv'
<1>1. UNCHANGED << stored, latest, changeVersion >>
  BY DEF data
<1>2. abortRequested' \in BOOLEAN /\ opfsDirty' \in BOOLEAN
  BY DEF DataInv, WriteTypes, Turn, Settled
<1>3. CASE /\ txn' = "none" /\ batch' = Nothing /\ cache' = cached /\ pending' = pending
           /\ flush' \in {"idle", "spinning"}
  <2>1. WriteTypes'
    BY <1>1, <1>2, <1>3, NothingTyped DEF DataInv, WriteTypes
  <2>2. CacheTypes(cache)' /\ StoredOrDirty(cache)'
    BY <1>1, <1>3 DEF CacheTypes, StoredOrDirty
  <2>3. FlushOK'
    BY <1>3 DEF FlushOK, Nothing
  <2>4. \A p \in Paths : batch'[p] = NoChange
    BY <1>3 DEF Nothing
  <2>5. NoAcceptedChangeLost'
    BY <1>1, <1>3, <2>4 DEF Drained, NoAcceptedChangeLost, NoChange
  <2>6. VersionsOK'
    BY <1>1, <2>4 DEF DataInv, VersionsOK, NoChange
  <2> QED
    BY <2>1, <2>2, <2>3, <2>5, <2>6 DEF DataInv
<1>4. CASE /\ txn' = "active" /\ flush' = "running" /\ batch' = pending /\ pending' = Nothing
           /\ cache' = Marked(cached, pending)
  <2>1. WriteTypes'
    BY <1>1, <1>2, <1>4, NothingTyped DEF DataInv, WriteTypes
  <2>2. CacheTypes(cache)' /\ StoredOrDirty(cache)'
    <3>1. CacheTypes(Marked(cached, pending)) /\ StoredOrDirty(Marked(cached, pending))
      BY MarkedFacts DEF DataInv, WriteTypes
    <3> QED
      BY <1>1, <1>4, <3>1 DEF CacheTypes, StoredOrDirty
  <2>3. FlushOK'
    BY <1>4 DEF FlushOK
  <2>4. \A p \in Paths : pending'[p] = NoChange
    BY <1>4 DEF Nothing
  <2>5. NoAcceptedChangeLost'
    BY <1>1, <1>4, <2>4 DEF Drained, NoAcceptedChangeLost, NoChange
  <2>6. VersionsOK'
    <3> SUFFICES ASSUME NEW p \in Paths, pending[p] # NoChange
                 PROVE  stored[p] <= pending[p].version /\ pending[p].version <= latest[p]
      BY <1>1, <1>4 DEF DataInv, VersionsOK, NoChange
    <3>1. latest[p] = pending[p].version
      BY DEF Drained
    <3>2. latest[p] \in Nat
      BY BoundsAreNat DEF DataInv, WriteTypes
    <3> QED
      BY <3>1, <3>2 DEF DataInv, VersionsOK
  <2> QED
    BY <2>1, <2>2, <2>3, <2>5, <2>6 DEF DataInv
<1> QED
  BY <1>3, <1>4 DEF Turn, Settled

\* A batch that fails goes back behind what was queued meanwhile.
LEMMA BatchFailsData ==
  ASSUME DataInv, NEW cached, CacheTypes(cached), StoredOrDirty(cached),
         BatchFails(cached), UNCHANGED data
  PROVE  DataInv'
<1>1. /\ UNCHANGED << stored, latest, changeVersion, opfsDirty >>
      /\ txn' = "none" /\ batch' = Nothing /\ flush' = "idle" /\ abortRequested' = FALSE
      /\ pending' = [p \in Paths |-> IF pending[p] = NoChange THEN batch[p] ELSE pending[p]]
  BY DEF BatchFails, Settled, Requeue, data
<1>2. \A p \in Paths : batch'[p] = NoChange
  BY <1>1 DEF Nothing
<1>3. WriteTypes'
  BY <1>1, NothingTyped DEF DataInv, WriteTypes, Changes
<1>4. CacheTypes(cache)' /\ StoredOrDirty(cache)'
  <2>1. DOMAIN cache' = DOMAIN cached
    BY DEF BatchFails, Requeue
  <2>2. ASSUME NEW p \in DOMAIN cached
        PROVE  /\ cache'[p] \in Entries
               /\ cache'[p].dirty \/ cache'[p] = cached[p]
    <3>1. cached[p] \in Entries
      BY DEF CacheTypes
    <3>2. cache'[p] \in {cached[p], [cached[p] EXCEPT !.dirty = TRUE, !.flushing = FALSE]}
      BY DEF BatchFails, Requeue
    <3> QED
      BY <3>1, <3>2 DEF Entries
  <2> QED
    BY <1>1, <2>1, <2>2 DEF CacheTypes, StoredOrDirty
<1>5. FlushOK'
  BY <1>1 DEF FlushOK
<1>6. VersionsOK'
  BY <1>1, <1>2 DEF DataInv, VersionsOK, NoChange
<1>7. NoAcceptedChangeLost'
  <2> SUFFICES ASSUME NEW p \in Paths
               PROVE  latest[p] = IF pending'[p] # NoChange THEN pending'[p].version
                                  ELSE stored[p]
    BY <1>1, <1>2 DEF NoAcceptedChangeLost, NoChange
  <2> QED
    BY <1>1 DEF DataInv, NoAcceptedChangeLost
<1> QED
  BY <1>3, <1>4, <1>5, <1>6, <1>7 DEF DataInv

\* The queue outlives a transaction that ends.
LEMMA CommitData ==
  DataInv /\ Commit => DataInv'
<1> SUFFICES ASSUME DataInv, Commit PROVE DataInv'
  OBVIOUS
<1>1. /\ txn = "active" /\ txn' = "committed"
      /\ stored' = [p \in Paths |-> IF batch[p] = NoChange THEN stored[p] ELSE batch[p].version]
      /\ UNCHANGED << pending, batch, flush, abortRequested, opfsDirty, cache, latest,
                      changeVersion >>
  BY DEF Commit
<1>2. \A p \in Paths : stored'[p] \in 0..MaxChanges /\ stored[p] <= stored'[p]
  <2> SUFFICES ASSUME NEW p \in Paths
               PROVE  stored'[p] \in 0..MaxChanges /\ stored[p] <= stored'[p]
    OBVIOUS
  <2>1. stored[p] \in 0..MaxChanges /\ batch[p].version \in 0..MaxChanges
    BY DEF DataInv, WriteTypes, Changes
  <2> QED
    BY <1>1, <2>1, BoundsAreNat DEF DataInv, VersionsOK
<1>3. WriteTypes'
  BY <1>1, <1>2 DEF DataInv, WriteTypes
<1>4. CacheTypes(cache)' /\ StoredOrDirty(cache)'
  <2>1. CacheTypes(cache)'
    BY <1>1 DEF DataInv, CacheTypes
  <2>2. ASSUME NEW p \in DOMAIN cache, stored[p] >= cache[p].version
        PROVE  stored'[p] >= cache[p].version
    <3>1. p \in Paths /\ cache[p].version \in 0..MaxChanges
      BY DEF DataInv, CacheTypes, Entries, Paths
    <3>2. stored[p] \in Nat /\ stored'[p] \in Nat /\ cache[p].version \in Nat
      BY <1>2, <3>1, BoundsAreNat DEF DataInv, WriteTypes
    <3>3. stored[p] <= stored'[p]
      BY <1>2, <3>1
    <3> QED
      BY <2>2, <3>2, <3>3
  <2> QED
    BY <1>1, <2>1, <2>2 DEF DataInv, StoredOrDirty
<1>5. FlushOK'
  BY <1>1 DEF DataInv, FlushOK
<1>6. VersionsOK'
  BY <1>1 DEF DataInv, VersionsOK, WriteTypes, Changes
<1>7. NoAcceptedChangeLost'
  BY <1>1 DEF DataInv, NoAcceptedChangeLost
<1> QED
  BY <1>3, <1>4, <1>5, <1>6, <1>7 DEF DataInv

\* A transaction that is aborted has changed nothing.
LEMMA AbortData ==
  ASSUME DataInv, txn' \in {txn, "aborted"}, txn' # txn => txn = "active",
         abortRequested' \in BOOLEAN,
         UNCHANGED << pending, batch, flush, opfsDirty, cache, stored, latest, changeVersion >>
  PROVE  DataInv'
  BY DEF DataInv, WriteTypes, CacheTypes, StoredOrDirty, FlushOK, VersionsOK,
     NoAcceptedChangeLost

\* A change that is accepted replaces the one queued before it.
LEMMA QueueData ==
  ASSUME DataInv, NEW p \in Paths, NEW isRegion \in BOOLEAN, changeVersion < MaxChanges,
         Queue(p, isRegion), opfsDirty' \in BOOLEAN,
         UNCHANGED << batch, txn, flush, abortRequested, stored >>,
         CacheTypes(cache'), StoredOrDirty(cache')
  PROVE  DataInv'
<1> DEFINE n == changeVersion + 1
           change == [version |-> n, region |-> isRegion]
<1>1. /\ changeVersion' = n /\ pending' = [pending EXCEPT ![p] = change]
      /\ latest' = [latest EXCEPT ![p] = n]
  BY DEF Queue
<1>2. n \in 1..MaxChanges /\ changeVersion \in Nat /\ MaxChanges \in Nat
  BY BoundsAreNat DEF DataInv, WriteTypes
<1>3. change \in [version : 0..MaxChanges, region : BOOLEAN] /\ change # NoChange
      /\ change.version = n
  BY <1>2 DEF NoChange
<1> HIDE DEF n, change
<1>4. WriteTypes'
  BY <1>1, <1>2, <1>3 DEF DataInv, WriteTypes, Changes
<1>5. CacheTypes(cache)' /\ StoredOrDirty(cache)'
  BY DEF CacheTypes, StoredOrDirty
<1>6. FlushOK'
  BY DEF DataInv, FlushOK
<1>7. VersionsOK'
  <2> SUFFICES ASSUME NEW q \in Paths
               PROVE  /\ stored[q] <= latest'[q] /\ latest'[q] <= n
                      /\ batch[q] # NoChange =>
                           stored[q] <= batch[q].version /\ batch[q].version <= latest'[q]
    BY <1>1 DEF VersionsOK
  <2>1. /\ stored[q] \in Nat /\ latest[q] \in Nat /\ batch[q].version \in Nat
        /\ latest[q] <= n
    BY <1>2, BoundsAreNat DEF DataInv, WriteTypes, Changes, VersionsOK, n
  <2>2. latest'[q] = IF q = p THEN n ELSE latest[q]
    BY <1>1 DEF DataInv, WriteTypes
  <2> QED
    BY <1>2, <2>1, <2>2 DEF DataInv, VersionsOK
<1>8. NoAcceptedChangeLost'
  <2> SUFFICES ASSUME NEW q \in Paths
               PROVE  latest'[q] = IF pending'[q] # NoChange THEN pending'[q].version
                                   ELSE IF batch[q] # NoChange THEN batch[q].version
                                   ELSE stored[q]
    BY DEF NoAcceptedChangeLost
  <2>1. CASE q = p
    BY <1>1, <1>3, <2>1 DEF DataInv, WriteTypes, Changes
  <2>2. CASE q # p
    BY <1>1, <2>2 DEF DataInv, WriteTypes, Changes, NoAcceptedChangeLost
  <2> QED
    BY <2>1, <2>2
<1> QED
  BY <1>4, <1>5, <1>6, <1>7, <1>8 DEF DataInv

\* An entry takes room the cache has, or that of an entry it may evict.
LEMMA CacheFacts ==
  ASSUME DataInv, NEW p \in Regions, NEW entry \in Entries,
         entry.dirty \/ entry.version = 0,
         NEW victims \in Victims(p), Cache(p, entry, victims), UNCHANGED stored
  PROVE  CacheTypes(cache') /\ StoredOrDirty(cache')
<1> DEFINE D == DOMAIN cache
           others == D \ {p}
<1>1. DOMAIN cache' = (D \cup {p}) \ victims
  BY DEF Cache
<1>2. IsFiniteSet(D) /\ D \subseteq Regions /\ Cardinality(D) <= Budget
      /\ Budget \in Nat
  BY BoundsAreNat DEF DataInv, CacheTypes
<1>3. \/ victims = {} /\ Cardinality(others) < Budget
      \/ \E q \in others : victims = {q} /\ ~(Cardinality(others) < Budget)
  BY DEF Victims
<1>4. IsFiniteSet(DOMAIN cache') /\ DOMAIN cache' \subseteq Regions
      /\ Cardinality(DOMAIN cache') <= Budget
  <2>1. IsFiniteSet(others) /\ Cardinality(others) \in Nat /\ Cardinality(D) \in Nat
        /\ Cardinality(others) <= Cardinality(D)
    BY <1>2, FS_Subset, FS_CardinalityType
  <2>2. p \notin others /\ D \cup {p} = others \cup {p}
    OBVIOUS
  <2>3. IsFiniteSet(others \cup {p}) /\ Cardinality(others \cup {p}) = Cardinality(others) + 1
    BY <2>1, <2>2, FS_AddElement
  <2>4. ASSUME victims = {}, Cardinality(others) < Budget
        PROVE  IsFiniteSet(DOMAIN cache') /\ Cardinality(DOMAIN cache') <= Budget
    <3>1. DOMAIN cache' = others \cup {p}
      BY <1>1, <2>4
    <3> HIDE DEF others
    <3>2. Cardinality(others) + 1 <= Budget
      BY <1>2, <2>1, <2>4
    <3> QED
      BY <2>3, <3>1, <3>2
  <2>5. ASSUME NEW q \in others, victims = {q}
        PROVE  IsFiniteSet(DOMAIN cache') /\ Cardinality(DOMAIN cache') <= Budget
    <3>1. DOMAIN cache' = (others \cup {p}) \ {q}
      BY <1>1, <2>2, <2>5
    <3>2. q \in others \cup {p}
      OBVIOUS
    <3> HIDE DEF others
    <3>3. IsFiniteSet(DOMAIN cache')
          /\ Cardinality(DOMAIN cache') = Cardinality(others \cup {p}) - 1
      BY <2>3, <3>1, <3>2, FS_RemoveElement
    <3> QED
      BY <1>2, <2>1, <2>3, <3>3
  <2> QED
    BY <1>1, <1>2, <1>3, <2>4, <2>5
<1>5. ASSUME NEW q \in DOMAIN cache'
      PROVE  cache'[q] \in Entries /\ (cache'[q].dirty \/ stored[q] >= cache'[q].version)
  <2>1. CASE q = p
    <3>1. cache'[q] = entry
      BY <1>1, <1>5, <2>1 DEF Cache
    <3>2. q \in Paths
      BY <2>1 DEF Paths
    <3>3. stored[q] \in Nat
      BY <3>2, BoundsAreNat DEF DataInv, WriteTypes
    <3> QED
      BY <3>1, <3>3
  <2>2. CASE q # p
    <3>1. cache'[q] = cache[q] /\ q \in D
      BY <1>1, <1>5, <2>2 DEF Cache
    <3> QED
      BY <3>1 DEF DataInv, CacheTypes, StoredOrDirty
  <2> QED
    BY <2>1, <2>2
<1> QED
  BY <1>4, <1>5 DEF CacheTypes, StoredOrDirty

\* Without a batch, or when it is committed, the account is that of Drained.
LEMMA DrainedFacts ==
  ASSUME DataInv, txn \in {"none", "committed"}
  PROVE  Drained
<1> SUFFICES ASSUME NEW p \in Paths
             PROVE  latest[p] = IF pending[p] # NoChange THEN pending[p].version
                                ELSE stored[p]
  BY DEF Drained
<1>1. batch[p] # NoChange => stored[p] = batch[p].version
  BY DEF DataInv, FlushOK, Nothing
<1> QED
  BY <1>1 DEF DataInv, NoAcceptedChangeLost

\* A turn of the loop answers who waits for the flush.
LEMMA TurnAnswers ==
  ASSUME StageTypes, NEW cached, NEW exiting \in BOOLEAN, Turn(cached, exiting)
  PROVE  /\ \E outcome \in {"ok", "failed", "none"} : Answer(outcome, exiting)
         /\ faults' \in 0..MaxFaults
<1>1. faults \in 0..MaxFaults /\ MaxFaults \in Nat
  BY BoundsAreNat DEF StageTypes
<1>2. faults' = faults \/ (faults < MaxFaults /\ faults' = faults + 1)
  BY DEF Turn, Fault
<1> QED
  BY <1>1, <1>2 DEF Turn, Settled

\* flushPendingChanges, called by whom it may be, keeps the data.
LEMMA FlushFacts ==
  ASSUME DataInv, StageTypes, NEW exiting \in BOOLEAN, FlushPendingChanges(exiting),
         UNCHANGED data
  PROVE  /\ DataInv' /\ timer' = FALSE /\ faults' \in 0..MaxFaults
         /\ \E outcome \in {"ok", "failed", "none"} : Answer(outcome, exiting)
<1>1. timer' = FALSE
  BY DEF FlushPendingChanges
<1>2. CASE /\ flush = "running" /\ Answer("none", exiting) /\ UNCHANGED << writing, faults >>
  BY <1>1, <1>2, DataStays DEF StageTypes
<1>3. CASE flush = "idle" /\ Turn(cache, exiting)
  <2>1. Drained
    BY <1>3, DrainedFacts DEF DataInv, FlushOK, WriteTypes
  <2>2. DataInv'
    BY <1>3, <2>1, TurnData DEF DataInv
  <2> QED
    BY <1>1, <1>3, <2>2, TurnAnswers
<1> QED
  BY <1>2, <1>3 DEF FlushPendingChanges

\* The bound on the faults that are explored.
LEMMA FaultFacts ==
  ASSUME StageTypes, faults' = faults \/ (faults < MaxFaults /\ faults' = faults + 1)
  PROVE  faults' \in 0..MaxFaults
<1>1. faults \in 0..MaxFaults /\ MaxFaults \in Nat
  BY BoundsAreNat DEF StageTypes
<1> QED
  BY <1>1

\* Storage that is clean has every accepted change in the database.
LEMMA CleanIsStored ==
  ASSUME DataInv, Clean
  PROVE  flush = "idle" /\ txn = "none" /\ ~opfsDirty /\ stored = latest
<1>1. flush = "idle" /\ txn = "none" /\ ~opfsDirty /\ pending = Nothing /\ batch = Nothing
  BY DEF Clean, DataInv, FlushOK
<1>2. \A p \in Paths : latest[p] = stored[p]
  BY <1>1 DEF DataInv, NoAcceptedChangeLost, Nothing
<1> QED
  BY <1>1, <1>2 DEF DataInv, WriteTypes

\* The start message begins the installation, or finds a stop that came first.
LEMMA StartWorkerStep ==
  ASSUME WorkerInv, StartWorker
  PROVE  WorkerInv'
<1>1. DataInv'
  BY DataStays DEF WorkerInv, StartWorker, Quiet, InstallInFlight, opening, Loading, closeState,
     running, writing, data
<1>2. StageTypes'
  BY BoundsAreNat DEF WorkerInv, ControlInv, StageTypes, StartWorker, Quiet, InstallInFlight,
     opening, Loading, closeState, running, writing, data
<1>3. StartOK' /\ CloseOK'
  BY DEF WorkerInv, ControlInv, StartOK, CloseOK, StageTypes, InstallInFlight, StartWorker,
     Quiet, opening, Loading, closeState, running, writing, data
<1>4. ServerOK' /\ ClosedStaysClosed'
  BY DEF WorkerInv, ControlInv, StartOK, CloseOK, ServerOK, ClosedStaysClosed, StageTypes,
     StartWorker, Quiet, InstallInFlight, opening, Loading, closeState, running, writing, data
<1>5. StoppedIsClean'
  BY DEF WorkerInv, StoppedIsClean, StartWorker, Quiet, InstallInFlight, opening, Loading,
     closeState, running, writing, data
<1> QED
  BY <1>1, <1>2, <1>3, <1>4, <1>5 DEF WorkerInv, ControlInv

\* The port comes, or the start fails without one.
LEMMA AwaitPortStep ==
  ASSUME WorkerInv, AwaitPort
  PROVE  WorkerInv'
<1>1. DataInv'
  BY DataStays DEF WorkerInv, AwaitPort, Quiet, InstallInFlight, opening, Loading, closeState,
     running, ending, writing, data
<1>2. StageTypes'
  BY BoundsAreNat DEF WorkerInv, ControlInv, StageTypes, AwaitPort, Quiet, InstallInFlight,
     opening, Loading, closeState, running, ending, writing, data
<1>3. StartOK' /\ CloseOK'
  BY DEF WorkerInv, ControlInv, StartOK, CloseOK, StageTypes, InstallInFlight, AwaitPort, Quiet,
     opening, Loading, closeState, running, ending, writing, data
<1>4. ServerOK' /\ ClosedStaysClosed'
  BY DEF WorkerInv, ControlInv, StartOK, CloseOK, ServerOK, ClosedStaysClosed, StageTypes,
     AwaitPort, Quiet, InstallInFlight, opening, Loading, closeState, running, ending, writing,
     data
<1>5. StoppedIsClean'
  BY DEF WorkerInv, StoppedIsClean, AwaitPort, Quiet, InstallInFlight, opening, Loading,
     closeState, running, ending, writing, data
<1> QED
  BY <1>1, <1>2, <1>3, <1>4, <1>5 DEF WorkerInv, ControlInv

\* The script is there, or the start fails without it.
LEMMA PrepareServerScriptStep ==
  ASSUME WorkerInv, PrepareServerScript
  PROVE  WorkerInv'
<1>1. DataInv'
  BY DataStays DEF WorkerInv, PrepareServerScript, Quiet, InstallInFlight, opening, Fault,
     Failing, closeState, running, ending, writing, data
<1>2. StageTypes'
  BY BoundsAreNat DEF WorkerInv, ControlInv, StageTypes, PrepareServerScript, Quiet,
     InstallInFlight, opening, Fault, Failing, closeState, running, ending, writing, data
<1>3. StartOK' /\ CloseOK'
  BY DEF WorkerInv, ControlInv, StartOK, CloseOK, StageTypes, InstallInFlight,
     PrepareServerScript, Quiet, opening, Fault, Failing, closeState, running, ending, writing,
     data
<1>4. ServerOK' /\ ClosedStaysClosed'
  BY DEF WorkerInv, ControlInv, StartOK, CloseOK, ServerOK, ClosedStaysClosed, StageTypes,
     PrepareServerScript, Quiet, InstallInFlight, opening, Fault, Failing, closeState, running,
     ending, writing, data
<1>5. StoppedIsClean'
  BY DEF WorkerInv, StoppedIsClean, PrepareServerScript, Quiet, InstallInFlight, opening, Fault,
     Failing, closeState, running, ending, writing, data
<1> QED
  BY <1>1, <1>2, <1>3, <1>4, <1>5 DEF WorkerInv, ControlInv

\* A database that opens after the barrier is not kept.
LEMMA OpenDatabaseStep ==
  ASSUME WorkerInv, OpenDatabase
  PROVE  WorkerInv'
<1>1. DataInv'
  BY DataStays DEF WorkerInv, OpenDatabase, Quiet, InstallInFlight, opening, Fault, Failing,
     running, ending, writing, data
<1>2. StageTypes'
  <2>1. /\ startup' \in {"idle", "waiting", "loading", "failing", "crashing", "crashed",
                         "cancelled", "running"}
        /\ asset' \in {"none", "loading", "ready", "failed"}
        /\ install' \in {"none", "opening", "opfs", "reading", "deleting", "done", "ended"}
        /\ server' \in {"none", "booting", "up", "halting", "exited", "failed"}
        /\ serverFlush' \in {"none", "pending", "done"}
        /\ stop' \in {"none", "runtime", "flush", "flushing", "settling", "flushed",
                      "unflushed", "close", "closing", "stopped", "failed"}
    BY DEF WorkerInv, ControlInv, StageTypes, OpenDatabase, Quiet, InstallInFlight, opening,
       Fault, Failing, running, ending, writing, data
  <2>2. /\ barrier' \in BOOLEAN /\ handlesClosed' \in BOOLEAN /\ close' \in BOOLEAN
        /\ deferred' \in BOOLEAN /\ stopRequested' \in BOOLEAN /\ timer' \in BOOLEAN
    BY DEF WorkerInv, ControlInv, StageTypes, OpenDatabase, Quiet, InstallInFlight, opening,
       Fault, Failing, running, ending, writing, data
  <2>3. /\ unread' \subseteq Saved /\ handles' \subseteq {"db", "opfs"}
        /\ attempt' \in 0..2
    BY DEF WorkerInv, ControlInv, StageTypes, OpenDatabase, Quiet, InstallInFlight, opening,
       Fault, Failing, running, ending, writing, data
  <2>4. faults' \in 0..MaxFaults
    <3>1. faults' = faults \/ (faults < MaxFaults /\ faults' = faults + 1)
      BY DEF OpenDatabase, Fault
    <3> QED
      BY <3>1, FaultFacts DEF WorkerInv, ControlInv
  <2> QED
    BY <2>1, <2>2, <2>3, <2>4 DEF StageTypes
<1>3. StartOK' /\ CloseOK'
  BY DEF WorkerInv, ControlInv, StartOK, CloseOK, StageTypes, InstallInFlight, OpenDatabase,
     Quiet, opening, Fault, Failing, running, ending, writing, data
<1>4. ServerOK' /\ ClosedStaysClosed'
  BY DEF WorkerInv, ControlInv, StartOK, CloseOK, ServerOK, ClosedStaysClosed, StageTypes,
     OpenDatabase, Quiet, InstallInFlight, opening, Fault, Failing, running, ending, writing,
     data
<1>5. StoppedIsClean'
  BY DEF WorkerInv, StoppedIsClean, OpenDatabase, Quiet, InstallInFlight, opening, Fault,
     Failing, running, ending, writing, data
<1> QED
  BY <1>1, <1>2, <1>3, <1>4, <1>5 DEF WorkerInv, ControlInv

\* An installation that meets the barrier closes what it opened.
LEMMA OpenOpfsRegionStoreStep ==
  ASSUME WorkerInv, OpenOpfsRegionStore
  PROVE  WorkerInv'
<1>1. DataInv'
  BY DataStays DEF WorkerInv, OpenOpfsRegionStore, Quiet, InstallInFlight, opening, Cancelled,
     running, ending, writing, data
<1>2. StageTypes'
  BY BoundsAreNat DEF WorkerInv, ControlInv, StageTypes, OpenOpfsRegionStore, Quiet,
     InstallInFlight, opening, Cancelled, running, ending, writing, data
<1>3. StartOK' /\ CloseOK'
  BY DEF WorkerInv, ControlInv, StartOK, CloseOK, StageTypes, InstallInFlight,
     OpenOpfsRegionStore, Quiet, opening, Cancelled, running, ending, writing, data
<1>4. ServerOK' /\ ClosedStaysClosed'
  BY DEF WorkerInv, ControlInv, StartOK, CloseOK, ServerOK, ClosedStaysClosed, StageTypes,
     OpenOpfsRegionStore, Quiet, InstallInFlight, opening, Cancelled, running, ending, writing,
     data
<1>5. StoppedIsClean'
  BY DEF WorkerInv, StoppedIsClean, OpenOpfsRegionStore, Quiet, InstallInFlight, opening,
     Cancelled, running, ending, writing, data
<1> QED
  BY <1>1, <1>2, <1>3, <1>4, <1>5 DEF WorkerInv, ControlInv

\* The Java server registers itself, or fails to.
LEMMA RegisterServerStep ==
  ASSUME WorkerInv, RegisterServer
  PROVE  WorkerInv'
<1>1. DataInv'
  BY DataStays DEF WorkerInv, RegisterServer, Quiet, InstallInFlight, opening, Fault,
     closeState, ending, writing, data
<1>2. StageTypes'
  BY BoundsAreNat DEF WorkerInv, ControlInv, StageTypes, RegisterServer, Quiet, InstallInFlight,
     opening, Fault, closeState, ending, writing, data
<1>3. StartOK' /\ CloseOK'
  BY DEF WorkerInv, ControlInv, StartOK, CloseOK, StageTypes, InstallInFlight, RegisterServer,
     Quiet, opening, Fault, closeState, ending, writing, data
<1>4. ServerOK' /\ ClosedStaysClosed'
  BY DEF WorkerInv, ControlInv, StartOK, CloseOK, ServerOK, ClosedStaysClosed, StageTypes,
     RegisterServer, Quiet, InstallInFlight, opening, Fault, closeState, ending, writing, data
<1>5. StoppedIsClean'
  BY DEF WorkerInv, StoppedIsClean, RegisterServer, Quiet, InstallInFlight, opening, Fault,
     closeState, ending, writing, data
<1> QED
  BY <1>1, <1>2, <1>3, <1>4, <1>5 DEF WorkerInv, ControlInv

\* The runtime's wait for the server's flush ends.
LEMMA ServerFlushTimesOutStep ==
  ASSUME WorkerInv, ServerFlushTimesOut
  PROVE  WorkerInv'
<1>1. DataInv'
  BY DataStays DEF WorkerInv, ServerFlushTimesOut, Quiet, InstallInFlight, opening, closeState,
     ending, writing, data
<1>2. StageTypes'
  BY BoundsAreNat DEF WorkerInv, ControlInv, StageTypes, ServerFlushTimesOut, Quiet,
     InstallInFlight, opening, closeState, ending, writing, data
<1>3. StartOK' /\ CloseOK'
  BY DEF WorkerInv, ControlInv, StartOK, CloseOK, StageTypes, InstallInFlight,
     ServerFlushTimesOut, Quiet, opening, closeState, ending, writing, data
<1>4. ServerOK' /\ ClosedStaysClosed'
  BY DEF WorkerInv, ControlInv, StartOK, CloseOK, ServerOK, ClosedStaysClosed, StageTypes,
     ServerFlushTimesOut, Quiet, InstallInFlight, opening, closeState, ending, writing, data
<1>5. StoppedIsClean'
  BY DEF WorkerInv, StoppedIsClean, ServerFlushTimesOut, Quiet, InstallInFlight, opening,
     closeState, ending, writing, data
<1> QED
  BY <1>1, <1>2, <1>3, <1>4, <1>5 DEF WorkerInv, ControlInv

\* A stop raises the barrier, but for a worker that has started.
LEMMA RequestStopStep ==
  ASSUME WorkerInv, RequestStop
  PROVE  WorkerInv'
<1>1. DataInv'
  BY DataStays DEF WorkerInv, RequestStop, Quiet, InstallInFlight, opening, running,
     IntegratedServerStopped, writing, data
<1>2. StageTypes'
  <2>1. /\ startup' \in {"idle", "waiting", "loading", "failing", "crashing", "crashed",
                         "cancelled", "running"}
        /\ asset' \in {"none", "loading", "ready", "failed"}
        /\ install' \in {"none", "opening", "opfs", "reading", "deleting", "done", "ended"}
        /\ server' \in {"none", "booting", "up", "halting", "exited", "failed"}
        /\ serverFlush' \in {"none", "pending", "done"}
        /\ stop' \in {"none", "runtime", "flush", "flushing", "settling", "flushed",
                      "unflushed", "close", "closing", "stopped", "failed"}
    BY DEF WorkerInv, ControlInv, StageTypes, RequestStop, Quiet, InstallInFlight, opening,
       running, IntegratedServerStopped, writing, data
  <2>2. /\ barrier' \in BOOLEAN /\ handlesClosed' \in BOOLEAN /\ close' \in BOOLEAN
        /\ deferred' \in BOOLEAN /\ stopRequested' \in BOOLEAN /\ timer' \in BOOLEAN
    BY DEF WorkerInv, ControlInv, StageTypes, RequestStop, Quiet, InstallInFlight, opening,
       running, IntegratedServerStopped, writing, data
  <2>3. /\ unread' \subseteq Saved /\ handles' \subseteq {"db", "opfs"}
        /\ attempt' \in 0..2
    BY DEF WorkerInv, ControlInv, StageTypes, RequestStop, Quiet, InstallInFlight, opening,
       running, IntegratedServerStopped, writing, data
  <2>4. faults' \in 0..MaxFaults
    <3>1. faults' = faults \/ (faults < MaxFaults /\ faults' = faults + 1)
      BY DEF RequestStop, Fault
    <3> QED
      BY <3>1, FaultFacts DEF WorkerInv, ControlInv
  <2> QED
    BY <2>1, <2>2, <2>3, <2>4 DEF StageTypes
<1>3. StartOK' /\ CloseOK'
  BY DEF WorkerInv, ControlInv, StartOK, CloseOK, StageTypes, InstallInFlight, RequestStop,
     Quiet, opening, running, IntegratedServerStopped, writing, data
<1>4. ServerOK' /\ ClosedStaysClosed'
  BY DEF WorkerInv, ControlInv, StartOK, CloseOK, ServerOK, ClosedStaysClosed, StageTypes,
     RequestStop, Quiet, InstallInFlight, opening, running, IntegratedServerStopped, writing,
     data
<1>5. StoppedIsClean'
  BY DEF WorkerInv, StoppedIsClean, RequestStop, Quiet, InstallInFlight, opening, running,
     IntegratedServerStopped, writing, data
<1> QED
  BY <1>1, <1>2, <1>3, <1>4, <1>5 DEF WorkerInv, ControlInv

\* A server that is told to halt keeps the stop in its wait.
LEMMA PollRuntimeStep ==
  ASSUME WorkerInv, PollRuntime
  PROVE  WorkerInv'
<1>1. DataInv'
  BY DataStays DEF WorkerInv, PollRuntime, Quiet, InstallInFlight, opening,
     IntegratedServerStopped, closeState, running, writing, data
<1>2. StageTypes'
  BY BoundsAreNat DEF WorkerInv, ControlInv, StageTypes, PollRuntime, Quiet, InstallInFlight,
     opening, IntegratedServerStopped, closeState, running, writing, data
<1>3. StartOK' /\ CloseOK'
  BY DEF WorkerInv, ControlInv, StartOK, CloseOK, StageTypes, InstallInFlight, PollRuntime,
     Quiet, opening, IntegratedServerStopped, closeState, running, writing, data
<1>4. ServerOK' /\ ClosedStaysClosed'
  BY DEF WorkerInv, ControlInv, StartOK, CloseOK, ServerOK, ClosedStaysClosed, StageTypes,
     PollRuntime, Quiet, InstallInFlight, opening, IntegratedServerStopped, closeState, running,
     writing, data
<1>5. StoppedIsClean'
  BY DEF WorkerInv, StoppedIsClean, PollRuntime, Quiet, InstallInFlight, opening,
     IntegratedServerStopped, closeState, running, writing, data
<1> QED
  BY <1>1, <1>2, <1>3, <1>4, <1>5 DEF WorkerInv, ControlInv

\* The aborted flush is given up.
LEMMA SettleTimesOutStep ==
  ASSUME WorkerInv, SettleTimesOut
  PROVE  WorkerInv'
<1>1. DataInv'
  BY DataStays DEF WorkerInv, SettleTimesOut, Quiet, InstallInFlight, opening, closeState,
     running, writing, data
<1>2. StageTypes'
  BY BoundsAreNat DEF WorkerInv, ControlInv, StageTypes, SettleTimesOut, Quiet, InstallInFlight,
     opening, closeState, running, writing, data
<1>3. StartOK' /\ CloseOK'
  BY DEF WorkerInv, ControlInv, StartOK, CloseOK, StageTypes, InstallInFlight, SettleTimesOut,
     Quiet, opening, closeState, running, writing, data
<1>4. ServerOK' /\ ClosedStaysClosed'
  BY DEF WorkerInv, ControlInv, StartOK, CloseOK, ServerOK, ClosedStaysClosed, StageTypes,
     SettleTimesOut, Quiet, InstallInFlight, opening, closeState, running, writing, data
<1>5. StoppedIsClean'
  BY DEF WorkerInv, StoppedIsClean, SettleTimesOut, Quiet, InstallInFlight, opening, closeState,
     running, writing, data
<1> QED
  BY <1>1, <1>2, <1>3, <1>4, <1>5 DEF WorkerInv, ControlInv

\* A flush that left something behind is repeated once.
LEMMA FlushedStep ==
  ASSUME WorkerInv, Flushed
  PROVE  WorkerInv'
<1>1. DataInv'
  BY DataStays DEF WorkerInv, Flushed, Clean, Nothing, Paths, NoChange, opening, closeState,
     running, writing, data
<1>2. StageTypes'
  BY BoundsAreNat DEF WorkerInv, ControlInv, StageTypes, Flushed, Clean, Nothing, Paths,
     NoChange, opening, closeState, running, writing, data
<1>3. StartOK' /\ CloseOK'
  BY DEF WorkerInv, ControlInv, StartOK, CloseOK, StageTypes, InstallInFlight, Flushed, Clean,
     Nothing, Paths, NoChange, opening, closeState, running, writing, data
<1>4. ServerOK' /\ ClosedStaysClosed'
  BY DEF WorkerInv, ControlInv, StartOK, CloseOK, ServerOK, ClosedStaysClosed, StageTypes,
     Flushed, Clean, Nothing, Paths, NoChange, opening, closeState, running, writing, data
<1>5. StoppedIsClean'
  BY DEF WorkerInv, StoppedIsClean, Flushed, Clean, Nothing, Paths, NoChange, opening,
     closeState, running, writing, data
<1> QED
  BY <1>1, <1>2, <1>3, <1>4, <1>5 DEF WorkerInv, ControlInv

\* Handles are closed over clean storage, and not under an installation.
LEMMA ClosePersistentStorageStep ==
  ASSUME WorkerInv, ClosePersistentStorage
  PROVE  WorkerInv'
<1>1. DataInv'
  BY DataStays DEF WorkerInv, ClosePersistentStorage, InstallInFlight, opening,
     CloseStorageHandles, Clean, Nothing, Paths, NoChange, CloseAnswered, running, writing, data
<1>2. StageTypes'
  <2>1. /\ startup' \in {"idle", "waiting", "loading", "failing", "crashing", "crashed",
                         "cancelled", "running"}
        /\ asset' \in {"none", "loading", "ready", "failed"}
        /\ install' \in {"none", "opening", "opfs", "reading", "deleting", "done", "ended"}
        /\ server' \in {"none", "booting", "up", "halting", "exited", "failed"}
        /\ serverFlush' \in {"none", "pending", "done"}
        /\ stop' \in {"none", "runtime", "flush", "flushing", "settling", "flushed",
                      "unflushed", "close", "closing", "stopped", "failed"}
    BY DEF WorkerInv, ControlInv, StageTypes, ClosePersistentStorage, InstallInFlight, opening,
       CloseStorageHandles, Clean, Nothing, Paths, NoChange, CloseAnswered, running, writing,
       data
  <2>2. /\ barrier' \in BOOLEAN /\ handlesClosed' \in BOOLEAN /\ close' \in BOOLEAN
        /\ deferred' \in BOOLEAN /\ stopRequested' \in BOOLEAN /\ timer' \in BOOLEAN
    BY DEF WorkerInv, ControlInv, StageTypes, ClosePersistentStorage, InstallInFlight, opening,
       CloseStorageHandles, Clean, Nothing, Paths, NoChange, CloseAnswered, running, writing,
       data
  <2>3. /\ unread' \subseteq Saved /\ handles' \subseteq {"db", "opfs"}
        /\ attempt' \in 0..2
    BY DEF WorkerInv, ControlInv, StageTypes, ClosePersistentStorage, InstallInFlight, opening,
       CloseStorageHandles, Clean, Nothing, Paths, NoChange, CloseAnswered, running, writing,
       data
  <2>4. faults' \in 0..MaxFaults
    <3>1. faults' = faults \/ (faults < MaxFaults /\ faults' = faults + 1)
      BY DEF ClosePersistentStorage, Fault
    <3> QED
      BY <3>1, FaultFacts DEF WorkerInv, ControlInv
  <2> QED
    BY <2>1, <2>2, <2>3, <2>4 DEF StageTypes
<1>3. StartOK' /\ CloseOK'
  BY DEF WorkerInv, ControlInv, StartOK, CloseOK, StageTypes, InstallInFlight,
     ClosePersistentStorage, opening, CloseStorageHandles, Clean, Nothing, Paths, NoChange,
     CloseAnswered, running, writing, data
<1>4. ServerOK' /\ ClosedStaysClosed'
  BY DEF WorkerInv, ControlInv, StartOK, CloseOK, ServerOK, ClosedStaysClosed, StageTypes,
     ClosePersistentStorage, InstallInFlight, opening, CloseStorageHandles, Clean, Nothing,
     Paths, NoChange, CloseAnswered, running, writing, data
<1>5. StoppedIsClean'
  <2> SUFFICES ASSUME stop' = "stopped"
               PROVE  /\ handles' = {} /\ handlesClosed' /\ barrier' /\ ~InstallInFlight'
                      /\ flush' = "idle" /\ txn' = "none" /\ ~opfsDirty'
                      /\ stored' = latest'
    BY DEF StoppedIsClean
  <2>1. UNCHANGED << install, writing, data >>
    BY DEF ClosePersistentStorage
  <2>2. CASE stop = "stopped"
    BY <2>1, <2>2
    DEF WorkerInv, ControlInv, StartOK, StoppedIsClean, ClosePersistentStorage, CloseStorageHandles,
        CloseAnswered, InstallInFlight, writing, data
  <2>3. CASE stop # "stopped"
    <3>1. handlesClosed' /\ Clean /\ ~InstallInFlight /\ barrier'
      BY <2>1, <2>3
      DEF WorkerInv, ControlInv, CloseOK, ClosePersistentStorage, CloseAnswered, Clean, writing
    <3>2. handles' = {}
      BY <3>1, <2>3
      DEF WorkerInv, ControlInv, ClosedStaysClosed, ClosePersistentStorage, CloseStorageHandles,
          CloseAnswered
    <3> QED
      BY <2>1, <3>1, <3>2, CleanIsStored DEF WorkerInv, InstallInFlight, writing, data
  <2> QED
    BY <2>2, <2>3
<1> QED
  BY <1>1, <1>2, <1>3, <1>4, <1>5 DEF WorkerInv, ControlInv

\* The installation is over and the close goes on.
LEMMA CloseResumesStep ==
  ASSUME WorkerInv, CloseResumes
  PROVE  WorkerInv'
<1>1. DataInv'
  BY DataStays DEF WorkerInv, CloseResumes, InstallInFlight, opening, CloseStorageHandles,
     Clean, Nothing, Paths, NoChange, CloseAnswered, running, writing, data
<1>2. StageTypes'
  <2>1. /\ startup' \in {"idle", "waiting", "loading", "failing", "crashing", "crashed",
                         "cancelled", "running"}
        /\ asset' \in {"none", "loading", "ready", "failed"}
        /\ install' \in {"none", "opening", "opfs", "reading", "deleting", "done", "ended"}
        /\ server' \in {"none", "booting", "up", "halting", "exited", "failed"}
        /\ serverFlush' \in {"none", "pending", "done"}
        /\ stop' \in {"none", "runtime", "flush", "flushing", "settling", "flushed",
                      "unflushed", "close", "closing", "stopped", "failed"}
    BY DEF WorkerInv, ControlInv, StageTypes, CloseResumes, InstallInFlight, opening,
       CloseStorageHandles, Clean, Nothing, Paths, NoChange, CloseAnswered, running, writing,
       data
  <2>2. /\ barrier' \in BOOLEAN /\ handlesClosed' \in BOOLEAN /\ close' \in BOOLEAN
        /\ deferred' \in BOOLEAN /\ stopRequested' \in BOOLEAN /\ timer' \in BOOLEAN
    BY DEF WorkerInv, ControlInv, StageTypes, CloseResumes, InstallInFlight, opening,
       CloseStorageHandles, Clean, Nothing, Paths, NoChange, CloseAnswered, running, writing,
       data
  <2>3. /\ unread' \subseteq Saved /\ handles' \subseteq {"db", "opfs"}
        /\ attempt' \in 0..2
    BY DEF WorkerInv, ControlInv, StageTypes, CloseResumes, InstallInFlight, opening,
       CloseStorageHandles, Clean, Nothing, Paths, NoChange, CloseAnswered, running, writing,
       data
  <2>4. faults' \in 0..MaxFaults
    <3>1. faults' = faults \/ (faults < MaxFaults /\ faults' = faults + 1)
      BY DEF CloseResumes, Fault
    <3> QED
      BY <3>1, FaultFacts DEF WorkerInv, ControlInv
  <2> QED
    BY <2>1, <2>2, <2>3, <2>4 DEF StageTypes
<1>3. StartOK' /\ CloseOK'
  BY DEF WorkerInv, ControlInv, StartOK, CloseOK, StageTypes, InstallInFlight, CloseResumes,
     opening, CloseStorageHandles, Clean, Nothing, Paths, NoChange, CloseAnswered, running,
     writing, data
<1>4. ServerOK' /\ ClosedStaysClosed'
  BY DEF WorkerInv, ControlInv, StartOK, CloseOK, ServerOK, ClosedStaysClosed, StageTypes,
     CloseResumes, InstallInFlight, opening, CloseStorageHandles, Clean, Nothing, Paths,
     NoChange, CloseAnswered, running, writing, data
<1>5. StoppedIsClean'
  <2> SUFFICES ASSUME stop' = "stopped"
               PROVE  /\ handles' = {} /\ handlesClosed' /\ barrier' /\ ~InstallInFlight'
                      /\ flush' = "idle" /\ txn' = "none" /\ ~opfsDirty'
                      /\ stored' = latest'
    BY DEF StoppedIsClean
  <2>1. UNCHANGED << install, writing, data >>
    BY DEF CloseResumes
  <2>2. CASE stop = "stopped"
    BY <2>1, <2>2
    DEF WorkerInv, ControlInv, StartOK, StoppedIsClean, CloseResumes, CloseStorageHandles,
        CloseAnswered, InstallInFlight, writing, data
  <2>3. CASE stop # "stopped"
    <3>1. handlesClosed' /\ Clean /\ ~InstallInFlight /\ barrier'
      BY <2>1, <2>3
      DEF WorkerInv, ControlInv, CloseOK, CloseResumes, CloseAnswered, Clean, writing
    <3>2. handles' = {}
      BY <3>1, <2>3
      DEF WorkerInv, ControlInv, ClosedStaysClosed, CloseResumes, CloseStorageHandles,
          CloseAnswered
    <3> QED
      BY <2>1, <3>1, <3>2, CleanIsStored DEF WorkerInv, InstallInFlight, writing, data
  <2> QED
    BY <2>2, <2>3
<1> QED
  BY <1>1, <1>2, <1>3, <1>4, <1>5 DEF WorkerInv, ControlInv

\* A close that waits too long is left to a retry.
LEMMA CloseTimesOutStep ==
  ASSUME WorkerInv, CloseTimesOut
  PROVE  WorkerInv'
<1>1. DataInv'
  BY DataStays DEF WorkerInv, CloseTimesOut, Quiet, InstallInFlight, opening, running, writing,
     data
<1>2. StageTypes'
  <2>1. /\ startup' \in {"idle", "waiting", "loading", "failing", "crashing", "crashed",
                         "cancelled", "running"}
        /\ asset' \in {"none", "loading", "ready", "failed"}
        /\ install' \in {"none", "opening", "opfs", "reading", "deleting", "done", "ended"}
        /\ server' \in {"none", "booting", "up", "halting", "exited", "failed"}
        /\ serverFlush' \in {"none", "pending", "done"}
        /\ stop' \in {"none", "runtime", "flush", "flushing", "settling", "flushed",
                      "unflushed", "close", "closing", "stopped", "failed"}
    BY DEF WorkerInv, ControlInv, StageTypes, CloseTimesOut, Quiet, InstallInFlight, opening,
       running, writing, data
  <2>2. /\ barrier' \in BOOLEAN /\ handlesClosed' \in BOOLEAN /\ close' \in BOOLEAN
        /\ deferred' \in BOOLEAN /\ stopRequested' \in BOOLEAN /\ timer' \in BOOLEAN
    BY DEF WorkerInv, ControlInv, StageTypes, CloseTimesOut, Quiet, InstallInFlight, opening,
       running, writing, data
  <2>3. /\ unread' \subseteq Saved /\ handles' \subseteq {"db", "opfs"}
        /\ attempt' \in 0..2
    BY DEF WorkerInv, ControlInv, StageTypes, CloseTimesOut, Quiet, InstallInFlight, opening,
       running, writing, data
  <2>4. faults' \in 0..MaxFaults
    <3>1. faults' = faults \/ (faults < MaxFaults /\ faults' = faults + 1)
      BY DEF CloseTimesOut, Fault
    <3> QED
      BY <3>1, FaultFacts DEF WorkerInv, ControlInv
  <2> QED
    BY <2>1, <2>2, <2>3, <2>4 DEF StageTypes
<1>3. StartOK' /\ CloseOK'
  BY DEF WorkerInv, ControlInv, StartOK, CloseOK, StageTypes, InstallInFlight, CloseTimesOut,
     Quiet, opening, running, writing, data
<1>4. ServerOK' /\ ClosedStaysClosed'
  BY DEF WorkerInv, ControlInv, StartOK, CloseOK, ServerOK, ClosedStaysClosed, StageTypes,
     CloseTimesOut, Quiet, InstallInFlight, opening, running, writing, data
<1>5. StoppedIsClean'
  BY DEF WorkerInv, StoppedIsClean, CloseTimesOut, Quiet, InstallInFlight, opening, running,
     writing, data
<1> QED
  BY <1>1, <1>2, <1>3, <1>4, <1>5 DEF WorkerInv, ControlInv

\* The retry closes storage that is clean.
LEMMA DeferredCloseStep ==
  ASSUME WorkerInv, DeferredClose
  PROVE  WorkerInv'
<1>1. DataInv'
  BY DataStays DEF WorkerInv, DeferredClose, InstallInFlight, opening, CloseStorageHandles,
     Clean, Nothing, Paths, NoChange, running, ending, writing, data
<1>2. StageTypes'
  <2>1. /\ startup' \in {"idle", "waiting", "loading", "failing", "crashing", "crashed",
                         "cancelled", "running"}
        /\ asset' \in {"none", "loading", "ready", "failed"}
        /\ install' \in {"none", "opening", "opfs", "reading", "deleting", "done", "ended"}
        /\ server' \in {"none", "booting", "up", "halting", "exited", "failed"}
        /\ serverFlush' \in {"none", "pending", "done"}
        /\ stop' \in {"none", "runtime", "flush", "flushing", "settling", "flushed",
                      "unflushed", "close", "closing", "stopped", "failed"}
    BY DEF WorkerInv, ControlInv, StageTypes, DeferredClose, InstallInFlight, opening,
       CloseStorageHandles, Clean, Nothing, Paths, NoChange, running, ending, writing, data
  <2>2. /\ barrier' \in BOOLEAN /\ handlesClosed' \in BOOLEAN /\ close' \in BOOLEAN
        /\ deferred' \in BOOLEAN /\ stopRequested' \in BOOLEAN /\ timer' \in BOOLEAN
    BY DEF WorkerInv, ControlInv, StageTypes, DeferredClose, InstallInFlight, opening,
       CloseStorageHandles, Clean, Nothing, Paths, NoChange, running, ending, writing, data
  <2>3. /\ unread' \subseteq Saved /\ handles' \subseteq {"db", "opfs"}
        /\ attempt' \in 0..2
    BY DEF WorkerInv, ControlInv, StageTypes, DeferredClose, InstallInFlight, opening,
       CloseStorageHandles, Clean, Nothing, Paths, NoChange, running, ending, writing, data
  <2>4. faults' \in 0..MaxFaults
    <3>1. faults' = faults \/ (faults < MaxFaults /\ faults' = faults + 1)
      BY DEF DeferredClose, Fault
    <3> QED
      BY <3>1, FaultFacts DEF WorkerInv, ControlInv
  <2> QED
    BY <2>1, <2>2, <2>3, <2>4 DEF StageTypes
<1>3. StartOK' /\ CloseOK'
  BY DEF WorkerInv, ControlInv, StartOK, CloseOK, StageTypes, InstallInFlight, DeferredClose,
     opening, CloseStorageHandles, Clean, Nothing, Paths, NoChange, running, ending, writing,
     data
<1>4. ServerOK' /\ ClosedStaysClosed'
  BY DEF WorkerInv, ControlInv, StartOK, CloseOK, ServerOK, ClosedStaysClosed, StageTypes,
     DeferredClose, InstallInFlight, opening, CloseStorageHandles, Clean, Nothing, Paths,
     NoChange, running, ending, writing, data
<1>5. StoppedIsClean'
  BY DEF WorkerInv, StoppedIsClean, DeferredClose, InstallInFlight, opening,
     CloseStorageHandles, Clean, Nothing, Paths, NoChange, running, ending, writing, data
<1> QED
  BY <1>1, <1>2, <1>3, <1>4, <1>5 DEF WorkerInv, ControlInv

\* The timer starts a flush.
LEMMA FlushTimerStep ==
  ASSUME WorkerInv, FlushTimer
  PROVE  WorkerInv'
<1>1. DataInv'
  BY FlushFacts DEF WorkerInv, ControlInv, FlushTimer, data
<1>2. StageTypes'
  <2>1. PICK outcome \in {"ok", "failed", "none"} : Answer(outcome, FALSE)
    BY FlushFacts DEF WorkerInv, ControlInv, FlushTimer
  <2>2. timer' \in BOOLEAN /\ faults' \in 0..MaxFaults
    BY FlushFacts DEF WorkerInv, ControlInv, FlushTimer
  <2>3. server' \in {server, "exited"} /\ UNCHANGED << opening, closeState, stopRequested, attempt >>
    BY DEF FlushTimer
  <2>4. /\ stop' \in {"none", "runtime", "flush", "flushing", "settling", "flushed",
                      "unflushed", "close", "closing", "stopped", "failed"}
        /\ serverFlush' \in {"none", "pending", "done"}
    BY <2>1, AnswerFacts DEF WorkerInv, ControlInv
  <2> QED
    BY <2>2, <2>3, <2>4 DEF WorkerInv, ControlInv, StageTypes, opening, closeState
<1>3. StartOK' /\ CloseOK'
  BY DEF WorkerInv, ControlInv, StartOK, CloseOK, StageTypes, InstallInFlight, FlushTimer,
     Quiet, opening, FlushPendingChanges, running, Answer, writing, Turn, Fault, Settled,
     Nothing, Paths, NoChange, Marked, closeState, data
<1>4. ServerOK' /\ ClosedStaysClosed'
  BY DEF WorkerInv, ControlInv, StartOK, CloseOK, ServerOK, ClosedStaysClosed, StageTypes,
     FlushTimer, Quiet, InstallInFlight, opening, FlushPendingChanges, running, Answer, writing,
     Turn, Fault, Settled, Nothing, Paths, NoChange, Marked, closeState, data
<1>5. StoppedIsClean'
  BY DEF WorkerInv, StoppedIsClean, FlushTimer, Quiet, InstallInFlight, opening,
     FlushPendingChanges, running, Answer, writing, Turn, Fault, Settled, Nothing, Paths,
     NoChange, Marked, closeState, data
<1> QED
  BY <1>1, <1>2, <1>3, <1>4, <1>5 DEF WorkerInv, ControlInv

\* The stop starts a flush or joins the one that runs.
LEMMA FlushForShutdownStep ==
  ASSUME WorkerInv, FlushForShutdown
  PROVE  WorkerInv'
<1>1. DataInv'
  BY FlushFacts DEF WorkerInv, ControlInv, FlushForShutdown, data
<1>2. StageTypes'
  <2>1. PICK outcome \in {"ok", "failed", "none"} : Answer(outcome, FALSE)
    BY FlushFacts DEF WorkerInv, ControlInv, FlushForShutdown
  <2>2. timer' \in BOOLEAN /\ faults' \in 0..MaxFaults
    BY FlushFacts DEF WorkerInv, ControlInv, FlushForShutdown
  <2>3. server' \in {server, "exited"} /\ UNCHANGED << opening, closeState, stopRequested, attempt >>
    BY DEF FlushForShutdown
  <2>4. /\ stop' \in {"none", "runtime", "flush", "flushing", "settling", "flushed",
                      "unflushed", "close", "closing", "stopped", "failed"}
        /\ serverFlush' \in {"none", "pending", "done"}
    BY <2>1, AnswerFacts DEF WorkerInv, ControlInv
  <2> QED
    BY <2>2, <2>3, <2>4 DEF WorkerInv, ControlInv, StageTypes, opening, closeState
<1>3. StartOK' /\ CloseOK'
  BY DEF WorkerInv, ControlInv, StartOK, CloseOK, StageTypes, InstallInFlight, FlushForShutdown,
     FlushPendingChanges, running, Answer, writing, Turn, Fault, Settled, Nothing, Paths,
     NoChange, Marked, opening, closeState, data
<1>4. ServerOK' /\ ClosedStaysClosed'
  BY DEF WorkerInv, ControlInv, StartOK, CloseOK, ServerOK, ClosedStaysClosed, StageTypes,
     FlushForShutdown, FlushPendingChanges, running, Answer, writing, Turn, Fault, Settled,
     Nothing, Paths, NoChange, Marked, opening, closeState, data
<1>5. StoppedIsClean'
  BY DEF WorkerInv, StoppedIsClean, FlushForShutdown, FlushPendingChanges, running, Answer,
     writing, Turn, Fault, Settled, Nothing, Paths, NoChange, Marked, opening, closeState, data
<1> QED
  BY <1>1, <1>2, <1>3, <1>4, <1>5 DEF WorkerInv, ControlInv

\* A transaction's end is noticed.
LEMMA TransactionSettlesStep ==
  ASSUME WorkerInv, TransactionSettles
  PROVE  WorkerInv'
<1>1. DataInv'
  <2>1. UNCHANGED data
    BY DEF TransactionSettles
  <2>2. CASE txn = "aborted" /\ BatchFails(cache)
    BY <2>1, <2>2, BatchFailsData DEF WorkerInv, DataInv
  <2>3. CASE txn = "committed" /\ (BatchFails(Cleaned(cache)) \/ Turn(Cleaned(cache), FALSE))
    <3>1. CacheTypes(Cleaned(cache)) /\ StoredOrDirty(Cleaned(cache)) /\ Drained
      BY <2>3, CleanedFacts, DrainedFacts DEF WorkerInv
    <3> QED
      BY <2>1, <2>3, <3>1, BatchFailsData, TurnData DEF WorkerInv
  <2> QED
    BY <2>2, <2>3 DEF TransactionSettles
<1>2. StageTypes'
  <2>1. PICK outcome \in {"ok", "failed", "none"} : Answer(outcome, FALSE)
    BY TurnAnswers DEF WorkerInv, ControlInv, TransactionSettles, BatchFails, Settled
  <2>2. faults' \in 0..MaxFaults
    BY TurnAnswers DEF WorkerInv, ControlInv, StageTypes, TransactionSettles, BatchFails
  <2>3. UNCHANGED << opening, closeState, server, stopRequested, attempt, timer >>
    BY DEF TransactionSettles
  <2>4. /\ stop' \in {"none", "runtime", "flush", "flushing", "settling", "flushed",
                      "unflushed", "close", "closing", "stopped", "failed"}
        /\ serverFlush' \in {"none", "pending", "done"}
    BY <2>1, AnswerFacts DEF WorkerInv, ControlInv
  <2> QED
    BY <2>2, <2>3, <2>4 DEF WorkerInv, ControlInv, StageTypes, opening, closeState
<1>3. StartOK' /\ CloseOK'
  BY DEF WorkerInv, ControlInv, StartOK, CloseOK, StageTypes, InstallInFlight,
     TransactionSettles, Quiet, opening, BatchFails, Requeue, Paths, NoChange, Nothing, Settled,
     Answer, Cleaned, Turn, Fault, Marked, running, closeState, data
<1>4. ServerOK' /\ ClosedStaysClosed'
  BY DEF WorkerInv, ControlInv, StartOK, CloseOK, ServerOK, ClosedStaysClosed, StageTypes,
     TransactionSettles, Quiet, InstallInFlight, opening, BatchFails, Requeue, Paths, NoChange,
     Nothing, Settled, Answer, Cleaned, Turn, Fault, Marked, running, closeState, data
<1>5. StoppedIsClean'
  BY DEF WorkerInv, StoppedIsClean, TransactionSettles, Quiet, InstallInFlight, opening,
     BatchFails, Requeue, Paths, NoChange, Nothing, Settled, Answer, Cleaned, Turn, Fault,
     Marked, running, closeState, data
<1> QED
  BY <1>1, <1>2, <1>3, <1>4, <1>5 DEF WorkerInv, ControlInv

\* The exiting server asks for a flush.
LEMMA ServerExitsStep ==
  ASSUME WorkerInv, ServerExits
  PROVE  WorkerInv'
<1>1. DataInv'
  BY FlushFacts DEF WorkerInv, ControlInv, ServerExits, data
<1>2. StageTypes'
  <2>1. PICK outcome \in {"ok", "failed", "none"} : Answer(outcome, TRUE)
    BY FlushFacts DEF WorkerInv, ControlInv, ServerExits
  <2>2. timer' \in BOOLEAN /\ faults' \in 0..MaxFaults
    BY FlushFacts DEF WorkerInv, ControlInv, ServerExits
  <2>3. server' \in {server, "exited"} /\ UNCHANGED << opening, closeState, stopRequested, attempt >>
    BY DEF ServerExits
  <2>4. /\ stop' \in {"none", "runtime", "flush", "flushing", "settling", "flushed",
                      "unflushed", "close", "closing", "stopped", "failed"}
        /\ serverFlush' \in {"none", "pending", "done"}
    BY <2>1, AnswerFacts DEF WorkerInv, ControlInv
  <2> QED
    BY <2>2, <2>3, <2>4 DEF WorkerInv, ControlInv, StageTypes, opening, closeState
<1>3. StartOK' /\ CloseOK'
  BY DEF WorkerInv, ControlInv, StartOK, CloseOK, StageTypes, InstallInFlight, ServerExits,
     Quiet, opening, Callbacks, FlushPendingChanges, running, Answer, writing, Turn, Fault,
     Settled, Nothing, Paths, NoChange, Marked, closeState, data
<1>4. ServerOK' /\ ClosedStaysClosed'
  BY DEF WorkerInv, ControlInv, StartOK, CloseOK, ServerOK, ClosedStaysClosed, StageTypes,
     ServerExits, Quiet, InstallInFlight, opening, Callbacks, FlushPendingChanges, running,
     Answer, writing, Turn, Fault, Settled, Nothing, Paths, NoChange, Marked, closeState, data
<1>5. StoppedIsClean'
  BY DEF WorkerInv, StoppedIsClean, ServerExits, Quiet, InstallInFlight, opening, Callbacks,
     FlushPendingChanges, running, Answer, writing, Turn, Fault, Settled, Nothing, Paths,
     NoChange, Marked, closeState, data
<1> QED
  BY <1>1, <1>2, <1>3, <1>4, <1>5 DEF WorkerInv, ControlInv

\* The database commits a batch.
LEMMA CommitStep ==
  ASSUME WorkerInv, Commit
  PROVE  WorkerInv'
<1>1. DataInv'
  BY CommitData DEF WorkerInv
<1>2. StageTypes'
  BY BoundsAreNat DEF WorkerInv, ControlInv, StageTypes, Commit, Paths, NoChange, opening,
     closeState, running, ending
<1>3. StartOK' /\ CloseOK'
  BY DEF WorkerInv, ControlInv, StartOK, CloseOK, StageTypes, InstallInFlight, Commit, Paths,
     NoChange, opening, closeState, running, ending
<1>4. ServerOK' /\ ClosedStaysClosed'
  BY DEF WorkerInv, ControlInv, StartOK, CloseOK, ServerOK, ClosedStaysClosed, StageTypes,
     Commit, Paths, NoChange, opening, closeState, running, ending
<1>5. StoppedIsClean'
  BY DEF WorkerInv, StoppedIsClean, Commit, Paths, NoChange, opening, closeState, running,
     ending
<1> QED
  BY <1>1, <1>2, <1>3, <1>4, <1>5 DEF WorkerInv, ControlInv

\* The database gives a batch up.
LEMMA TransactionFailsStep ==
  ASSUME WorkerInv, TransactionFails
  PROVE  WorkerInv'
<1>1. DataInv'
  <2>1. /\ txn' \in {txn, "aborted"} /\ (txn' # txn => txn = "active")
        /\ abortRequested' \in BOOLEAN
        /\ UNCHANGED << pending, batch, flush, opfsDirty, cache, stored, latest, changeVersion >>
    BY DEF WorkerInv, DataInv, WriteTypes, TransactionFails, data
  <2> QED
    BY <2>1, AbortData DEF WorkerInv
<1>2. StageTypes'
  BY BoundsAreNat DEF WorkerInv, ControlInv, StageTypes, TransactionFails, Fault, opening,
     closeState, running, ending, data
<1>3. StartOK' /\ CloseOK'
  BY DEF WorkerInv, ControlInv, StartOK, CloseOK, StageTypes, InstallInFlight, TransactionFails,
     Fault, opening, closeState, running, ending, data
<1>4. ServerOK' /\ ClosedStaysClosed'
  BY DEF WorkerInv, ControlInv, StartOK, CloseOK, ServerOK, ClosedStaysClosed, StageTypes,
     TransactionFails, Fault, opening, closeState, running, ending, data
<1>5. StoppedIsClean'
  BY DEF WorkerInv, StoppedIsClean, TransactionFails, Fault, opening, closeState, running,
     ending, data
<1> QED
  BY <1>1, <1>2, <1>3, <1>4, <1>5 DEF WorkerInv, ControlInv

\* A slow transaction is aborted, unless it is committed.
LEMMA FlushWatchdogStep ==
  ASSUME WorkerInv, FlushWatchdog
  PROVE  WorkerInv'
<1>1. DataInv'
  <2>1. /\ txn' \in {txn, "aborted"} /\ (txn' # txn => txn = "active")
        /\ abortRequested' \in BOOLEAN
        /\ UNCHANGED << pending, batch, flush, opfsDirty, cache, stored, latest, changeVersion >>
    BY DEF WorkerInv, DataInv, WriteTypes, FlushWatchdog, data
  <2> QED
    BY <2>1, AbortData DEF WorkerInv
<1>2. StageTypes'
  BY BoundsAreNat DEF WorkerInv, ControlInv, StageTypes, FlushWatchdog, Quiet, InstallInFlight,
     opening, closeState, running, data
<1>3. StartOK' /\ CloseOK'
  BY DEF WorkerInv, ControlInv, StartOK, CloseOK, StageTypes, InstallInFlight, FlushWatchdog,
     Quiet, opening, closeState, running, data
<1>4. ServerOK' /\ ClosedStaysClosed'
  BY DEF WorkerInv, ControlInv, StartOK, CloseOK, ServerOK, ClosedStaysClosed, StageTypes,
     FlushWatchdog, Quiet, InstallInFlight, opening, closeState, running, data
<1>5. StoppedIsClean'
  BY DEF WorkerInv, StoppedIsClean, FlushWatchdog, Quiet, InstallInFlight, opening, closeState,
     running, data
<1> QED
  BY <1>1, <1>2, <1>3, <1>4, <1>5 DEF WorkerInv, ControlInv

\* A file is queued.
LEMMA PutStep ==
  ASSUME WorkerInv, NEW p \in Paths, Put(p)
  PROVE  WorkerInv'
<1>1. DataInv'
  <2>1. CacheTypes(cache') /\ StoredOrDirty(cache')
    BY DEF WorkerInv, DataInv, Put, CacheTypes, StoredOrDirty
  <2> QED
    BY <2>1, QueueData DEF WorkerInv, DataInv, WriteTypes, Put, Accepting
<1>2. StageTypes'
  <2>1. timer' \in BOOLEAN
    BY DEF WorkerInv, ControlInv, StageTypes, Put, Queue
  <2>2. faults' \in 0..MaxFaults
    <3>1. faults' = faults \/ (faults < MaxFaults /\ faults' = faults + 1)
      BY DEF Put, Fault
    <3> QED
      BY <3>1, FaultFacts DEF WorkerInv, ControlInv
  <2>3. UNCHANGED << opening, closeState, running, ending >>
    BY DEF Put
  <2> QED
    BY <2>1, <2>2, <2>3
    DEF WorkerInv, ControlInv, StageTypes, opening, closeState, running, ending
<1>3. StartOK' /\ CloseOK'
  BY DEF WorkerInv, ControlInv, StartOK, CloseOK, StageTypes, InstallInFlight, Put, Accepting,
     Quiet, opening, JavaRuns, Callbacks, Queue, closeState, running, ending
<1>4. ServerOK' /\ ClosedStaysClosed'
  BY DEF WorkerInv, ControlInv, StartOK, CloseOK, ServerOK, ClosedStaysClosed, StageTypes, Put,
     Accepting, Quiet, InstallInFlight, opening, JavaRuns, Callbacks, Queue, closeState,
     running, ending
<1>5. StoppedIsClean'
  BY DEF WorkerInv, StoppedIsClean, Put, Accepting, Quiet, InstallInFlight, opening, JavaRuns,
     Callbacks, Queue, closeState, running, ending
<1> QED
  BY <1>1, <1>2, <1>3, <1>4, <1>5 DEF WorkerInv, ControlInv

\* A region is cached and queued; a dirty entry keeps its place.
LEMMA PutRegionStep ==
  ASSUME WorkerInv, NEW p \in Paths, PutRegion(p)
  PROVE  WorkerInv'
<1>1. DataInv'
  <2>1. changeVersion < MaxChanges /\ opfsDirty' \in BOOLEAN
        /\ UNCHANGED << batch, txn, flush, abortRequested, stored >>
    BY DEF WorkerInv, DataInv, WriteTypes, PutRegion, Accepting
  <2>2. CASE \E victims \in Victims(p) :
               Cache(p, Entry(changeVersion + 1, TRUE, FALSE), victims) /\ Queue(p, TRUE)
    <3>1. PICK victims \in Victims(p) :
            Cache(p, Entry(changeVersion + 1, TRUE, FALSE), victims) /\ Queue(p, TRUE)
      BY <2>2
    <3>2. /\ Entry(changeVersion + 1, TRUE, FALSE) \in Entries
          /\ Entry(changeVersion + 1, TRUE, FALSE).dirty
      BY <2>1, BoundsAreNat DEF WorkerInv, DataInv, WriteTypes, Entry, Entries
    <3>3. CacheTypes(cache') /\ StoredOrDirty(cache')
      BY <2>1, <3>1, <3>2, CacheFacts DEF WorkerInv, PutRegion
    <3> QED
      BY <2>1, <3>1, <3>3, QueueData DEF WorkerInv
  <2>3. CASE Queue(p, FALSE) /\ UNCHANGED cache
    <3>1. CacheTypes(cache') /\ StoredOrDirty(cache')
      BY <2>3 DEF WorkerInv, DataInv, CacheTypes, StoredOrDirty
    <3> QED
      BY <2>1, <2>3, <3>1, QueueData DEF WorkerInv
  <2> QED
    BY <2>2, <2>3 DEF PutRegion
<1>2. StageTypes'
  <2>1. timer' \in BOOLEAN
    BY DEF WorkerInv, ControlInv, StageTypes, PutRegion, Queue
  <2>2. faults' \in 0..MaxFaults
    <3>1. faults' = faults \/ (faults < MaxFaults /\ faults' = faults + 1)
      BY DEF PutRegion, Fault
    <3> QED
      BY <3>1, FaultFacts DEF WorkerInv, ControlInv
  <2>3. UNCHANGED << opening, closeState, running, ending >>
    BY DEF PutRegion
  <2> QED
    BY <2>1, <2>2, <2>3
    DEF WorkerInv, ControlInv, StageTypes, opening, closeState, running, ending
<1>3. StartOK' /\ CloseOK'
  BY DEF WorkerInv, ControlInv, StartOK, CloseOK, StageTypes, InstallInFlight, PutRegion,
     Accepting, Quiet, opening, JavaRuns, Callbacks, Victims, Evictable, Cache, Entry, Queue,
     closeState, running, ending
<1>4. ServerOK' /\ ClosedStaysClosed'
  BY DEF WorkerInv, ControlInv, StartOK, CloseOK, ServerOK, ClosedStaysClosed, StageTypes,
     PutRegion, Accepting, Quiet, InstallInFlight, opening, JavaRuns, Callbacks, Victims,
     Evictable, Cache, Entry, Queue, closeState, running, ending
<1>5. StoppedIsClean'
  BY DEF WorkerInv, StoppedIsClean, PutRegion, Accepting, Quiet, InstallInFlight, opening,
     JavaRuns, Callbacks, Victims, Evictable, Cache, Entry, Queue, closeState, running, ending
<1> QED
  BY <1>1, <1>2, <1>3, <1>4, <1>5 DEF WorkerInv, ControlInv

\* A region leaves the cache when its deletion is queued.
LEMMA DeleteRegionStep ==
  ASSUME WorkerInv, NEW p \in Paths, DeleteRegion(p)
  PROVE  WorkerInv'
<1>1. DataInv'
  <2>1. changeVersion < MaxChanges /\ opfsDirty' \in BOOLEAN
        /\ UNCHANGED << batch, txn, flush, abortRequested, stored >>
    BY DEF WorkerInv, DataInv, WriteTypes, DeleteRegion, Accepting
  <2>2. CASE UNCHANGED << pending, latest, changeVersion, timer, cache >>
    BY <2>1, <2>2
    DEF WorkerInv, DataInv, WriteTypes, CacheTypes, StoredOrDirty, FlushOK, VersionsOK,
        NoAcceptedChangeLost
  <2>3. CASE cache' = [q \in DOMAIN cache \ {p} |-> cache[q]] /\ Queue(p, TRUE)
    <3>1. DOMAIN cache' = DOMAIN cache \ {p} /\ \A q \in DOMAIN cache' : cache'[q] = cache[q]
      BY <2>3
    <3>2. /\ IsFiniteSet(DOMAIN cache') /\ Cardinality(DOMAIN cache') \in Nat
          /\ Cardinality(DOMAIN cache) \in Nat
          /\ Cardinality(DOMAIN cache') <= Cardinality(DOMAIN cache)
      BY <3>1, FS_Subset, FS_CardinalityType DEF WorkerInv, DataInv, CacheTypes
    <3>3. CacheTypes(cache')
      BY <3>1, <3>2, BoundsAreNat DEF WorkerInv, DataInv, CacheTypes
    <3>4. StoredOrDirty(cache')
      BY <3>1 DEF WorkerInv, DataInv, StoredOrDirty
    <3> QED
      BY <2>1, <2>3, <3>3, <3>4, QueueData DEF WorkerInv
  <2> QED
    BY <2>2, <2>3 DEF DeleteRegion
<1>2. StageTypes'
  <2>1. timer' \in BOOLEAN
    BY DEF WorkerInv, ControlInv, StageTypes, DeleteRegion, Queue
  <2>2. faults' \in 0..MaxFaults
    <3>1. faults' = faults \/ (faults < MaxFaults /\ faults' = faults + 1)
      BY DEF DeleteRegion, Fault
    <3> QED
      BY <3>1, FaultFacts DEF WorkerInv, ControlInv
  <2>3. UNCHANGED << opening, closeState, running, ending >>
    BY DEF DeleteRegion
  <2> QED
    BY <2>1, <2>2, <2>3
    DEF WorkerInv, ControlInv, StageTypes, opening, closeState, running, ending
<1>3. StartOK' /\ CloseOK'
  BY DEF WorkerInv, ControlInv, StartOK, CloseOK, StageTypes, InstallInFlight, DeleteRegion,
     Accepting, Quiet, opening, JavaRuns, Callbacks, Fault, Queue, closeState, running, ending
<1>4. ServerOK' /\ ClosedStaysClosed'
  BY DEF WorkerInv, ControlInv, StartOK, CloseOK, ServerOK, ClosedStaysClosed, StageTypes,
     DeleteRegion, Accepting, Quiet, InstallInFlight, opening, JavaRuns, Callbacks, Fault,
     Queue, closeState, running, ending
<1>5. StoppedIsClean'
  BY DEF WorkerInv, StoppedIsClean, DeleteRegion, Accepting, Quiet, InstallInFlight, opening,
     JavaRuns, Callbacks, Fault, Queue, closeState, running, ending
<1> QED
  BY <1>1, <1>2, <1>3, <1>4, <1>5 DEF WorkerInv, ControlInv

\* A region goes to the log, or is queued when that refuses it.
LEMMA AppendRegionStep ==
  ASSUME WorkerInv, NEW p \in Paths, AppendRegion(p)
  PROVE  WorkerInv'
<1>1. DataInv'
  <2>1. changeVersion < MaxChanges /\ opfsDirty' \in BOOLEAN
        /\ UNCHANGED << batch, txn, flush, abortRequested, cache, stored >>
    BY DEF AppendRegion, Accepting
  <2>2. CASE UNCHANGED << pending, latest, changeVersion, timer >>
    BY <2>1, <2>2
    DEF WorkerInv, DataInv, WriteTypes, CacheTypes, StoredOrDirty, FlushOK, VersionsOK,
        NoAcceptedChangeLost
  <2>3. CASE Queue(p, FALSE)
    <3>1. CacheTypes(cache') /\ StoredOrDirty(cache')
      BY <2>1 DEF WorkerInv, DataInv, CacheTypes, StoredOrDirty
    <3> QED
      BY <2>1, <2>3, <3>1, QueueData DEF WorkerInv
  <2> QED
    BY <2>2, <2>3 DEF AppendRegion
<1>2. StageTypes'
  <2>1. timer' \in BOOLEAN
    BY DEF WorkerInv, ControlInv, StageTypes, AppendRegion, Queue
  <2>2. faults' \in 0..MaxFaults
    <3>1. faults' = faults \/ (faults < MaxFaults /\ faults' = faults + 1)
      BY DEF AppendRegion, Fault
    <3> QED
      BY <3>1, FaultFacts DEF WorkerInv, ControlInv
  <2>3. UNCHANGED << opening, closeState, running, ending >>
    BY DEF AppendRegion
  <2> QED
    BY <2>1, <2>2, <2>3
    DEF WorkerInv, ControlInv, StageTypes, opening, closeState, running, ending
<1>3. StartOK' /\ CloseOK'
  BY DEF WorkerInv, ControlInv, StartOK, CloseOK, StageTypes, InstallInFlight, AppendRegion,
     Accepting, Quiet, opening, JavaRuns, Callbacks, Fault, Queue, closeState, running, ending
<1>4. ServerOK' /\ ClosedStaysClosed'
  BY DEF WorkerInv, ControlInv, StartOK, CloseOK, ServerOK, ClosedStaysClosed, StageTypes,
     AppendRegion, Accepting, Quiet, InstallInFlight, opening, JavaRuns, Callbacks, Fault,
     Queue, closeState, running, ending
<1>5. StoppedIsClean'
  BY DEF WorkerInv, StoppedIsClean, AppendRegion, Accepting, Quiet, InstallInFlight, opening,
     JavaRuns, Callbacks, Fault, Queue, closeState, running, ending
<1> QED
  BY <1>1, <1>2, <1>3, <1>4, <1>5 DEF WorkerInv, ControlInv

\* A row that is read is pinned in the cache until the start.
LEMMA ReadWorldFilesStep ==
  ASSUME WorkerInv, ReadWorldFiles
  PROVE  WorkerInv'
<1>1. DataInv'
  <2>1. UNCHANGED << pending, batch, txn, flush, abortRequested, stored, latest, changeVersion >>
        /\ opfsDirty' \in BOOLEAN
    BY DEF WorkerInv, DataInv, WriteTypes, ReadWorldFiles, data
  <2>2. CacheTypes(cache') /\ StoredOrDirty(cache')
    <3>1. CASE UNCHANGED cache
      BY <3>1 DEF WorkerInv, DataInv, CacheTypes, StoredOrDirty
    <3>2. CASE \E p \in unread : \E victims \in Victims(p) :
                 Cache(p, Entry(0, FALSE, TRUE), victims)
      <4>0. PICK p \in unread :
              \E victims \in Victims(p) : Cache(p, Entry(0, FALSE, TRUE), victims)
        BY <3>2
      <4>1. PICK victims \in Victims(p) : Cache(p, Entry(0, FALSE, TRUE), victims)
        BY <4>0
      <4>2. p \in Regions
        BY <4>0, PathsKnown DEF WorkerInv, ControlInv, StageTypes
      <4>3. Entry(0, FALSE, TRUE) \in Entries /\ Entry(0, FALSE, TRUE).version = 0
        BY BoundsAreNat DEF Entry, Entries
      <4> QED
        BY <2>1, <4>1, <4>2, <4>3, CacheFacts DEF WorkerInv
    <3> QED
      BY <3>1, <3>2 DEF ReadWorldFiles
  <2> QED
    BY <2>1, <2>2
    DEF WorkerInv, DataInv, WriteTypes, CacheTypes, StoredOrDirty, FlushOK, VersionsOK,
        NoAcceptedChangeLost
<1>2. StageTypes'
  <2>1. /\ startup' \in {"idle", "waiting", "loading", "failing", "crashing", "crashed",
                         "cancelled", "running"}
        /\ asset' \in {"none", "loading", "ready", "failed"}
        /\ install' \in {"none", "opening", "opfs", "reading", "deleting", "done", "ended"}
        /\ server' \in {"none", "booting", "up", "halting", "exited", "failed"}
        /\ serverFlush' \in {"none", "pending", "done"}
        /\ stop' \in {"none", "runtime", "flush", "flushing", "settling", "flushed",
                      "unflushed", "close", "closing", "stopped", "failed"}
    <3>1. startup' \in {startup, "failing"} /\ install' \in {install, "ended"}
      BY DEF ReadWorldFiles, Cancelled, Failing
    <3>2. UNCHANGED << asset, running, ending >>
      BY DEF ReadWorldFiles
    <3> QED
      BY <3>1, <3>2 DEF WorkerInv, ControlInv, StageTypes, running, ending
  <2>2. /\ barrier' \in BOOLEAN /\ handlesClosed' \in BOOLEAN /\ close' \in BOOLEAN
        /\ deferred' \in BOOLEAN /\ stopRequested' \in BOOLEAN /\ timer' \in BOOLEAN
    BY DEF WorkerInv, ControlInv, StageTypes, ReadWorldFiles, Quiet, InstallInFlight, opening,
       Cancelled, Failing, running, ending, data
  <2>3. /\ unread' \subseteq Saved /\ handles' \subseteq {"db", "opfs"}
        /\ attempt' \in 0..2
    BY DEF WorkerInv, ControlInv, StageTypes, ReadWorldFiles, Quiet, InstallInFlight, opening,
       Cancelled, Failing, running, ending, data
  <2>4. faults' \in 0..MaxFaults
    <3>1. faults' = faults \/ (faults < MaxFaults /\ faults' = faults + 1)
      BY DEF ReadWorldFiles, Fault
    <3> QED
      BY <3>1, FaultFacts DEF WorkerInv, ControlInv
  <2> QED
    BY <2>1, <2>2, <2>3, <2>4 DEF StageTypes
<1>3. StartOK' /\ CloseOK'
  BY DEF WorkerInv, ControlInv, StartOK, CloseOK, StageTypes, InstallInFlight, ReadWorldFiles,
     Quiet, opening, Cancelled, Failing, running, ending, data
<1>4. ServerOK' /\ ClosedStaysClosed'
  BY DEF WorkerInv, ControlInv, StartOK, CloseOK, ServerOK, ClosedStaysClosed, StageTypes,
     ReadWorldFiles, Quiet, InstallInFlight, opening, Cancelled, Failing, running, ending, data
<1>5. StoppedIsClean'
  BY DEF WorkerInv, StoppedIsClean, ReadWorldFiles, Quiet, InstallInFlight, opening, Cancelled,
     Failing, running, ending, data
<1> QED
  BY <1>1, <1>2, <1>3, <1>4, <1>5 DEF WorkerInv, ControlInv

\* The installation ends.
LEMMA FinishInstallStep ==
  ASSUME WorkerInv, FinishInstall
  PROVE  WorkerInv'
<1>1. DataInv'
  <2>1. UNCHANGED << pending, batch, txn, flush, abortRequested, cache, data >>
        /\ opfsDirty' \in BOOLEAN
    BY DEF WorkerInv, DataInv, WriteTypes, FinishInstall
  <2> QED
    BY <2>1
    DEF WorkerInv, DataInv, WriteTypes, CacheTypes, StoredOrDirty, FlushOK, VersionsOK,
        NoAcceptedChangeLost, data
<1>2. StageTypes'
  <2>1. /\ startup' \in {"idle", "waiting", "loading", "failing", "crashing", "crashed",
                         "cancelled", "running"}
        /\ asset' \in {"none", "loading", "ready", "failed"}
        /\ install' \in {"none", "opening", "opfs", "reading", "deleting", "done", "ended"}
        /\ server' \in {"none", "booting", "up", "halting", "exited", "failed"}
        /\ serverFlush' \in {"none", "pending", "done"}
        /\ stop' \in {"none", "runtime", "flush", "flushing", "settling", "flushed",
                      "unflushed", "close", "closing", "stopped", "failed"}
    BY DEF WorkerInv, ControlInv, StageTypes, FinishInstall, Quiet, InstallInFlight, opening,
       Fault, Failing, Cancelled, running, ending, data
  <2>2. /\ barrier' \in BOOLEAN /\ handlesClosed' \in BOOLEAN /\ close' \in BOOLEAN
        /\ deferred' \in BOOLEAN /\ stopRequested' \in BOOLEAN /\ timer' \in BOOLEAN
    BY DEF WorkerInv, ControlInv, StageTypes, FinishInstall, Quiet, InstallInFlight, opening,
       Fault, Failing, Cancelled, running, ending, data
  <2>3. /\ unread' \subseteq Saved /\ handles' \subseteq {"db", "opfs"}
        /\ attempt' \in 0..2
    BY DEF WorkerInv, ControlInv, StageTypes, FinishInstall, Quiet, InstallInFlight, opening,
       Fault, Failing, Cancelled, running, ending, data
  <2>4. faults' \in 0..MaxFaults
    <3>1. faults' = faults \/ (faults < MaxFaults /\ faults' = faults + 1)
      BY DEF FinishInstall, Fault
    <3> QED
      BY <3>1, FaultFacts DEF WorkerInv, ControlInv
  <2> QED
    BY <2>1, <2>2, <2>3, <2>4 DEF StageTypes
<1>3. StartOK' /\ CloseOK'
  BY DEF WorkerInv, ControlInv, StartOK, CloseOK, StageTypes, InstallInFlight, FinishInstall,
     Quiet, opening, Fault, Failing, Cancelled, running, ending, data
<1>4. ServerOK' /\ ClosedStaysClosed'
  BY DEF WorkerInv, ControlInv, StartOK, CloseOK, ServerOK, ClosedStaysClosed, StageTypes,
     FinishInstall, Quiet, InstallInFlight, opening, Fault, Failing, Cancelled, running, ending,
     data
<1>5. StoppedIsClean'
  BY DEF WorkerInv, StoppedIsClean, FinishInstall, Quiet, InstallInFlight, opening, Fault,
     Failing, Cancelled, running, ending, data
<1> QED
  BY <1>1, <1>2, <1>3, <1>4, <1>5 DEF WorkerInv, ControlInv

\* The pins go when main is dispatched.
LEMMA StartRuntimeStep ==
  ASSUME WorkerInv, StartRuntime
  PROVE  WorkerInv'
<1>1. DataInv'
  <2>1. UNCHANGED << pending, batch, txn, flush, abortRequested, opfsDirty, data >>
    BY DEF StartRuntime
  <2>2. CacheTypes(cache') /\ StoredOrDirty(cache')
    <3>1. CASE UNCHANGED cache
      BY <3>1, <2>1 DEF WorkerInv, DataInv, CacheTypes, StoredOrDirty
    <3>2. CASE cache' = [p \in DOMAIN cache |-> [cache[p] EXCEPT !.pinned = FALSE]]
      <4>1. DOMAIN cache' = DOMAIN cache
        BY <3>2
      <4>2. ASSUME NEW p \in DOMAIN cache
            PROVE  /\ cache'[p] \in Entries /\ cache'[p].dirty = cache[p].dirty
                   /\ cache'[p].version = cache[p].version
        <5>1. cache[p] \in Entries /\ cache'[p] = [cache[p] EXCEPT !.pinned = FALSE]
          BY <3>2 DEF WorkerInv, DataInv, CacheTypes
        <5> QED
          BY <5>1 DEF Entries
      <4> QED
        BY <4>1, <4>2 DEF WorkerInv, DataInv, CacheTypes, StoredOrDirty
    <3> QED
      BY <3>1, <3>2 DEF StartRuntime
  <2> QED
    BY <2>1, <2>2
    DEF WorkerInv, DataInv, WriteTypes, CacheTypes, StoredOrDirty, FlushOK, VersionsOK,
        NoAcceptedChangeLost, data
<1>2. StageTypes'
  BY BoundsAreNat DEF WorkerInv, ControlInv, StageTypes, StartRuntime, Quiet, InstallInFlight,
     opening, running, Fault, closeState, ending, data
<1>3. StartOK' /\ CloseOK'
  BY DEF WorkerInv, ControlInv, StartOK, CloseOK, StageTypes, InstallInFlight, StartRuntime,
     Quiet, opening, running, Fault, closeState, ending, data
<1>4. ServerOK' /\ ClosedStaysClosed'
  BY DEF WorkerInv, ControlInv, StartOK, CloseOK, ServerOK, ClosedStaysClosed, StageTypes,
     StartRuntime, Quiet, InstallInFlight, opening, running, Fault, closeState, ending, data
<1>5. StoppedIsClean'
  BY DEF WorkerInv, StoppedIsClean, StartRuntime, Quiet, InstallInFlight, opening, running,
     Fault, closeState, ending, data
<1> QED
  BY <1>1, <1>2, <1>3, <1>4, <1>5 DEF WorkerInv, ControlInv

\* The worker starts in the invariant.
LEMMA WorkerInitInv ==
  WorkerInit => WorkerInv
<1> SUFFICES ASSUME WorkerInit PROVE WorkerInv
  OBVIOUS
<1>0. 0 \in 0..MaxChanges /\ 0 \in 0..MaxFaults /\ 0 \in 0..2
  BY BoundsAreNat
<1>1. \A p \in Paths : pending[p] = NoChange /\ batch[p] = NoChange
  BY DEF WorkerInit, Nothing
<1>2. WriteTypes
  BY <1>0, NothingTyped DEF WorkerInit, WriteTypes
<1>3. CacheTypes(cache) /\ StoredOrDirty(cache)
  <2>1. DOMAIN cache = {} /\ IsFiniteSet({}) /\ Cardinality({}) = 0
    BY FS_EmptySet DEF WorkerInit
  <2> QED
    BY <2>1, BoundsAreNat DEF CacheTypes, StoredOrDirty
<1>4. FlushOK
  BY DEF WorkerInit, FlushOK
<1>5. VersionsOK /\ NoAcceptedChangeLost
  BY <1>1 DEF WorkerInit, VersionsOK, NoAcceptedChangeLost
<1>6. StageTypes
  BY <1>0 DEF WorkerInit, StageTypes
<1>7. StartOK /\ CloseOK /\ ServerOK /\ ClosedStaysClosed /\ StoppedIsClean
  BY DEF WorkerInit, StartOK, CloseOK, ServerOK, ClosedStaysClosed, StoppedIsClean
<1> QED
  BY <1>2, <1>3, <1>4, <1>5, <1>6, <1>7 DEF WorkerInv, DataInv, ControlInv

\* Every step of the worker, of its server and of the database preserves it.
LEMMA WorkerInvStep ==
  WorkerInv /\ [WorkerNext]_storageVars => WorkerInv'
<1> SUFFICES ASSUME WorkerInv, [WorkerNext]_storageVars PROVE WorkerInv'
  OBVIOUS
<1>1. CASE UNCHANGED storageVars
  <2>1. UNCHANGED << opening, closeState, running, ending, writing, timer, data, faults >>
    BY <1>1 DEF storageVars
  <2>2. DataInv'
    BY <2>1, DataStays DEF WorkerInv
  <2>3. ControlInv' /\ StoppedIsClean'
    BY <2>1
    DEF WorkerInv, ControlInv, StageTypes, StartOK, CloseOK, ServerOK, ClosedStaysClosed,
        StoppedIsClean, InstallInFlight, opening, closeState, running, ending, writing, data
  <2> QED
    BY <2>2, <2>3 DEF WorkerInv
<1>2. CASE Startup
  BY <1>2, StartWorkerStep, AwaitPortStep, PrepareServerScriptStep, OpenDatabaseStep,
     OpenOpfsRegionStoreStep, ReadWorldFilesStep, FinishInstallStep, StartRuntimeStep
  DEF Startup
<1>3. CASE Java
  BY <1>3, PutStep, PutRegionStep, DeleteRegionStep, AppendRegionStep, RegisterServerStep,
     ServerExitsStep, ServerFlushTimesOutStep DEF Java
<1>4. CASE RequestStop \/ Continue
  BY <1>4, RequestStopStep, FlushForShutdownStep, FlushedStep, ClosePersistentStorageStep,
     CloseResumesStep, DeferredCloseStep DEF Continue
<1>5. CASE Watchdogs
  BY <1>5, PollRuntimeStep, FlushWatchdogStep, SettleTimesOutStep, CloseTimesOutStep
  DEF Watchdogs
<1>6. CASE FlushTimer \/ Commit \/ TransactionFails \/ TransactionSettles
  BY <1>6, FlushTimerStep, CommitStep, TransactionFailsStep, TransactionSettlesStep
<1> QED
  BY <1>1, <1>2, <1>3, <1>4, <1>5, <1>6 DEF WorkerNext

\* The invariant holds in every state the worker reaches.
THEOREM WorkerInvariance == WorkerSpec => []WorkerInv
<1> QED
  BY WorkerInitInv, WorkerInvStep, PTL DEF WorkerSpec

-----------------------------------------------------------------------------
(* Nobody waits in vain.                                                    *)

\* A failure that leaves a batch queued without a timer, or a stop that will
\* flush it.
Excused == faults > 0 \/ stop # "none"

WaitInv ==
  /\ WaitsAreAnswered
  /\ pending # Nothing => timer \/ flush = "running" \/ Excused
  /\ txn = "aborted" \/ abortRequested => Excused

\* Who is answered waits no more, and who waits is not answered without a flush.
LEMMA AnswerWaits ==
  ASSUME StageTypes, NEW outcome \in {"ok", "failed", "none"}, NEW exiting \in BOOLEAN,
         Answer(outcome, exiting)
  PROVE  /\ stop' = "none" <=> stop = "none"
         /\ stop' = "closing" <=> stop = "closing"
         /\ outcome # "none" => stop' \notin {"flushing", "settling"} /\ serverFlush' # "pending"
<1>1. CASE outcome = "ok"
  BY <1>1 DEF StageTypes, Answer
<1>2. CASE outcome = "failed"
  BY <1>2 DEF StageTypes, Answer
<1>3. CASE outcome = "none"
  BY <1>3 DEF StageTypes, Answer
<1> QED
  BY <1>1, <1>2, <1>3

\* A failure is an excuse from then on.
LEMMA ExcusedLater ==
  ASSUME StageTypes, Excused, stop' = "none" => stop = "none",
         faults' = faults \/ (faults < MaxFaults /\ faults' = faults + 1)
  PROVE  Excused'
  BY BoundsAreNat DEF StageTypes, Excused

\* A turn of the loop writes what is queued, finds nothing, or fails.
LEMMA TurnWaits ==
  ASSUME StageTypes, WaitInv, NEW cached, NEW exiting \in BOOLEAN, Turn(cached, exiting),
         UNCHANGED << startup, close, stopRequested >>
  PROVE  WaitInv'
<1>1. CASE /\ Fault("flush") /\ Settled("failed", exiting) /\ txn' = "none"
           /\ UNCHANGED pending
  <2>1. Excused'
    BY <1>1, BoundsAreNat DEF Excused, Fault, StageTypes
  <2>2. WaitsAreAnswered'
    BY <1>1, AnswerWaits DEF Settled, WaitInv, WaitsAreAnswered
  <2> QED
    BY <2>1, <2>2 DEF WaitInv
<1>2. CASE /\ pending' = Nothing /\ txn' = "active" /\ flush' = "running"
           /\ Answer("none", exiting) /\ UNCHANGED << abortRequested, faults >>
  <2>1. Excused => Excused'
    BY <1>2, AnswerWaits DEF Excused
  <2>2. WaitsAreAnswered'
    BY <1>2, AnswerWaits DEF WaitInv, WaitsAreAnswered
  <2> QED
    BY <1>2, <2>1, <2>2 DEF WaitInv
<1>3. CASE /\ pending = Nothing /\ txn' = "none" /\ flush' = "spinning"
           /\ Answer("none", exiting) /\ UNCHANGED << pending, abortRequested, faults >>
  <2>1. Excused => Excused'
    BY <1>3, AnswerWaits DEF Excused
  <2>2. WaitsAreAnswered'
    BY <1>3, AnswerWaits DEF WaitInv, WaitsAreAnswered
  <2>3. pending' = Nothing
    BY <1>3 DEF Nothing
  <2> QED
    BY <1>3, <2>1, <2>2, <2>3 DEF WaitInv
<1>4. CASE /\ pending = Nothing /\ txn' = "none" /\ Settled("ok", exiting)
           /\ UNCHANGED << pending, faults >>
  <2>1. WaitsAreAnswered'
    BY <1>4, AnswerWaits DEF Settled, WaitInv, WaitsAreAnswered
  <2>2. pending' = Nothing
    BY <1>4 DEF Nothing
  <2> QED
    BY <1>4, <2>1, <2>2 DEF WaitInv, Settled
<1> QED
  BY <1>1, <1>2, <1>3, <1>4 DEF Turn

\* flushPendingChanges takes what is queued, or leaves it to the flush that runs.
LEMMA FlushWaits ==
  ASSUME StageTypes, WaitInv, NEW exiting \in BOOLEAN, FlushPendingChanges(exiting),
         UNCHANGED << startup, close, stopRequested >>
  PROVE  WaitInv'
<1>1. CASE flush = "running" /\ Answer("none", exiting) /\ UNCHANGED << writing, faults >>
  <2>1. Excused => Excused'
    BY <1>1, AnswerWaits DEF Excused
  <2>2. WaitsAreAnswered'
    BY <1>1, AnswerWaits DEF WaitInv, WaitsAreAnswered, writing
  <2> QED
    BY <1>1, <2>1, <2>2 DEF WaitInv, writing
<1>2. CASE flush = "idle" /\ Turn(cache, exiting)
  BY <1>2, TurnWaits
<1> QED
  BY <1>1, <1>2 DEF FlushPendingChanges

\* A batch that fails is excused by what made it fail.
LEMMA BatchFailsWaits ==
  ASSUME StageTypes, WaitInv, NEW cached, BatchFails(cached), txn = "aborted" \/ abortRequested,
         UNCHANGED << startup, close, stopRequested >>
  PROVE  WaitInv'
<1>1. Answer("failed", FALSE) /\ flush' = "idle" /\ txn' = "none" /\ UNCHANGED faults
  BY DEF BatchFails, Settled
<1>2. Excused'
  BY <1>1, AnswerWaits DEF WaitInv, Excused
<1>3. WaitsAreAnswered'
  BY <1>1, AnswerWaits DEF WaitInv, WaitsAreAnswered
<1> QED
  BY <1>2, <1>3 DEF WaitInv

\* A change that is queued sets the timer.
LEMMA QueueWaits ==
  ASSUME WaitInv, timer', StageTypes, stop' = stop,
         faults' = faults \/ (faults < MaxFaults /\ faults' = faults + 1),
         UNCHANGED << startup, close, stopRequested, serverFlush, txn, flush, abortRequested >>
  PROVE  WaitInv'
<1>1. Excused => Excused'
  BY ExcusedLater
<1> QED
  BY <1>1 DEF WaitInv, WaitsAreAnswered

\* A step that changes nothing of what is queued or waited for.
LEMMA WaitStays ==
  ASSUME WaitInv, StageTypes, stop' = stop,
         faults' = faults \/ (faults < MaxFaults /\ faults' = faults + 1),
         UNCHANGED << close, stopRequested, serverFlush, pending, timer, txn, flush,
                      abortRequested >>,
         startup' = "crashing" => startup = "crashing",
         startup' = "idle" <=> startup = "idle"
  PROVE  WaitInv'
<1>1. Excused => Excused'
  BY ExcusedLater
<1>2. pending' = Nothing <=> pending = Nothing
  BY DEF Nothing
<1> QED
  BY <1>1, <1>2 DEF WaitInv, WaitsAreAnswered

\* Steps of the start.
LEMMA StartupWaits ==
  ASSUME WorkerInv, WaitInv, Startup
  PROVE  WaitInv'
<1>0. StageTypes
  BY DEF WorkerInv, ControlInv
<1>1. CASE StartWorker
  <2>1. CASE stopRequested
    <3>1. /\ stop' = "flush" /\ startup' = "cancelled"
          /\ UNCHANGED << close, serverFlush, txn, flush, abortRequested, pending, timer >>
      BY <1>1, <2>1 DEF StartWorker, closeState, running, writing
    <3>2. serverFlush # "pending" \/ flush # "idle"
      BY DEF WaitInv, WaitsAreAnswered
    <3> QED
      BY <3>1, <3>2 DEF WaitInv, WaitsAreAnswered, Excused
  <2>2. CASE ~stopRequested
    <3>1. /\ startup' \in {"loading", "waiting"} /\ stopRequested' = stopRequested
          /\ UNCHANGED << close, stop, serverFlush, txn, flush, abortRequested, pending, timer, faults >>
      BY <1>1, <2>2 DEF StartWorker, Loading, closeState, running, writing
    <3>2. pending' = Nothing <=> pending = Nothing
      BY <3>1 DEF Nothing
    <3> QED
      BY <2>2, <3>1, <3>2 DEF WaitInv, WaitsAreAnswered, Excused
  <2> QED
    BY <2>1, <2>2
<1>2. CASE AwaitPort
  <2>1. /\ stop' = stop /\ faults' = faults
        /\ UNCHANGED << close, stopRequested, serverFlush, pending, timer, txn, flush,
                        abortRequested >>
        /\ startup' \in {"loading", "failing"} /\ startup = "waiting"
    BY <1>2 DEF AwaitPort, Loading, closeState, running, ending, writing
  <2> QED
    BY <1>0, <2>1, WaitStays
<1>3. CASE PrepareServerScript
  <2>1. /\ stop' = stop
        /\ faults' = faults \/ (faults < MaxFaults /\ faults' = faults + 1)
        /\ UNCHANGED << close, stopRequested, serverFlush, pending, timer, txn, flush,
                        abortRequested >>
    BY <1>3 DEF PrepareServerScript, Fault, Cancelled, closeState, running, ending, writing
  <2>2. startup' = startup \/ (startup = "loading" /\ startup' \in {"failing", "running"})
    BY <1>3 DEF PrepareServerScript, Failing, opening
  <2> QED
    BY <1>0, <2>1, <2>2, WaitStays
<1>4. CASE OpenDatabase
  <2>1. /\ stop' = stop
        /\ faults' = faults \/ (faults < MaxFaults /\ faults' = faults + 1)
        /\ UNCHANGED << close, stopRequested, serverFlush, pending, timer, txn, flush,
                        abortRequested >>
    BY <1>4 DEF OpenDatabase, Fault, Cancelled, closeState, running, ending, writing
  <2>2. startup' = startup \/ (startup = "loading" /\ startup' \in {"failing", "running"})
    BY <1>4 DEF OpenDatabase, Failing, opening
  <2> QED
    BY <1>0, <2>1, <2>2, WaitStays
<1>5. CASE StartRuntime
  <2>1. /\ stop' = stop
        /\ faults' = faults \/ (faults < MaxFaults /\ faults' = faults + 1)
        /\ UNCHANGED << close, stopRequested, serverFlush, pending, timer, txn, flush,
                        abortRequested >>
    BY <1>5 DEF StartRuntime, Fault, Cancelled, closeState, running, ending, writing
  <2>2. startup' = startup \/ (startup = "loading" /\ startup' \in {"failing", "running"})
    BY <1>5 DEF StartRuntime, Failing, opening
  <2> QED
    BY <1>0, <2>1, <2>2, WaitStays
<1>6. CASE OpenOpfsRegionStore
  <2>1. /\ stop' = stop
        /\ faults' = faults \/ (faults < MaxFaults /\ faults' = faults + 1)
        /\ UNCHANGED << close, stopRequested, serverFlush, pending, timer, txn, flush,
                        abortRequested >>
    BY <1>6 DEF OpenOpfsRegionStore, Fault, Cancelled, closeState, running, ending, writing
  <2>2. startup' = startup \/ (startup = "loading" /\ startup' \in {"failing", "running"})
    BY <1>6 DEF OpenOpfsRegionStore, Failing, opening
  <2> QED
    BY <1>0, <2>1, <2>2, WaitStays
<1>7. CASE ReadWorldFiles
  <2>1. /\ stop' = stop
        /\ faults' = faults \/ (faults < MaxFaults /\ faults' = faults + 1)
        /\ UNCHANGED << close, stopRequested, serverFlush, pending, timer, txn, flush,
                        abortRequested >>
    BY <1>7 DEF ReadWorldFiles, Fault, Cancelled, closeState, running, ending, writing
  <2>2. startup' = startup \/ (startup = "loading" /\ startup' \in {"failing", "running"})
    BY <1>7 DEF ReadWorldFiles, Failing, opening
  <2> QED
    BY <1>0, <2>1, <2>2, WaitStays
<1>8. CASE FinishInstall
  <2>1. /\ stop' = stop
        /\ faults' = faults \/ (faults < MaxFaults /\ faults' = faults + 1)
        /\ UNCHANGED << close, stopRequested, serverFlush, pending, timer, txn, flush,
                        abortRequested >>
    BY <1>8 DEF FinishInstall, Fault, Cancelled, closeState, running, ending, writing
  <2>2. startup' = startup \/ (startup = "loading" /\ startup' \in {"failing", "running"})
    BY <1>8 DEF FinishInstall, Failing, opening
  <2> QED
    BY <1>0, <2>1, <2>2, WaitStays
<1> QED
  BY <1>1, <1>2, <1>3, <1>4, <1>5, <1>6, <1>7, <1>8 DEF Startup

\* Steps of the Java server.
LEMMA JavaWaits ==
  ASSUME WorkerInv, WaitInv, Java
  PROVE  WaitInv'
<1>0. StageTypes
  BY DEF WorkerInv, ControlInv
<1>1. ASSUME NEW p \in Paths, Put(p) \/ PutRegion(p) \/ DeleteRegion(p) \/ AppendRegion(p)
      PROVE  WaitInv'
  <2>1. /\ stop' = stop
        /\ faults' = faults \/ (faults < MaxFaults /\ faults' = faults + 1)
        /\ UNCHANGED << startup, close, stopRequested, serverFlush, txn, flush, abortRequested >>
    BY <1>1
    DEF Put, PutRegion, DeleteRegion, AppendRegion, Fault, opening, closeState, running, ending
  <2>2. timer' \/ UNCHANGED << pending, timer >>
    BY <1>1 DEF Put, PutRegion, DeleteRegion, AppendRegion, Queue
  <2> QED
    BY <1>0, <2>1, <2>2, QueueWaits, WaitStays
<1>2. CASE RegisterServer
  <2>1. /\ stop' = stop /\ startup' = startup
        /\ faults' = faults \/ (faults < MaxFaults /\ faults' = faults + 1)
        /\ UNCHANGED << close, stopRequested, serverFlush, pending, timer, txn, flush,
                        abortRequested >>
    BY <1>2 DEF RegisterServer, Fault, opening, closeState, ending, writing
  <2> QED
    BY <1>0, <2>1, WaitStays
<1>3. CASE ServerExits
  BY <1>0, <1>3, FlushWaits DEF ServerExits, opening, closeState
<1>4. CASE ServerFlushTimesOut
  <2>1. /\ serverFlush' = "done" /\ stop = "runtime"
        /\ UNCHANGED << startup, close, stop, stopRequested, pending, timer, txn, flush,
                        abortRequested, faults >>
    BY <1>4 DEF ServerFlushTimesOut, opening, closeState, ending, writing
  <2> QED
    BY <2>1 DEF WaitInv, WaitsAreAnswered, Excused
<1> QED
  BY <1>1, <1>2, <1>3, <1>4 DEF Java

\* Steps of the stop and of the closing.
LEMMA StopWaits ==
  ASSUME WorkerInv, WaitInv, RequestStop \/ Continue \/ Watchdogs
  PROVE  WaitInv'
<1>0. StageTypes
  BY DEF WorkerInv, ControlInv
<1>1. CASE RequestStop
  <2>1. /\ stopRequested' /\ startup' = "idle" <=> startup = "idle"
        /\ startup' = "crashing" => startup = "crashing"
        /\ \/ startup = "idle" /\ stop' = stop
           \/ stop' \in {"runtime", "flush"}
        /\ UNCHANGED << close, serverFlush, pending, timer, txn, flush, abortRequested, faults >>
    BY <1>1 DEF RequestStop, writing
  <2> QED
    BY <2>1 DEF WaitInv, WaitsAreAnswered, Excused, Nothing
<1>2. CASE FlushForShutdown
  BY <1>0, <1>2, FlushWaits DEF FlushForShutdown, opening, closeState
<1>3. CASE PollRuntime \/ SettleTimesOut \/ Flushed
  <2>1. /\ stop # "none" /\ stop' \in {"flush", "close", "failed"}
        /\ UNCHANGED << startup, close, stopRequested, serverFlush, txn, flush >>
    BY <1>3 DEF PollRuntime, SettleTimesOut, Flushed, opening, closeState, running, writing
  <2> QED
    BY <2>1 DEF WaitInv, WaitsAreAnswered, Excused
<1>4. CASE FlushWatchdog
  <2>1. /\ stop = "flushing" /\ stop' = "settling"
        /\ UNCHANGED << startup, close, stopRequested, serverFlush, flush >>
    BY <1>4 DEF FlushWatchdog, opening, closeState, running
  <2> QED
    BY <2>1 DEF WaitInv, WaitsAreAnswered, Excused
<1>5. CASE ClosePersistentStorage \/ CloseResumes \/ CloseTimesOut
  <2>1. /\ UNCHANGED << stopRequested, serverFlush, pending, txn, flush, abortRequested, faults >>
        /\ timer' = timer \/ pending = Nothing
    BY <1>5
    DEF ClosePersistentStorage, CloseResumes, CloseTimesOut, CloseStorageHandles, Clean,
        running, writing
  <2>2. /\ stop' = "none" <=> stop = "none"
        /\ startup' = "idle" <=> startup = "idle"
        /\ stop' \in {"flushing", "settling"} => stop' = stop
    BY <1>5
    DEF ClosePersistentStorage, CloseResumes, CloseTimesOut, CloseStorageHandles,
        CloseAnswered, opening
  <2>3. stop' = "closing" \/ startup' = "crashing" => close'
    BY <1>5
    DEF WaitInv, WaitsAreAnswered, ClosePersistentStorage, CloseResumes, CloseTimesOut,
        CloseAnswered
  <2>4. pending' = Nothing <=> pending = Nothing
    BY <2>1 DEF Nothing
  <2> QED
    BY <2>1, <2>2, <2>3, <2>4 DEF WaitInv, WaitsAreAnswered, Excused
<1>6. CASE DeferredClose
  <2>1. /\ UNCHANGED << startup, close, stop, stopRequested, serverFlush, pending, txn, flush,
                        abortRequested, faults >>
        /\ timer' = timer \/ pending = Nothing
    BY <1>6 DEF DeferredClose, CloseStorageHandles, Clean, opening, running, ending, writing
  <2>2. pending' = Nothing <=> pending = Nothing
    BY <2>1 DEF Nothing
  <2> QED
    BY <2>1, <2>2 DEF WaitInv, WaitsAreAnswered, Excused
<1> QED
  BY <1>1, <1>2, <1>3, <1>4, <1>5, <1>6 DEF Continue, Watchdogs

\* Steps of the flush and of the database.
LEMMA DatabaseWaits ==
  ASSUME WorkerInv, WaitInv, FlushTimer \/ Commit \/ TransactionFails \/ TransactionSettles
  PROVE  WaitInv'
<1>0. StageTypes
  BY DEF WorkerInv, ControlInv
<1>1. CASE FlushTimer
  BY <1>0, <1>1, FlushWaits DEF FlushTimer, opening, closeState
<1>2. CASE Commit
  <2>1. /\ txn' = "committed"
        /\ UNCHANGED << startup, close, stop, stopRequested, serverFlush, pending, timer, flush,
                        abortRequested, faults >>
    BY <1>2 DEF Commit, opening, closeState, running, ending
  <2>2. pending' = Nothing <=> pending = Nothing
    BY <2>1 DEF Nothing
  <2> QED
    BY <2>1, <2>2 DEF WaitInv, WaitsAreAnswered, Excused
<1>3. CASE TransactionFails
  <2>1. /\ faults' = faults + 1
        /\ UNCHANGED << startup, close, stop, stopRequested, serverFlush, flush >>
    BY <1>3 DEF TransactionFails, Fault, opening, closeState, running, ending
  <2>2. Excused'
    BY <1>0, <2>1, BoundsAreNat DEF Excused, StageTypes
  <2> QED
    BY <2>1, <2>2 DEF WaitInv, WaitsAreAnswered
<1>4. CASE TransactionSettles
  <2>1. UNCHANGED << startup, close, stopRequested >>
    BY <1>4 DEF TransactionSettles, opening, closeState
  <2> QED
    BY <1>0, <1>4, <2>1, BatchFailsWaits, TurnWaits DEF TransactionSettles
<1> QED
  BY <1>1, <1>2, <1>3, <1>4

\* Nobody who waits is left waiting for something that is over, and no change
\* is left queued without a turn to come.
THEOREM WaitInvariance == WorkerSpec => []WaitInv
<1>1. WorkerInit => WaitInv
  BY DEF WorkerInit, WaitInv, WaitsAreAnswered
<1>2. WorkerInv /\ WaitInv /\ [WorkerNext]_storageVars => WaitInv'
  <2> SUFFICES ASSUME WorkerInv, WaitInv, [WorkerNext]_storageVars PROVE WaitInv'
    OBVIOUS
  <2>1. CASE UNCHANGED storageVars
    BY <2>1
    DEF storageVars, opening, closeState, running, ending, writing, WaitInv, WaitsAreAnswered,
        Excused, Nothing
  <2>2. CASE WorkerNext
    BY <2>2, StartupWaits, JavaWaits, StopWaits, DatabaseWaits DEF WorkerNext
  <2> QED
    BY <2>1, <2>2
<1> QED
  BY <1>1, <1>2, WorkerInvariance, PTL DEF WorkerSpec

-----------------------------------------------------------------------------
(* What the worker promises.                                                *)

\* The parts of the invariant give the worker its types.
LEMMA WorkerTyping ==
  WorkerInv => WorkerTypeOK
<1> SUFFICES ASSUME WorkerInv PROVE WorkerTypeOK
  OBVIOUS
<1>1. {barrier, handlesClosed, close, deferred, stopRequested, opfsDirty, abortRequested,
       timer} \subseteq BOOLEAN
  BY DEF WorkerInv, DataInv, WriteTypes, ControlInv, StageTypes
<1>2. {pending, batch} \subseteq [Paths -> [version : 0..MaxChanges, region : BOOLEAN]]
      /\ {stored, latest} \subseteq [Paths -> 0..MaxChanges]
  BY DEF WorkerInv, DataInv, WriteTypes, Changes
<1>3. /\ DOMAIN cache \subseteq Regions /\ Cardinality(DOMAIN cache) <= Budget
      /\ \A p \in DOMAIN cache :
           cache[p] \in [version : 0..MaxChanges, dirty : BOOLEAN, flushing : BOOLEAN,
                         pinned : BOOLEAN]
  BY DEF WorkerInv, DataInv, CacheTypes, Entries
<1> QED
  BY <1>1, <1>2, <1>3
  DEF WorkerInv, DataInv, WriteTypes, ControlInv, StageTypes, WorkerTypeOK

\* In every state a region the cache may evict is in the database, the cache
\* keeps its budget, and the newest change accepted for a path is queued, being
\* written or stored: no failed, aborted or repeated flush loses one, and what is
\* queued has a timer or a flush, unless one failed or the worker is stopping.
THEOREM StorageSoundness == WorkerSpec => []StorageIsSound
<1>1. ASSUME WorkerInv, WaitInv PROVE StorageIsSound
  <2>1. WorkerTypeOK
    BY <1>1, WorkerTyping
  <2>2. EvictableIsStored
    BY <1>1 DEF WorkerInv, DataInv, StoredOrDirty, EvictableIsStored, Evictable
  <2>3. NoAcceptedChangeLost
    BY <1>1 DEF WorkerInv, DataInv
  <2>4. QueuedHasTurn
    BY <1>1 DEF WaitInv, QueuedHasTurn, Excused
  <2> QED
    BY <2>1, <2>2, <2>3, <2>4 DEF StorageIsSound, CacheIsSound
<1> QED
  BY <1>1, WorkerInvariance, WaitInvariance, PTL

\* "stopped" is answered only over closed handles with every accepted change in
\* the database; what was closed stays closed, a server that was told to halt
\* finds its callbacks, and nobody waits for what is over.
THEOREM StopSoundness == WorkerSpec => []StopIsClean
<1>1. ASSUME WorkerInv, WaitInv PROVE StopIsClean
  BY <1>1
  DEF WorkerInv, ControlInv, ServerOK, WaitInv, StopIsClean, LastSaveIsAccepted, Callbacks
<1> QED
  BY <1>1, WorkerInvariance, WaitInvariance, PTL

\* "stopped" is answered when nobody waits for the installation any more.
StoppedIsOver == stop = "stopped" => ~close

\* All but the retry of a close, which finds nothing to close.
Settlement ==
  << opening, handles, barrier, handlesClosed, close, running, ending, writing, timer, data,
     faults >>

\* A worker that has answered "stopped" handles no event any more.
LEMMA StoppedRests ==
  ASSUME WorkerInv, StoppedIsOver, [WorkerNext]_storageVars, stop = "stopped"
  PROVE  UNCHANGED Settlement
<1>1. ~Quiet
  BY DEF Quiet
<1>2. /\ txn = "none" /\ handlesClosed /\ ~close /\ startup # "failing"
  BY DEF WorkerInv, StoppedIsClean, StoppedIsOver, ControlInv, StartOK
<1>3. CASE UNCHANGED storageVars
  BY <1>3 DEF storageVars, closeState, Settlement
<1>4. ~Startup /\ ~Watchdogs /\ ~RequestStop /\ ~FlushTimer /\ ~TransactionSettles
  BY <1>1
  DEF Startup, StartWorker, AwaitPort, PrepareServerScript, OpenDatabase, OpenOpfsRegionStore,
      ReadWorldFiles, FinishInstall, StartRuntime, Watchdogs, PollRuntime, FlushWatchdog,
      SettleTimesOut, CloseTimesOut, RequestStop, FlushTimer, TransactionSettles
<1>5. ~Java
  BY <1>1
  DEF Java, Put, PutRegion, DeleteRegion, AppendRegion, Accepting, RegisterServer,
      ServerExits, ServerFlushTimesOut
<1>6. ~Commit /\ ~TransactionFails
  BY <1>2 DEF Commit, TransactionFails
<1>7. ~FlushForShutdown /\ ~Flushed /\ ~ClosePersistentStorage /\ ~CloseResumes
  BY <1>2 DEF FlushForShutdown, Flushed, ClosePersistentStorage, CloseResumes
<1>8. CASE DeferredClose
  BY <1>2, <1>8 DEF DeferredClose, CloseStorageHandles, Settlement
<1> QED
  BY <1>3, <1>4, <1>5, <1>6, <1>7, <1>8 DEF WorkerNext, Continue

\* Only the end of the close answers "stopped".
LEMMA StopsWithoutWaiting ==
  ASSUME WorkerInv, [WorkerNext]_storageVars, stop # "stopped", stop' = "stopped"
  PROVE  ~close'
<1>0. StageTypes
  BY DEF WorkerInv, ControlInv
<1>1. ASSUME NEW outcome \in {"ok", "failed", "none"}, NEW exiting \in BOOLEAN,
             Answer(outcome, exiting)
      PROVE  FALSE
  BY <1>0, <1>1, AnswerFacts
<1>2. ASSUME NEW exiting \in BOOLEAN, FlushPendingChanges(exiting) PROVE FALSE
  <2>1. CASE Answer("none", exiting)
    BY <1>1, <2>1
  <2>2. CASE Turn(cache, exiting)
    BY <1>0, <1>1, <2>2, TurnAnswers
  <2> QED
    BY <1>2, <2>1, <2>2 DEF FlushPendingChanges
<1>3. CASE UNCHANGED storageVars
  BY <1>3 DEF storageVars, ending
<1>4. CASE Startup
  BY <1>4
  DEF Startup, StartWorker, AwaitPort, PrepareServerScript, OpenDatabase, OpenOpfsRegionStore,
      ReadWorldFiles, FinishInstall, StartRuntime, ending
<1>5. CASE Java
  <2>1. CASE ServerExits
    BY <1>2, <2>1 DEF ServerExits
  <2>2. CASE ~ServerExits
    BY <1>5, <2>2
    DEF Java, Put, PutRegion, DeleteRegion, AppendRegion, RegisterServer, ServerFlushTimesOut,
        ending
  <2> QED
    BY <2>1, <2>2
<1>6. CASE RequestStop \/ Watchdogs
  BY <1>6
  DEF RequestStop, Watchdogs, PollRuntime, FlushWatchdog, SettleTimesOut, CloseTimesOut
<1>7. CASE FlushForShutdown \/ FlushTimer
  BY <1>2, <1>7 DEF FlushForShutdown, FlushTimer
<1>8. CASE Flushed \/ Commit \/ TransactionFails \/ DeferredClose
  BY <1>8 DEF Flushed, Commit, TransactionFails, DeferredClose, ending
<1>9. CASE TransactionSettles
  <2>1. ASSUME NEW cached, BatchFails(cached) PROVE FALSE
    BY <1>1, <2>1 DEF BatchFails, Settled
  <2>2. ASSUME NEW cached, Turn(cached, FALSE) PROVE FALSE
    BY <1>0, <1>1, <2>2, TurnAnswers
  <2> QED
    BY <1>9, <2>1, <2>2 DEF TransactionSettles
<1>10. CASE ClosePersistentStorage \/ CloseResumes
  BY <1>10 DEF ClosePersistentStorage, CloseResumes
<1> QED
  BY <1>3, <1>4, <1>5, <1>6, <1>7, <1>8, <1>9, <1>10 DEF WorkerNext, Continue

\* After "stopped" nothing of the worker changes: no transaction that settles, no
\* installation that comes late, no callback and no watchdog.
THEOREM StopIsFinal ==
  WorkerSpec => [][stop = "stopped" => UNCHANGED Settlement]_storageVars
<1>1. WorkerInit => StoppedIsOver
  BY DEF WorkerInit, StoppedIsOver
<1>2. WorkerInv /\ StoppedIsOver /\ [WorkerNext]_storageVars => StoppedIsOver'
  <2> SUFFICES ASSUME WorkerInv, StoppedIsOver, [WorkerNext]_storageVars, stop' = "stopped"
               PROVE  ~close'
    BY DEF StoppedIsOver
  <2>1. CASE stop = "stopped"
    BY <2>1, StoppedRests DEF StoppedIsOver, Settlement
  <2>2. CASE stop # "stopped"
    BY <2>2, StopsWithoutWaiting
  <2> QED
    BY <2>1, <2>2
<1>3. WorkerInv /\ StoppedIsOver /\ [WorkerNext]_storageVars =>
        [stop = "stopped" => UNCHANGED Settlement]_storageVars
  BY StoppedRests
<1> QED
  BY <1>1, <1>2, <1>3, WorkerInvariance, PTL DEF WorkerSpec

\* A transaction never puts an older version of a path over a newer one, whatever
\* was aborted, queued again and written late.
THEOREM DatabaseAdvances ==
  WorkerSpec => [][\A p \in Paths : stored[p] <= stored'[p]]_storageVars
<1>1. WorkerInv /\ [WorkerNext]_storageVars => [\A p \in Paths : stored[p] <= stored'[p]]_storageVars
  <2> SUFFICES ASSUME WorkerInv, WorkerNext, NEW p \in Paths
               PROVE  stored[p] <= stored'[p]
    OBVIOUS
  <2>1. stored[p] \in Nat
    BY BoundsAreNat DEF WorkerInv, DataInv, WriteTypes
  <2>2. CASE Commit
    <3>1. stored'[p] = IF batch[p] = NoChange THEN stored[p] ELSE batch[p].version
      BY <2>2 DEF Commit
    <3> QED
      BY <2>1, <3>1 DEF WorkerInv, DataInv, VersionsOK
  <2>3. CASE ~Commit
    <3>1. stored' = stored
      BY <2>3
      DEF WorkerNext, Startup, StartWorker, AwaitPort, PrepareServerScript, OpenDatabase,
          OpenOpfsRegionStore, ReadWorldFiles, FinishInstall, StartRuntime, Java, Put,
          PutRegion, DeleteRegion, AppendRegion, RegisterServer, ServerExits,
          ServerFlushTimesOut, RequestStop, Continue, FlushForShutdown, Flushed,
          ClosePersistentStorage, CloseResumes, DeferredClose, Watchdogs, PollRuntime,
          FlushWatchdog, SettleTimesOut, CloseTimesOut, FlushTimer, TransactionFails,
          TransactionSettles, data
    <3> QED
      BY <2>1, <3>1
  <2> QED
    BY <2>2, <2>3
<1> QED
  BY <1>1, WorkerInvariance, PTL DEF WorkerSpec


-----------------------------------------------------------------------------
(* The inductive invariant of PaperGateway.                                 *)

\* The parts of TypeOK.
GateTypes ==
    /\ main \in {"enabling", "await", "check", "enabled", "throw", "failed",
                 "disabled", "flag", "snapshot", "closeEach", "join"}
    /\ then \in {"none", "throw", "failed", "disabled"}
    /\ selector \in {"off", "setup", "starting", "running", "ended"}
    /\ started \in BOOLEAN /\ latch \in BOOLEAN /\ failure \in BOOLEAN
    /\ requested \in BOOLEAN /\ complete \in BOOLEAN /\ libClosed \in BOOLEAN

MapTypes ==
    /\ sessions \subseteq Conns /\ toClose \subseteq Conns
    /\ Cardinality(sessions) <= MaxConnections

CloseTypes ==
    /\ closed \in [Conns -> BOOLEAN] /\ missed \in [Conns -> BOOLEAN]
    /\ closing \in [Conns -> {"no", "begun", "yes"}]
    /\ closer \in [Conns -> {"none", "relay", "worker", "handler", "main"}]

RelayTypes ==
    /\ relay \in [Conns -> {"none", "new", "created", "connect", "output", "announce",
                            "loop", "await", "read", "send", "answer", "answering",
                            "finally", "ending", "done"}]
    /\ socket \in [Conns -> {"none", "open", "closed"}]
    /\ lock \in [Conns -> {"free", "worker", "relay"}]
    /\ extra \in [Conns -> 0 .. 2] /\ buffered \in [Conns -> BOOLEAN]
    /\ published \in [Conns -> BOOLEAN] /\ output \in [Conns -> BOOLEAN]

WorkerTypes ==
    /\ job \in [Conns -> {"none", "open", "connect", "flow", "write", "writing"}]
    /\ connected \in [Conns -> BOOLEAN] /\ paused \in [Conns -> BOOLEAN]

ConnTypes ==
    /\ ws \in [Conns -> {"none", "open", "closing", "closed"}]
    /\ handler \in [Conns -> BOOLEAN]

\* A connection has no callback before it is accepted.
FreshOK == \A c \in Conns : ws[c] = "none" => job[c] = "none"

LockOK(c) ==
    /\ lock[c] = "worker" <=> job[c] = "writing"
    /\ lock[c] = "relay" <=> relay[c] = "answering"

\* The thread that wins compareAndSet is the one that closes.
ClosingOK(c) == closing[c] = "no" <=> ~closed[c]

\* A socket that close() has not found is one its thread is about to close, for
\* it has yet to test `closed`; there is one thread only.
SocketOK(c) ==
    /\ closing[c] = "yes" /\ socket[c] = "open" => missed[c] \/ relay[c] = "created"
    /\ relay[c] # "none" => connected[c]

\* The threads read and write what the field output is for; it is set before the
\* session is closed and over a socket close() can see, so that close() finds it.
FoundOK(c) ==
    /\ output[c] =>
          published[c] /\ relay[c] \notin {"none", "new", "created", "connect", "output"}
    /\ relay[c] = "output" => published[c]
    /\ \/ job[c] = "writing"
       \/ relay[c] \in {"announce", "loop", "await", "read", "send", "answer", "answering"}
       => output[c]
    /\ output[c] /\ closing[c] = "yes" => socket[c] = "closed"

\* The chunk that was sent after a pause was the last before the wait.
PauseOK(c) ==
    /\ extra[c] \in 0 .. 1
    /\ extra[c] = 1 /\ ~closed[c] => paused[c] /\ relay[c] \notin {"read", "send"}

\* Whatever runs for a session can still be reached by who closes it.
Reached(c) == closed[c] \/ handler[c] \/ c \in sessions \/ c \in toClose

HeldOK(c) ==
    relay[c] \notin {"none", "done"} \/ job[c] \notin {"none", "open"} => Reached(c)

\* No session comes back once shutdown has taken them, a later shutdown finds
\* none, and each has a caller to return to.
StoppingOK ==
    /\ complete \/ main \in {"closeEach", "join", "failed", "disabled"} =>
          requested /\ sessions = {}
    /\ main = "snapshot" => requested
    /\ main \in {"flag", "snapshot", "closeEach", "join"} =>
          then \in {"throw", "failed", "disabled"}
    /\ complete \/ main # "closeEach" => toClose = {}

GatewayInv ==
    /\ GateTypes /\ MapTypes /\ StoppingOK /\ FreshOK
    /\ CloseTypes /\ RelayTypes /\ WorkerTypes /\ ConnTypes
    /\ \A c \in Conns :
         LockOK(c) /\ ClosingOK(c) /\ SocketOK(c) /\ FoundOK(c) /\ PauseOK(c) /\ HeldOK(c)

\* The parts make up TypeOK.
LEMMA TypeParts ==
  TypeOK <=> /\ GateTypes /\ MapTypes /\ CloseTypes /\ RelayTypes /\ WorkerTypes
             /\ ConnTypes /\ \A c \in Conns : LockOK(c)
<1>1. (\A f \in {handler, connected, closed, paused, published, output, missed, buffered} :
         f \in [Conns -> BOOLEAN])
      <=> /\ handler \in [Conns -> BOOLEAN] /\ connected \in [Conns -> BOOLEAN]
          /\ closed \in [Conns -> BOOLEAN] /\ paused \in [Conns -> BOOLEAN]
          /\ published \in [Conns -> BOOLEAN] /\ output \in [Conns -> BOOLEAN]
          /\ missed \in [Conns -> BOOLEAN] /\ buffered \in [Conns -> BOOLEAN]
  BY Zenon
<1>2. {started, latch, failure, requested, complete, libClosed} \subseteq BOOLEAN
      <=> /\ started \in BOOLEAN /\ latch \in BOOLEAN /\ failure \in BOOLEAN
          /\ requested \in BOOLEAN /\ complete \in BOOLEAN /\ libClosed \in BOOLEAN
  BY Zenon
<1> QED
  BY <1>1, <1>2, Zenon
  DEF TypeOK, GateTypes, MapTypes, CloseTypes, RelayTypes, WorkerTypes, ConnTypes, LockOK

\* Sessions leave the map.
LEMMA MapShrinks ==
  ASSUME MapTypes, NEW S \in SUBSET sessions
  PROVE  S \subseteq Conns /\ Cardinality(S) <= MaxConnections
<1>1. IsFiniteSet(sessions)
  BY BoundsAssumption, FS_Subset DEF MapTypes
<1>2. Cardinality(S) <= Cardinality(sessions) /\ Cardinality(S) \in Nat
      /\ Cardinality(sessions) \in Nat
  BY <1>1, FS_Subset, FS_CardinalityType
<1> QED
  BY <1>2, BoundsAssumption DEF MapTypes

\* The map grows by a session there is room for.
LEMMA MapGrows ==
  ASSUME MapTypes, NEW c \in Conns, Cardinality(sessions) < MaxConnections
  PROVE  /\ sessions \cup {c} \subseteq Conns
         /\ Cardinality(sessions \cup {c}) <= MaxConnections
<1>1. IsFiniteSet(sessions)
  BY BoundsAssumption, FS_Subset DEF MapTypes
<1>2. Cardinality(sessions) \in Nat
  BY <1>1, FS_CardinalityType
<1>3. Cardinality(sessions \cup {c}) \in {Cardinality(sessions), Cardinality(sessions) + 1}
  BY <1>1, <1>2, FS_AddElement
<1> QED
  BY <1>2, <1>3, BoundsAssumption DEF MapTypes

\* compareAndSet, and what follows from it for the one who loses or wins.
LEMMA TryCloseFacts ==
  ASSUME CloseTypes, NEW c \in Conns, NEW who \in {"relay", "worker", "handler", "main"},
         TryClose(c, who), \A d \in Conns : ClosingOK(d)
  PROVE  /\ CloseTypes' /\ missed' = missed /\ closed'[c]
         /\ closing'[c] # "no" /\ (closing'[c] = "yes" <=> closing[c] = "yes")
         /\ \A d \in Conns \ {c} : closed'[d] = closed[d] /\ closing'[d] = closing[d]
<1>1. CASE closed[c]
  BY <1>1 DEF CloseTypes, TryClose, closeVars, ClosingOK
<1>2. CASE ~closed[c]
  <2>1. /\ closed' = [closed EXCEPT ![c] = TRUE] /\ closing' = [closing EXCEPT ![c] = "begun"]
        /\ closer' = [closer EXCEPT ![c] = who] /\ missed' = missed
    BY <1>2 DEF TryClose, Set
  <2>2. closing[c] = "no"
    BY <1>2 DEF ClosingOK
  <2> QED
    BY <2>1, <2>2 DEF CloseTypes
<1> QED
  BY <1>1, <1>2

\* A session that is taken out of the map is closed by who took it.
LEMMA RemovedIsReached ==
  ASSUME ConnTypes, NEW c \in Conns, Remove(c), NEW d \in Conns, Reached(d)
  PROVE  Reached(d)'
<1>1. sessions' = sessions \ {c} /\ UNCHANGED <<closed, toClose>>
  BY DEF Remove, closeVars, gatewayVars
<1>2. handler' = [handler EXCEPT ![c] = handler[c] \/ c \in sessions]
  BY DEF Remove, Set
<1>3. CASE d = c
  <2>1. handler'[c] <=> handler[c] \/ c \in sessions
    BY <1>2 DEF ConnTypes
  <2> QED
    BY <1>1, <1>3, <2>1 DEF Reached
<1>4. CASE d # c
  <2>1. handler'[d] = handler[d]
    BY <1>2, <1>4 DEF ConnTypes
  <2> QED
    BY <1>1, <1>4, <2>1 DEF Reached
<1> QED
  BY <1>3, <1>4

\* close() closes what it finds in the field; a socket it misses is one its
\* thread has yet to test.
LEMMA CloseTargetStep ==
  ASSUME GatewayInv, NEW c \in Conns, CloseTarget(c)
  PROVE  GatewayInv'
<1>1. GateTypes' /\ MapTypes'
  BY DEF GatewayInv, GateTypes, MapTypes, CloseTarget, Set, WsClosed, gatewayVars, workerVars
<1>2. StoppingOK'
  BY DEF GatewayInv, StoppingOK, CloseTarget, Set, WsClosed, gatewayVars, workerVars
<1>3. CloseTypes' /\ RelayTypes'
  BY DEF GatewayInv, CloseTypes, RelayTypes, CloseTarget, Set, WsClosed, gatewayVars, workerVars
<1>4. WorkerTypes' /\ ConnTypes'
  BY DEF GatewayInv, WorkerTypes, ConnTypes, CloseTarget, Set, WsClosed, gatewayVars, workerVars
<1>5. ASSUME NEW d \in Conns
      PROVE  (LockOK(d) /\ ClosingOK(d) /\ SocketOK(d) /\ PauseOK(d) /\ HeldOK(d))'
  BY DEF GatewayInv, CloseTypes, RelayTypes, WorkerTypes, ConnTypes, LockOK, ClosingOK,
     SocketOK, PauseOK, HeldOK, Reached, CloseTarget, Set, WsClosed, gatewayVars, workerVars
<1>6. FreshOK'
  BY DEF GatewayInv, WorkerTypes, ConnTypes, FreshOK, CloseTarget, Set, WsClosed, gatewayVars,
     workerVars
<1>7. ASSUME NEW d \in Conns
      PROVE  FoundOK(d)'
  BY DEF GatewayInv, CloseTypes, RelayTypes, WorkerTypes, ClosingOK, SocketOK, FoundOK,
     CloseTarget, Set, WsClosed, gatewayVars, workerVars
<1> QED
  BY <1>1, <1>2, <1>3, <1>4, <1>5, <1>6, <1>7 DEF GatewayInv

\* A session enters the map only while there is room and no shutdown.
LEMMA OnOpenStep ==
  ASSUME GatewayInv, NEW c \in Conns, OnOpen(c)
  PROVE  GatewayInv'
<1>1. GateTypes' /\ MapTypes'
  <2>1. GateTypes'
    BY DEF GatewayInv, GateTypes, OnOpen, gatewayVars
  <2>2. toClose' = toClose /\ (UNCHANGED sessions \/ (MayOpen /\ sessions' = sessions \cup {c}))
    BY DEF OnOpen, gatewayVars
  <2>3. MapTypes'
    BY <2>2, MapGrows DEF GatewayInv, MapTypes, MayOpen
  <2> QED
    BY <2>1, <2>3
<1>2. StoppingOK'
  BY DEF GatewayInv, StoppingOK, OnOpen, Set, MayOpen, WsClosed, gatewayVars, closeVars,
     relayVars
<1>3. CloseTypes' /\ RelayTypes'
  BY DEF GatewayInv, CloseTypes, RelayTypes, OnOpen, Set, MayOpen, WsClosed, gatewayVars,
     closeVars, relayVars
<1>4. WorkerTypes' /\ ConnTypes'
  BY DEF GatewayInv, WorkerTypes, ConnTypes, OnOpen, Set, MayOpen, WsClosed, gatewayVars,
     closeVars, relayVars
<1>5. ASSUME NEW d \in Conns
      PROVE  (LockOK(d) /\ ClosingOK(d) /\ SocketOK(d) /\ PauseOK(d) /\ HeldOK(d))'
  BY DEF GatewayInv, CloseTypes, RelayTypes, WorkerTypes, ConnTypes, LockOK, ClosingOK,
     SocketOK, PauseOK, HeldOK, Reached, OnOpen, Set, MayOpen, WsClosed, gatewayVars, closeVars,
     relayVars
<1>6. FreshOK'
  BY DEF GatewayInv, WorkerTypes, ConnTypes, FreshOK, OnOpen, Set, MayOpen, WsClosed,
     gatewayVars, closeVars, relayVars
<1>7. ASSUME NEW d \in Conns
      PROVE  FoundOK(d)'
  BY DEF GatewayInv, CloseTypes, RelayTypes, WorkerTypes, ClosingOK, SocketOK, FoundOK, OnOpen,
     Set, MayOpen, WsClosed, gatewayVars, closeVars, relayVars
<1> QED
  BY <1>1, <1>2, <1>3, <1>4, <1>5, <1>6, <1>7 DEF GatewayInv

\* The relay thread starts once, for a session that can be reached.
LEMMA WorkerConnectsStep ==
  ASSUME GatewayInv, NEW c \in Conns, WorkerConnects(c)
  PROVE  GatewayInv'
<1>1. GateTypes' /\ MapTypes'
  BY DEF GatewayInv, GateTypes, MapTypes, WorkerConnects, Set, WsClosed, gatewayVars, closeVars
<1>2. StoppingOK'
  BY DEF GatewayInv, StoppingOK, WorkerConnects, Set, WsClosed, gatewayVars, closeVars
<1>3. CloseTypes' /\ RelayTypes'
  BY DEF GatewayInv, CloseTypes, RelayTypes, WorkerConnects, Set, WsClosed, gatewayVars,
     closeVars
<1>4. WorkerTypes' /\ ConnTypes'
  BY DEF GatewayInv, WorkerTypes, ConnTypes, WorkerConnects, Set, WsClosed, gatewayVars,
     closeVars
<1>5. ASSUME NEW d \in Conns
      PROVE  (LockOK(d) /\ ClosingOK(d) /\ SocketOK(d) /\ PauseOK(d) /\ HeldOK(d))'
  BY DEF GatewayInv, CloseTypes, RelayTypes, WorkerTypes, ConnTypes, LockOK, ClosingOK,
     SocketOK, PauseOK, HeldOK, Reached, WorkerConnects, Set, WsClosed, gatewayVars, closeVars
<1>6. FreshOK'
  BY DEF GatewayInv, WorkerTypes, ConnTypes, FreshOK, WorkerConnects, Set, WsClosed,
     gatewayVars, closeVars
<1>7. ASSUME NEW d \in Conns
      PROVE  FoundOK(d)'
  BY DEF GatewayInv, CloseTypes, RelayTypes, WorkerTypes, ClosingOK, SocketOK, FoundOK,
     WorkerConnects, Set, WsClosed, gatewayVars, closeVars
<1> QED
  BY <1>1, <1>2, <1>3, <1>4, <1>5, <1>6, <1>7 DEF GatewayInv

\* A change of the pause begins a new count of chunks.
LEMMA WorkerSetsFlowStep ==
  ASSUME GatewayInv, NEW c \in Conns, WorkerSetsFlow(c)
  PROVE  GatewayInv'
<1>1. GateTypes' /\ MapTypes'
  BY DEF GatewayInv, GateTypes, MapTypes, WorkerSetsFlow, Set, gatewayVars, closeVars, connVars
<1>2. StoppingOK'
  BY DEF GatewayInv, StoppingOK, WorkerSetsFlow, Set, gatewayVars, closeVars, connVars
<1>3. CloseTypes' /\ RelayTypes'
  BY DEF GatewayInv, CloseTypes, RelayTypes, WorkerSetsFlow, Set, gatewayVars, closeVars,
     connVars
<1>4. WorkerTypes' /\ ConnTypes'
  BY DEF GatewayInv, WorkerTypes, ConnTypes, WorkerSetsFlow, Set, gatewayVars, closeVars,
     connVars
<1>5. ASSUME NEW d \in Conns
      PROVE  (LockOK(d) /\ ClosingOK(d) /\ SocketOK(d) /\ PauseOK(d) /\ HeldOK(d))'
  BY DEF GatewayInv, CloseTypes, RelayTypes, WorkerTypes, ConnTypes, LockOK, ClosingOK,
     SocketOK, PauseOK, HeldOK, Reached, WorkerSetsFlow, Set, gatewayVars, closeVars, connVars
<1>6. FreshOK'
  BY DEF GatewayInv, WorkerTypes, ConnTypes, FreshOK, WorkerSetsFlow, Set, gatewayVars,
     closeVars, connVars
<1>7. ASSUME NEW d \in Conns
      PROVE  FoundOK(d)'
  BY DEF GatewayInv, CloseTypes, RelayTypes, WorkerTypes, ClosingOK, SocketOK, FoundOK,
     WorkerSetsFlow, Set, gatewayVars, closeVars, connVars
<1> QED
  BY <1>1, <1>2, <1>3, <1>4, <1>5, <1>6, <1>7 DEF GatewayInv

\* The worker takes a free lock.
LEMMA WorkerLocksStep ==
  ASSUME GatewayInv, NEW c \in Conns, WorkerLocks(c)
  PROVE  GatewayInv'
<1>1. GateTypes' /\ MapTypes'
  BY DEF GatewayInv, GateTypes, MapTypes, WorkerLocks, Set, gatewayVars, closeVars, connVars
<1>2. StoppingOK'
  BY DEF GatewayInv, StoppingOK, WorkerLocks, Set, gatewayVars, closeVars, connVars
<1>3. CloseTypes' /\ RelayTypes'
  BY DEF GatewayInv, CloseTypes, RelayTypes, WorkerLocks, Set, gatewayVars, closeVars, connVars
<1>4. WorkerTypes' /\ ConnTypes'
  BY DEF GatewayInv, WorkerTypes, ConnTypes, WorkerLocks, Set, gatewayVars, closeVars, connVars
<1>5. ASSUME NEW d \in Conns
      PROVE  (LockOK(d) /\ ClosingOK(d) /\ SocketOK(d) /\ PauseOK(d) /\ HeldOK(d))'
  BY DEF GatewayInv, CloseTypes, RelayTypes, WorkerTypes, ConnTypes, LockOK, ClosingOK,
     SocketOK, PauseOK, HeldOK, Reached, WorkerLocks, Set, gatewayVars, closeVars, connVars
<1>6. FreshOK'
  BY DEF GatewayInv, WorkerTypes, ConnTypes, FreshOK, WorkerLocks, Set, gatewayVars, closeVars,
     connVars
<1>7. ASSUME NEW d \in Conns
      PROVE  FoundOK(d)'
  BY DEF GatewayInv, CloseTypes, RelayTypes, WorkerTypes, ClosingOK, SocketOK, FoundOK,
     WorkerLocks, Set, gatewayVars, closeVars, connVars
<1> QED
  BY <1>1, <1>2, <1>3, <1>4, <1>5, <1>6, <1>7 DEF GatewayInv

\* The worker returns the lock it holds.
LEMMA WorkerWritesStep ==
  ASSUME GatewayInv, NEW c \in Conns, WorkerWrites(c)
  PROVE  GatewayInv'
<1>1. GateTypes' /\ MapTypes'
  BY DEF GatewayInv, GateTypes, MapTypes, WorkerWrites, Set, gatewayVars, closeVars, connVars
<1>2. StoppingOK'
  BY DEF GatewayInv, StoppingOK, WorkerWrites, Set, gatewayVars, closeVars, connVars
<1>3. CloseTypes' /\ RelayTypes'
  BY DEF GatewayInv, CloseTypes, RelayTypes, WorkerWrites, Set, gatewayVars, closeVars, connVars
<1>4. WorkerTypes' /\ ConnTypes'
  BY DEF GatewayInv, WorkerTypes, ConnTypes, WorkerWrites, Set, gatewayVars, closeVars, connVars
<1>5. ASSUME NEW d \in Conns
      PROVE  (LockOK(d) /\ ClosingOK(d) /\ SocketOK(d) /\ PauseOK(d) /\ HeldOK(d))'
  BY DEF GatewayInv, CloseTypes, RelayTypes, WorkerTypes, ConnTypes, LockOK, ClosingOK,
     SocketOK, PauseOK, HeldOK, Reached, WorkerWrites, Set, gatewayVars, closeVars, connVars
<1>6. FreshOK'
  BY DEF GatewayInv, WorkerTypes, ConnTypes, FreshOK, WorkerWrites, Set, gatewayVars, closeVars,
     connVars
<1>7. ASSUME NEW d \in Conns
      PROVE  FoundOK(d)'
  BY DEF GatewayInv, CloseTypes, RelayTypes, WorkerTypes, ClosingOK, SocketOK, FoundOK,
     WorkerWrites, Set, gatewayVars, closeVars, connVars
<1> QED
  BY <1>1, <1>2, <1>3, <1>4, <1>5, <1>6, <1>7 DEF GatewayInv

\* A write that throws returns the lock and closes the session.
LEMMA WriteThrowsStep ==
  ASSUME GatewayInv, NEW c \in Conns, WriteThrows(c)
  PROVE  GatewayInv'
<1>1. GateTypes' /\ MapTypes'
  BY DEF GatewayInv, GateTypes, MapTypes, WriteThrows, Set, WsClosed, TryClose, closeVars,
     gatewayVars
<1>2. StoppingOK'
  BY DEF GatewayInv, StoppingOK, WriteThrows, Set, WsClosed, TryClose, closeVars, gatewayVars
<1>3. CloseTypes' /\ RelayTypes'
  <2>1. TryClose(c, "worker")
    BY DEF WriteThrows
  <2>2. CloseTypes'
    BY <2>1, TryCloseFacts DEF GatewayInv
  <2>3. RelayTypes'
    BY DEF GatewayInv, RelayTypes, WriteThrows, Set, gatewayVars
  <2> QED
    BY <2>2, <2>3
<1>4. WorkerTypes' /\ ConnTypes'
  BY DEF GatewayInv, WorkerTypes, ConnTypes, WriteThrows, Set, WsClosed, TryClose, closeVars,
     gatewayVars
<1>5. ASSUME NEW d \in Conns
      PROVE  (LockOK(d) /\ ClosingOK(d) /\ SocketOK(d) /\ PauseOK(d) /\ HeldOK(d))'
  BY DEF GatewayInv, CloseTypes, RelayTypes, WorkerTypes, ConnTypes, LockOK, ClosingOK,
     SocketOK, PauseOK, HeldOK, Reached, WriteThrows, Set, WsClosed, TryClose, closeVars,
     gatewayVars
<1>6. FreshOK'
  BY DEF GatewayInv, WorkerTypes, ConnTypes, FreshOK, WriteThrows, Set, WsClosed, TryClose,
     closeVars, gatewayVars
<1>7. ASSUME NEW d \in Conns
      PROVE  FoundOK(d)'
  BY DEF GatewayInv, CloseTypes, RelayTypes, WorkerTypes, ClosingOK, SocketOK, FoundOK,
     WriteThrows, Set, WsClosed, TryClose, closeVars, gatewayVars
<1> QED
  BY <1>1, <1>2, <1>3, <1>4, <1>5, <1>6, <1>7 DEF GatewayInv

\* onClose holds the session it has taken out of the map.
LEMMA ConnectionEndsStep ==
  ASSUME GatewayInv, NEW c \in Conns, ConnectionEnds(c)
  PROVE  GatewayInv'
<1>1. GateTypes' /\ MapTypes'
  <2>1. UNCHANGED gatewayVars /\ sessions' = sessions \ {c}
    BY DEF ConnectionEnds, Remove
  <2>2. MapTypes'
    BY <2>1, MapShrinks DEF GatewayInv, MapTypes, gatewayVars
  <2> QED
    BY <2>1, <2>2 DEF GatewayInv, GateTypes, gatewayVars
<1>2. StoppingOK'
  BY DEF GatewayInv, StoppingOK, ConnectionEnds, Set, Remove, gatewayVars, closeVars, relayVars,
     workerVars
<1>3. CloseTypes' /\ RelayTypes'
  BY DEF GatewayInv, CloseTypes, RelayTypes, ConnectionEnds, Set, Remove, gatewayVars,
     closeVars, relayVars, workerVars
<1>4. WorkerTypes' /\ ConnTypes'
  BY DEF GatewayInv, WorkerTypes, ConnTypes, ConnectionEnds, Set, Remove, gatewayVars,
     closeVars, relayVars, workerVars
<1>5. ASSUME NEW d \in Conns
      PROVE  (LockOK(d) /\ ClosingOK(d) /\ SocketOK(d) /\ PauseOK(d) /\ HeldOK(d))'
  <2>1. Reached(d) => Reached(d)'
    <3>1. Remove(c)
      BY DEF ConnectionEnds
    <3> QED
      BY <3>1, RemovedIsReached DEF GatewayInv
  <2>2. UNCHANGED <<closeVars, relayVars, workerVars>>
    BY DEF ConnectionEnds, Remove
  <2> QED
    BY <2>1, <2>2
    DEF GatewayInv, LockOK, ClosingOK, SocketOK, PauseOK, HeldOK, closeVars, relayVars, workerVars
<1>6. FreshOK'
  BY DEF GatewayInv, WorkerTypes, ConnTypes, FreshOK, ConnectionEnds, Set, Remove, gatewayVars,
     closeVars, relayVars, workerVars
<1>7. ASSUME NEW d \in Conns
      PROVE  FoundOK(d)'
  BY DEF GatewayInv, CloseTypes, RelayTypes, WorkerTypes, ClosingOK, SocketOK, FoundOK,
     ConnectionEnds, Set, Remove, gatewayVars, closeVars, relayVars, workerVars
<1> QED
  BY <1>1, <1>2, <1>3, <1>4, <1>5, <1>6, <1>7 DEF GatewayInv

\* onError holds the session it has taken out of the map.
LEMMA OnErrorStep ==
  ASSUME GatewayInv, NEW c \in Conns, OnError(c)
  PROVE  GatewayInv'
<1>1. GateTypes' /\ MapTypes'
  <2>1. UNCHANGED gatewayVars /\ sessions' = sessions \ {c}
    BY DEF OnError, Remove
  <2>2. MapTypes'
    BY <2>1, MapShrinks DEF GatewayInv, MapTypes, gatewayVars
  <2> QED
    BY <2>1, <2>2 DEF GatewayInv, GateTypes, gatewayVars
<1>2. StoppingOK'
  BY DEF GatewayInv, StoppingOK, OnError, Remove, Set, gatewayVars, closeVars, relayVars,
     workerVars
<1>3. CloseTypes' /\ RelayTypes'
  BY DEF GatewayInv, CloseTypes, RelayTypes, OnError, Remove, Set, gatewayVars, closeVars,
     relayVars, workerVars
<1>4. WorkerTypes' /\ ConnTypes'
  BY DEF GatewayInv, WorkerTypes, ConnTypes, OnError, Remove, Set, gatewayVars, closeVars,
     relayVars, workerVars
<1>5. ASSUME NEW d \in Conns
      PROVE  (LockOK(d) /\ ClosingOK(d) /\ SocketOK(d) /\ PauseOK(d) /\ HeldOK(d))'
  <2>1. Reached(d) => Reached(d)'
    <3>1. Remove(c)
      BY DEF OnError
    <3> QED
      BY <3>1, RemovedIsReached DEF GatewayInv
  <2>2. UNCHANGED <<closeVars, relayVars, workerVars>>
    BY DEF OnError, Remove
  <2> QED
    BY <2>1, <2>2
    DEF GatewayInv, LockOK, ClosingOK, SocketOK, PauseOK, HeldOK, closeVars, relayVars, workerVars
<1>6. FreshOK'
  BY DEF GatewayInv, WorkerTypes, ConnTypes, FreshOK, OnError, Remove, Set, gatewayVars,
     closeVars, relayVars, workerVars
<1>7. ASSUME NEW d \in Conns
      PROVE  FoundOK(d)'
  BY DEF GatewayInv, CloseTypes, RelayTypes, WorkerTypes, ClosingOK, SocketOK, FoundOK, OnError,
     Remove, Set, gatewayVars, closeVars, relayVars, workerVars
<1> QED
  BY <1>1, <1>2, <1>3, <1>4, <1>5, <1>6, <1>7 DEF GatewayInv

\* A handler closes its session, or finds it closed.
LEMMA HandlerClosesStep ==
  ASSUME GatewayInv, NEW c \in Conns, HandlerCloses(c)
  PROVE  GatewayInv'
<1>1. GateTypes' /\ MapTypes'
  BY DEF GatewayInv, GateTypes, MapTypes, HandlerCloses, Set, TryClose, closeVars, gatewayVars,
     relayVars, workerVars
<1>2. StoppingOK'
  BY DEF GatewayInv, StoppingOK, HandlerCloses, Set, TryClose, closeVars, gatewayVars,
     relayVars, workerVars
<1>3. CloseTypes' /\ RelayTypes'
  <2>1. TryClose(c, "handler") /\ UNCHANGED relayVars
    BY DEF HandlerCloses
  <2>2. CloseTypes'
    BY <2>1, TryCloseFacts DEF GatewayInv
  <2> QED
    BY <2>1, <2>2 DEF GatewayInv, RelayTypes, relayVars
<1>4. WorkerTypes' /\ ConnTypes'
  BY DEF GatewayInv, WorkerTypes, ConnTypes, HandlerCloses, Set, TryClose, closeVars,
     gatewayVars, relayVars, workerVars
<1>5. ASSUME NEW d \in Conns
      PROVE  (LockOK(d) /\ ClosingOK(d) /\ SocketOK(d) /\ PauseOK(d) /\ HeldOK(d))'
  BY DEF GatewayInv, CloseTypes, RelayTypes, WorkerTypes, ConnTypes, LockOK, ClosingOK,
     SocketOK, PauseOK, HeldOK, Reached, HandlerCloses, Set, TryClose, closeVars, gatewayVars,
     relayVars, workerVars
<1>6. FreshOK'
  BY DEF GatewayInv, WorkerTypes, ConnTypes, FreshOK, HandlerCloses, Set, TryClose, closeVars,
     gatewayVars, relayVars, workerVars
<1>7. ASSUME NEW d \in Conns
      PROVE  FoundOK(d)'
  BY DEF GatewayInv, CloseTypes, RelayTypes, WorkerTypes, ClosingOK, SocketOK, FoundOK,
     HandlerCloses, Set, TryClose, closeVars, gatewayVars, relayVars, workerVars
<1> QED
  BY <1>1, <1>2, <1>3, <1>4, <1>5, <1>6, <1>7 DEF GatewayInv

\* A new connection has had no callback yet.
LEMMA AcceptStep ==
  ASSUME GatewayInv, NEW c \in Conns, Accept(c)
  PROVE  GatewayInv'
<1>1. GateTypes' /\ MapTypes'
  BY DEF GatewayInv, GateTypes, MapTypes, Accept, Set, gatewayVars, closeVars, relayVars
<1>2. StoppingOK'
  BY DEF GatewayInv, StoppingOK, Accept, Set, gatewayVars, closeVars, relayVars
<1>3. CloseTypes' /\ RelayTypes'
  BY DEF GatewayInv, CloseTypes, RelayTypes, Accept, Set, gatewayVars, closeVars, relayVars
<1>4. WorkerTypes' /\ ConnTypes'
  BY DEF GatewayInv, WorkerTypes, ConnTypes, Accept, Set, gatewayVars, closeVars, relayVars
<1>5. ASSUME NEW d \in Conns
      PROVE  (LockOK(d) /\ ClosingOK(d) /\ SocketOK(d) /\ PauseOK(d) /\ HeldOK(d))'
  <2>1. job' = [job EXCEPT ![c] = "open"] /\ ws[c] = "none"
        /\ UNCHANGED <<connected, paused, handler, sessions, toClose, closeVars, relayVars>>
    BY DEF Accept, Set, gatewayVars
  <2>2. lock[c] # "worker"
    BY <2>1 DEF GatewayInv, LockOK, FreshOK
  <2> QED
    BY <2>1, <2>2
    DEF GatewayInv, WorkerTypes, LockOK, ClosingOK, SocketOK, PauseOK, HeldOK, Reached,
        closeVars, relayVars
<1>6. FreshOK'
  BY DEF GatewayInv, WorkerTypes, ConnTypes, FreshOK, Accept, Set, gatewayVars, closeVars,
     relayVars
<1>7. ASSUME NEW d \in Conns
      PROVE  FoundOK(d)'
  BY DEF GatewayInv, CloseTypes, RelayTypes, WorkerTypes, ClosingOK, SocketOK, FoundOK, Accept,
     Set, gatewayVars, closeVars, relayVars
<1> QED
  BY <1>1, <1>2, <1>3, <1>4, <1>5, <1>6, <1>7 DEF GatewayInv

\* The socket is created before its thread tests `closed`.
LEMMA RelayCreatesStep ==
  ASSUME GatewayInv, NEW c \in Conns, RelayCreates(c)
  PROVE  GatewayInv'
<1>1. GateTypes' /\ MapTypes'
  BY DEF GatewayInv, GateTypes, MapTypes, RelayCreates, RelayGoes, Set, gatewayVars, workerVars,
     closeVars, connVars
<1>2. StoppingOK'
  BY DEF GatewayInv, StoppingOK, RelayCreates, RelayGoes, Set, gatewayVars, workerVars,
     closeVars, connVars
<1>3. CloseTypes' /\ RelayTypes'
  BY DEF GatewayInv, CloseTypes, RelayTypes, RelayCreates, RelayGoes, Set, gatewayVars,
     workerVars, closeVars, connVars
<1>4. WorkerTypes' /\ ConnTypes'
  BY DEF GatewayInv, WorkerTypes, ConnTypes, RelayCreates, RelayGoes, Set, gatewayVars,
     workerVars, closeVars, connVars
<1>5. ASSUME NEW d \in Conns
      PROVE  (LockOK(d) /\ ClosingOK(d) /\ SocketOK(d) /\ PauseOK(d) /\ HeldOK(d))'
  BY DEF GatewayInv, CloseTypes, RelayTypes, WorkerTypes, ConnTypes, LockOK, ClosingOK,
     SocketOK, PauseOK, HeldOK, Reached, RelayCreates, RelayGoes, Set, gatewayVars, workerVars,
     closeVars, connVars
<1>6. FreshOK'
  BY DEF GatewayInv, WorkerTypes, ConnTypes, FreshOK, RelayCreates, RelayGoes, Set, gatewayVars,
     workerVars, closeVars, connVars
<1>7. ASSUME NEW d \in Conns
      PROVE  FoundOK(d)'
  BY DEF GatewayInv, CloseTypes, RelayTypes, WorkerTypes, ClosingOK, SocketOK, FoundOK,
     RelayCreates, RelayGoes, Set, gatewayVars, workerVars, closeVars, connVars
<1> QED
  BY <1>1, <1>2, <1>3, <1>4, <1>5, <1>6, <1>7 DEF GatewayInv

\* The store to the field becomes visible.
LEMMA PublishStep ==
  ASSUME GatewayInv, NEW c \in Conns, Publish(c)
  PROVE  GatewayInv'
<1>1. GateTypes' /\ MapTypes'
  BY DEF GatewayInv, GateTypes, MapTypes, Publish, Set, gatewayVars, closeVars, workerVars,
     connVars
<1>2. StoppingOK'
  BY DEF GatewayInv, StoppingOK, Publish, Set, gatewayVars, closeVars, workerVars, connVars
<1>3. CloseTypes' /\ RelayTypes'
  BY DEF GatewayInv, CloseTypes, RelayTypes, Publish, Set, gatewayVars, closeVars, workerVars,
     connVars
<1>4. WorkerTypes' /\ ConnTypes'
  BY DEF GatewayInv, WorkerTypes, ConnTypes, Publish, Set, gatewayVars, closeVars, workerVars,
     connVars
<1>5. ASSUME NEW d \in Conns
      PROVE  (LockOK(d) /\ ClosingOK(d) /\ SocketOK(d) /\ PauseOK(d) /\ HeldOK(d))'
  BY DEF GatewayInv, CloseTypes, RelayTypes, WorkerTypes, ConnTypes, LockOK, ClosingOK,
     SocketOK, PauseOK, HeldOK, Reached, Publish, Set, gatewayVars, closeVars, workerVars,
     connVars
<1>6. FreshOK'
  BY DEF GatewayInv, WorkerTypes, ConnTypes, FreshOK, Publish, Set, gatewayVars, closeVars,
     workerVars, connVars
<1>7. ASSUME NEW d \in Conns
      PROVE  FoundOK(d)'
  BY DEF GatewayInv, CloseTypes, RelayTypes, WorkerTypes, ClosingOK, SocketOK, FoundOK, Publish,
     Set, gatewayVars, closeVars, workerVars, connVars
<1> QED
  BY <1>1, <1>2, <1>3, <1>4, <1>5, <1>6, <1>7 DEF GatewayInv

\* A thread that finds its session closed closes its socket itself.
LEMMA CheckCreatedStep ==
  ASSUME GatewayInv, NEW c \in Conns, CheckCreated(c)
  PROVE  GatewayInv'
<1>1. GateTypes' /\ MapTypes'
  BY DEF GatewayInv, GateTypes, MapTypes, CheckCreated, Goes, RelayGoes, Set, gatewayVars,
     workerVars, closeVars, connVars
<1>2. StoppingOK'
  BY DEF GatewayInv, StoppingOK, CheckCreated, Goes, RelayGoes, Set, gatewayVars, workerVars,
     closeVars, connVars
<1>3. CloseTypes' /\ RelayTypes'
  BY DEF GatewayInv, CloseTypes, RelayTypes, CheckCreated, Goes, RelayGoes, Set, gatewayVars,
     workerVars, closeVars, connVars
<1>4. WorkerTypes' /\ ConnTypes'
  BY DEF GatewayInv, WorkerTypes, ConnTypes, CheckCreated, Goes, RelayGoes, Set, gatewayVars,
     workerVars, closeVars, connVars
<1>5. ASSUME NEW d \in Conns
      PROVE  (LockOK(d) /\ ClosingOK(d) /\ SocketOK(d) /\ PauseOK(d) /\ HeldOK(d))'
  BY DEF GatewayInv, CloseTypes, RelayTypes, WorkerTypes, ConnTypes, LockOK, ClosingOK,
     SocketOK, PauseOK, HeldOK, Reached, CheckCreated, Goes, RelayGoes, Set, gatewayVars,
     workerVars, closeVars, connVars
<1>6. FreshOK'
  BY DEF GatewayInv, WorkerTypes, ConnTypes, FreshOK, CheckCreated, Goes, RelayGoes, Set,
     gatewayVars, workerVars, closeVars, connVars
<1>7. ASSUME NEW d \in Conns
      PROVE  FoundOK(d)'
  BY DEF GatewayInv, CloseTypes, RelayTypes, WorkerTypes, ClosingOK, SocketOK, FoundOK,
     CheckCreated, Goes, RelayGoes, Set, gatewayVars, workerVars, closeVars, connVars
<1> QED
  BY <1>1, <1>2, <1>3, <1>4, <1>5, <1>6, <1>7 DEF GatewayInv

\* The socket connects, or its thread gives up.
LEMMA RelayConnectsStep ==
  ASSUME GatewayInv, NEW c \in Conns, RelayConnects(c)
  PROVE  GatewayInv'
<1>1. GateTypes' /\ MapTypes'
  BY DEF GatewayInv, GateTypes, MapTypes, RelayConnects, Goes, RelayGoes, Set, gatewayVars,
     workerVars, closeVars, connVars, Throws, WsClosed
<1>2. StoppingOK'
  BY DEF GatewayInv, StoppingOK, RelayConnects, Goes, RelayGoes, Set, gatewayVars, workerVars,
     closeVars, connVars, Throws, WsClosed
<1>3. CloseTypes' /\ RelayTypes'
  BY DEF GatewayInv, CloseTypes, RelayTypes, RelayConnects, Goes, RelayGoes, Set, gatewayVars,
     workerVars, closeVars, connVars, Throws, WsClosed
<1>4. WorkerTypes' /\ ConnTypes'
  BY DEF GatewayInv, WorkerTypes, ConnTypes, RelayConnects, Goes, RelayGoes, Set, gatewayVars,
     workerVars, closeVars, connVars, Throws, WsClosed
<1>5. ASSUME NEW d \in Conns
      PROVE  (LockOK(d) /\ ClosingOK(d) /\ SocketOK(d) /\ PauseOK(d) /\ HeldOK(d))'
  BY DEF GatewayInv, CloseTypes, RelayTypes, WorkerTypes, ConnTypes, LockOK, ClosingOK,
     SocketOK, PauseOK, HeldOK, Reached, RelayConnects, Goes, RelayGoes, Set, gatewayVars,
     workerVars, closeVars, connVars, Throws, WsClosed
<1>6. FreshOK'
  BY DEF GatewayInv, WorkerTypes, ConnTypes, FreshOK, RelayConnects, Goes, RelayGoes, Set,
     gatewayVars, workerVars, closeVars, connVars, Throws, WsClosed
<1>7. ASSUME NEW d \in Conns
      PROVE  FoundOK(d)'
  BY DEF GatewayInv, CloseTypes, RelayTypes, WorkerTypes, ClosingOK, SocketOK, FoundOK,
     RelayConnects, Goes, RelayGoes, Set, gatewayVars, workerVars, closeVars, connVars, Throws,
     WsClosed
<1> QED
  BY <1>1, <1>2, <1>3, <1>4, <1>5, <1>6, <1>7 DEF GatewayInv

\* The stream is set for a session that is still open.
LEMMA RelaySetsOutputStep ==
  ASSUME GatewayInv, NEW c \in Conns, RelaySetsOutput(c)
  PROVE  GatewayInv'
<1>1. GateTypes' /\ MapTypes'
  BY DEF GatewayInv, GateTypes, MapTypes, RelaySetsOutput, Goes, RelayGoes, Set, gatewayVars,
     workerVars, closeVars, connVars, Throws, WsClosed
<1>2. StoppingOK'
  BY DEF GatewayInv, StoppingOK, RelaySetsOutput, Goes, RelayGoes, Set, gatewayVars, workerVars,
     closeVars, connVars, Throws, WsClosed
<1>3. CloseTypes' /\ RelayTypes'
  BY DEF GatewayInv, CloseTypes, RelayTypes, RelaySetsOutput, Goes, RelayGoes, Set, gatewayVars,
     workerVars, closeVars, connVars, Throws, WsClosed
<1>4. WorkerTypes' /\ ConnTypes'
  BY DEF GatewayInv, WorkerTypes, ConnTypes, RelaySetsOutput, Goes, RelayGoes, Set, gatewayVars,
     workerVars, closeVars, connVars, Throws, WsClosed
<1>5. ASSUME NEW d \in Conns
      PROVE  (LockOK(d) /\ ClosingOK(d) /\ SocketOK(d) /\ PauseOK(d) /\ HeldOK(d))'
  BY DEF GatewayInv, CloseTypes, RelayTypes, WorkerTypes, ConnTypes, LockOK, ClosingOK,
     SocketOK, PauseOK, HeldOK, Reached, RelaySetsOutput, Goes, RelayGoes, Set, gatewayVars,
     workerVars, closeVars, connVars, Throws, WsClosed
<1>6. FreshOK'
  BY DEF GatewayInv, WorkerTypes, ConnTypes, FreshOK, RelaySetsOutput, Goes, RelayGoes, Set,
     gatewayVars, workerVars, closeVars, connVars, Throws, WsClosed
<1>7. ASSUME NEW d \in Conns
      PROVE  FoundOK(d)'
  BY DEF GatewayInv, CloseTypes, RelayTypes, WorkerTypes, ClosingOK, SocketOK, FoundOK,
     RelaySetsOutput, Goes, RelayGoes, Set, gatewayVars, workerVars, closeVars, connVars,
     Throws, WsClosed
<1> QED
  BY <1>1, <1>2, <1>3, <1>4, <1>5, <1>6, <1>7 DEF GatewayInv

\* "connected" is sent, or the thread gives up.
LEMMA RelayAnnouncesStep ==
  ASSUME GatewayInv, NEW c \in Conns, RelayAnnounces(c)
  PROVE  GatewayInv'
<1>1. GateTypes' /\ MapTypes'
  BY DEF GatewayInv, GateTypes, MapTypes, RelayAnnounces, Goes, RelayGoes, Set, gatewayVars,
     workerVars, closeVars, connVars
<1>2. StoppingOK'
  BY DEF GatewayInv, StoppingOK, RelayAnnounces, Goes, RelayGoes, Set, gatewayVars, workerVars,
     closeVars, connVars
<1>3. CloseTypes' /\ RelayTypes'
  BY DEF GatewayInv, CloseTypes, RelayTypes, RelayAnnounces, Goes, RelayGoes, Set, gatewayVars,
     workerVars, closeVars, connVars
<1>4. WorkerTypes' /\ ConnTypes'
  BY DEF GatewayInv, WorkerTypes, ConnTypes, RelayAnnounces, Goes, RelayGoes, Set, gatewayVars,
     workerVars, closeVars, connVars
<1>5. ASSUME NEW d \in Conns
      PROVE  (LockOK(d) /\ ClosingOK(d) /\ SocketOK(d) /\ PauseOK(d) /\ HeldOK(d))'
  BY DEF GatewayInv, CloseTypes, RelayTypes, WorkerTypes, ConnTypes, LockOK, ClosingOK,
     SocketOK, PauseOK, HeldOK, Reached, RelayAnnounces, Goes, RelayGoes, Set, gatewayVars,
     workerVars, closeVars, connVars
<1>6. FreshOK'
  BY DEF GatewayInv, WorkerTypes, ConnTypes, FreshOK, RelayAnnounces, Goes, RelayGoes, Set,
     gatewayVars, workerVars, closeVars, connVars
<1>7. ASSUME NEW d \in Conns
      PROVE  FoundOK(d)'
  BY DEF GatewayInv, CloseTypes, RelayTypes, WorkerTypes, ClosingOK, SocketOK, FoundOK,
     RelayAnnounces, Goes, RelayGoes, Set, gatewayVars, workerVars, closeVars, connVars
<1> QED
  BY <1>1, <1>2, <1>3, <1>4, <1>5, <1>6, <1>7 DEF GatewayInv

\* The loop tests `closed`.
LEMMA RelayLoopsStep ==
  ASSUME GatewayInv, NEW c \in Conns, RelayLoops(c)
  PROVE  GatewayInv'
<1>1. GateTypes' /\ MapTypes'
  BY DEF GatewayInv, GateTypes, MapTypes, RelayLoops, Goes, RelayGoes, Set, gatewayVars,
     workerVars, closeVars, connVars
<1>2. StoppingOK'
  BY DEF GatewayInv, StoppingOK, RelayLoops, Goes, RelayGoes, Set, gatewayVars, workerVars,
     closeVars, connVars
<1>3. CloseTypes' /\ RelayTypes'
  BY DEF GatewayInv, CloseTypes, RelayTypes, RelayLoops, Goes, RelayGoes, Set, gatewayVars,
     workerVars, closeVars, connVars
<1>4. WorkerTypes' /\ ConnTypes'
  BY DEF GatewayInv, WorkerTypes, ConnTypes, RelayLoops, Goes, RelayGoes, Set, gatewayVars,
     workerVars, closeVars, connVars
<1>5. ASSUME NEW d \in Conns
      PROVE  (LockOK(d) /\ ClosingOK(d) /\ SocketOK(d) /\ PauseOK(d) /\ HeldOK(d))'
  BY DEF GatewayInv, CloseTypes, RelayTypes, WorkerTypes, ConnTypes, LockOK, ClosingOK,
     SocketOK, PauseOK, HeldOK, Reached, RelayLoops, Goes, RelayGoes, Set, gatewayVars,
     workerVars, closeVars, connVars
<1>6. FreshOK'
  BY DEF GatewayInv, WorkerTypes, ConnTypes, FreshOK, RelayLoops, Goes, RelayGoes, Set,
     gatewayVars, workerVars, closeVars, connVars
<1>7. ASSUME NEW d \in Conns
      PROVE  FoundOK(d)'
  BY DEF GatewayInv, CloseTypes, RelayTypes, WorkerTypes, ClosingOK, SocketOK, FoundOK,
     RelayLoops, Goes, RelayGoes, Set, gatewayVars, workerVars, closeVars, connVars
<1> QED
  BY <1>1, <1>2, <1>3, <1>4, <1>5, <1>6, <1>7 DEF GatewayInv

\* The thread reads only while it is not paused, or closed.
LEMMA RelayAwaitsStep ==
  ASSUME GatewayInv, NEW c \in Conns, RelayAwaits(c)
  PROVE  GatewayInv'
<1>1. GateTypes' /\ MapTypes'
  BY DEF GatewayInv, GateTypes, MapTypes, RelayAwaits, MayRead, Goes, RelayGoes, Set,
     gatewayVars, workerVars, closeVars, connVars
<1>2. StoppingOK'
  BY DEF GatewayInv, StoppingOK, RelayAwaits, MayRead, Goes, RelayGoes, Set, gatewayVars,
     workerVars, closeVars, connVars
<1>3. CloseTypes' /\ RelayTypes'
  BY DEF GatewayInv, CloseTypes, RelayTypes, RelayAwaits, MayRead, Goes, RelayGoes, Set,
     gatewayVars, workerVars, closeVars, connVars
<1>4. WorkerTypes' /\ ConnTypes'
  BY DEF GatewayInv, WorkerTypes, ConnTypes, RelayAwaits, MayRead, Goes, RelayGoes, Set,
     gatewayVars, workerVars, closeVars, connVars
<1>5. ASSUME NEW d \in Conns
      PROVE  (LockOK(d) /\ ClosingOK(d) /\ SocketOK(d) /\ PauseOK(d) /\ HeldOK(d))'
  BY DEF GatewayInv, CloseTypes, RelayTypes, WorkerTypes, ConnTypes, LockOK, ClosingOK,
     SocketOK, PauseOK, HeldOK, Reached, RelayAwaits, MayRead, Goes, RelayGoes, Set,
     gatewayVars, workerVars, closeVars, connVars
<1>6. FreshOK'
  BY DEF GatewayInv, WorkerTypes, ConnTypes, FreshOK, RelayAwaits, MayRead, Goes, RelayGoes,
     Set, gatewayVars, workerVars, closeVars, connVars
<1>7. ASSUME NEW d \in Conns
      PROVE  FoundOK(d)'
  BY DEF GatewayInv, CloseTypes, RelayTypes, WorkerTypes, ClosingOK, SocketOK, FoundOK,
     RelayAwaits, MayRead, Goes, RelayGoes, Set, gatewayVars, workerVars, closeVars, connVars
<1> QED
  BY <1>1, <1>2, <1>3, <1>4, <1>5, <1>6, <1>7 DEF GatewayInv

\* A read returns.
LEMMA RelayReadsStep ==
  ASSUME GatewayInv, NEW c \in Conns, RelayReads(c)
  PROVE  GatewayInv'
<1>1. GateTypes' /\ MapTypes'
  BY DEF GatewayInv, GateTypes, MapTypes, RelayReads, Goes, RelayGoes, Set, gatewayVars,
     workerVars, closeVars, connVars
<1>2. StoppingOK'
  BY DEF GatewayInv, StoppingOK, RelayReads, Goes, RelayGoes, Set, gatewayVars, workerVars,
     closeVars, connVars
<1>3. CloseTypes' /\ RelayTypes'
  BY DEF GatewayInv, CloseTypes, RelayTypes, RelayReads, Goes, RelayGoes, Set, gatewayVars,
     workerVars, closeVars, connVars
<1>4. WorkerTypes' /\ ConnTypes'
  BY DEF GatewayInv, WorkerTypes, ConnTypes, RelayReads, Goes, RelayGoes, Set, gatewayVars,
     workerVars, closeVars, connVars
<1>5. ASSUME NEW d \in Conns
      PROVE  (LockOK(d) /\ ClosingOK(d) /\ SocketOK(d) /\ PauseOK(d) /\ HeldOK(d))'
  BY DEF GatewayInv, CloseTypes, RelayTypes, WorkerTypes, ConnTypes, LockOK, ClosingOK,
     SocketOK, PauseOK, HeldOK, Reached, RelayReads, Goes, RelayGoes, Set, gatewayVars,
     workerVars, closeVars, connVars
<1>6. FreshOK'
  BY DEF GatewayInv, WorkerTypes, ConnTypes, FreshOK, RelayReads, Goes, RelayGoes, Set,
     gatewayVars, workerVars, closeVars, connVars
<1>7. ASSUME NEW d \in Conns
      PROVE  FoundOK(d)'
  BY DEF GatewayInv, CloseTypes, RelayTypes, WorkerTypes, ClosingOK, SocketOK, FoundOK,
     RelayReads, Goes, RelayGoes, Set, gatewayVars, workerVars, closeVars, connVars
<1> QED
  BY <1>1, <1>2, <1>3, <1>4, <1>5, <1>6, <1>7 DEF GatewayInv

\* A read throws.
LEMMA ReadThrowsStep ==
  ASSUME GatewayInv, NEW c \in Conns, ReadThrows(c)
  PROVE  GatewayInv'
<1>1. GateTypes' /\ MapTypes'
  BY DEF GatewayInv, GateTypes, MapTypes, ReadThrows, Throws, RelayGoes, Set, gatewayVars,
     workerVars, WsClosed, closeVars
<1>2. StoppingOK'
  BY DEF GatewayInv, StoppingOK, ReadThrows, Throws, RelayGoes, Set, gatewayVars, workerVars,
     WsClosed, closeVars
<1>3. CloseTypes' /\ RelayTypes'
  BY DEF GatewayInv, CloseTypes, RelayTypes, ReadThrows, Throws, RelayGoes, Set, gatewayVars,
     workerVars, WsClosed, closeVars
<1>4. WorkerTypes' /\ ConnTypes'
  BY DEF GatewayInv, WorkerTypes, ConnTypes, ReadThrows, Throws, RelayGoes, Set, gatewayVars,
     workerVars, WsClosed, closeVars
<1>5. ASSUME NEW d \in Conns
      PROVE  (LockOK(d) /\ ClosingOK(d) /\ SocketOK(d) /\ PauseOK(d) /\ HeldOK(d))'
  BY DEF GatewayInv, CloseTypes, RelayTypes, WorkerTypes, ConnTypes, LockOK, ClosingOK,
     SocketOK, PauseOK, HeldOK, Reached, ReadThrows, Throws, RelayGoes, Set, gatewayVars,
     workerVars, WsClosed, closeVars
<1>6. FreshOK'
  BY DEF GatewayInv, WorkerTypes, ConnTypes, FreshOK, ReadThrows, Throws, RelayGoes, Set,
     gatewayVars, workerVars, WsClosed, closeVars
<1>7. ASSUME NEW d \in Conns
      PROVE  FoundOK(d)'
  BY DEF GatewayInv, CloseTypes, RelayTypes, WorkerTypes, ClosingOK, SocketOK, FoundOK,
     ReadThrows, Throws, RelayGoes, Set, gatewayVars, workerVars, WsClosed, closeVars
<1> QED
  BY <1>1, <1>2, <1>3, <1>4, <1>5, <1>6, <1>7 DEF GatewayInv

\* The one chunk that is sent in a pause takes the thread back to the wait.
LEMMA RelaySendsStep ==
  ASSUME GatewayInv, NEW c \in Conns, RelaySends(c)
  PROVE  GatewayInv'
<1>1. GateTypes' /\ MapTypes'
  BY DEF GatewayInv, GateTypes, MapTypes, RelaySends, RelayGoes, Set, gatewayVars, workerVars,
     closeVars, connVars, Goes
<1>2. StoppingOK'
  BY DEF GatewayInv, StoppingOK, RelaySends, RelayGoes, Set, gatewayVars, workerVars, closeVars,
     connVars, Goes
<1>3. CloseTypes' /\ RelayTypes'
  <2>1. extra' = extra \/ (extra[c] < 2 /\ extra' = [extra EXCEPT ![c] = extra[c] + 1])
    BY DEF RelaySends, Goes, Set
  <2>2. extra' \in [Conns -> 0 .. 2]
    <3>1. extra \in [Conns -> 0 .. 2]
      BY DEF GatewayInv, RelayTypes
    <3>2. extra[c] < 2 => extra[c] + 1 \in 0 .. 2
      BY <3>1
    <3>3. CASE extra' = extra
      BY <3>1, <3>3
    <3>4. CASE extra[c] < 2 /\ extra' = [extra EXCEPT ![c] = extra[c] + 1]
      BY <3>1, <3>2, <3>4
    <3> QED
      BY <2>1, <3>3, <3>4
  <2> QED
    BY <2>2 DEF GatewayInv, CloseTypes, RelayTypes, RelaySends, RelayGoes, Set, Goes, closeVars
<1>4. WorkerTypes' /\ ConnTypes'
  BY DEF GatewayInv, WorkerTypes, ConnTypes, RelaySends, RelayGoes, Set, gatewayVars,
     workerVars, closeVars, connVars, Goes
<1>5. ASSUME NEW d \in Conns
      PROVE  (LockOK(d) /\ ClosingOK(d) /\ SocketOK(d) /\ PauseOK(d) /\ HeldOK(d))'
  BY DEF GatewayInv, CloseTypes, RelayTypes, WorkerTypes, ConnTypes, LockOK, ClosingOK,
     SocketOK, PauseOK, HeldOK, Reached, RelaySends, RelayGoes, Set, gatewayVars, workerVars,
     closeVars, connVars, Goes
<1>6. FreshOK'
  BY DEF GatewayInv, WorkerTypes, ConnTypes, FreshOK, RelaySends, RelayGoes, Set, gatewayVars,
     workerVars, closeVars, connVars, Goes
<1>7. ASSUME NEW d \in Conns
      PROVE  FoundOK(d)'
  BY DEF GatewayInv, CloseTypes, RelayTypes, WorkerTypes, ClosingOK, SocketOK, FoundOK,
     RelaySends, RelayGoes, Set, gatewayVars, workerVars, closeVars, connVars, Goes
<1> QED
  BY <1>1, <1>2, <1>3, <1>4, <1>5, <1>6, <1>7 DEF GatewayInv

\* The WebSocket sends what it holds.
LEMMA BufferDrainsStep ==
  ASSUME GatewayInv, NEW c \in Conns, BufferDrains(c)
  PROVE  GatewayInv'
<1>1. GateTypes' /\ MapTypes'
  BY DEF GatewayInv, GateTypes, MapTypes, BufferDrains, Set, gatewayVars, closeVars, workerVars,
     connVars
<1>2. StoppingOK'
  BY DEF GatewayInv, StoppingOK, BufferDrains, Set, gatewayVars, closeVars, workerVars, connVars
<1>3. CloseTypes' /\ RelayTypes'
  BY DEF GatewayInv, CloseTypes, RelayTypes, BufferDrains, Set, gatewayVars, closeVars,
     workerVars, connVars
<1>4. WorkerTypes' /\ ConnTypes'
  BY DEF GatewayInv, WorkerTypes, ConnTypes, BufferDrains, Set, gatewayVars, closeVars,
     workerVars, connVars
<1>5. ASSUME NEW d \in Conns
      PROVE  (LockOK(d) /\ ClosingOK(d) /\ SocketOK(d) /\ PauseOK(d) /\ HeldOK(d))'
  BY DEF GatewayInv, CloseTypes, RelayTypes, WorkerTypes, ConnTypes, LockOK, ClosingOK,
     SocketOK, PauseOK, HeldOK, Reached, BufferDrains, Set, gatewayVars, closeVars, workerVars,
     connVars
<1>6. FreshOK'
  BY DEF GatewayInv, WorkerTypes, ConnTypes, FreshOK, BufferDrains, Set, gatewayVars, closeVars,
     workerVars, connVars
<1>7. ASSUME NEW d \in Conns
      PROVE  FoundOK(d)'
  BY DEF GatewayInv, CloseTypes, RelayTypes, WorkerTypes, ClosingOK, SocketOK, FoundOK,
     BufferDrains, Set, gatewayVars, closeVars, workerVars, connVars
<1> QED
  BY <1>1, <1>2, <1>3, <1>4, <1>5, <1>6, <1>7 DEF GatewayInv

\* The relay thread takes a free lock.
LEMMA RelayLocksStep ==
  ASSUME GatewayInv, NEW c \in Conns, RelayLocks(c)
  PROVE  GatewayInv'
<1>1. GateTypes' /\ MapTypes'
  BY DEF GatewayInv, GateTypes, MapTypes, RelayLocks, RelayGoes, Set, gatewayVars, workerVars,
     closeVars, connVars
<1>2. StoppingOK'
  BY DEF GatewayInv, StoppingOK, RelayLocks, RelayGoes, Set, gatewayVars, workerVars, closeVars,
     connVars
<1>3. CloseTypes' /\ RelayTypes'
  BY DEF GatewayInv, CloseTypes, RelayTypes, RelayLocks, RelayGoes, Set, gatewayVars,
     workerVars, closeVars, connVars
<1>4. WorkerTypes' /\ ConnTypes'
  BY DEF GatewayInv, WorkerTypes, ConnTypes, RelayLocks, RelayGoes, Set, gatewayVars,
     workerVars, closeVars, connVars
<1>5. ASSUME NEW d \in Conns
      PROVE  (LockOK(d) /\ ClosingOK(d) /\ SocketOK(d) /\ PauseOK(d) /\ HeldOK(d))'
  BY DEF GatewayInv, CloseTypes, RelayTypes, WorkerTypes, ConnTypes, LockOK, ClosingOK,
     SocketOK, PauseOK, HeldOK, Reached, RelayLocks, RelayGoes, Set, gatewayVars, workerVars,
     closeVars, connVars
<1>6. FreshOK'
  BY DEF GatewayInv, WorkerTypes, ConnTypes, FreshOK, RelayLocks, RelayGoes, Set, gatewayVars,
     workerVars, closeVars, connVars
<1>7. ASSUME NEW d \in Conns
      PROVE  FoundOK(d)'
  BY DEF GatewayInv, CloseTypes, RelayTypes, WorkerTypes, ClosingOK, SocketOK, FoundOK,
     RelayLocks, RelayGoes, Set, gatewayVars, workerVars, closeVars, connVars
<1> QED
  BY <1>1, <1>2, <1>3, <1>4, <1>5, <1>6, <1>7 DEF GatewayInv

\* The relay thread returns the lock it holds.
LEMMA RelayAnswersStep ==
  ASSUME GatewayInv, NEW c \in Conns, RelayAnswers(c)
  PROVE  GatewayInv'
<1>1. GateTypes' /\ MapTypes'
  BY DEF GatewayInv, GateTypes, MapTypes, RelayAnswers, RelayGoes, Set, gatewayVars, workerVars,
     closeVars, connVars
<1>2. StoppingOK'
  BY DEF GatewayInv, StoppingOK, RelayAnswers, RelayGoes, Set, gatewayVars, workerVars,
     closeVars, connVars
<1>3. CloseTypes' /\ RelayTypes'
  BY DEF GatewayInv, CloseTypes, RelayTypes, RelayAnswers, RelayGoes, Set, gatewayVars,
     workerVars, closeVars, connVars
<1>4. WorkerTypes' /\ ConnTypes'
  BY DEF GatewayInv, WorkerTypes, ConnTypes, RelayAnswers, RelayGoes, Set, gatewayVars,
     workerVars, closeVars, connVars
<1>5. ASSUME NEW d \in Conns
      PROVE  (LockOK(d) /\ ClosingOK(d) /\ SocketOK(d) /\ PauseOK(d) /\ HeldOK(d))'
  BY DEF GatewayInv, CloseTypes, RelayTypes, WorkerTypes, ConnTypes, LockOK, ClosingOK,
     SocketOK, PauseOK, HeldOK, Reached, RelayAnswers, RelayGoes, Set, gatewayVars, workerVars,
     closeVars, connVars
<1>6. FreshOK'
  BY DEF GatewayInv, WorkerTypes, ConnTypes, FreshOK, RelayAnswers, RelayGoes, Set, gatewayVars,
     workerVars, closeVars, connVars
<1>7. ASSUME NEW d \in Conns
      PROVE  FoundOK(d)'
  BY DEF GatewayInv, CloseTypes, RelayTypes, WorkerTypes, ClosingOK, SocketOK, FoundOK,
     RelayAnswers, RelayGoes, Set, gatewayVars, workerVars, closeVars, connVars
<1> QED
  BY <1>1, <1>2, <1>3, <1>4, <1>5, <1>6, <1>7 DEF GatewayInv

\* An answer that throws returns the lock and closes the session.
LEMMA AnswerThrowsStep ==
  ASSUME GatewayInv, NEW c \in Conns, AnswerThrows(c)
  PROVE  GatewayInv'
<1>1. GateTypes' /\ MapTypes'
  BY DEF GatewayInv, GateTypes, MapTypes, AnswerThrows, RelayGoes, Set, gatewayVars, workerVars,
     WsClosed, TryClose, closeVars
<1>2. StoppingOK'
  BY DEF GatewayInv, StoppingOK, AnswerThrows, RelayGoes, Set, gatewayVars, workerVars,
     WsClosed, TryClose, closeVars
<1>3. CloseTypes' /\ RelayTypes'
  <2>1. TryClose(c, "relay")
    BY DEF AnswerThrows
  <2>2. CloseTypes'
    BY <2>1, TryCloseFacts DEF GatewayInv
  <2>3. RelayTypes'
    BY DEF GatewayInv, RelayTypes, AnswerThrows, RelayGoes, Set, gatewayVars, workerVars
  <2> QED
    BY <2>2, <2>3
<1>4. WorkerTypes' /\ ConnTypes'
  BY DEF GatewayInv, WorkerTypes, ConnTypes, AnswerThrows, RelayGoes, Set, gatewayVars,
     workerVars, WsClosed, TryClose, closeVars
<1>5. ASSUME NEW d \in Conns
      PROVE  (LockOK(d) /\ ClosingOK(d) /\ SocketOK(d) /\ PauseOK(d) /\ HeldOK(d))'
  BY DEF GatewayInv, CloseTypes, RelayTypes, WorkerTypes, ConnTypes, LockOK, ClosingOK,
     SocketOK, PauseOK, HeldOK, Reached, AnswerThrows, RelayGoes, Set, gatewayVars, workerVars,
     WsClosed, TryClose, closeVars
<1>6. FreshOK'
  BY DEF GatewayInv, WorkerTypes, ConnTypes, FreshOK, AnswerThrows, RelayGoes, Set, gatewayVars,
     workerVars, WsClosed, TryClose, closeVars
<1>7. ASSUME NEW d \in Conns
      PROVE  FoundOK(d)'
  BY DEF GatewayInv, CloseTypes, RelayTypes, WorkerTypes, ClosingOK, SocketOK, FoundOK,
     AnswerThrows, RelayGoes, Set, gatewayVars, workerVars, WsClosed, TryClose, closeVars
<1> QED
  BY <1>1, <1>2, <1>3, <1>4, <1>5, <1>6, <1>7 DEF GatewayInv

\* The finally block closes the session.
LEMMA RelayFinallyStep ==
  ASSUME GatewayInv, NEW c \in Conns, RelayFinally(c)
  PROVE  GatewayInv'
<1>1. GateTypes' /\ MapTypes'
  BY DEF GatewayInv, GateTypes, MapTypes, RelayFinally, RelayGoes, Set, gatewayVars, workerVars,
     TryClose, closeVars, connVars
<1>2. StoppingOK'
  BY DEF GatewayInv, StoppingOK, RelayFinally, RelayGoes, Set, gatewayVars, workerVars,
     TryClose, closeVars, connVars
<1>3. CloseTypes' /\ RelayTypes'
  <2>1. TryClose(c, "relay")
    BY DEF RelayFinally
  <2>2. CloseTypes'
    BY <2>1, TryCloseFacts DEF GatewayInv
  <2>3. RelayTypes'
    BY DEF GatewayInv, RelayTypes, RelayFinally, RelayGoes, Set, gatewayVars, workerVars,
       connVars
  <2> QED
    BY <2>2, <2>3
<1>4. WorkerTypes' /\ ConnTypes'
  BY DEF GatewayInv, WorkerTypes, ConnTypes, RelayFinally, RelayGoes, Set, gatewayVars,
     workerVars, TryClose, closeVars, connVars
<1>5. ASSUME NEW d \in Conns
      PROVE  (LockOK(d) /\ ClosingOK(d) /\ SocketOK(d) /\ PauseOK(d) /\ HeldOK(d))'
  BY DEF GatewayInv, CloseTypes, RelayTypes, WorkerTypes, ConnTypes, LockOK, ClosingOK,
     SocketOK, PauseOK, HeldOK, Reached, RelayFinally, RelayGoes, Set, gatewayVars, workerVars,
     TryClose, closeVars, connVars
<1>6. FreshOK'
  BY DEF GatewayInv, WorkerTypes, ConnTypes, FreshOK, RelayFinally, RelayGoes, Set, gatewayVars,
     workerVars, TryClose, closeVars, connVars
<1>7. ASSUME NEW d \in Conns
      PROVE  FoundOK(d)'
  BY DEF GatewayInv, CloseTypes, RelayTypes, WorkerTypes, ClosingOK, SocketOK, FoundOK,
     RelayFinally, RelayGoes, Set, gatewayVars, workerVars, TryClose, closeVars, connVars
<1> QED
  BY <1>1, <1>2, <1>3, <1>4, <1>5, <1>6, <1>7 DEF GatewayInv

\* The thread ends when the close() it runs has returned.
LEMMA RelayEndsStep ==
  ASSUME GatewayInv, NEW c \in Conns, RelayEnds(c)
  PROVE  GatewayInv'
<1>1. GateTypes' /\ MapTypes'
  BY DEF GatewayInv, GateTypes, MapTypes, RelayEnds, Goes, RelayGoes, Set, gatewayVars,
     workerVars, closeVars, connVars
<1>2. StoppingOK'
  BY DEF GatewayInv, StoppingOK, RelayEnds, Goes, RelayGoes, Set, gatewayVars, workerVars,
     closeVars, connVars
<1>3. CloseTypes' /\ RelayTypes'
  BY DEF GatewayInv, CloseTypes, RelayTypes, RelayEnds, Goes, RelayGoes, Set, gatewayVars,
     workerVars, closeVars, connVars
<1>4. WorkerTypes' /\ ConnTypes'
  BY DEF GatewayInv, WorkerTypes, ConnTypes, RelayEnds, Goes, RelayGoes, Set, gatewayVars,
     workerVars, closeVars, connVars
<1>5. ASSUME NEW d \in Conns
      PROVE  (LockOK(d) /\ ClosingOK(d) /\ SocketOK(d) /\ PauseOK(d) /\ HeldOK(d))'
  BY DEF GatewayInv, CloseTypes, RelayTypes, WorkerTypes, ConnTypes, LockOK, ClosingOK,
     SocketOK, PauseOK, HeldOK, Reached, RelayEnds, Goes, RelayGoes, Set, gatewayVars,
     workerVars, closeVars, connVars
<1>6. FreshOK'
  BY DEF GatewayInv, WorkerTypes, ConnTypes, FreshOK, RelayEnds, Goes, RelayGoes, Set,
     gatewayVars, workerVars, closeVars, connVars
<1>7. ASSUME NEW d \in Conns
      PROVE  FoundOK(d)'
  BY DEF GatewayInv, CloseTypes, RelayTypes, WorkerTypes, ClosingOK, SocketOK, FoundOK,
     RelayEnds, Goes, RelayGoes, Set, gatewayVars, workerVars, closeVars, connVars
<1> QED
  BY <1>1, <1>2, <1>3, <1>4, <1>5, <1>6, <1>7 DEF GatewayInv

\* A callback begins only for a session in the map.
LEMMA OnMessageStep ==
  ASSUME GatewayInv, NEW c \in Conns, NEW kind \in {"connect", "flow", "write"}, OnMessage(c, kind)
  PROVE  GatewayInv'
<1>1. GateTypes' /\ MapTypes'
  BY DEF GatewayInv, GateTypes, MapTypes, OnMessage, Set, WsClosed, gatewayVars, closeVars,
     relayVars
<1>2. StoppingOK'
  BY DEF GatewayInv, StoppingOK, OnMessage, Set, WsClosed, gatewayVars, closeVars, relayVars
<1>3. CloseTypes' /\ RelayTypes'
  BY DEF GatewayInv, CloseTypes, RelayTypes, OnMessage, Set, WsClosed, gatewayVars, closeVars,
     relayVars
<1>4. WorkerTypes' /\ ConnTypes'
  BY DEF GatewayInv, WorkerTypes, ConnTypes, OnMessage, Set, WsClosed, gatewayVars, closeVars,
     relayVars
<1>5. ASSUME NEW d \in Conns
      PROVE  (LockOK(d) /\ ClosingOK(d) /\ SocketOK(d) /\ PauseOK(d) /\ HeldOK(d))'
  BY DEF GatewayInv, CloseTypes, RelayTypes, WorkerTypes, ConnTypes, LockOK, ClosingOK,
     SocketOK, PauseOK, HeldOK, Reached, OnMessage, Set, WsClosed, gatewayVars, closeVars,
     relayVars
<1>6. FreshOK'
  BY DEF GatewayInv, WorkerTypes, ConnTypes, FreshOK, OnMessage, Set, WsClosed, gatewayVars,
     closeVars, relayVars
<1>7. ASSUME NEW d \in Conns
      PROVE  FoundOK(d)'
  BY DEF GatewayInv, CloseTypes, RelayTypes, WorkerTypes, ClosingOK, SocketOK, FoundOK,
     OnMessage, Set, WsClosed, gatewayVars, closeVars, relayVars
<1> QED
  BY <1>1, <1>2, <1>3, <1>4, <1>5, <1>6, <1>7 DEF GatewayInv

\* The gateway is started.
LEMMA StartStep ==
  ASSUME GatewayInv, Start
  PROVE  GatewayInv'
<1>1. GateTypes' /\ MapTypes'
  BY DEF GatewayInv, GateTypes, MapTypes, Start, closeVars, relayVars, workerVars, connVars
<1>2. StoppingOK'
  BY DEF GatewayInv, StoppingOK, Start, closeVars, relayVars, workerVars, connVars
<1>3. CloseTypes' /\ RelayTypes'
  BY DEF GatewayInv, CloseTypes, RelayTypes, Start, closeVars, relayVars, workerVars, connVars
<1>4. WorkerTypes' /\ ConnTypes'
  BY DEF GatewayInv, WorkerTypes, ConnTypes, Start, closeVars, relayVars, workerVars, connVars
<1>5. ASSUME NEW d \in Conns
      PROVE  (LockOK(d) /\ ClosingOK(d) /\ SocketOK(d) /\ PauseOK(d) /\ HeldOK(d))'
  BY DEF GatewayInv, CloseTypes, RelayTypes, WorkerTypes, ConnTypes, LockOK, ClosingOK,
     SocketOK, PauseOK, HeldOK, Reached, Start, closeVars, relayVars, workerVars, connVars
<1>6. FreshOK'
  BY DEF GatewayInv, WorkerTypes, ConnTypes, FreshOK, Start, closeVars, relayVars, workerVars,
     connVars
<1>7. ASSUME NEW d \in Conns
      PROVE  FoundOK(d)'
  BY DEF GatewayInv, CloseTypes, RelayTypes, WorkerTypes, ClosingOK, SocketOK, FoundOK, Start,
     closeVars, relayVars, workerVars, connVars
<1> QED
  BY <1>1, <1>2, <1>3, <1>4, <1>5, <1>6, <1>7 DEF GatewayInv

\* The library calls onStart.
LEMMA OnStartStep ==
  ASSUME GatewayInv, OnStart
  PROVE  GatewayInv'
<1>1. GateTypes' /\ MapTypes'
  BY DEF GatewayInv, GateTypes, MapTypes, OnStart, SelectorStep, closeVars, relayVars,
     workerVars, connVars
<1>2. StoppingOK'
  BY DEF GatewayInv, StoppingOK, OnStart, SelectorStep, closeVars, relayVars, workerVars,
     connVars
<1>3. CloseTypes' /\ RelayTypes'
  BY DEF GatewayInv, CloseTypes, RelayTypes, OnStart, SelectorStep, closeVars, relayVars,
     workerVars, connVars
<1>4. WorkerTypes' /\ ConnTypes'
  BY DEF GatewayInv, WorkerTypes, ConnTypes, OnStart, SelectorStep, closeVars, relayVars,
     workerVars, connVars
<1>5. ASSUME NEW d \in Conns
      PROVE  (LockOK(d) /\ ClosingOK(d) /\ SocketOK(d) /\ PauseOK(d) /\ HeldOK(d))'
  BY DEF GatewayInv, CloseTypes, RelayTypes, WorkerTypes, ConnTypes, LockOK, ClosingOK,
     SocketOK, PauseOK, HeldOK, Reached, OnStart, SelectorStep, closeVars, relayVars,
     workerVars, connVars
<1>6. FreshOK'
  BY DEF GatewayInv, WorkerTypes, ConnTypes, FreshOK, OnStart, SelectorStep, closeVars,
     relayVars, workerVars, connVars
<1>7. ASSUME NEW d \in Conns
      PROVE  FoundOK(d)'
  BY DEF GatewayInv, CloseTypes, RelayTypes, WorkerTypes, ClosingOK, SocketOK, FoundOK, OnStart,
     SelectorStep, closeVars, relayVars, workerVars, connVars
<1> QED
  BY <1>1, <1>2, <1>3, <1>4, <1>5, <1>6, <1>7 DEF GatewayInv

\* The port cannot be bound.
LEMMA OnStartupErrorStep ==
  ASSUME GatewayInv, OnStartupError
  PROVE  GatewayInv'
<1>1. GateTypes' /\ MapTypes'
  BY DEF GatewayInv, GateTypes, MapTypes, OnStartupError, SelectorStep, closeVars, relayVars,
     workerVars, connVars
<1>2. StoppingOK'
  BY DEF GatewayInv, StoppingOK, OnStartupError, SelectorStep, closeVars, relayVars, workerVars,
     connVars
<1>3. CloseTypes' /\ RelayTypes'
  BY DEF GatewayInv, CloseTypes, RelayTypes, OnStartupError, SelectorStep, closeVars, relayVars,
     workerVars, connVars
<1>4. WorkerTypes' /\ ConnTypes'
  BY DEF GatewayInv, WorkerTypes, ConnTypes, OnStartupError, SelectorStep, closeVars, relayVars,
     workerVars, connVars
<1>5. ASSUME NEW d \in Conns
      PROVE  (LockOK(d) /\ ClosingOK(d) /\ SocketOK(d) /\ PauseOK(d) /\ HeldOK(d))'
  BY DEF GatewayInv, CloseTypes, RelayTypes, WorkerTypes, ConnTypes, LockOK, ClosingOK,
     SocketOK, PauseOK, HeldOK, Reached, OnStartupError, SelectorStep, closeVars, relayVars,
     workerVars, connVars
<1>6. FreshOK'
  BY DEF GatewayInv, WorkerTypes, ConnTypes, FreshOK, OnStartupError, SelectorStep, closeVars,
     relayVars, workerVars, connVars
<1>7. ASSUME NEW d \in Conns
      PROVE  FoundOK(d)'
  BY DEF GatewayInv, CloseTypes, RelayTypes, WorkerTypes, ClosingOK, SocketOK, FoundOK,
     OnStartupError, SelectorStep, closeVars, relayVars, workerVars, connVars
<1> QED
  BY <1>1, <1>2, <1>3, <1>4, <1>5, <1>6, <1>7 DEF GatewayInv

\* The library's thread ends.
LEMMA SelectorEndsStep ==
  ASSUME GatewayInv, SelectorEnds
  PROVE  GatewayInv'
<1>1. GateTypes' /\ MapTypes'
  BY DEF GatewayInv, GateTypes, MapTypes, SelectorEnds, SelectorStep, closeVars, relayVars,
     workerVars, connVars
<1>2. StoppingOK'
  BY DEF GatewayInv, StoppingOK, SelectorEnds, SelectorStep, closeVars, relayVars, workerVars,
     connVars
<1>3. CloseTypes' /\ RelayTypes'
  BY DEF GatewayInv, CloseTypes, RelayTypes, SelectorEnds, SelectorStep, closeVars, relayVars,
     workerVars, connVars
<1>4. WorkerTypes' /\ ConnTypes'
  BY DEF GatewayInv, WorkerTypes, ConnTypes, SelectorEnds, SelectorStep, closeVars, relayVars,
     workerVars, connVars
<1>5. ASSUME NEW d \in Conns
      PROVE  (LockOK(d) /\ ClosingOK(d) /\ SocketOK(d) /\ PauseOK(d) /\ HeldOK(d))'
  BY DEF GatewayInv, CloseTypes, RelayTypes, WorkerTypes, ConnTypes, LockOK, ClosingOK,
     SocketOK, PauseOK, HeldOK, Reached, SelectorEnds, SelectorStep, closeVars, relayVars,
     workerVars, connVars
<1>6. FreshOK'
  BY DEF GatewayInv, WorkerTypes, ConnTypes, FreshOK, SelectorEnds, SelectorStep, closeVars,
     relayVars, workerVars, connVars
<1>7. ASSUME NEW d \in Conns
      PROVE  FoundOK(d)'
  BY DEF GatewayInv, CloseTypes, RelayTypes, WorkerTypes, ClosingOK, SocketOK, FoundOK,
     SelectorEnds, SelectorStep, closeVars, relayVars, workerVars, connVars
<1> QED
  BY <1>1, <1>2, <1>3, <1>4, <1>5, <1>6, <1>7 DEF GatewayInv

\* The wait for the start ends.
LEMMA AwaitReadyStep ==
  ASSUME GatewayInv, AwaitReady
  PROVE  GatewayInv'
<1>1. GateTypes' /\ MapTypes'
  BY DEF GatewayInv, GateTypes, MapTypes, AwaitReady, MainStep, closeVars, relayVars,
     workerVars, CallShutdown, connVars
<1>2. StoppingOK'
  BY DEF GatewayInv, StoppingOK, AwaitReady, MainStep, closeVars, relayVars, workerVars,
     CallShutdown, connVars
<1>3. CloseTypes' /\ RelayTypes'
  BY DEF GatewayInv, CloseTypes, RelayTypes, AwaitReady, MainStep, closeVars, relayVars,
     workerVars, CallShutdown, connVars
<1>4. WorkerTypes' /\ ConnTypes'
  BY DEF GatewayInv, WorkerTypes, ConnTypes, AwaitReady, MainStep, closeVars, relayVars,
     workerVars, CallShutdown, connVars
<1>5. ASSUME NEW d \in Conns
      PROVE  (LockOK(d) /\ ClosingOK(d) /\ SocketOK(d) /\ PauseOK(d) /\ HeldOK(d))'
  BY DEF GatewayInv, CloseTypes, RelayTypes, WorkerTypes, ConnTypes, LockOK, ClosingOK,
     SocketOK, PauseOK, HeldOK, Reached, AwaitReady, MainStep, closeVars, relayVars, workerVars,
     CallShutdown, connVars
<1>6. FreshOK'
  BY DEF GatewayInv, WorkerTypes, ConnTypes, FreshOK, AwaitReady, MainStep, closeVars,
     relayVars, workerVars, CallShutdown, connVars
<1>7. ASSUME NEW d \in Conns
      PROVE  FoundOK(d)'
  BY DEF GatewayInv, CloseTypes, RelayTypes, WorkerTypes, ClosingOK, SocketOK, FoundOK,
     AwaitReady, MainStep, closeVars, relayVars, workerVars, CallShutdown, connVars
<1> QED
  BY <1>1, <1>2, <1>3, <1>4, <1>5, <1>6, <1>7 DEF GatewayInv

\* The outcome of the start is examined.
LEMMA CheckReadyStep ==
  ASSUME GatewayInv, CheckReady
  PROVE  GatewayInv'
<1>1. GateTypes' /\ MapTypes'
  BY DEF GatewayInv, GateTypes, MapTypes, CheckReady, CallShutdown, MainStep, closeVars,
     relayVars, workerVars, connVars
<1>2. StoppingOK'
  BY DEF GatewayInv, StoppingOK, CheckReady, CallShutdown, MainStep, closeVars, relayVars,
     workerVars, connVars
<1>3. CloseTypes' /\ RelayTypes'
  BY DEF GatewayInv, CloseTypes, RelayTypes, CheckReady, CallShutdown, MainStep, closeVars,
     relayVars, workerVars, connVars
<1>4. WorkerTypes' /\ ConnTypes'
  BY DEF GatewayInv, WorkerTypes, ConnTypes, CheckReady, CallShutdown, MainStep, closeVars,
     relayVars, workerVars, connVars
<1>5. ASSUME NEW d \in Conns
      PROVE  (LockOK(d) /\ ClosingOK(d) /\ SocketOK(d) /\ PauseOK(d) /\ HeldOK(d))'
  BY DEF GatewayInv, CloseTypes, RelayTypes, WorkerTypes, ConnTypes, LockOK, ClosingOK,
     SocketOK, PauseOK, HeldOK, Reached, CheckReady, CallShutdown, MainStep, closeVars,
     relayVars, workerVars, connVars
<1>6. FreshOK'
  BY DEF GatewayInv, WorkerTypes, ConnTypes, FreshOK, CheckReady, CallShutdown, MainStep,
     closeVars, relayVars, workerVars, connVars
<1>7. ASSUME NEW d \in Conns
      PROVE  FoundOK(d)'
  BY DEF GatewayInv, CloseTypes, RelayTypes, WorkerTypes, ClosingOK, SocketOK, FoundOK,
     CheckReady, CallShutdown, MainStep, closeVars, relayVars, workerVars, connVars
<1> QED
  BY <1>1, <1>2, <1>3, <1>4, <1>5, <1>6, <1>7 DEF GatewayInv

\* A failed start and onDisable call shutdown.
LEMMA DisableStep ==
  ASSUME GatewayInv, Disable
  PROVE  GatewayInv'
<1>1. GateTypes' /\ MapTypes'
  BY DEF GatewayInv, GateTypes, MapTypes, Disable, CallShutdown, MainStep, closeVars, relayVars,
     workerVars, connVars
<1>2. StoppingOK'
  BY DEF GatewayInv, StoppingOK, Disable, CallShutdown, MainStep, closeVars, relayVars,
     workerVars, connVars
<1>3. CloseTypes' /\ RelayTypes'
  BY DEF GatewayInv, CloseTypes, RelayTypes, Disable, CallShutdown, MainStep, closeVars,
     relayVars, workerVars, connVars
<1>4. WorkerTypes' /\ ConnTypes'
  BY DEF GatewayInv, WorkerTypes, ConnTypes, Disable, CallShutdown, MainStep, closeVars,
     relayVars, workerVars, connVars
<1>5. ASSUME NEW d \in Conns
      PROVE  (LockOK(d) /\ ClosingOK(d) /\ SocketOK(d) /\ PauseOK(d) /\ HeldOK(d))'
  BY DEF GatewayInv, CloseTypes, RelayTypes, WorkerTypes, ConnTypes, LockOK, ClosingOK,
     SocketOK, PauseOK, HeldOK, Reached, Disable, CallShutdown, MainStep, closeVars, relayVars,
     workerVars, connVars
<1>6. FreshOK'
  BY DEF GatewayInv, WorkerTypes, ConnTypes, FreshOK, Disable, CallShutdown, MainStep,
     closeVars, relayVars, workerVars, connVars
<1>7. ASSUME NEW d \in Conns
      PROVE  FoundOK(d)'
  BY DEF GatewayInv, CloseTypes, RelayTypes, WorkerTypes, ClosingOK, SocketOK, FoundOK, Disable,
     CallShutdown, MainStep, closeVars, relayVars, workerVars, connVars
<1> QED
  BY <1>1, <1>2, <1>3, <1>4, <1>5, <1>6, <1>7 DEF GatewayInv

\* From here on no session is opened.
LEMMA RequestShutdownStep ==
  ASSUME GatewayInv, RequestShutdown
  PROVE  GatewayInv'
<1>1. GateTypes' /\ MapTypes'
  BY DEF GatewayInv, GateTypes, MapTypes, RequestShutdown, MainStep, closeVars, relayVars,
     workerVars, connVars
<1>2. StoppingOK'
  BY DEF GatewayInv, StoppingOK, RequestShutdown, MainStep, closeVars, relayVars, workerVars,
     connVars
<1>3. CloseTypes' /\ RelayTypes'
  BY DEF GatewayInv, CloseTypes, RelayTypes, RequestShutdown, MainStep, closeVars, relayVars,
     workerVars, connVars
<1>4. WorkerTypes' /\ ConnTypes'
  BY DEF GatewayInv, WorkerTypes, ConnTypes, RequestShutdown, MainStep, closeVars, relayVars,
     workerVars, connVars
<1>5. ASSUME NEW d \in Conns
      PROVE  (LockOK(d) /\ ClosingOK(d) /\ SocketOK(d) /\ PauseOK(d) /\ HeldOK(d))'
  BY DEF GatewayInv, CloseTypes, RelayTypes, WorkerTypes, ConnTypes, LockOK, ClosingOK,
     SocketOK, PauseOK, HeldOK, Reached, RequestShutdown, MainStep, closeVars, relayVars,
     workerVars, connVars
<1>6. FreshOK'
  BY DEF GatewayInv, WorkerTypes, ConnTypes, FreshOK, RequestShutdown, MainStep, closeVars,
     relayVars, workerVars, connVars
<1>7. ASSUME NEW d \in Conns
      PROVE  FoundOK(d)'
  BY DEF GatewayInv, CloseTypes, RelayTypes, WorkerTypes, ClosingOK, SocketOK, FoundOK,
     RequestShutdown, MainStep, closeVars, relayVars, workerVars, connVars
<1> QED
  BY <1>1, <1>2, <1>3, <1>4, <1>5, <1>6, <1>7 DEF GatewayInv

\* What leaves the map is what shutdown goes on to close.
LEMMA SnapshotSessionsStep ==
  ASSUME GatewayInv, SnapshotSessions
  PROVE  GatewayInv'
<1>1. GateTypes' /\ MapTypes'
  <2>1. Cardinality({}) <= MaxConnections
    BY FS_EmptySet, BoundsAssumption
  <2> QED
    BY <2>1 DEF GatewayInv, GateTypes, MapTypes, SnapshotSessions, MainStep, closeVars
<1>2. StoppingOK'
  BY DEF GatewayInv, StoppingOK, SnapshotSessions, MainStep, closeVars, relayVars, workerVars
<1>3. CloseTypes' /\ RelayTypes'
  BY DEF GatewayInv, CloseTypes, RelayTypes, SnapshotSessions, MainStep, closeVars, relayVars,
     workerVars
<1>4. WorkerTypes' /\ ConnTypes'
  BY DEF GatewayInv, WorkerTypes, ConnTypes, SnapshotSessions, MainStep, closeVars, relayVars,
     workerVars
<1>5. ASSUME NEW d \in Conns
      PROVE  (LockOK(d) /\ ClosingOK(d) /\ SocketOK(d) /\ PauseOK(d) /\ HeldOK(d))'
  <2>1. toClose = {} /\ toClose' = sessions /\ sessions' = {} /\ UNCHANGED handler
        /\ UNCHANGED <<closeVars, relayVars, workerVars>>
    BY DEF GatewayInv, StoppingOK, SnapshotSessions, MainStep, relayVars, closeVars, workerVars
  <2>2. Reached(d) => Reached(d)'
    BY <2>1 DEF Reached, closeVars
  <2> QED
    BY <2>1, <2>2
    DEF GatewayInv, LockOK, ClosingOK, SocketOK, PauseOK, HeldOK, closeVars, relayVars, workerVars
<1>6. FreshOK'
  BY DEF GatewayInv, WorkerTypes, ConnTypes, FreshOK, SnapshotSessions, MainStep, closeVars,
     relayVars, workerVars
<1>7. ASSUME NEW d \in Conns
      PROVE  FoundOK(d)'
  BY DEF GatewayInv, CloseTypes, RelayTypes, WorkerTypes, ClosingOK, SocketOK, FoundOK,
     SnapshotSessions, MainStep, closeVars, relayVars, workerVars
<1> QED
  BY <1>1, <1>2, <1>3, <1>4, <1>5, <1>6, <1>7 DEF GatewayInv

\* A session leaves shutdown's copy when it is closed.
LEMMA MainClosesStep ==
  ASSUME GatewayInv, MainCloses
  PROVE  GatewayInv'
<1>1. GateTypes' /\ MapTypes'
  BY DEF GatewayInv, GateTypes, MapTypes, MainCloses, TryClose, closeVars, Set, relayVars,
     workerVars, connVars
<1>2. StoppingOK'
  BY DEF GatewayInv, StoppingOK, MainCloses, TryClose, closeVars, Set, relayVars, workerVars,
     connVars
<1>3. CloseTypes' /\ RelayTypes'
  <2>1. PICK c \in Conns : TryClose(c, "main") /\ UNCHANGED relayVars
    BY DEF MainCloses, GatewayInv, MapTypes
  <2>2. CloseTypes'
    BY <2>1, TryCloseFacts DEF GatewayInv
  <2> QED
    BY <2>1, <2>2 DEF GatewayInv, RelayTypes, relayVars
<1>4. WorkerTypes' /\ ConnTypes'
  BY DEF GatewayInv, WorkerTypes, ConnTypes, MainCloses, TryClose, closeVars, Set, relayVars,
     workerVars, connVars
<1>5. ASSUME NEW d \in Conns
      PROVE  (LockOK(d) /\ ClosingOK(d) /\ SocketOK(d) /\ PauseOK(d) /\ HeldOK(d))'
  BY DEF GatewayInv, CloseTypes, RelayTypes, WorkerTypes, ConnTypes, LockOK, ClosingOK,
     SocketOK, PauseOK, HeldOK, Reached, MainCloses, TryClose, closeVars, Set, relayVars,
     workerVars, connVars
<1>6. FreshOK'
  BY DEF GatewayInv, WorkerTypes, ConnTypes, FreshOK, MainCloses, TryClose, closeVars, Set,
     relayVars, workerVars, connVars
<1>7. ASSUME NEW d \in Conns
      PROVE  FoundOK(d)'
  BY DEF GatewayInv, CloseTypes, RelayTypes, WorkerTypes, ClosingOK, SocketOK, FoundOK,
     MainCloses, TryClose, closeVars, Set, relayVars, workerVars, connVars
<1> QED
  BY <1>1, <1>2, <1>3, <1>4, <1>5, <1>6, <1>7 DEF GatewayInv

\* The library is stopped when every copied session is closed.
LEMMA StopLibraryStep ==
  ASSUME GatewayInv, StopLibrary
  PROVE  GatewayInv'
<1>1. GateTypes' /\ MapTypes'
  BY DEF GatewayInv, GateTypes, MapTypes, StoppingOK, StopLibrary, ShutdownReturns, MainStep,
     closeVars, relayVars, workerVars, WsClosed
<1>2. StoppingOK'
  BY DEF GatewayInv, StoppingOK, StopLibrary, ShutdownReturns, MainStep, closeVars, relayVars,
     workerVars, WsClosed
<1>3. CloseTypes' /\ RelayTypes'
  BY DEF GatewayInv, CloseTypes, RelayTypes, StopLibrary, ShutdownReturns, MainStep, closeVars,
     relayVars, workerVars, WsClosed
<1>4. WorkerTypes' /\ ConnTypes'
  BY DEF GatewayInv, WorkerTypes, ConnTypes, StopLibrary, ShutdownReturns, MainStep, closeVars,
     relayVars, workerVars, WsClosed
<1>5. ASSUME NEW d \in Conns
      PROVE  (LockOK(d) /\ ClosingOK(d) /\ SocketOK(d) /\ PauseOK(d) /\ HeldOK(d))'
  BY DEF GatewayInv, CloseTypes, RelayTypes, WorkerTypes, ConnTypes, LockOK, ClosingOK,
     SocketOK, PauseOK, HeldOK, Reached, StopLibrary, ShutdownReturns, MainStep, closeVars,
     relayVars, workerVars, WsClosed
<1>6. FreshOK'
  BY DEF GatewayInv, WorkerTypes, ConnTypes, FreshOK, StopLibrary, ShutdownReturns, MainStep,
     closeVars, relayVars, workerVars, WsClosed
<1>7. ASSUME NEW d \in Conns
      PROVE  FoundOK(d)'
  BY DEF GatewayInv, CloseTypes, RelayTypes, WorkerTypes, ClosingOK, SocketOK, FoundOK,
     StopLibrary, ShutdownReturns, MainStep, closeVars, relayVars, workerVars, WsClosed
<1> QED
  BY <1>1, <1>2, <1>3, <1>4, <1>5, <1>6, <1>7 DEF GatewayInv

\* shutdown returns with an empty map.
LEMMA JoinStep ==
  ASSUME GatewayInv, Join
  PROVE  GatewayInv'
<1>1. GateTypes' /\ MapTypes'
  BY DEF GatewayInv, GateTypes, MapTypes, StoppingOK, Join, ShutdownReturns, MainStep,
     closeVars, relayVars, workerVars, connVars
<1>2. StoppingOK'
  BY DEF GatewayInv, StoppingOK, Join, ShutdownReturns, MainStep, closeVars, relayVars,
     workerVars, connVars
<1>3. CloseTypes' /\ RelayTypes'
  BY DEF GatewayInv, CloseTypes, RelayTypes, Join, ShutdownReturns, MainStep, closeVars,
     relayVars, workerVars, connVars
<1>4. WorkerTypes' /\ ConnTypes'
  BY DEF GatewayInv, WorkerTypes, ConnTypes, Join, ShutdownReturns, MainStep, closeVars,
     relayVars, workerVars, connVars
<1>5. ASSUME NEW d \in Conns
      PROVE  (LockOK(d) /\ ClosingOK(d) /\ SocketOK(d) /\ PauseOK(d) /\ HeldOK(d))'
  BY DEF GatewayInv, CloseTypes, RelayTypes, WorkerTypes, ConnTypes, LockOK, ClosingOK,
     SocketOK, PauseOK, HeldOK, Reached, Join, ShutdownReturns, MainStep, closeVars, relayVars,
     workerVars, connVars
<1>6. FreshOK'
  BY DEF GatewayInv, WorkerTypes, ConnTypes, FreshOK, Join, ShutdownReturns, MainStep,
     closeVars, relayVars, workerVars, connVars
<1>7. ASSUME NEW d \in Conns
      PROVE  FoundOK(d)'
  BY DEF GatewayInv, CloseTypes, RelayTypes, WorkerTypes, ClosingOK, SocketOK, FoundOK, Join,
     ShutdownReturns, MainStep, closeVars, relayVars, workerVars, connVars
<1> QED
  BY <1>1, <1>2, <1>3, <1>4, <1>5, <1>6, <1>7 DEF GatewayInv

\* The gateway starts in the invariant.
LEMMA GatewayInit ==
  Init => GatewayInv
<1> SUFFICES ASSUME Init PROVE GatewayInv
  OBVIOUS
<1>1. Cardinality(sessions) <= MaxConnections
  BY FS_EmptySet, BoundsAssumption DEF Init
<1>2. GateTypes /\ MapTypes /\ StoppingOK /\ FreshOK
  BY <1>1 DEF Init, GateTypes, MapTypes, StoppingOK, FreshOK
<1>3. CloseTypes /\ RelayTypes /\ WorkerTypes /\ ConnTypes
  BY DEF Init, CloseTypes, RelayTypes, WorkerTypes, ConnTypes
<1>4. \A c \in Conns : LockOK(c) /\ ClosingOK(c) /\ SocketOK(c) /\ PauseOK(c) /\ HeldOK(c)
  BY DEF Init, LockOK, ClosingOK, SocketOK, PauseOK, HeldOK
<1>5. \A c \in Conns : FoundOK(c)
  BY DEF Init, FoundOK
<1> QED
  BY <1>2, <1>3, <1>4, <1>5 DEF GatewayInv

\* Every step of a thread of the gateway preserves the invariant.
LEMMA GatewayInvStep ==
  GatewayInv /\ [Next]_vars => GatewayInv'
<1> SUFFICES ASSUME GatewayInv, [Next]_vars PROVE GatewayInv'
  OBVIOUS
<1>1. CASE UNCHANGED vars
  BY <1>1
  DEF GatewayInv, GateTypes, MapTypes, StoppingOK, FreshOK, CloseTypes, RelayTypes,
      WorkerTypes, ConnTypes, LockOK, ClosingOK, SocketOK, FoundOK, PauseOK, HeldOK, Reached,
      vars, gatewayVars, closeVars, relayVars, workerVars, connVars
<1>2. CASE Main
  BY <1>2, StartStep, AwaitReadyStep, CheckReadyStep, RequestShutdownStep,
     SnapshotSessionsStep, MainClosesStep, StopLibraryStep, JoinStep DEF Main
<1>3. CASE Disable \/ OnStart \/ OnStartupError \/ SelectorEnds
  BY <1>3, DisableStep, OnStartStep, OnStartupErrorStep, SelectorEndsStep
<1>4. ASSUME NEW c \in Conns, CloseTarget(c) \/ HandlerCloses(c)
      PROVE  GatewayInv'
  BY <1>4, CloseTargetStep, HandlerClosesStep
<1>5. ASSUME NEW c \in Conns, Worker(c)
      PROVE  GatewayInv'
  BY <1>5, OnOpenStep, WorkerConnectsStep, WorkerLocksStep, WriteThrowsStep DEF Worker
<1>6. ASSUME NEW c \in Conns, Relay(c)
      PROVE  GatewayInv'
  BY <1>6, RelayCreatesStep, PublishStep, CheckCreatedStep, RelayConnectsStep,
     RelaySetsOutputStep, RelayAnnouncesStep, RelayLoopsStep, RelayAwaitsStep,
     RelaySendsStep, RelayLocksStep, RelayFinallyStep, RelayEndsStep DEF Relay
<1>7. ASSUME NEW c \in Conns, Environment(c)
      PROVE  GatewayInv'
  BY <1>7, AcceptStep, ConnectionEndsStep, OnErrorStep, OnMessageStep, WorkerSetsFlowStep,
     WorkerWritesStep, WriteThrowsStep, RelayReadsStep, ReadThrowsStep, RelayAnswersStep,
     AnswerThrowsStep, BufferDrainsStep DEF Environment
<1> QED
  BY <1>1, <1>2, <1>3, <1>4, <1>5, <1>6, <1>7 DEF Next

\* The invariant holds in every state the gateway reaches.
THEOREM GatewayInvariance == Spec => []GatewayInv
<1> QED
  BY GatewayInit, GatewayInvStep, PTL DEF Spec

\* In every state the map of sessions keeps its capacity, a message and an
\* answered keepalive are never written at the same time, after the browser's
\* request to pause at most one chunk is sent, and no thread of a session that
\* close() is done with reads or writes an open socket.
THEOREM SessionSoundness == Spec => []SessionIsSound
<1>1. GatewayInv => SessionIsSound
  BY TypeParts DEF GatewayInv, SessionIsSound, PauseBounds, PauseOK, NobodyBlocks, FoundOK
<1> QED
  BY <1>1, GatewayInvariance, PTL

\* No socket outlives both its thread and close(), but for one whose store to
\* the unguarded field close() could not see; once shutdown has returned no
\* session is in the map and every thread that still runs works for one that is
\* closed or about to be.
THEOREM ShutdownLeavesNothing == Spec => []NothingLeft
<1>1. ASSUME GatewayInv PROVE NoSocketLeft
  BY <1>1 DEF GatewayInv, NoSocketLeft, SocketOK
<1>2. ASSUME GatewayInv PROVE ShutdownClosesAll
  BY <1>2
  DEF GatewayInv, ShutdownClosesAll, StoppingOK, HeldOK, Reached, RelayTypes
<1> QED
  BY <1>1, <1>2, GatewayInvariance, PTL DEF NothingLeft

=============================================================================
