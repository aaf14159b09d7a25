---------------------------- MODULE RegionStore ----------------------------
(***************************************************************************)
(* The region files of a single-player world, from the file channels of    *)
(* the game (TFileChannel, BrowserFilePersistence) down to the append-only *)
(* log in one OPFS file and the IndexedDB store that server-worker-        *)
(* bootstrap.js keeps beside it.                                           *)
(*                                                                         *)
(* The log is a sequence of records; a record whose header is not written  *)
(* yet is "torn".  A crash keeps any prefix of the log that contains what  *)
(* was flushed.  The calls of the worker are synchronous, so one job runs  *)
(* at a time; its steps are separate actions because the worker may be     *)
(* killed, or the device may fail, between any two of them.                *)
(***************************************************************************)
EXTENDS Naturals, Sequences, FiniteSets

CONSTANTS
  Regions,     \* .mca files, written in place through a channel
  Moved,       \* .mcc files, replaced as a whole by a move
  Values,      \* what a cell (a run of bytes) of a file may hold
  Zero,        \* the filler of a gap
  Absent,      \* no such file, or nothing there
  Placeholder, \* the empty file shown for a stored one until it is opened
  MaxSize,     \* cells in a file
  PatchLimit,  \* maximumOpfsPatchChainRecords
  FaultKinds,  \* which device calls may fail
  Faulty,      \* the files whose writes may fail
  MaxWrites, MaxFaults, MaxCrashes   \* bounds of the exploration

Paths == Regions \cup Moved

ASSUME PathsAreApart == Regions \cap Moved = {}
Cells == Values \cup {Zero}
Contents == UNION {[1..n -> Cells] : n \in 0..MaxSize}

ASSUME MarksAreApart ==
  /\ Zero \notin Values
  /\ Absent # Placeholder
  /\ {Absent, Placeholder} \cap Contents = {}
ASSUME BoundsAreNat ==
  /\ {PatchLimit, MaxSize} \subseteq Nat \ {0}
  /\ {MaxWrites, MaxFaults, MaxCrashes} \subseteq Nat
ASSUME FaultKindsKnown == FaultKinds \subseteq {"append", "flush", "truncate"}

VARIABLES
  log,          \* the records of the OPFS file
  appendOffset, \* opfsAppendOffset: the records before the next one
  flushed,      \* how many of them surely survive a power loss
  idb,          \* the region rows of the IndexedDB store
  pending,      \* pendingChanges for those rows
  phase,        \* of the worker: down, scanned, migrated, open
  index,        \* regionIndex
  cache,        \* regionCache
  fileValues,   \* fileValues: strings put instead of region records
  vfile,        \* the copy in TeaVM's file system
  chan,         \* the channel open on a file
  job,          \* the storage call in progress
  acked,        \* what the last successful call promised for a file
  tainted,      \* a channel of the file was closed with unsaved changes
  writes, faults, crashes            \* counters of the exploration

device  == << log, appendOffset, flushed >>
stores  == << idb, pending >>
memory  == << index, cache, fileValues >>
java    == << vfile, chan >>
ghosts  == << acked, tainted >>
counts  == << writes, faults, crashes >>
vars == << device, stores, phase, memory, java, job, ghosts, counts >>

-----------------------------------------------------------------------------
(* Records, index entries and what they stand for.                          *)

NoEntry  == [base |-> << >>, patches |-> << >>, gen |-> 0]
NoChange == [changed |-> FALSE, value |-> Absent]
Change(c) == [changed |-> TRUE, value |-> c]
NoChan   == [mode |-> "closed", dirty |-> FALSE, cells |-> {}]
NoJob    == [kind |-> "none", path |-> Absent, todo |-> << >>,
             stage |-> "idle", bytes |-> Absent]

Torn == [kind |-> "torn"]
FullRecord(p, c)    == [kind |-> "full", path |-> p, data |-> c]
DeletedRecord(p)    == [kind |-> "deleted", path |-> p]
PatchRecord(p, n, d, g) ==
  [kind |-> "patch", path |-> p, size |-> n, data |-> d, gen |-> g]

Resized(c, n) == [i \in 1..n |-> IF i <= Len(c) THEN c[i] ELSE Zero]

\* Variant: a patch that shortens the file leaves its end.
ApplyPatchMutant(c, patch) ==
  LET n == IF Len(c) > patch.size THEN Len(c) ELSE patch.size
  IN  [i \in 1..n |-> IF i \in DOMAIN patch.data THEN patch.data[i]
                                                 ELSE Resized(c, n)[i]]

ApplyPatch(c, patch) ==
  [i \in 1..patch.size |->
     IF i \in DOMAIN patch.data THEN patch.data[i]
                                ELSE Resized(c, patch.size)[i]]

\* materializeOpfsRegion
Materialized(entry) ==
  LET after[k \in 0..Len(entry.patches)] ==
        IF k = 0 THEN entry.base ELSE ApplyPatch(after[k - 1], entry.patches[k])
  IN  after[Len(entry.patches)]

NextGeneration(entry) == entry.gen + 1

\* The entry a committed record leaves, at run time and at a scan alike.
FullEntry(entry, c) ==
  [base |-> c, patches |-> << >>, gen |-> NextGeneration(entry)]

PatchedEntry(entry, record) ==
  [base |-> entry.base,
   patches |-> Append(entry.patches,
                      [size |-> record.size, data |-> record.data]),
   gen |-> record.gen]

Applied(idx, record) ==
  [idx EXCEPT ![record.path] =
     CASE record.kind = "full"    -> FullEntry(@, record.data)
       [] record.kind = "patch"   -> PatchedEntry(@, record)
       [] record.kind = "deleted" -> NoEntry]

\* scanOpfsV1Record and scanOpfsV2Record accept a record.
Accepted(idx, record) ==
  /\ record.kind # "torn"
  /\ record.kind = "patch" => record.gen = NextGeneration(idx[record.path])

\* scanOpfsRegionStore: regionIndex and the records it rests on.  The first
\* record that is not accepted ends the scan.  (A set of one scan, so that TLC
\* evaluates each step once.)
Scanned(records) ==
  LET Looked(seen, k) ==
        IF seen.end = k - 1 /\ Accepted(seen.index, records[k])
        THEN [index |-> Applied(seen.index, records[k]), end |-> k]
        ELSE seen
      after[k \in 0..Len(records)] ==
        IF k = 0 THEN {[index |-> [p \in Paths |-> NoEntry], end |-> 0]}
                 ELSE {Looked(seen, k) : seen \in after[k - 1]}
  IN  CHOOSE seen \in after[Len(records)] : TRUE

Scan(records) == Scanned(records).index

Indexed(p) == index[p].gen > 0

\* The __gaiusPersistentFiles proxy: an indexed region hides fileValues.
Stored(p) ==
  IF ~Indexed(p) THEN fileValues[p]
  ELSE IF cache[p] # Absent THEN cache[p] ELSE Materialized(index[p])


-----------------------------------------------------------------------------
(* The storage call in progress: every record is written with an empty      *)
(* header, then its header; the flush follows the last one.                 *)

Begin(kind, p, records, c) ==
  /\ job' = [kind |-> kind, path |-> p, todo |-> records, bytes |-> c,
             stage |-> IF records = << >> THEN "flush" ELSE "append"]
  /\ acked' = [acked EXCEPT ![p] = Placeholder]

\* shouldCheckpointOpfsRegion
LongChain(entry) == Len(entry.patches) >= PatchLimit

\* Variant: the generation is read before the checkpoint.
PatchGenerationMutant(entry) == NextGeneration(entry)

\* A checkpoint takes a generation of its own.
PatchGeneration(entry) ==
  NextGeneration(entry) + (IF LongChain(entry) THEN 1 ELSE 0)

\* appendOpfsPatch: a chain at its limit is checkpointed into a full record.
PatchRecords(p, n, data) ==
  LET entry == index[p]
      checkpoint == IF LongChain(entry)
                    THEN << FullRecord(p, Materialized(entry)) >> ELSE << >>
  IN  Append(checkpoint, PatchRecord(p, n, data, PatchGeneration(entry)))

WriteBody ==
  /\ job.stage = "append"
  /\ log' = Append(SubSeq(log, 1, appendOffset), Torn)
  /\ job' = [job EXCEPT !.stage = "commit"]
  /\ UNCHANGED << appendOffset, flushed, stores, phase, memory, java, ghosts, counts >>

WriteHeader ==
  LET record == Head(job.todo)
      rest   == Tail(job.todo)
  IN  /\ job.stage = "commit"
      /\ log' = [log EXCEPT ![appendOffset + 1] = record]
      /\ appendOffset' = appendOffset + 1
      /\ index' = Applied(index, record)
      /\ job' = IF job.kind = "migrate" THEN NoJob
                ELSE [job EXCEPT !.todo = rest,
                        !.stage = IF rest = << >> THEN "flush" ELSE "append"]
      /\ UNCHANGED << flushed, stores, phase, cache, fileValues, java, ghosts, counts >>

\* Variant: the records are appended and not flushed.
OpfsFlushedMutant == flushed

\* flushOpfsSync: everything appended so far is durable.
OpfsFlushed == appendOffset

\* removeRegionCache
Uncached(p) == [cache EXCEPT ![p] = Absent]

\* releaseMaterializedChunkFile after a durable close, and the reclaim of
\* syncMove: the copy goes once the storage has the path.
Reclaimed(p, has) == [vfile EXCEPT ![p] = IF has THEN Absent ELSE @]

Promise(p, c) == [acked EXCEPT ![p] = IF tainted[p] THEN Placeholder ELSE c]

\* flushOpfsSync returns and the call reports success to Java.
Succeed ==
  LET p == job.path IN
  /\ job.stage = "flush"
  /\ flushed' = OpfsFlushed
  /\ cache' = Uncached(p)
  /\ job' = NoJob
  /\ acked' = Promise(p, job.bytes)
  /\ CASE job.kind = "force" ->
            /\ chan' = [chan EXCEPT ![p].dirty = FALSE, ![p].cells = {}]
            /\ UNCHANGED << vfile, pending >>
       [] job.kind = "close" ->
            /\ chan' = [chan EXCEPT ![p] = NoChan]
            /\ vfile' = Reclaimed(p, TRUE)
            /\ UNCHANGED pending
       [] job.kind = "move" ->
            /\ vfile' = Reclaimed(p, TRUE)
            /\ UNCHANGED << chan, pending >>
       [] job.kind = "delete" ->
            /\ pending' = [pending EXCEPT ![p] = Change(Absent)]
            /\ UNCHANGED << vfile, chan >>
  /\ UNCHANGED << log, appendOffset, idb, phase, index, fileValues,
                  tainted, counts >>

\* The device refuses a write or the flush.  A channel keeps its changes and
\* loses them when it is closed; a refused move is kept as a base64 string by
\* persist, __gaiusFsPut queues it for IndexedDB and the move succeeds; a
\* refused deletion is not reported to Java.
Fail ==
  LET p == job.path IN
  /\ job.kind # "migrate"
  /\ p \in Faulty /\ faults < MaxFaults
  /\ job.stage \in {"append", "commit", "flush"}
  /\ (IF job.stage = "flush" THEN "flush" ELSE "append") \in FaultKinds
  /\ faults' = faults + 1
  /\ job' = NoJob
  /\ CASE job.kind = "force" ->
            UNCHANGED << pending, fileValues, java, ghosts >>
       [] job.kind = "close" ->
            /\ chan' = [chan EXCEPT ![p] = NoChan]
            /\ tainted' = [tainted EXCEPT ![p] = TRUE]
            /\ UNCHANGED << pending, fileValues, vfile, acked >>
       [] job.kind = "move" ->
            /\ fileValues' = [fileValues EXCEPT ![p] = job.bytes]
            /\ pending' = [pending EXCEPT ![p] = Change(job.bytes)]
            /\ vfile' = Reclaimed(p, TRUE)
            /\ acked' = Promise(p, job.bytes)
            /\ UNCHANGED << chan, tainted >>
       [] job.kind = "delete" ->
            UNCHANGED << pending, fileValues, java, ghosts >>
  /\ UNCHANGED << device, idb, phase, index, cache, writes, crashes >>

-----------------------------------------------------------------------------
(* The game's file operations.                                              *)

Idle == phase = "open" /\ job = NoJob

\* restoreOnDemand: looking a stored file up shows an empty placeholder.
Stat(p) ==
  /\ Idle
  /\ vfile[p] = Absent /\ Stored(p) # Absent
  /\ vfile' = [vfile EXCEPT ![p] = Placeholder]
  /\ UNCHANGED << device, stores, phase, memory, chan, job, ghosts, counts >>

\* TFileChannel.open with materializeForOpen; a missing file is created.
Open(p, mode) ==
  LET restored == vfile[p] \in {Absent, Placeholder} /\ Stored(p) # Absent
      found == IF restored THEN Stored(p)
               ELSE IF vfile[p] \in {Absent, Placeholder} THEN << >>
               ELSE vfile[p]
  IN  /\ Idle
      /\ chan[p] = NoChan
      /\ mode # "read" => p \in Regions
      /\ mode = "truncate" => writes < MaxWrites
      /\ mode = "read" => restored \/ vfile[p] \notin {Absent, Placeholder}
      /\ vfile' = [vfile EXCEPT ![p] = IF mode = "truncate" THEN << >> ELSE found]
      /\ chan' = [chan EXCEPT ![p] = [mode |-> mode, cells |-> {},
                                      dirty |-> mode = "truncate"]]
      /\ cache' = IF restored /\ Indexed(p)
                  THEN [cache EXCEPT ![p] = Stored(p)] ELSE cache
      /\ writes' = IF mode = "truncate" THEN writes + 1 ELSE writes
      /\ UNCHANGED << device, stores, phase, index, fileValues, job, ghosts,
                      faults, crashes >>

Writable(p) == Idle /\ chan[p].mode \in {"write", "truncate"} /\ writes < MaxWrites

\* Variant: the filler of the gap is not recorded as changed.
WrittenCellsMutant(c, i) == {i}

\* zeroFillGap, then addDirtyRange
WrittenCells(c, i) == ((Len(c) + 1)..i) \cup {i}

\* write at a position, the gap before it filled with zeros
Write(p, i, v) ==
  LET c == vfile[p]
      grown == IF i > Len(c) THEN Resized(c, i) ELSE c
  IN  /\ Writable(p)
      /\ vfile' = [vfile EXCEPT ![p] = [grown EXCEPT ![i] = v]]
      /\ chan' = [chan EXCEPT ![p].dirty = TRUE,
                              ![p].cells = @ \cup WrittenCells(c, i)]
      /\ writes' = writes + 1
      /\ UNCHANGED << device, stores, phase, memory, job, ghosts, faults, crashes >>

Truncate(p, n) ==
  /\ Writable(p)
  /\ n < Len(vfile[p])
  /\ vfile' = [vfile EXCEPT ![p] = SubSeq(@, 1, n)]
  /\ chan' = [chan EXCEPT ![p].dirty = TRUE]
  /\ writes' = writes + 1
  /\ UNCHANGED << device, stores, phase, memory, job, ghosts, faults, crashes >>

\* persistDirtyRanges: the changed cells that are still inside the file
Persist(kind, p) ==
  LET c == vfile[p]
      data == [i \in chan[p].cells \cap 1..Len(c) |-> c[i]]
  IN  /\ Idle
      /\ chan[p].dirty
      /\ Begin(kind, p, PatchRecords(p, Len(c), data), c)
      /\ UNCHANGED << device, stores, phase, memory, java, tainted, counts >>

ForceDirty(p) == Persist("force", p)

CloseDirty(p) == Persist("close", p)

CloseClean(p) ==
  /\ Idle
  /\ chan[p] # NoChan /\ ~chan[p].dirty
  /\ chan' = [chan EXCEPT ![p] = NoChan]
  /\ vfile' = Reclaimed(p, Stored(p) # Absent)
  /\ UNCHANGED << device, stores, phase, memory, job, ghosts, counts >>

\* A finished temporary file replaces the target, then syncMove stores it.
Move(p, c) ==
  /\ Idle
  /\ p \in Moved /\ chan[p] = NoChan /\ writes < MaxWrites
  /\ vfile' = [vfile EXCEPT ![p] = c]
  /\ writes' = writes + 1
  /\ Begin("move", p, << FullRecord(p, c) >>, c)
  /\ UNCHANGED << device, stores, phase, memory, chan, tainted, faults, crashes >>

Tombstone(p) == IF Indexed(p) THEN << DeletedRecord(p) >> ELSE << >>

\* syncDelete after the file is gone from TeaVM's file system
Delete(p) ==
  /\ Idle
  /\ chan[p] = NoChan /\ writes < MaxWrites
  /\ vfile[p] # Absent \/ Stored(p) # Absent
  /\ vfile' = [vfile EXCEPT ![p] = Absent]
  /\ writes' = writes + 1
  /\ Begin("delete", p, Tombstone(p), Absent)
  /\ UNCHANGED << device, stores, phase, memory, chan, tainted, faults, crashes >>

-----------------------------------------------------------------------------
(* The worker: restart, migration of old rows, background work.             *)

\* A clean region leaves the cache to make room for another.
Evict(p) ==
  /\ Idle
  /\ cache[p] # Absent
  /\ cache' = Uncached(p)
  /\ UNCHANGED << device, stores, phase, index, fileValues, java, job, ghosts, counts >>

\* writeBatch, one transaction for every queued row
FlushPending ==
  /\ Idle
  /\ \E p \in Paths : pending[p].changed
  /\ idb' = [p \in Paths |-> IF pending[p].changed THEN pending[p].value ELSE idb[p]]
  /\ pending' = [p \in Paths |-> NoChange]
  /\ UNCHANGED << device, phase, memory, java, job, ghosts, counts >>

\* openOpfsRegionStore: the scan, then the truncation of what it rejected; a
\* refused truncation leaves the rest in front of the next record.
OpenStore ==
  LET scan == Scanned(log) IN
  /\ phase = "down"
  /\ phase' = "scanned"
  /\ index' = scan.index
  /\ \/ /\ log' = SubSeq(log, 1, scan.end)
        /\ UNCHANGED faults
     \/ /\ scan.end < Len(log)
        /\ "truncate" \in FaultKinds /\ faults < MaxFaults
        /\ faults' = faults + 1
        /\ UNCHANGED log
  /\ appendOffset' = Len(log')
  /\ flushed' = Len(log')
  /\ UNCHANGED << stores, cache, fileValues, java, job, ghosts, writes, crashes >>

Migrating(p) == idb[p] # Absent /\ \A i \in (flushed + 1)..appendOffset : log[i].path # p

\* readWorldFiles: a region row is appended to the log, whatever is there.
Migrate(p) ==
  /\ phase = "scanned" /\ job = NoJob
  /\ Migrating(p)
  /\ job' = [kind |-> "migrate", path |-> p, bytes |-> idb[p], stage |-> "append",
             todo |-> << FullRecord(p, idb[p]) >>]
  /\ UNCHANGED << device, stores, phase, memory, java, ghosts, counts >>

MigrateFlush ==
  /\ phase = "scanned" /\ job = NoJob
  /\ \A p \in Paths : ~Migrating(p)
  /\ flushed' = OpfsFlushed
  /\ phase' = "migrated"
  /\ UNCHANGED << log, appendOffset, stores, memory, java, job, ghosts, counts >>

\* The rows are deleted and the world opens on what was restored.
MigrateDelete ==
  /\ phase = "migrated"
  /\ phase' = "open"
  /\ idb' = [p \in Paths |-> Absent]
  /\ acked' = [p \in Paths |-> Stored(p)]
  /\ UNCHANGED << device, pending, memory, java, job, tainted, counts >>

\* The worker is killed, or the power fails: the log keeps a prefix.
Crash(n) ==
  /\ phase # "down" /\ crashes < MaxCrashes
  /\ crashes' = crashes + 1
  /\ phase' = "down"
  /\ log' = SubSeq(log, 1, n)
  /\ appendOffset' = IF n < appendOffset THEN n ELSE appendOffset
  /\ flushed' = appendOffset'
  /\ index' = [p \in Paths |-> NoEntry]
  /\ cache' = [p \in Paths |-> Absent]
  /\ fileValues' = [p \in Paths |-> Absent]
  /\ pending' = [p \in Paths |-> NoChange]
  /\ vfile' = [p \in Paths |-> Absent]
  /\ chan' = [p \in Paths |-> NoChan]
  /\ job' = NoJob
  /\ tainted' = [p \in Paths |-> FALSE]
  /\ UNCHANGED << idb, acked, writes, faults >>

-----------------------------------------------------------------------------

\* A world last played without OPFS has its regions in IndexedDB.
Init ==
  /\ log = << >> /\ appendOffset = 0 /\ flushed = 0
  /\ idb \in [Paths -> {Absent} \cup {<< v >> : v \in Values}]
  /\ pending = [p \in Paths |-> NoChange]
  /\ phase = "down"
  /\ index = [p \in Paths |-> NoEntry]
  /\ cache = [p \in Paths |-> Absent]
  /\ fileValues = [p \in Paths |-> Absent]
  /\ vfile = [p \in Paths |-> Absent]
  /\ chan = [p \in Paths |-> NoChan]
  /\ job = NoJob
  /\ acked = idb
  /\ tainted = [p \in Paths |-> FALSE]
  /\ writes = 0 /\ faults = 0 /\ crashes = 0

GameStep(p) ==
  \/ Stat(p)
  \/ \E mode \in {"read", "write", "truncate"} : Open(p, mode)
  \/ \E i \in 1..MaxSize, v \in Values : Write(p, i, v)
  \/ \E n \in 0..(MaxSize - 1) : Truncate(p, n)
  \/ ForceDirty(p) \/ CloseDirty(p) \/ CloseClean(p)
  \/ \E v \in Values : Move(p, << v >>)
  \/ Delete(p)

Next ==
  \/ \E p \in Paths : GameStep(p) \/ Evict(p) \/ Migrate(p)
  \/ WriteBody \/ WriteHeader \/ Succeed \/ Fail
  \/ FlushPending
  \/ OpenStore \/ MigrateFlush \/ MigrateDelete
  \/ \E n \in flushed..Len(log) : Crash(n)

Spec == Init /\ [][Next]_vars

-----------------------------------------------------------------------------
(* Properties.                                                              *)

\* Type invariant: every record, entry and copy is one the code can build.
TypeOK ==
  /\ appendOffset \in 0..Len(log) /\ flushed \in 0..appendOffset
  /\ phase \in {"down", "scanned", "migrated", "open"}
  /\ \A p \in Paths :
       /\ {idb[p], cache[p], fileValues[p], pending[p].value}
            \subseteq Contents \cup {Absent}
       /\ vfile[p] \in Contents \cup {Absent, Placeholder}
       /\ chan[p].mode # "closed" => vfile[p] \in Contents
       /\ chan[p].cells \subseteq 1..MaxSize
       /\ Materialized(index[p]) \in Contents
       /\ Len(index[p].patches) <= PatchLimit
  /\ job # NoJob => job.path \in Paths /\ phase \in {"scanned", "open"}

\* What a restart serves from the first n records: a migrated row wins.
AfterRestart(n) ==
  LET found == Scan(SubSeq(log, 1, n))
  IN  [p \in Paths |-> IF idb[p] # Absent THEN idb[p]
                       ELSE IF found[p].gen = 0 THEN Absent
                       ELSE Materialized(found[p])]

\* The index the running worker patches and reads by is the one a scan of its
\* own log would build: offsets, patch chains and generations never drift.
IndexIsLog ==
  phase # "down" => Scan(SubSeq(log, 1, appendOffset)) = index

\* Every entry and copy is one the code can build, and the running index is the
\* one a restart would find.
IndexIsSound == TypeOK /\ IndexIsLog

\* After a storage call that returned success, no restart finds anything but
\* the bytes the file had then, until the next call for that file begins.
AckSurvives ==
  \A n \in flushed..Len(log) :
    LET image == AfterRestart(n)
    IN  \A p \in Paths : acked[p] # Placeholder => image[p] = acked[p]

\* TeaVM's copy of a file without unsaved changes is the stored content, so
\* that it may be dropped and read again at any time.
CopyAgrees ==
  \A p \in Paths :
    /\ Idle /\ ~tainted[p] /\ ~chan[p].dirty
    /\ vfile[p] \in Contents /\ Stored(p) # Absent
    => vfile[p] = Stored(p)

\* A region the cache serves is the one the log holds, unless the last storage
\* call for it failed (the copy in TeaVM is kept then, and is read instead).
CacheAgrees ==
  \A p \in Paths : Idle /\ cache[p] # Absent /\ acked[p] # Placeholder =>
    Indexed(p) /\ cache[p] = Materialized(index[p])

\* Neither copy of a file in memory serves other bytes than the storage.
CopiesAgree == CopyAgrees /\ CacheAgrees

\* What a restart finds after each number of records that may survive.
Restarts ==
  [k \in 1..(appendOffset - flushed + 1) |-> AfterRestart(flushed + k - 1)]

Durable == INSTANCE DurableFiles WITH
  Files <- Paths, Contents <- Contents \cup {Absent}, versions <- Restarts

\* The log with its scan, migration and crashes implements DurableFiles: every
\* restart finds each file in one of its whole versions.  (Restarts depends on
\* the device and the rows alone, which most steps leave as they are.)
ImplementsFiles ==
  /\ Durable!Init
  /\ [][UNCHANGED << device, idb >> \/ Durable!Next \/ UNCHANGED Restarts]_vars

\* "Java may reclaim the TeaVM copy as soon as this call returns true"
\* (server-worker-bootstrap.js:1531): when the copy of a file that is not
\* being deleted is dropped, the storage holds the same bytes.
ReclaimIsSafe ==
  [][\A p \in Paths :
       /\ vfile[p] \in Contents /\ vfile'[p] = Absent
       /\ phase' = "open" /\ job'.kind # "delete"
       => Stored(p)' = vfile[p]]_vars

=============================================================================
