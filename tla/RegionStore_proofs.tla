------------------------- MODULE RegionStore_proofs -------------------------
(***************************************************************************)
(* Proofs about RegionStore, for every set of files, every content and     *)
(* every bound of the exploration.                                         *)
(*                                                                         *)
(* materializeOpfsRegion and the scan of the log are recursive functions.  *)
(* What they compute for every input is proved by induction over numbers,  *)
(* from the least counterexample (NatLeast, NatAll), after a run of the    *)
(* recursion has been shown to exist (Iteration).                          *)
(*                                                                         *)
(* The inductive invariant has two layers.  StoreInv says that the log,    *)
(* its scan and the running index describe the same records, and holds     *)
(* while the truncation after a scan is not refused.  FilesInv relates the *)
(* bytes of a file in the log, in the cache, in TeaVM's copy and in the    *)
(* call in progress, and holds while no move is refused either.            *)
(***************************************************************************)
EXTENDS RegionStore, WellFoundedInduction, TLAPS

-----------------------------------------------------------------------------
(* Induction and iteration, without an operator as a parameter.            *)

\* A non-empty set of numbers has a least element.
LEMMA NatLeast ==
  ASSUME NEW T, T \subseteq Nat, T # {}
  PROVE  \E n \in T : \A m \in T : n <= m
<1> DEFINE R == OpToRel(<, Nat)
<1>1. IsWellFoundedOn(R, Nat)
  BY NatLessThanWellFounded, Zenon
<1>2. \A x, y \in Nat : (<<x, y>> \in R) <=> x < y
  BY DEF OpToRel
<1> HIDE DEF R
<1>3. PICK n \in T : \A m \in T : ~ (<<m, n>> \in R)
  BY <1>1, WFMin, Zenon
<1>4. \A m \in T : ~ (m < n)
  BY <1>2, <1>3
<1> QED
  BY <1>4

\* A set that contains zero and the successor of each of its members contains
\* every number.
LEMMA NatAll ==
  ASSUME NEW T, 0 \in T, \A k \in Nat : k \in T => k + 1 \in T
  PROVE  Nat \subseteq T
<1> SUFFICES ASSUME Nat \ T # {} PROVE FALSE
  OBVIOUS
<1>1. PICK n \in Nat \ T : \A m \in Nat \ T : n <= m
  BY NatLeast
<1>2. n # 0 /\ n - 1 \in Nat /\ n - 1 \in T
  BY <1>1
<1> QED
  BY <1>1, <1>2

\* Each of n steps stays in a set, and the states f that they lead through.
StaysIn(S, n, step) == \A s \in S, k \in 1..n : step[<<s, k>>] \in S

Iterates(S, base, n, step, f) ==
  /\ f \in [0..n -> S]
  /\ f[0] = base
  /\ \A k \in 1..n : f[k] = step[<<f[k - 1], k>>]

\* A recursion over 1..n has a run.
LEMMA Iteration ==
  ASSUME NEW S, NEW n \in Nat, NEW step, StaysIn(S, n, step), NEW base \in S
  PROVE  \E f : Iterates(S, base, n, step, f)
<1> DEFINE Goes(m, f) == f[0] = base /\ \A k \in 1..m : f[k] = step[<<f[k - 1], k>>]
           T == {m \in Nat : m <= n => \E f \in [0..m -> S] : Goes(m, f)}
<1>1. 0 \in T
  <2>1. [k \in 0..0 |-> base] \in [0..0 -> S] /\ Goes(0, [k \in 0..0 |-> base])
    OBVIOUS
  <2> QED
    BY <2>1
<1>2. ASSUME NEW m \in Nat, m \in T PROVE m + 1 \in T
  <2> SUFFICES ASSUME m + 1 <= n PROVE \E f \in [0..(m + 1) -> S] : Goes(m + 1, f)
    OBVIOUS
  <2>1. PICK f \in [0..m -> S] : Goes(m, f)
    BY <1>2
  <2> DEFINE g == [k \in 0..(m + 1) |-> IF k <= m THEN f[k] ELSE step[<<f[m], m + 1>>]]
  <2>2. step[<<f[m], m + 1>>] \in S
    BY <2>1 DEF StaysIn
  <2>3. g \in [0..(m + 1) -> S]
    BY <2>1, <2>2
  <2>4. g[0] = base
    BY <2>1
  <2>5. ASSUME NEW k \in 1..(m + 1) PROVE g[k] = step[<<g[k - 1], k>>]
    <3>1. CASE k = m + 1
      BY <3>1
    <3>2. CASE k <= m
      BY <3>2, <2>1
    <3> QED
      BY <3>1, <3>2
  <2> HIDE DEF g
  <2> QED
    BY <2>3, <2>4, <2>5
<1> HIDE DEF T
<1>3. n \in T
  BY <1>1, <1>2, NatAll
<1> QED
  BY <1>3 DEF T, Iterates

-----------------------------------------------------------------------------
(* What materializeOpfsRegion returns.                                     *)

Data == UNION {[D -> Cells] : D \in SUBSET (1..MaxSize)}
Patches == [size : 0..MaxSize, data : Data]
Entries == [base : Contents, patches : Seq(Patches), gen : Nat]

\* The file after each of an entry's patches.
PatchRun(e, f) ==
  /\ f \in [0..Len(e.patches) -> Contents]
  /\ f[0] = e.base
  /\ \A k \in 1..Len(e.patches) : f[k] = ApplyPatch(f[k - 1], e.patches[k])

\* A content is a sequence of cells no longer than a file.
LEMMA ContentIsSeq ==
  ASSUME NEW c \in Contents
  PROVE  /\ c \in Seq(Cells) /\ Len(c) \in 0..MaxSize /\ c = [i \in 1..Len(c) |-> c[i]]
         /\ \A i \in 1..Len(c) : c[i] \in Cells
<1>1. PICK n \in 0..MaxSize : c \in [1..n -> Cells]
  BY DEF Contents
<1> QED
  BY <1>1, BoundsAreNat

\* A sequence of that length is a content.
LEMMA ContentIntro ==
  ASSUME NEW n \in 0..MaxSize, NEW c \in [1..n -> Cells]
  PROVE  c \in Contents /\ Len(c) = n
BY BoundsAreNat DEF Contents

\* Resizing within the bound gives a content.
LEMMA ResizedContent ==
  ASSUME NEW c \in Contents, NEW n \in 0..MaxSize
  PROVE  Resized(c, n) \in Contents /\ Len(Resized(c, n)) = n
<1>1. Resized(c, n) \in [1..n -> Cells]
  BY ContentIsSeq, BoundsAreNat DEF Resized, Cells
<1> QED
  BY <1>1, ContentIntro

\* A patched file is a content of the size the patch asks for.
LEMMA ApplyPatchContent ==
  ASSUME NEW c \in Contents, NEW patch \in Patches
  PROVE  ApplyPatch(c, patch) \in Contents /\ Len(ApplyPatch(c, patch)) = patch.size
<1>1. patch.size \in 0..MaxSize /\ patch.data \in Data
  BY DEF Patches
<1>2. PICK D \in SUBSET (1..MaxSize) : patch.data \in [D -> Cells]
  BY <1>1 DEF Data
<1>3. \A i \in 1..patch.size : Resized(c, patch.size)[i] \in Cells
  BY <1>1, ResizedContent, ContentIsSeq
<1>4. ApplyPatch(c, patch) \in [1..patch.size -> Cells]
  BY <1>1, <1>2, <1>3, BoundsAreNat DEF ApplyPatch
<1> QED
  BY <1>1, <1>4, ContentIntro

\* The patches of an entry can be applied one after the other.
LEMMA PatchRunExists ==
  ASSUME NEW e \in Entries
  PROVE  \E f : PatchRun(e, f)
<1> DEFINE n == Len(e.patches)
           step == [sk \in Contents \X (1..n) |-> ApplyPatch(sk[1], e.patches[sk[2]])]
<1>1. e.base \in Contents /\ e.patches \in Seq(Patches) /\ n \in Nat
  BY DEF Entries
<1>2. \A s \in Contents, k \in 1..n :
        step[<<s, k>>] = ApplyPatch(s, e.patches[k]) /\ ApplyPatch(s, e.patches[k]) \in Contents
  BY <1>1, ApplyPatchContent
<1> HIDE DEF step, n
<1>3. PICK f : Iterates(Contents, e.base, n, step, f)
  <2>1. StaysIn(Contents, n, step)
    BY <1>2 DEF StaysIn
  <2> QED
    BY <1>1, <2>1, Iteration
<1>4. ASSUME NEW k \in 1..n PROVE f[k] = ApplyPatch(f[k - 1], e.patches[k])
  <2>1. f[k - 1] \in Contents
    BY <1>1, <1>3 DEF Iterates
  <2>2. step[<<f[k - 1], k>>] = ApplyPatch(f[k - 1], e.patches[k])
    BY <1>2, <2>1
  <2> QED
    BY <1>3, <2>2 DEF Iterates
<1> QED
  BY <1>3, <1>4 DEF PatchRun, n, Iterates

\* materializeOpfsRegion returns the last file of that run.
LEMMA MaterializedIsLast ==
  ASSUME NEW e \in Entries, NEW f, PatchRun(e, f)
  PROVE  Materialized(e) = f[Len(e.patches)]
<1> DEFINE n == Len(e.patches)
           after[k \in 0..Len(e.patches)] ==
             IF k = 0 THEN e.base ELSE ApplyPatch(after[k - 1], e.patches[k])
           T == {k \in Nat : k <= n => after[k] = f[k]}
<1>1. Materialized(e) = after[n]
  BY DEF Materialized
<1>2. n \in Nat
  BY DEF Entries
<1>3. f = [k \in 0..n |-> IF k = 0 THEN e.base ELSE ApplyPatch(f[k - 1], e.patches[k])]
  BY <1>2 DEF PatchRun
<1>4. after = CHOOSE g : g = [k \in 0..n |-> IF k = 0 THEN e.base
                                            ELSE ApplyPatch(g[k - 1], e.patches[k])]
  BY Zenon DEF after
<1>5. after = [k \in 0..n |-> IF k = 0 THEN e.base ELSE ApplyPatch(after[k - 1], e.patches[k])]
  BY <1>3, <1>4, Zenon
<1> HIDE DEF after
<1>6. 0 \in T
  BY <1>2, <1>3, <1>5
<1>7. ASSUME NEW k \in Nat, k \in T PROVE k + 1 \in T
  <2> SUFFICES ASSUME k + 1 <= n PROVE after[k + 1] = f[k + 1]
    OBVIOUS
  <2>1. after[k] = f[k]
    BY <1>7, <1>2
  <2>2. after[k + 1] = ApplyPatch(after[k], e.patches[k + 1])
    BY <1>2, <1>5
  <2>3. f[k + 1] = ApplyPatch(f[k], e.patches[k + 1])
    BY <1>2, <1>3
  <2> QED
    BY <2>1, <2>2, <2>3
<1> HIDE DEF T
<1>8. n \in T
  BY <1>2, <1>6, <1>7, NatAll
<1> QED
  BY <1>1, <1>2, <1>8 DEF T

\* What is materialized is a file that could have been written.
LEMMA MaterializedContent ==
  ASSUME NEW e \in Entries
  PROVE  Materialized(e) \in Contents
<1>1. PICK f : PatchRun(e, f)
  BY PatchRunExists
<1>2. Materialized(e) = f[Len(e.patches)]
  BY <1>1, MaterializedIsLast
<1> QED
  BY <1>1, <1>2 DEF PatchRun, Entries

\* An entry without patches stands for its base.
LEMMA MaterializedBase ==
  ASSUME NEW e \in Entries, e.patches = << >>
  PROVE  Materialized(e) = e.base
<1>1. PICK f : PatchRun(e, f)
  BY PatchRunExists
<1>2. Materialized(e) = f[Len(e.patches)]
  BY <1>1, MaterializedIsLast
<1> QED
  BY <1>1, <1>2 DEF PatchRun

\* One more patch changes the file by that patch alone.
LEMMA MaterializedPatched ==
  ASSUME NEW e \in Entries, NEW patch \in Patches, NEW g \in Nat,
         NEW e2 \in Entries, e2.base = e.base, e2.patches = Append(e.patches, patch)
  PROVE  Materialized(e2) = ApplyPatch(Materialized(e), patch)
<1> DEFINE n == Len(e.patches)
<1>1. PICK f : PatchRun(e, f)
  BY PatchRunExists
<1>2. Materialized(e) = f[n]
  BY <1>1, MaterializedIsLast
<1>3. n \in Nat /\ e.patches \in Seq(Patches)
  BY DEF Entries
<1>4. /\ Len(e2.patches) = n + 1 /\ e2.patches[n + 1] = patch
      /\ \A k \in 1..n : e2.patches[k] = e.patches[k]
  BY <1>3
<1> DEFINE h == [k \in 0..(n + 1) |-> IF k <= n THEN f[k] ELSE ApplyPatch(f[n], patch)]
<1>5. f[n] \in Contents /\ ApplyPatch(f[n], patch) \in Contents
  BY <1>1, <1>3, ApplyPatchContent DEF PatchRun
<1>6. h \in [0..(n + 1) -> Contents]
  BY <1>1, <1>3, <1>5 DEF PatchRun
<1>7. h[0] = e2.base /\ h[n + 1] = ApplyPatch(f[n], patch)
  BY <1>1, <1>3 DEF PatchRun
<1>8. ASSUME NEW k \in 1..(n + 1) PROVE h[k] = ApplyPatch(h[k - 1], e2.patches[k])
  <2>1. CASE k = n + 1
    BY <2>1, <1>3, <1>4
  <2>2. CASE k <= n
    BY <2>2, <1>1, <1>3, <1>4 DEF PatchRun
  <2> QED
    BY <2>1, <2>2, <1>3
<1> HIDE DEF h
<1>9. PatchRun(e2, h)
  BY <1>4, <1>6, <1>7, <1>8 DEF PatchRun
<1>10. Materialized(e2) = h[n + 1]
  BY <1>4, <1>9, MaterializedIsLast
<1> QED
  BY <1>2, <1>7, <1>10

-----------------------------------------------------------------------------
(* What scanOpfsRegionStore returns.                                       *)

FullSet    == [kind : {"full"}, path : Paths, data : Contents]
DeletedSet == [kind : {"deleted"}, path : Paths]
PatchSet  == [kind : {"patch"}, path : Paths, size : 0..MaxSize, data : Data, gen : Nat]
Whole   == FullSet \cup DeletedSet \cup PatchSet
Records == Whole \cup {Torn}

Indexes == [Paths -> Entries]
Scans   == [index : Indexes, end : Nat]
NoIndex == [p \in Paths |-> NoEntry]
NoScan  == [index |-> NoIndex, end |-> 0]

\* One record is looked at.
Looked(records, seen, k) ==
  IF seen.end = k - 1 /\ Accepted(seen.index, records[k])
  THEN [index |-> Applied(seen.index, records[k]), end |-> k]
  ELSE seen

\* The scan after each record.
ScanRun(records, f) ==
  /\ f \in [0..Len(records) -> Scans]
  /\ f[0] = NoScan
  /\ \A k \in 1..Len(records) : f[k] = Looked(records, f[k - 1], k)

\* The empty index and the empty scan are well formed.
LEMMA NoIndexType == NoEntry \in Entries /\ NoIndex \in Indexes /\ NoScan \in Scans
<1>1. << >> \in Contents
  <2>1. << >> \in [1..0 -> Cells] /\ 0 \in 0..MaxSize
    BY BoundsAreNat
  <2> QED
    BY <2>1 DEF Contents
<1>2. << >> \in Seq(Patches)
  OBVIOUS
<1>3. NoEntry \in Entries
  BY <1>1, <1>2 DEF NoEntry, Entries
<1> QED
  BY <1>3 DEF NoIndex, NoScan, Indexes, Scans

\* What each kind of record does to the index.
LEMMA AppliedFull ==
  ASSUME NEW idx \in Indexes, NEW r \in FullSet
  PROVE  /\ Applied(idx, r) = [idx EXCEPT ![r.path] = FullEntry(@, r.data)]
         /\ FullEntry(idx[r.path], r.data) \in Entries
         /\ Applied(idx, r) \in Indexes
<1>1. r.kind = "full" /\ r.path \in Paths /\ r.data \in Contents
  BY DEF FullSet
<1>2. Applied(idx, r) = [idx EXCEPT ![r.path] = FullEntry(@, r.data)]
  BY <1>1 DEF Applied
<1>3. idx[r.path] \in Entries
  BY <1>1 DEF Indexes
<1>4. FullEntry(idx[r.path], r.data) \in Entries
  BY <1>1, <1>3 DEF FullEntry, Entries, NextGeneration
<1> QED
  BY <1>1, <1>2, <1>4 DEF Indexes

\* A deletion empties the entry of its path.
LEMMA AppliedDeleted ==
  ASSUME NEW idx \in Indexes, NEW r \in DeletedSet
  PROVE  /\ Applied(idx, r) = [idx EXCEPT ![r.path] = NoEntry]
         /\ Applied(idx, r) \in Indexes
<1>1. r.kind = "deleted" /\ r.path \in Paths
  BY DEF DeletedSet
<1>2. Applied(idx, r) = [idx EXCEPT ![r.path] = NoEntry]
  BY <1>1 DEF Applied
<1> QED
  BY <1>1, <1>2, NoIndexType DEF Indexes

\* A patch extends the chain of its path.
LEMMA AppliedPatch ==
  ASSUME NEW idx \in Indexes, NEW r \in PatchSet
  PROVE  /\ Applied(idx, r) = [idx EXCEPT ![r.path] = PatchedEntry(@, r)]
         /\ PatchedEntry(idx[r.path], r) \in Entries
         /\ Applied(idx, r) \in Indexes
<1>1. /\ r.kind = "patch" /\ r.path \in Paths /\ r.gen \in Nat
      /\ [size |-> r.size, data |-> r.data] \in Patches
  BY DEF PatchSet, Patches
<1>2. Applied(idx, r) = [idx EXCEPT ![r.path] = PatchedEntry(@, r)]
  BY <1>1 DEF Applied
<1>3. idx[r.path] \in Entries
  BY <1>1 DEF Indexes
<1>4. PatchedEntry(idx[r.path], r) \in Entries
  BY <1>1, <1>3 DEF PatchedEntry, Entries
<1> QED
  BY <1>1, <1>2, <1>4 DEF Indexes

\* A record changes the entry of its own path only.
LEMMA AppliedType ==
  ASSUME NEW idx \in Indexes, NEW r \in Whole
  PROVE  /\ Applied(idx, r) \in Indexes
         /\ r.path \in Paths
         /\ \A q \in Paths : q # r.path => Applied(idx, r)[q] = idx[q]
<1>1. CASE r \in FullSet
  BY <1>1, AppliedFull DEF FullSet, Indexes
<1>2. CASE r \in DeletedSet
  BY <1>2, AppliedDeleted DEF DeletedSet, Indexes
<1>3. CASE r \in PatchSet
  BY <1>3, AppliedPatch DEF PatchSet, Indexes
<1> QED
  BY <1>1, <1>2, <1>3 DEF Whole

\* The scan accepts no torn record.
LEMMA AcceptedWhole ==
  ASSUME NEW idx, NEW r \in Records, Accepted(idx, r)
  PROVE  r \in Whole
BY DEF Accepted, Records, Torn

\* One step of the scan gives a scan.
LEMMA LookedType ==
  ASSUME NEW records \in Seq(Records), NEW k \in 1..Len(records), NEW seen \in Scans
  PROVE  Looked(records, seen, k) \in Scans
<1>1. records[k] \in Records /\ seen.index \in Indexes /\ k \in Nat
  BY DEF Scans
<1>2. Accepted(seen.index, records[k]) => Applied(seen.index, records[k]) \in Indexes
  BY <1>1, AcceptedWhole, AppliedType
<1> QED
  BY <1>1, <1>2 DEF Looked, Scans

\* The records of a log can be looked at one after the other.
LEMMA ScanRunExists ==
  ASSUME NEW records \in Seq(Records)
  PROVE  \E f : ScanRun(records, f)
<1> DEFINE n == Len(records)
           step == [sk \in Scans \X (1..n) |-> Looked(records, sk[1], sk[2])]
<1>1. n \in Nat
  OBVIOUS
<1>2. \A s \in Scans, k \in 1..n :
        step[<<s, k>>] = Looked(records, s, k) /\ Looked(records, s, k) \in Scans
  BY LookedType
<1> HIDE DEF step, n
<1>3. PICK f : Iterates(Scans, NoScan, n, step, f)
  <2>1. StaysIn(Scans, n, step)
    BY <1>2 DEF StaysIn
  <2> QED
    BY <1>1, <2>1, NoIndexType, Iteration
<1>4. ASSUME NEW k \in 1..n PROVE f[k] = Looked(records, f[k - 1], k)
  <2>1. f[k - 1] \in Scans
    BY <1>1, <1>3 DEF Iterates
  <2>2. step[<<f[k - 1], k>>] = Looked(records, f[k - 1], k)
    BY <1>2, <2>1
  <2> QED
    BY <1>3, <2>2 DEF Iterates
<1> QED
  BY <1>3, <1>4 DEF ScanRun, n, Iterates

\* scanOpfsRegionStore returns the last scan of that run.
LEMMA ScannedIsLast ==
  ASSUME NEW records \in Seq(Records), NEW f, ScanRun(records, f)
  PROVE  Scanned(records) = f[Len(records)]
<1> DEFINE n == Len(records)
           Look(seen, k) ==
             IF seen.end = k - 1 /\ Accepted(seen.index, records[k])
             THEN [index |-> Applied(seen.index, records[k]), end |-> k]
             ELSE seen
           after[k \in 0..Len(records)] ==
             IF k = 0 THEN {[index |-> [p \in Paths |-> NoEntry], end |-> 0]}
                      ELSE {Look(seen, k) : seen \in after[k - 1]}
           g == [k \in 0..n |-> {f[k]}]
<1>1. Scanned(records) = CHOOSE seen \in after[n] : TRUE
  BY DEF Scanned
<1>2. n \in Nat
  OBVIOUS
<1>3. /\ g[0] = {[index |-> [p \in Paths |-> NoEntry], end |-> 0]}
      /\ \A k \in 1..n : g[k] = {Look(seen, k) : seen \in g[k - 1]}
  <2>1. g[0] = {[index |-> [p \in Paths |-> NoEntry], end |-> 0]}
    BY <1>2 DEF ScanRun, NoScan, NoIndex
  <2>2. ASSUME NEW k \in 1..n PROVE g[k] = {Look(seen, k) : seen \in g[k - 1]}
    <3>1. g[k - 1] = {f[k - 1]} /\ g[k] = {f[k]}
      BY <1>2
    <3>2. f[k] = Look(f[k - 1], k)
      BY DEF ScanRun, Looked
    <3> HIDE DEF g, Look
    <3> QED
      BY <3>1, <3>2
  <2> QED
    BY <2>1, <2>2
<1>4. g = [k \in 0..n |-> IF k = 0 THEN {[index |-> [p \in Paths |-> NoEntry], end |-> 0]}
                                   ELSE {Look(seen, k) : seen \in g[k - 1]}]
  <2>1. g = [k \in 0..n |-> g[k]]
    OBVIOUS
  <2> HIDE DEF g, Look
  <2> QED
    BY <1>3, <2>1, <1>2
<1>5. after = CHOOSE h : h = [k \in 0..n |->
                                IF k = 0 THEN {[index |-> [p \in Paths |-> NoEntry], end |-> 0]}
                                ELSE {Look(seen, k) : seen \in h[k - 1]}]
  BY Zenon DEF after
<1>6. after = [k \in 0..n |-> IF k = 0 THEN {[index |-> [p \in Paths |-> NoEntry], end |-> 0]}
                              ELSE {Look(seen, k) : seen \in after[k - 1]}]
  <2> HIDE DEF after, g, Look
  <2> QED
    BY <1>4, <1>5, Zenon
<1> HIDE DEF after, Look, g
<1>7. after[0] = g[0]
  <2>1. after[0] = {[index |-> [p \in Paths |-> NoEntry], end |-> 0]}
    BY <1>2, <1>6
  <2> QED
    BY <1>3, <2>1
<1>8. ASSUME NEW k \in 1..n PROVE after[k] = {Look(seen, k) : seen \in after[k - 1]}
  <2>1. k \in 0..n /\ k # 0
    BY <1>2
  <2>2. after[k] = IF k = 0 THEN {[index |-> [p \in Paths |-> NoEntry], end |-> 0]}
                   ELSE {Look(seen, k) : seen \in after[k - 1]}
    BY <1>6, <2>1, Zenon
  <2> QED
    BY <2>1, <2>2, Zenon
<1> DEFINE T == {k \in Nat : k <= n => after[k] = g[k]}
<1>9. 0 \in T
  BY <1>7
<1>10. ASSUME NEW k \in Nat, k \in T PROVE k + 1 \in T
  <2> SUFFICES ASSUME k + 1 <= n PROVE after[k + 1] = g[k + 1]
    OBVIOUS
  <2> DEFINE j == k + 1
  <2>1. j \in 1..n /\ j - 1 = k /\ after[k] = g[k]
    BY <1>10, <1>2
  <2> HIDE DEF j
  <2>2. after[j] = {Look(seen, j) : seen \in g[j - 1]}
    BY <1>8, <2>1, Zenon
  <2>3. g[j] = {Look(seen, j) : seen \in g[j - 1]}
    BY <1>3, <2>1, Zenon
  <2> QED
    BY <2>2, <2>3, Zenon DEF j
<1> HIDE DEF T
<1>11. n \in T
  BY <1>2, <1>9, <1>10, NatAll
<1>12. after[n] = {f[n]}
  BY <1>2, <1>11 DEF T, g
<1> QED
  BY <1>1, <1>12

\* A scan ends within the log with a well formed index.
LEMMA ScannedType ==
  ASSUME NEW records \in Seq(Records)
  PROVE  Scanned(records) \in Scans
<1>1. PICK f : ScanRun(records, f)
  BY ScanRunExists
<1>2. Scanned(records) = f[Len(records)]
  BY <1>1, ScannedIsLast
<1> QED
  BY <1>1, <1>2 DEF ScanRun

\* The scan of an empty log finds nothing.
LEMMA ScannedEmpty == Scanned(<< >>) = NoScan
<1>1. << >> \in Seq(Records)
  OBVIOUS
<1>2. PICK f : ScanRun(<< >>, f)
  BY <1>1, ScanRunExists
<1>3. Scanned(<< >>) = f[Len(<< >>)]
  BY <1>1, <1>2, ScannedIsLast
<1> QED
  BY <1>2, <1>3 DEF ScanRun

\* One more record: it counts when everything before it did and it fits.
LEMMA ScannedAppend ==
  ASSUME NEW records \in Seq(Records), NEW r \in Records
  PROVE  LET seen == Scanned(records)
             n == Len(records)
         IN  Scanned(Append(records, r)) =
               IF seen.end = n /\ Accepted(seen.index, r)
               THEN [index |-> Applied(seen.index, r), end |-> n + 1]
               ELSE seen
<1> DEFINE n == Len(records)
           more == Append(records, r)
<1>1. PICK f : ScanRun(records, f)
  BY ScanRunExists
<1>2. Scanned(records) = f[n]
  BY <1>1, ScannedIsLast
<1>3. /\ n \in Nat /\ more \in Seq(Records) /\ Len(more) = n + 1 /\ more[n + 1] = r
      /\ \A k \in 1..n : more[k] = records[k]
  OBVIOUS
<1> HIDE DEF more
<1> DEFINE h == [k \in 0..(n + 1) |-> IF k <= n THEN f[k] ELSE Looked(more, f[n], n + 1)]
<1>4. \A k \in 0..n : f[k] \in Scans
  BY <1>1 DEF ScanRun
<1>5. Looked(more, f[n], n + 1) \in Scans
  BY <1>3, <1>4, LookedType
<1>6. h \in [0..(n + 1) -> Scans]
  BY <1>3, <1>4, <1>5
<1>7. h[0] = NoScan /\ h[n + 1] = Looked(more, f[n], n + 1)
  BY <1>1, <1>3 DEF ScanRun
<1>8. ASSUME NEW k \in 1..(n + 1) PROVE h[k] = Looked(more, h[k - 1], k)
  <2>1. CASE k = n + 1
    BY <2>1, <1>3
  <2>2. CASE k <= n
    <3>1. h[k] = f[k] /\ h[k - 1] = f[k - 1] /\ more[k] = records[k]
      BY <2>2, <1>3
    <3>2. f[k] = Looked(records, f[k - 1], k)
      BY <2>2, <1>1, <1>3 DEF ScanRun
    <3> QED
      BY <3>1, <3>2 DEF Looked
  <2> QED
    BY <2>1, <2>2, <1>3
<1> HIDE DEF h
<1>9. ScanRun(more, h)
  BY <1>3, <1>6, <1>7, <1>8 DEF ScanRun
<1>10. Scanned(more) = Looked(more, f[n], n + 1)
  BY <1>3, <1>7, <1>9, ScannedIsLast
<1> QED
  BY <1>2, <1>3, <1>10 DEF Looked, more

-----------------------------------------------------------------------------
(* The inductive invariant.  Its first layer says what the device holds and *)
(* needs no more than that the truncation after a scan is not refused.      *)

TruncationWorks == "truncate" \notin FaultKinds

Rows == Contents \cup {Absent}
Channels == [mode : {"closed", "read", "write", "truncate"}, dirty : BOOLEAN,
             cells : SUBSET (1..MaxSize)]
Changes == [changed : BOOLEAN, value : Rows]

Base(p) == Materialized(index[p])

\* An index whose chains are within the limit and whose entries that serve
\* nothing are empty, and a scan that accepted all of n records and built one.
Bounded(idx) ==
  \A p \in Paths : /\ Len(idx[p].patches) <= PatchLimit
                   /\ idx[p].gen = 0 => idx[p] = NoEntry

Complete(records, n) == Scanned(records).end = n /\ Bounded(Scan(records))

\* Everything before the append offset was accepted, and what follows it is at
\* most the body of one record.
DeviceOK ==
  /\ log \in Seq(Records)
  /\ appendOffset \in 0..Len(log) /\ flushed \in 0..appendOffset
  /\ Len(log) <= appendOffset + 1
  /\ Len(log) = appendOffset + 1 => log[appendOffset + 1] = Torn
  /\ \A i \in 1..appendOffset : log[i] \in Whole
  /\ \A m \in 0..appendOffset : Complete(SubSeq(log, 1, m), m)
  /\ phase \in {"down", "migrated"} => flushed = appendOffset

IndexOK == index \in Indexes /\ Bounded(index)

MemoryOK ==
  /\ phase \in {"down", "scanned", "migrated", "open"}
  /\ idb \in [Paths -> Rows]
  /\ cache \in [Paths -> Rows]
  /\ fileValues \in [Paths -> Rows]
  /\ pending \in [Paths -> Changes]
  /\ vfile \in [Paths -> Rows \cup {Placeholder}]
  /\ chan \in [Paths -> Channels]
  /\ acked \in [Paths -> Rows \cup {Placeholder}]
  /\ tainted \in [Paths -> BOOLEAN]

\* A file that a channel is open on is in TeaVM's file system; only a region is
\* ever changed through a channel.
ChannelOK(p) ==
  /\ chan[p].mode = "closed" => chan[p] = NoChan
  /\ chan[p].mode # "closed" => vfile[p] \in Contents
  /\ chan[p].mode \in {"write", "truncate"} => p \in Regions
  /\ chan[p].dirty => chan[p].mode \in {"write", "truncate"}
  /\ ~chan[p].dirty => chan[p].cells = {}

\* Nothing is in memory before the world is open.
AsleepOK ==
  phase # "open" =>
    \A p \in Paths : /\ cache[p] = Absent /\ fileValues[p] = Absent
                     /\ pending[p] = NoChange
                     /\ vfile[p] = Absent /\ chan[p] = NoChan /\ ~tainted[p]

\* The records a dirty channel still has to write; their generations are those
\* that the scan will ask for.
PatchTodo(p) ==
  \E n \in 0..MaxSize, d \in Data :
    \/ /\ job.todo = << PatchRecord(p, n, d, NextGeneration(index[p])) >>
       /\ ~LongChain(index[p])
    \/ \E c \in Contents :
         job.todo = << FullRecord(p, c),
                       PatchRecord(p, n, d, NextGeneration(index[p]) + 1) >>

JobOK ==
  LET p == job.path IN
  job # NoJob =>
    /\ p \in Paths
    /\ job = [kind |-> job.kind, path |-> p, todo |-> job.todo,
              stage |-> job.stage, bytes |-> job.bytes]
    /\ job.kind \in {"force", "close", "move", "delete", "migrate"}
    /\ job.stage \in {"append", "commit", "flush"}
    /\ job.stage = "flush" <=> job.todo = << >>
    /\ job.stage = "commit" => Len(log) = appendOffset + 1
    /\ phase = IF job.kind = "migrate" THEN "scanned" ELSE "open"
    /\ job.kind \in {"force", "close"} =>
         /\ chan[p].dirty /\ vfile[p] = job.bytes
         /\ job.todo = << >> \/ PatchTodo(p)
    /\ job.kind = "move" =>
         /\ p \in Moved /\ chan[p] = NoChan /\ job.bytes \in Contents
         /\ job.todo \in {<< >>, << FullRecord(p, job.bytes) >>}
    /\ job.kind = "delete" =>
         /\ chan[p] = NoChan /\ vfile[p] = Absent /\ job.bytes = Absent
         /\ job.todo \in {<< >>, << DeletedRecord(p) >>}
    /\ job.kind = "migrate" =>
         /\ job.bytes \in Contents /\ job.bytes = idb[p]
         /\ job.todo = << FullRecord(p, job.bytes) >>

StoreInv ==
  /\ DeviceOK /\ IndexOK /\ IndexIsLog /\ MemoryOK /\ AsleepOK /\ JobOK
  /\ \A p \in Paths : ChannelOK(p)

-----------------------------------------------------------------------------
(* Prefixes of the log.                                                     *)

\* A prefix of a sequence is a sequence of the same members.
LEMMA PrefixType ==
  ASSUME NEW S, NEW s \in Seq(S), NEW n \in 0..Len(s)
  PROVE  /\ SubSeq(s, 1, n) \in Seq(S) /\ Len(SubSeq(s, 1, n)) = n
         /\ \A i \in 1..n : SubSeq(s, 1, n)[i] = s[i]
OBVIOUS

\* Two logs that agree up to n have the same prefixes up to there.
LEMMA PrefixSame ==
  ASSUME NEW s \in Seq(Records), NEW t \in Seq(Records),
         NEW n \in Nat, n <= Len(s), n <= Len(t),
         \A i \in 1..n : s[i] = t[i],
         NEW m \in 0..n
  PROVE  SubSeq(s, 1, m) = SubSeq(t, 1, m)
OBVIOUS

\* The scan of a prefix that is one record longer.
LEMMA PrefixScan ==
  ASSUME NEW s \in Seq(Records), NEW n \in Nat, n < Len(s)
  PROVE  LET seen == Scanned(SubSeq(s, 1, n))
         IN  Scanned(SubSeq(s, 1, n + 1)) =
               IF seen.end = n /\ Accepted(seen.index, s[n + 1])
               THEN [index |-> Applied(seen.index, s[n + 1]), end |-> n + 1]
               ELSE seen
<1>1. SubSeq(s, 1, n + 1) = Append(SubSeq(s, 1, n), s[n + 1])
  OBVIOUS
<1>2. /\ SubSeq(s, 1, n) \in Seq(Records) /\ Len(SubSeq(s, 1, n)) = n
      /\ s[n + 1] \in Records
  OBVIOUS
<1> QED
  BY <1>1, <1>2, ScannedAppend

\* A torn record ends a scan.
LEMMA TornScan ==
  ASSUME NEW s \in Seq(Records), NEW n \in Nat, n < Len(s), s[n + 1] = Torn
  PROVE  Scanned(SubSeq(s, 1, n + 1)) = Scanned(SubSeq(s, 1, n))
<1>1. \A idx : ~Accepted(idx, s[n + 1])
  BY DEF Accepted, Torn
<1> QED
  BY <1>1, PrefixScan

\* What a scan of a log finds whose first n records were all accepted.
LEMMA WholeScan ==
  ASSUME NEW s \in Seq(Records), NEW n \in Nat, n < Len(s),
         Scanned(SubSeq(s, 1, n)).end = n,
         Accepted(Scan(SubSeq(s, 1, n)), s[n + 1])
  PROVE  /\ Scan(SubSeq(s, 1, n + 1)) = Applied(Scan(SubSeq(s, 1, n)), s[n + 1])
         /\ Scanned(SubSeq(s, 1, n + 1)).end = n + 1
<1> DEFINE seen == Scanned(SubSeq(s, 1, n))
<1>1. Scanned(SubSeq(s, 1, n + 1)) =
        IF seen.end = n /\ Accepted(seen.index, s[n + 1])
        THEN [index |-> Applied(seen.index, s[n + 1]), end |-> n + 1]
        ELSE seen
  BY PrefixScan
<1>2. seen.end = n /\ Accepted(seen.index, s[n + 1])
  BY DEF Scan
<1> QED
  BY <1>1, <1>2 DEF Scan

-----------------------------------------------------------------------------
(* Contents that the operations build.                                      *)

\* A sequence is a function on its positions.
LEMMA SeqIsFunction == ASSUME NEW S, NEW s \in Seq(S) PROVE s \in [1..Len(s) -> S]
OBVIOUS

\* The empty file is a content.
LEMMA EmptyContent == << >> \in Contents
<1>1. << >> \in [1..0 -> Cells] /\ 0 \in 0..MaxSize
  BY BoundsAreNat
<1> QED
  BY <1>1 DEF Contents

\* A file of one cell is a content.
LEMMA OneContent == ASSUME NEW v \in Values PROVE << v >> \in Contents
<1>1. << v >> \in [1..1 -> Cells] /\ 1 \in 0..MaxSize
  BY BoundsAreNat DEF Cells
<1> QED
  BY <1>1 DEF Contents

\* A truncated file is a content that agrees with the file up to there.
LEMMA CutContent ==
  ASSUME NEW c \in Contents, NEW n \in Nat, n < Len(c)
  PROVE  /\ SubSeq(c, 1, n) \in Contents /\ Len(SubSeq(c, 1, n)) = n
         /\ \A i \in 1..n : SubSeq(c, 1, n)[i] = c[i]
<1>1. c \in Seq(Cells) /\ Len(c) \in 0..MaxSize
  BY ContentIsSeq
<1>2. /\ SubSeq(c, 1, n) \in Seq(Cells) /\ Len(SubSeq(c, 1, n)) = n
      /\ \A i \in 1..n : SubSeq(c, 1, n)[i] = c[i]
  BY <1>1, PrefixType
<1>3. SubSeq(c, 1, n) \in [1..n -> Cells]
  BY <1>2, SeqIsFunction
<1>4. n \in 0..MaxSize
  BY <1>1, BoundsAreNat
<1> QED
  BY <1>2, <1>3, <1>4, ContentIntro

\* The file after a write, cell by cell.
LEMMA WrittenContent ==
  ASSUME NEW c \in Contents, NEW i \in 1..MaxSize, NEW v \in Values
  PROVE  LET grown == IF i > Len(c) THEN Resized(c, i) ELSE c
             w == [grown EXCEPT ![i] = v]
         IN  /\ w \in Contents /\ Len(w) = Len(grown)
             /\ WrittenCells(c, i) \subseteq 1..MaxSize
             /\ i \in WrittenCells(c, i)
             /\ \A k \in 1..Len(w) : k \notin WrittenCells(c, i) => k <= Len(c) /\ w[k] = c[k]
<1> DEFINE grown == IF i > Len(c) THEN Resized(c, i) ELSE c
           w == [grown EXCEPT ![i] = v]
<1>1. c \in Seq(Cells) /\ Len(c) \in 0..MaxSize
  BY ContentIsSeq
<1>2. i \in 0..MaxSize /\ i \in Nat /\ MaxSize \in Nat
  BY BoundsAreNat
<1>3. grown \in Contents /\ i <= Len(grown)
  <2>1. Resized(c, i) \in Contents /\ Len(Resized(c, i)) = i
    BY <1>2, ResizedContent
  <2>2. CASE i > Len(c)
    BY <2>1, <2>2, <1>2
  <2>3. CASE ~(i > Len(c))
    BY <2>3, <1>1, <1>2
  <2> QED
    BY <2>2, <2>3
<1>4. \A k \in 1..Len(c) : grown[k] = c[k]
  BY <1>1, <1>2 DEF Resized
<1>5. Len(grown) = IF i > Len(c) THEN i ELSE Len(c)
  BY <1>1, <1>2, ResizedContent
<1> HIDE DEF grown
<1>6. grown \in Seq(Cells) /\ Len(grown) \in 0..MaxSize
  BY <1>3, ContentIsSeq
<1>7. w \in [1..Len(grown) -> Cells] /\ Len(w) = Len(grown)
  BY <1>3, <1>6 DEF Cells
<1>8. w \in Contents
  BY <1>6, <1>7, ContentIntro
<1>9. \A k \in 1..Len(w) : k # i => w[k] = grown[k]
  BY <1>3, <1>6
<1>10. WrittenCells(c, i) \subseteq 1..MaxSize /\ i \in WrittenCells(c, i)
  BY <1>1, <1>2 DEF WrittenCells
<1>11. ASSUME NEW k \in 1..Len(w), k \notin WrittenCells(c, i)
       PROVE  k <= Len(c) /\ w[k] = c[k]
  <2>1. k # i /\ k \in Nat /\ ~(k \in (Len(c) + 1)..i) /\ k <= Len(grown) /\ k >= 1
    BY <1>1, <1>6, <1>7, <1>11 DEF WrittenCells
  <2>2. k <= Len(c)
    BY <2>1, <1>1, <1>2, <1>5
  <2> QED
    BY <2>1, <2>2, <1>1, <1>4, <1>9
<1> QED
  BY <1>7, <1>8, <1>10, <1>11 DEF grown

\* The data of a patch: some cells of a content.
LEMMA CellsData ==
  ASSUME NEW c \in Contents, NEW D \in SUBSET (1..MaxSize)
  PROVE  [i \in D \cap 1..Len(c) |-> c[i]] \in Data
<1>1. \A i \in 1..Len(c) : c[i] \in Cells
  BY ContentIsSeq
<1>2. D \cap 1..Len(c) \in SUBSET (1..MaxSize)
  OBVIOUS
<1>3. [i \in D \cap 1..Len(c) |-> c[i]] \in [D \cap 1..Len(c) -> Cells]
  BY <1>1
<1> QED
  BY <1>2, <1>3 DEF Data

-----------------------------------------------------------------------------
(* The first layer is inductive.                                            *)

\* Every record the code builds is a record of the log.
LEMMA RecordTypes ==
  ASSUME NEW p \in Paths
  PROVE  /\ DeletedRecord(p) \in DeletedSet
         /\ \A c \in Contents : FullRecord(p, c) \in FullSet
         /\ \A n \in 0..MaxSize, d \in Data, g \in Nat : PatchRecord(p, n, d, g) \in PatchSet
BY DEF DeletedRecord, FullRecord, PatchRecord, DeletedSet, FullSet, PatchSet

\* The first layer holds before the worker starts.
LEMMA StoreInit == Init => StoreInv
<1> SUFFICES ASSUME Init PROVE StoreInv
  OBVIOUS
<1>1. SubSeq(log, 1, 0) = << >>
  BY DEF Init
<1>2. Scanned(SubSeq(log, 1, 0)) = NoScan
  BY <1>1, ScannedEmpty
<1>3. Bounded(NoIndex)
  BY BoundsAreNat DEF Bounded, NoIndex, NoEntry
<1>4. DeviceOK /\ IndexOK
  BY <1>2, <1>3, NoIndexType DEF Init, DeviceOK, IndexOK, Complete, Scan, NoScan, NoIndex
<1>5. MemoryOK
  BY OneContent, SMT DEF Init, MemoryOK, Rows, Changes, NoChange, Channels, NoChan
<1> QED
  BY <1>4, <1>5 DEF Init, StoreInv, IndexIsLog, AsleepOK, JobOK, NoJob, ChannelOK, NoChan

\* The device and the index stay as they are.
LEMMA LogKept ==
  ASSUME StoreInv, UNCHANGED << device, index >>,
         phase' = phase \/ (phase = "migrated" /\ phase' = "open")
  PROVE  DeviceOK' /\ IndexOK' /\ IndexIsLog'
<1>1. DeviceOK /\ IndexOK /\ IndexIsLog
  BY DEF StoreInv
<1> QED
  BY <1>1 DEF DeviceOK, IndexOK, IndexIsLog, device

\* A step that leaves the files and the call alone keeps the call well formed.
LEMMA JobKept ==
  ASSUME StoreInv, job # NoJob,
         UNCHANGED << log, appendOffset, index, phase, job, idb, vfile, chan >>
  PROVE  JobOK'
<1>1. JobOK
  BY DEF StoreInv
<1> QED
  BY <1>1 DEF JobOK, PatchTodo

\* The body of a record tears only the end of the log.
LEMMA WriteBodyKeeps == ASSUME StoreInv, WriteBody PROVE StoreInv'
<1>1. /\ log' = Append(SubSeq(log, 1, appendOffset), Torn)
      /\ job.stage = "append" /\ job' = [job EXCEPT !.stage = "commit"]
      /\ UNCHANGED << appendOffset, flushed, idb, pending, phase, index, cache,
                      fileValues, vfile, chan, acked, tainted >>
  BY DEF WriteBody, stores, memory, java, ghosts
<1>2. DeviceOK /\ IndexOK /\ IndexIsLog /\ JobOK /\ MemoryOK /\ AsleepOK
  BY DEF StoreInv
<1>3. /\ log \in Seq(Records) /\ appendOffset \in 0..Len(log) /\ Torn \in Records
      /\ Whole \subseteq Records
  BY <1>2 DEF DeviceOK, Records
<1>4. /\ log' \in Seq(Records) /\ Len(log') = appendOffset + 1
      /\ log'[appendOffset + 1] = Torn
      /\ \A i \in 1..appendOffset : log'[i] = log[i]
  BY <1>1, <1>3
<1>5. \A m \in 0..appendOffset : SubSeq(log', 1, m) = SubSeq(log, 1, m)
  <2>1. appendOffset \in Nat /\ appendOffset <= Len(log) /\ appendOffset <= Len(log')
    BY <1>3, <1>4
  <2> QED
    BY <2>1, <1>3, <1>4, PrefixSame
<1>6. DeviceOK'
  <2>1. \A i \in 1..appendOffset : log'[i] \in Whole
    BY <1>2, <1>4 DEF DeviceOK
  <2>2. \A m \in 0..appendOffset : Complete(SubSeq(log', 1, m), m)
    BY <1>2, <1>5 DEF DeviceOK
  <2>3. flushed \in 0..appendOffset /\ (phase \in {"down", "migrated"} => flushed = appendOffset)
    BY <1>2 DEF DeviceOK
  <2>4. appendOffset \in 0..Len(log')
    BY <1>3, <1>4
  <2> QED
    BY <1>1, <1>4, <2>1, <2>2, <2>3, <2>4 DEF DeviceOK
<1>7. IndexIsLog' /\ IndexOK'
  <2>1. SubSeq(log', 1, appendOffset) = SubSeq(log, 1, appendOffset)
    BY <1>3, <1>5
  <2> QED
    BY <1>1, <1>2, <2>1 DEF IndexIsLog, IndexOK
<1>8. JobOK'
  <2>1. job # NoJob
    BY <1>1 DEF NoJob
  <2>2. job' = [kind |-> job.kind, path |-> job.path, todo |-> job.todo,
                stage |-> "commit", bytes |-> job.bytes]
    BY <1>1, <1>2, <2>1 DEF JobOK
  <2>3. job.todo # << >>
    BY <1>1, <1>2, <2>1 DEF JobOK
  <2> QED
    BY <1>1, <1>2, <1>4, <2>1, <2>2, <2>3 DEF JobOK, PatchTodo
<1>9. MemoryOK' /\ AsleepOK' /\ \A p \in Paths : ChannelOK(p)'
  BY <1>1, <1>2 DEF StoreInv, MemoryOK, AsleepOK, ChannelOK
<1> QED
  BY <1>6, <1>7, <1>8, <1>9 DEF StoreInv

\* What becomes of an entry.
LEMMA FullEntryBounds ==
  ASSUME NEW e \in Entries, NEW c \in Contents
  PROVE  /\ FullEntry(e, c) \in Entries
         /\ FullEntry(e, c).gen = e.gen + 1 /\ FullEntry(e, c).gen > 0
         /\ FullEntry(e, c).patches = << >> /\ FullEntry(e, c).base = c
         /\ Len(FullEntry(e, c).patches) <= PatchLimit
         /\ ~LongChain(FullEntry(e, c))
BY BoundsAreNat DEF FullEntry, Entries, NextGeneration, LongChain

\* A patch with the next generation keeps the chain within its limit.
LEMMA PatchedEntryBounds ==
  ASSUME NEW e \in Entries, NEW r \in PatchSet,
         r.gen = NextGeneration(e), ~LongChain(e)
  PROVE  /\ PatchedEntry(e, r) \in Entries
         /\ PatchedEntry(e, r).gen = r.gen /\ r.gen > 0
         /\ Len(PatchedEntry(e, r).patches) <= PatchLimit
<1>1. /\ e.patches \in Seq(Patches) /\ e.gen \in Nat /\ PatchLimit \in Nat
      /\ e.base \in Contents
  BY BoundsAreNat DEF Entries
<1>2. /\ [size |-> r.size, data |-> r.data] \in Patches /\ r.gen \in Nat
  BY DEF PatchSet, Patches
<1>3. Len(e.patches) < PatchLimit
  BY <1>1 DEF LongChain
<1>4. PatchedEntry(e, r).patches = Append(e.patches, [size |-> r.size, data |-> r.data])
  BY DEF PatchedEntry
<1>5. Len(PatchedEntry(e, r).patches) <= PatchLimit
  BY <1>1, <1>2, <1>3, <1>4
<1>6. PatchedEntry(e, r).gen = r.gen /\ r.gen > 0
  BY <1>1 DEF PatchedEntry, NextGeneration
<1>7. PatchedEntry(e, r) \in Entries
  BY <1>1, <1>2 DEF PatchedEntry, Entries
<1> QED
  BY <1>5, <1>6, <1>7

\* The record that is next fits the index.
LEMMA HeaderFits ==
  ASSUME StoreInv, job # NoJob, job.stage = "commit"
  PROVE  LET r == Head(job.todo) IN
         /\ r \in Whole /\ r.path = job.path /\ job.path \in Paths
         /\ Accepted(index, r)
         /\ index \in Indexes
         /\ Bounded(Applied(index, r))
<1> DEFINE r == Head(job.todo)
           p == job.path
<1>1. JobOK /\ IndexOK
  BY DEF StoreInv
<1>2. p \in Paths /\ index \in Indexes /\ index[p] \in Entries
  BY <1>1 DEF JobOK, IndexOK, Indexes
<1>3. ASSUME r \in FullSet, r.path = p
      PROVE  /\ Accepted(index, r) /\ Len(Applied(index, r)[p].patches) <= PatchLimit
             /\ Applied(index, r)[p].gen > 0
  <2>1. Accepted(index, r)
    BY <1>3 DEF FullSet, Accepted
  <2>2. Applied(index, r)[p] = FullEntry(index[p], r.data) /\ r.data \in Contents
    BY <1>2, <1>3, AppliedFull DEF Indexes, FullSet
  <2> QED
    BY <2>1, <2>2, <1>2, FullEntryBounds
<1>4. ASSUME r \in DeletedSet, r.path = p
      PROVE  Accepted(index, r) /\ Applied(index, r)[p] = NoEntry
  BY <1>2, <1>4, AppliedDeleted DEF DeletedSet, Accepted, Indexes
<1>5. ASSUME r \in PatchSet, r.path = p, r.gen = NextGeneration(index[p]),
             ~LongChain(index[p])
      PROVE  /\ Accepted(index, r) /\ Applied(index, r)[p].gen > 0
             /\ Len(Applied(index, r)[p].patches) <= PatchLimit
  <2>1. Accepted(index, r)
    BY <1>5 DEF Accepted, PatchSet
  <2>2. Applied(index, r)[p] = PatchedEntry(index[p], r)
    BY <1>2, <1>5, AppliedPatch DEF Indexes
  <2> QED
    BY <2>1, <2>2, <1>2, <1>5, PatchedEntryBounds
<1>6. job.todo # << >>
  BY <1>1 DEF JobOK
<1>7. CASE job.kind \in {"force", "close"}
  <2>1. PatchTodo(p)
    BY <1>1, <1>6, <1>7 DEF JobOK
  <2>2. PICK n \in 0..MaxSize, d \in Data :
          \/ /\ job.todo = << PatchRecord(p, n, d, NextGeneration(index[p])) >>
             /\ ~LongChain(index[p])
          \/ \E c \in Contents :
               job.todo = << FullRecord(p, c),
                             PatchRecord(p, n, d, NextGeneration(index[p]) + 1) >>
    BY <2>1 DEF PatchTodo
  <2>3. CASE /\ job.todo = << PatchRecord(p, n, d, NextGeneration(index[p])) >>
             /\ ~LongChain(index[p])
    <3>1. NextGeneration(index[p]) \in Nat
      BY <1>2 DEF NextGeneration, Entries
    <3>2. /\ r = PatchRecord(p, n, d, NextGeneration(index[p]))
          /\ r \in PatchSet
      BY <2>3, <3>1, <1>2, RecordTypes
    <3>3. r.path = p /\ r.gen = NextGeneration(index[p])
      BY <3>2 DEF PatchRecord
    <3> QED
      BY <3>2, <3>3, <2>3, <1>1, <1>2, <1>5, AppliedType DEF Whole, IndexOK, Bounded
  <2>4. CASE \E c \in Contents :
               job.todo = << FullRecord(p, c),
                             PatchRecord(p, n, d, NextGeneration(index[p]) + 1) >>
    <3>1. r \in FullSet /\ r.path = p
      BY <2>4, <1>2, RecordTypes DEF FullRecord
    <3> QED
      BY <3>1, <1>1, <1>2, <1>3, AppliedType, BoundsAreNat, SMTT(30) DEF Whole, IndexOK, Bounded
  <2> QED
    BY <2>2, <2>3, <2>4
<1>8. CASE job.kind \in {"move", "migrate"}
  <2>1. r \in FullSet /\ r.path = p
    BY <1>1, <1>2, <1>6, <1>8, RecordTypes DEF JobOK, FullRecord
  <2> QED
    BY <2>1, <1>1, <1>2, <1>3, AppliedType, BoundsAreNat, SMTT(30) DEF Whole, IndexOK, Bounded
<1>9. CASE job.kind = "delete"
  <2>1. r \in DeletedSet /\ r.path = p
    BY <1>1, <1>2, <1>6, <1>9, RecordTypes DEF JobOK, DeletedRecord
  <2> QED
    BY <2>1, <1>1, <1>2, <1>4, AppliedType, BoundsAreNat DEF Whole, IndexOK, Bounded, NoEntry
<1>10. job.kind \in {"force", "close", "move", "delete", "migrate"}
  BY <1>1 DEF JobOK
<1> QED
  BY <1>7, <1>8, <1>9, <1>10

\* The index after the record and what is left of the call.
LEMMA HeaderLeaves ==
  ASSUME StoreInv, job # NoJob, job.stage = "commit", job.kind # "migrate",
         NEW idx \in Indexes, idx = Applied(index, Head(job.todo))
  PROVE  LET p == job.path
             rest == Tail(job.todo)
         IN  /\ job.kind \in {"force", "close"} =>
                  \/ rest = << >>
                  \/ \E n \in 0..MaxSize, d \in Data :
                       /\ rest = << PatchRecord(p, n, d, NextGeneration(idx[p])) >>
                       /\ ~LongChain(idx[p])
             /\ job.kind \in {"move", "delete"} => rest = << >>
<1> DEFINE p == job.path
           rest == Tail(job.todo)
<1>1. JobOK /\ IndexOK
  BY DEF StoreInv
<1>2. p \in Paths /\ index \in Indexes /\ index[p] \in Entries /\ job.todo # << >>
  BY <1>1 DEF JobOK, IndexOK, Indexes
<1>3. ASSUME job.kind \in {"force", "close"}
      PROVE  \/ rest = << >>
             \/ \E n \in 0..MaxSize, d \in Data :
                  /\ rest = << PatchRecord(p, n, d, NextGeneration(idx[p])) >>
                  /\ ~LongChain(idx[p])
  <2>1. PatchTodo(p)
    BY <1>1, <1>2, <1>3 DEF JobOK
  <2>2. PICK n \in 0..MaxSize, d \in Data :
          \/ /\ job.todo = << PatchRecord(p, n, d, NextGeneration(index[p])) >>
             /\ ~LongChain(index[p])
          \/ \E c \in Contents :
               job.todo = << FullRecord(p, c),
                             PatchRecord(p, n, d, NextGeneration(index[p]) + 1) >>
    BY <2>1 DEF PatchTodo
  <2>3. CASE job.todo = << PatchRecord(p, n, d, NextGeneration(index[p])) >>
    BY <2>3
  <2>4. ASSUME NEW c \in Contents,
               job.todo = << FullRecord(p, c),
                             PatchRecord(p, n, d, NextGeneration(index[p]) + 1) >>
        PROVE  /\ rest = << PatchRecord(p, n, d, NextGeneration(idx[p])) >>
               /\ ~LongChain(idx[p])
    <3>1. /\ Head(job.todo) = FullRecord(p, c)
          /\ rest = << PatchRecord(p, n, d, NextGeneration(index[p]) + 1) >>
      BY <2>4
    <3>2. FullRecord(p, c) \in FullSet /\ FullRecord(p, c).path = p /\ FullRecord(p, c).data = c
      BY <1>2, RecordTypes DEF FullRecord
    <3>3. idx[p] = FullEntry(index[p], c)
      BY <3>1, <3>2, <1>2, AppliedFull DEF Indexes
    <3>4. idx[p].gen = NextGeneration(index[p]) /\ ~LongChain(idx[p])
      BY <3>3, <1>2, FullEntryBounds DEF NextGeneration
    <3> QED
      BY <3>1, <3>4 DEF NextGeneration
  <2> QED
    BY <2>2, <2>3, <2>4
<1>4. ASSUME job.kind \in {"move", "delete"} PROVE rest = << >>
  <2>1. \E r : job.todo = << r >>
    BY <1>1, <1>2, <1>4 DEF JobOK
  <2> QED
    BY <2>1
<1> QED
  BY <1>3, <1>4

\* A header commits a record that a scan accepts.
LEMMA WriteHeaderKeeps == ASSUME StoreInv, WriteHeader PROVE StoreInv'
<1> DEFINE r == Head(job.todo)
           rest == Tail(job.todo)
<1>1. /\ job.stage = "commit"
      /\ log' = [log EXCEPT ![appendOffset + 1] = r]
      /\ appendOffset' = appendOffset + 1
      /\ index' = Applied(index, r)
      /\ job' = IF job.kind = "migrate" THEN NoJob
                ELSE [job EXCEPT !.todo = rest,
                        !.stage = IF rest = << >> THEN "flush" ELSE "append"]
      /\ UNCHANGED << flushed, idb, pending, phase, cache, fileValues, vfile, chan,
                      acked, tainted >>
  BY DEF WriteHeader, stores, java, ghosts
<1>2. DeviceOK /\ IndexOK /\ IndexIsLog /\ JobOK /\ MemoryOK /\ AsleepOK
  BY DEF StoreInv
<1>3. job # NoJob
  BY <1>1 DEF NoJob
<1>4. /\ r \in Whole /\ r.path = job.path /\ job.path \in Paths
      /\ Accepted(index, r) /\ index \in Indexes
      /\ Bounded(Applied(index, r))
  BY <1>1, <1>3, HeaderFits
<1>5. index' \in Indexes
  BY <1>1, <1>4, AppliedType
<1>6. IndexOK'
  BY <1>1, <1>4, <1>5 DEF IndexOK
<1>7. /\ log \in Seq(Records) /\ Len(log) = appendOffset + 1 /\ appendOffset \in Nat
      /\ flushed \in 0..appendOffset /\ phase \in {"scanned", "open"}
  BY <1>1, <1>2, <1>3 DEF DeviceOK, JobOK
<1>8. /\ log' \in Seq(Records) /\ Len(log') = appendOffset + 1
      /\ log'[appendOffset + 1] = r
      /\ \A i \in 1..appendOffset : log'[i] = log[i]
  <2>1. r \in Records
    BY <1>4 DEF Records
  <2> HIDE DEF r
  <2> QED
    BY <1>1, <1>7, <2>1
<1>9. \A m \in 0..appendOffset : SubSeq(log', 1, m) = SubSeq(log, 1, m)
  <2>1. appendOffset <= Len(log) /\ appendOffset <= Len(log')
    BY <1>7, <1>8
  <2> QED
    BY <2>1, <1>7, <1>8, PrefixSame
<1>10. SubSeq(log', 1, appendOffset) = SubSeq(log, 1, appendOffset)
  BY <1>7, <1>9
<1>11. /\ Scanned(SubSeq(log', 1, appendOffset)).end = appendOffset
       /\ Scan(SubSeq(log', 1, appendOffset)) = index
  <2>1. appendOffset \in 0..appendOffset
    BY <1>7
  <2> QED
    BY <2>1, <1>2, <1>7, <1>10 DEF DeviceOK, IndexIsLog, Complete
<1>12. /\ Scan(SubSeq(log', 1, appendOffset + 1)) = Applied(index, r)
       /\ Scanned(SubSeq(log', 1, appendOffset + 1)).end = appendOffset + 1
  <2> HIDE DEF r
  <2>1. appendOffset < Len(log')
    BY <1>7, <1>8
  <2> QED
    BY <2>1, <1>4, <1>7, <1>8, <1>11, WholeScan
<1>13. IndexIsLog'
  BY <1>1, <1>12 DEF IndexIsLog
<1>14. DeviceOK'
  <2> HIDE DEF r
  <2>1. \A i \in 1..(appendOffset + 1) : log'[i] \in Whole
    BY <1>2, <1>4, <1>7, <1>8 DEF DeviceOK
  <2>2. \A m \in 0..(appendOffset + 1) : Complete(SubSeq(log', 1, m), m)
    <3> TAKE m \in 0..(appendOffset + 1)
    <3>1. CASE m = appendOffset + 1
      BY <3>1, <1>4, <1>12 DEF Complete
    <3>2. CASE m \in 0..appendOffset
      BY <3>2, <1>2, <1>9 DEF DeviceOK
    <3> QED
      BY <3>1, <3>2, <1>7
  <2>3. /\ appendOffset' \in 0..Len(log') /\ flushed' \in 0..appendOffset'
        /\ Len(log') <= appendOffset' + 1 /\ Len(log') # appendOffset' + 1
        /\ phase' \notin {"down", "migrated"}
    BY <1>1, <1>7, <1>8
  <2>4. /\ \A i \in 1..appendOffset' : log'[i] \in Whole
        /\ \A m \in 0..appendOffset' : Complete(SubSeq(log', 1, m), m)
    BY <1>1, <2>1, <2>2
  <2> QED
    BY <1>8, <2>3, <2>4 DEF DeviceOK
<1>15. JobOK'
  <2>1. CASE job.kind = "migrate"
    BY <2>1, <1>1 DEF JobOK
  <2>2. CASE job.kind # "migrate"
    <3> DEFINE p == job.path
    <3>1. job' = [kind |-> job.kind, path |-> p, todo |-> rest, bytes |-> job.bytes,
                  stage |-> IF rest = << >> THEN "flush" ELSE "append"]
      BY <2>2, <1>1, <1>2, <1>3 DEF JobOK
    <3>2. /\ job.kind \in {"force", "close"} =>
                  \/ rest = << >>
                  \/ \E n \in 0..MaxSize, d \in Data :
                       /\ rest = << PatchRecord(p, n, d, NextGeneration(index'[p])) >>
                       /\ ~LongChain(index'[p])
          /\ job.kind \in {"move", "delete"} => rest = << >>
      BY <2>2, <1>1, <1>3, <1>5, HeaderLeaves
    <3>3. job.kind \in {"force", "close"} => rest = << >> \/ PatchTodo(p)'
      BY <3>1, <3>2 DEF PatchTodo
    <3> HIDE DEF rest
    <3>4. /\ job'.kind = job.kind /\ job'.path = p /\ job'.todo = rest
          /\ job'.bytes = job.bytes
          /\ job'.stage = IF rest = << >> THEN "flush" ELSE "append"
      BY <3>1
    <3>5. job.kind \in {"force", "close"} => rest = << >> \/ PatchTodo(job.path)'
      BY <3>3, <3>4
    <3> QED
      BY <3>1, <3>2, <3>4, <3>5, <2>2, <1>1, <1>2, <1>3 DEF JobOK
  <2> QED
    BY <2>1, <2>2
<1>16. MemoryOK' /\ AsleepOK' /\ \A p \in Paths : ChannelOK(p)'
  BY <1>1, <1>2 DEF StoreInv, MemoryOK, AsleepOK, ChannelOK
<1> QED
  BY <1>6, <1>13, <1>14, <1>15, <1>16 DEF StoreInv

\* A call that ends leaves no job.
LEMMA NoJobOK == ASSUME job' = NoJob PROVE JobOK'
BY DEF JobOK

\* A call that succeeds keeps the first layer.
LEMMA SucceedKeeps == ASSUME StoreInv, Succeed PROVE StoreInv'
<1> DEFINE p == job.path
<1>1. /\ job.stage = "flush" /\ flushed' = appendOffset
      /\ cache' = [cache EXCEPT ![p] = Absent] /\ job' = NoJob
      /\ acked' = [acked EXCEPT ![p] = IF tainted[p] THEN Placeholder ELSE job.bytes]
      /\ UNCHANGED << log, appendOffset, idb, phase, index, fileValues, tainted >>
  BY DEF Succeed, OpfsFlushed, Uncached, Promise
<1>2. /\ DeviceOK /\ IndexOK /\ IndexIsLog /\ JobOK /\ MemoryOK /\ AsleepOK
      /\ \A q \in Paths : ChannelOK(q)
  BY DEF StoreInv
<1>3. job # NoJob /\ p \in Paths
  BY <1>1, <1>2 DEF NoJob, JobOK
<1>4. job.kind # "migrate" /\ phase = "open"
  BY <1>1, <1>2, <1>3 DEF JobOK
<1>5. job.bytes \in Rows
  BY <1>2, <1>3, <1>4 DEF JobOK, MemoryOK, Rows, ChannelOK
<1>6. DeviceOK' /\ IndexOK' /\ IndexIsLog'
  BY <1>1, <1>2, <1>4 DEF DeviceOK, IndexOK, IndexIsLog
<1>7. /\ cache' \in [Paths -> Rows]
      /\ acked' \in [Paths -> Rows \cup {Placeholder}]
  BY <1>1, <1>2, <1>5 DEF MemoryOK, Rows
<1>8. /\ vfile' \in [Paths -> Rows \cup {Placeholder}]
      /\ chan' \in [Paths -> Channels] /\ pending' \in [Paths -> Changes]
      /\ \A q \in Paths : ChannelOK(q)'
  <2>1. CASE job.kind = "force"
    <3>1. /\ chan' = [chan EXCEPT ![p].dirty = FALSE, ![p].cells = {}]
          /\ UNCHANGED << vfile, pending >>
      BY <2>1 DEF Succeed
    <3>2. /\ chan[p] \in Channels /\ chan' \in [Paths -> Channels]
          /\ chan'[p].dirty = FALSE /\ chan'[p].cells = {} /\ chan'[p].mode = chan[p].mode
          /\ \A q \in Paths : q # p => chan'[q] = chan[q]
      BY <3>1, <1>2, <1>3, ZenonT(60) DEF MemoryOK, Channels
    <3>3. chan[p].mode # "closed"
      BY <2>1, <1>2, <1>3 DEF JobOK, ChannelOK
    <3> QED
      BY <3>1, <3>2, <3>3, <1>2, <1>3 DEF MemoryOK, ChannelOK
  <2>2. CASE job.kind = "close"
    <3>1. /\ chan' = [chan EXCEPT ![p] = NoChan]
          /\ vfile' = [vfile EXCEPT ![p] = Absent]
          /\ UNCHANGED pending
      BY <2>2 DEF Succeed, Reclaimed
    <3> QED
      BY <3>1, <1>2, <1>3 DEF MemoryOK, ChannelOK, Channels, NoChan, Rows
  <2>3. CASE job.kind = "move"
    <3>1. vfile' = [vfile EXCEPT ![p] = Absent] /\ UNCHANGED << chan, pending >>
      BY <2>3 DEF Succeed, Reclaimed
    <3>2. chan[p] = NoChan
      BY <2>3, <1>2, <1>3 DEF JobOK
    <3> QED
      BY <3>1, <3>2, <1>2, <1>3 DEF MemoryOK, ChannelOK, NoChan, Rows
  <2>4. CASE job.kind = "delete"
    <3>1. /\ pending' = [pending EXCEPT ![p] = Change(Absent)]
          /\ UNCHANGED << vfile, chan >>
      BY <2>4 DEF Succeed
    <3> QED
      BY <3>1, <1>2, <1>3 DEF MemoryOK, ChannelOK, Change, Changes, Rows
  <2> QED
    BY <2>1, <2>2, <2>3, <2>4, <1>2, <1>3, <1>4 DEF JobOK
<1>9. MemoryOK' /\ AsleepOK'
  BY <1>1, <1>2, <1>4, <1>7, <1>8 DEF MemoryOK, AsleepOK
<1> QED
  BY <1>1, <1>6, <1>8, <1>9, NoJobOK DEF StoreInv

\* A call that fails keeps the first layer.
LEMMA FailKeeps == ASSUME StoreInv, Fail PROVE StoreInv'
<1> DEFINE p == job.path
<1>1. /\ job.kind # "migrate" /\ job.stage \in {"append", "commit", "flush"}
      /\ job' = NoJob
      /\ UNCHANGED << log, appendOffset, flushed, idb, phase, index, cache >>
  BY DEF Fail, device
<1>2. /\ DeviceOK /\ IndexOK /\ IndexIsLog /\ JobOK /\ MemoryOK /\ AsleepOK
      /\ \A q \in Paths : ChannelOK(q)
  BY DEF StoreInv
<1>3. job # NoJob /\ p \in Paths
  BY <1>1, <1>2 DEF NoJob, JobOK
<1>4. phase = "open"
  BY <1>1, <1>2, <1>3 DEF JobOK
<1>5. DeviceOK' /\ IndexOK' /\ IndexIsLog'
  BY <1>1, LogKept DEF device
<1>6. MemoryOK' /\ \A q \in Paths : ChannelOK(q)'
  <2>1. CASE job.kind \in {"force", "delete"}
    <3>1. UNCHANGED << pending, fileValues, vfile, chan, acked, tainted >>
      BY <2>1 DEF Fail, java, ghosts
    <3> QED
      BY <3>1, <1>1, <1>2 DEF MemoryOK, ChannelOK
  <2>2. CASE job.kind = "close"
    <3>1. /\ chan' = [chan EXCEPT ![p] = NoChan]
          /\ tainted' = [tainted EXCEPT ![p] = TRUE]
          /\ UNCHANGED << pending, fileValues, vfile, acked >>
      BY <2>2 DEF Fail
    <3>2. chan' \in [Paths -> Channels] /\ tainted' \in [Paths -> BOOLEAN]
      BY <3>1, <1>2 DEF MemoryOK, Channels, NoChan
    <3> QED
      BY <3>1, <3>2, <1>1, <1>2, <1>3 DEF MemoryOK, ChannelOK, NoChan
  <2>3. CASE job.kind = "move"
    <3>1. /\ fileValues' = [fileValues EXCEPT ![p] = job.bytes]
          /\ pending' = [pending EXCEPT ![p] = Change(job.bytes)]
          /\ vfile' = [vfile EXCEPT ![p] = Absent]
          /\ acked' = [acked EXCEPT ![p] = IF tainted[p] THEN Placeholder ELSE job.bytes]
          /\ UNCHANGED << chan, tainted >>
      BY <2>3 DEF Fail, Reclaimed, Promise
    <3>2. chan[p] = NoChan /\ job.bytes \in Rows
      BY <2>3, <1>2, <1>3 DEF JobOK, Rows
    <3>3. /\ fileValues' \in [Paths -> Rows] /\ pending' \in [Paths -> Changes]
          /\ vfile' \in [Paths -> Rows \cup {Placeholder}]
          /\ acked' \in [Paths -> Rows \cup {Placeholder}]
      BY <3>1, <3>2, <1>2 DEF MemoryOK, Change, Changes, Rows
    <3> QED
      BY <3>1, <3>2, <3>3, <1>1, <1>2, <1>3 DEF MemoryOK, ChannelOK, NoChan
  <2> QED
    BY <2>1, <2>2, <2>3, <1>1, <1>2, <1>3 DEF JobOK
<1>7. AsleepOK'
  BY <1>1, <1>4 DEF AsleepOK
<1> QED
  BY <1>1, <1>5, <1>6, <1>7, NoJobOK DEF StoreInv

\* A scan of the log finds the records before the append offset.
LEMMA ScanOfLog ==
  ASSUME DeviceOK, NEW n \in appendOffset..Len(log)
  PROVE  /\ Scanned(SubSeq(log, 1, n)) = Scanned(SubSeq(log, 1, appendOffset))
         /\ Scanned(SubSeq(log, 1, n)).end = appendOffset
<1>1. /\ log \in Seq(Records) /\ appendOffset \in Nat /\ Len(log) \in Nat
      /\ Len(log) <= appendOffset + 1
      /\ Len(log) = appendOffset + 1 => log[appendOffset + 1] = Torn
      /\ Scanned(SubSeq(log, 1, appendOffset)).end = appendOffset
  BY DEF DeviceOK, Complete
<1>2. CASE n = appendOffset
  BY <1>1, <1>2
<1>3. CASE n = appendOffset + 1
  BY <1>1, <1>3, TornScan
<1> QED
  BY <1>1, <1>2, <1>3

\* A log is its own longest prefix.
LEMMA WholeLog == ASSUME log \in Seq(Records) PROVE SubSeq(log, 1, Len(log)) = log
OBVIOUS

\* A scan that may truncate leaves a log of accepted records.
LEMMA OpenStoreKeeps == ASSUME TruncationWorks, StoreInv, OpenStore PROVE StoreInv'
<1>1. /\ phase = "down" /\ phase' = "scanned" /\ index' = Scanned(log).index
      /\ log' = SubSeq(log, 1, Scanned(log).end)
      /\ appendOffset' = Len(log') /\ flushed' = Len(log')
      /\ UNCHANGED << idb, pending, cache, fileValues, vfile, chan, job, acked, tainted >>
  BY DEF OpenStore, TruncationWorks, stores, java, ghosts
<1>2. /\ DeviceOK /\ IndexOK /\ IndexIsLog /\ JobOK /\ MemoryOK /\ AsleepOK
      /\ \A q \in Paths : ChannelOK(q)
  BY DEF StoreInv
<1>3. /\ log \in Seq(Records) /\ appendOffset \in 0..Len(log) /\ Len(log) \in Nat
      /\ appendOffset \in Nat
  BY <1>2 DEF DeviceOK
<1>4. /\ Scanned(log) = Scanned(SubSeq(log, 1, appendOffset))
      /\ Scanned(log).end = appendOffset
  <2>1. Len(log) \in appendOffset..Len(log)
    BY <1>3
  <2>2. SubSeq(log, 1, Len(log)) = log
    BY <1>3, WholeLog
  <2>3. /\ Scanned(SubSeq(log, 1, Len(log))) = Scanned(SubSeq(log, 1, appendOffset))
        /\ Scanned(SubSeq(log, 1, Len(log))).end = appendOffset
    BY <2>1, <1>2, ScanOfLog
  <2> QED
    BY <2>2, <2>3
<1>5. /\ log' = SubSeq(log, 1, appendOffset)
      /\ log' \in Seq(Records) /\ Len(log') = appendOffset
      /\ \A i \in 1..appendOffset : log'[i] = log[i]
  BY <1>1, <1>3, <1>4, PrefixType
<1>6. appendOffset' = appendOffset /\ flushed' = appendOffset
  BY <1>1, <1>5
<1>7. \A m \in 0..appendOffset : SubSeq(log', 1, m) = SubSeq(log, 1, m)
  <2>1. appendOffset <= Len(log) /\ appendOffset <= Len(log')
    BY <1>3, <1>5
  <2> QED
    BY <2>1, <1>3, <1>5, PrefixSame
<1>8. DeviceOK'
  <2>1. \A i \in 1..appendOffset : log'[i] \in Whole
    BY <1>2, <1>5 DEF DeviceOK
  <2>2. \A m \in 0..appendOffset : Complete(SubSeq(log', 1, m), m)
    BY <1>2, <1>7 DEF DeviceOK
  <2> QED
    BY <1>1, <1>3, <1>5, <1>6, <2>1, <2>2 DEF DeviceOK
<1>9. IndexIsLog'
  <2>1. SubSeq(log', 1, appendOffset) = SubSeq(log, 1, appendOffset)
    BY <1>3, <1>7
  <2> QED
    BY <2>1, <1>1, <1>4, <1>6 DEF IndexIsLog, Scan
<1>10. IndexOK'
  <2>1. Complete(SubSeq(log, 1, appendOffset), appendOffset)
    BY <1>2, <1>3 DEF DeviceOK
  <2>2. SubSeq(log, 1, appendOffset) \in Seq(Records)
    BY <1>3, PrefixType
  <2>3. Scanned(SubSeq(log, 1, appendOffset)) \in Scans
    BY <2>2, ScannedType
  <2>4. index' = Scanned(SubSeq(log, 1, appendOffset)).index
    BY <1>1, <1>4
  <2>5. index' \in Indexes
    BY <2>3, <2>4 DEF Scans
  <2>6. Bounded(index')
    BY <2>1, <2>4 DEF Complete, Scan
  <2> QED
    BY <2>5, <2>6 DEF IndexOK, Bounded
<1>11. MemoryOK' /\ AsleepOK' /\ \A q \in Paths : ChannelOK(q)'
  BY <1>1, <1>2 DEF MemoryOK, AsleepOK, ChannelOK
<1>12. job' = NoJob
  BY <1>1, <1>2 DEF JobOK
<1> QED
  BY <1>8, <1>9, <1>10, <1>11, <1>12, NoJobOK DEF StoreInv

\* The flush after the migration keeps the first layer.
LEMMA MigrateFlushKeeps == ASSUME StoreInv, MigrateFlush PROVE StoreInv'
<1>1. /\ phase = "scanned" /\ phase' = "migrated" /\ flushed' = appendOffset
      /\ job = NoJob
      /\ UNCHANGED << log, appendOffset, idb, pending, index, cache, fileValues, vfile,
                      chan, job, acked, tainted >>
  BY DEF MigrateFlush, OpfsFlushed, stores, memory, java, ghosts
<1>2. /\ DeviceOK /\ IndexOK /\ IndexIsLog /\ MemoryOK /\ AsleepOK
      /\ \A q \in Paths : ChannelOK(q)
  BY DEF StoreInv
<1>3. DeviceOK' /\ IndexOK' /\ IndexIsLog'
  BY <1>1, <1>2 DEF DeviceOK, IndexOK, IndexIsLog
<1>4. MemoryOK' /\ AsleepOK' /\ \A q \in Paths : ChannelOK(q)'
  BY <1>1, <1>2 DEF MemoryOK, AsleepOK, ChannelOK
<1> QED
  BY <1>1, <1>3, <1>4, NoJobOK DEF StoreInv

\* What is stored is a content or nothing.
LEMMA StoredType ==
  ASSUME IndexOK, MemoryOK, NEW p \in Paths
  PROVE  Stored(p) \in Rows /\ Base(p) \in Contents
<1>1. index[p] \in Entries
  BY DEF IndexOK, Indexes
<1>2. Materialized(index[p]) \in Contents
  BY <1>1, MaterializedContent
<1> QED
  BY <1>2 DEF Stored, Base, MemoryOK, Rows

\* The deletion of the migrated rows keeps the first layer.
LEMMA MigrateDeleteKeeps == ASSUME StoreInv, MigrateDelete PROVE StoreInv'
<1>1. /\ phase = "migrated" /\ phase' = "open"
      /\ idb' = [p \in Paths |-> Absent] /\ acked' = [p \in Paths |-> Stored(p)]
      /\ UNCHANGED << log, appendOffset, flushed, pending, index, cache, fileValues,
                      vfile, chan, job, tainted >>
  BY DEF MigrateDelete, device, memory, java
<1>2. /\ DeviceOK /\ IndexOK /\ IndexIsLog /\ MemoryOK /\ AsleepOK /\ JobOK
      /\ \A q \in Paths : ChannelOK(q)
  BY DEF StoreInv
<1>3. job = NoJob
  BY <1>1, <1>2 DEF JobOK
<1>4. DeviceOK' /\ IndexOK' /\ IndexIsLog'
  BY <1>1, LogKept DEF device
<1>5. acked' \in [Paths -> Rows \cup {Placeholder}]
  BY <1>1, <1>2, StoredType
<1>6. idb' \in [Paths -> Rows]
  BY <1>1 DEF Rows
<1>7. MemoryOK' /\ AsleepOK' /\ \A q \in Paths : ChannelOK(q)'
  BY <1>1, <1>2, <1>5, <1>6 DEF MemoryOK, AsleepOK, ChannelOK
<1> QED
  BY <1>1, <1>3, <1>4, <1>7, NoJobOK DEF StoreInv

\* A crash leaves a prefix of the log, which a scan still accepts.
LEMMA CrashKeeps ==
  ASSUME StoreInv, NEW n \in flushed..Len(log), Crash(n)
  PROVE  StoreInv'
<1> DEFINE a == IF n < appendOffset THEN n ELSE appendOffset
<1>1. /\ phase' = "down" /\ log' = SubSeq(log, 1, n)
      /\ appendOffset' = a /\ flushed' = a
      /\ index' = [p \in Paths |-> NoEntry]
      /\ cache' = [p \in Paths |-> Absent] /\ fileValues' = [p \in Paths |-> Absent]
      /\ pending' = [p \in Paths |-> NoChange] /\ vfile' = [p \in Paths |-> Absent]
      /\ chan' = [p \in Paths |-> NoChan] /\ job' = NoJob
      /\ tainted' = [p \in Paths |-> FALSE] /\ UNCHANGED << idb, acked >>
  BY DEF Crash
<1>2. DeviceOK /\ MemoryOK
  BY DEF StoreInv
<1>3. /\ log \in Seq(Records) /\ appendOffset \in 0..Len(log) /\ Len(log) \in Nat
      /\ appendOffset \in Nat /\ flushed \in 0..appendOffset /\ n \in 0..Len(log)
      /\ Len(log) <= appendOffset + 1
      /\ Len(log) = appendOffset + 1 => log[appendOffset + 1] = Torn
  BY <1>2 DEF DeviceOK
<1>4. /\ log' \in Seq(Records) /\ Len(log') = n
      /\ \A i \in 1..n : log'[i] = log[i]
  BY <1>1, <1>3, PrefixType
<1>5. a \in 0..n /\ a <= appendOffset /\ n <= a + 1 /\ (n = a + 1 => a = appendOffset)
  BY <1>3
<1> HIDE DEF a
<1>6. \A m \in 0..a : SubSeq(log', 1, m) = SubSeq(log, 1, m)
  <2>1. n \in Nat /\ n <= Len(log) /\ n <= Len(log')
    BY <1>3, <1>4
  <2>2. \A m \in 0..n : SubSeq(log', 1, m) = SubSeq(log, 1, m)
    BY <2>1, <1>3, <1>4, PrefixSame
  <2> QED
    BY <2>2, <1>5
<1>7. DeviceOK'
  <2>1. \A i \in 1..a : log'[i] \in Whole
    BY <1>2, <1>3, <1>4, <1>5 DEF DeviceOK
  <2>2. \A m \in 0..a : Complete(SubSeq(log', 1, m), m)
    <3> TAKE m \in 0..a
    <3>1. m \in 0..appendOffset
      BY <1>3, <1>5
    <3>2. Complete(SubSeq(log, 1, m), m)
      BY <3>1, <1>2 DEF DeviceOK
    <3> QED
      BY <3>2, <1>6
  <2>3. n = a + 1 => log'[a + 1] = Torn
    BY <1>3, <1>4, <1>5
  <2> QED
    BY <1>1, <1>3, <1>4, <1>5, <2>1, <2>2, <2>3 DEF DeviceOK
<1>8. IndexOK' /\ IndexIsLog'
  BY <1>1, NoIndexType, BoundsAreNat DEF IndexOK, IndexIsLog, Bounded, NoIndex, NoEntry
<1>9. MemoryOK'
  BY <1>1, <1>2, SMT DEF MemoryOK, Rows, Changes, NoChange, Channels, NoChan
<1>10. AsleepOK' /\ \A q \in Paths : ChannelOK(q)'
  BY <1>1 DEF AsleepOK, ChannelOK, NoChan
<1> QED
  BY <1>1, <1>7, <1>8, <1>9, <1>10, NoJobOK DEF StoreInv

\* A step of the game between two calls.
LEMMA IdleStep ==
  ASSUME StoreInv, Idle, UNCHANGED << log, appendOffset, flushed, idb, phase, index, job >>,
         /\ cache' \in [Paths -> Rows] /\ fileValues' \in [Paths -> Rows]
         /\ pending' \in [Paths -> Changes] /\ vfile' \in [Paths -> Rows \cup {Placeholder}]
         /\ chan' \in [Paths -> Channels] /\ acked' \in [Paths -> Rows \cup {Placeholder}]
         /\ tainted' \in [Paths -> BOOLEAN],
         \A q \in Paths : ChannelOK(q)'
  PROVE  StoreInv'
<1>1. MemoryOK /\ phase = "open" /\ job = NoJob
  BY DEF StoreInv, Idle
<1>2. DeviceOK' /\ IndexOK' /\ IndexIsLog'
  BY LogKept DEF device
<1>3. MemoryOK' /\ AsleepOK'
  BY <1>1 DEF MemoryOK, AsleepOK
<1> QED
  BY <1>1, <1>2, <1>3, NoJobOK DEF StoreInv

\* A call begins: its job fits the files and the index.
LEMMA BeginStep ==
  ASSUME StoreInv, Idle, NEW p \in Paths, NEW kind, NEW todo, NEW c \in Rows,
         Begin(kind, p, todo, c),
         UNCHANGED << log, appendOffset, flushed, idb, phase, index, pending, cache,
                      fileValues, chan, tainted >>,
         vfile' \in [Paths -> Rows \cup {Placeholder}],
         \A q \in Paths : ChannelOK(q)',
         job' # NoJob => JobOK'
  PROVE  StoreInv'
<1>1. MemoryOK /\ phase = "open" /\ job = NoJob
  BY DEF StoreInv, Idle
<1>2. DeviceOK' /\ IndexOK' /\ IndexIsLog'
  BY LogKept DEF device
<1>3. acked' \in [Paths -> Rows \cup {Placeholder}]
  BY <1>1 DEF MemoryOK, Begin
<1>4. MemoryOK' /\ AsleepOK'
  BY <1>1, <1>3 DEF MemoryOK, AsleepOK
<1> QED
  BY <1>1, <1>2, <1>4, NoJobOK DEF StoreInv

\* The parts of the first layer that most steps need.
LEMMA MemoryParts ==
  ASSUME StoreInv
  PROVE  /\ MemoryOK /\ IndexOK /\ DeviceOK /\ AsleepOK
         /\ \A q \in Paths : ChannelOK(q)
BY DEF StoreInv

\* Looking a file up keeps the first layer.
LEMMA StatKeeps == ASSUME StoreInv, NEW p \in Paths, Stat(p) PROVE StoreInv'
<1>1. /\ Idle /\ vfile[p] = Absent
      /\ vfile' = [vfile EXCEPT ![p] = Placeholder]
      /\ UNCHANGED << log, appendOffset, flushed, idb, pending, phase, index, cache,
                      fileValues, chan, job, acked, tainted >>
  BY DEF Stat, device, stores, memory, ghosts
<1>2. MemoryOK /\ \A q \in Paths : ChannelOK(q)
  BY MemoryParts
<1>3. vfile' \in [Paths -> Rows \cup {Placeholder}]
  BY <1>1, <1>2 DEF MemoryOK
<1>4. chan[p] = NoChan
  BY <1>1, <1>2, MarksAreApart DEF ChannelOK
<1>5. \A q \in Paths : ChannelOK(q)'
  BY <1>1, <1>2, <1>4 DEF ChannelOK, NoChan, MemoryOK
<1> QED
  BY <1>1, <1>2, <1>3, <1>5, IdleStep DEF MemoryOK

\* Opening a channel keeps the first layer.
LEMMA OpenKeeps ==
  ASSUME StoreInv, NEW p \in Paths, NEW mode \in {"read", "write", "truncate"},
         Open(p, mode)
  PROVE  StoreInv'
<1> DEFINE restored == vfile[p] \in {Absent, Placeholder} /\ Stored(p) # Absent
           found == IF restored THEN Stored(p)
                    ELSE IF vfile[p] \in {Absent, Placeholder} THEN << >> ELSE vfile[p]
<1>1. /\ Idle /\ chan[p] = NoChan /\ (mode # "read" => p \in Regions)
      /\ vfile' = [vfile EXCEPT ![p] = IF mode = "truncate" THEN << >> ELSE found]
      /\ chan' = [chan EXCEPT ![p] = [mode |-> mode, cells |-> {},
                                      dirty |-> mode = "truncate"]]
      /\ cache' = IF restored /\ Indexed(p)
                  THEN [cache EXCEPT ![p] = Stored(p)] ELSE cache
      /\ UNCHANGED << log, appendOffset, flushed, idb, pending, phase, index,
                      fileValues, job, acked, tainted >>
  BY DEF Open, device, stores, ghosts
<1>2. MemoryOK /\ IndexOK /\ \A q \in Paths : ChannelOK(q)
  BY MemoryParts
<1>3. Stored(p) \in Rows
  BY <1>2, StoredType
<1>4. found \in Contents
  BY <1>2, <1>3, EmptyContent DEF MemoryOK, Rows
<1> HIDE DEF restored, found
<1>5. cache' \in [Paths -> Rows]
  BY <1>1, <1>2, <1>3 DEF MemoryOK
<1>6. /\ vfile' \in [Paths -> Rows \cup {Placeholder}] /\ vfile'[p] \in Contents
      /\ \A q \in Paths : q # p => vfile'[q] = vfile[q]
  BY <1>1, <1>2, <1>4, EmptyContent DEF MemoryOK, Rows
<1>7. [mode |-> mode, cells |-> {}, dirty |-> mode = "truncate"] \in Channels
  BY DEF Channels
<1>8. /\ chan' \in [Paths -> Channels]
      /\ chan'[p] = [mode |-> mode, cells |-> {}, dirty |-> mode = "truncate"]
      /\ \A q \in Paths : q # p => chan'[q] = chan[q]
  BY <1>1, <1>2, <1>7 DEF MemoryOK
<1>9. ChannelOK(p)'
  BY <1>1, <1>6, <1>8 DEF ChannelOK
<1>10. \A q \in Paths : ChannelOK(q)'
  BY <1>2, <1>6, <1>8, <1>9 DEF ChannelOK
<1> QED
  BY <1>1, <1>2, <1>5, <1>6, <1>8, <1>10, IdleStep DEF MemoryOK

\* A channel that may write is open on a region.
LEMMA WritableChannel ==
  ASSUME StoreInv, NEW p \in Paths, Writable(p)
  PROVE  /\ Idle /\ chan[p] \in Channels /\ chan[p].mode \in {"write", "truncate"}
         /\ vfile[p] \in Contents
BY DEF StoreInv, MemoryOK, Writable, ChannelOK

\* A write through a channel keeps the first layer.
LEMMA WriteKeeps ==
  ASSUME StoreInv, NEW p \in Paths, NEW i \in 1..MaxSize, NEW v \in Values, Write(p, i, v)
  PROVE  StoreInv'
<1> DEFINE c == vfile[p]
           grown == IF i > Len(c) THEN Resized(c, i) ELSE c
           w == [grown EXCEPT ![i] = v]
<1>1. /\ Writable(p)
      /\ vfile' = [vfile EXCEPT ![p] = w]
      /\ chan' = [chan EXCEPT ![p].dirty = TRUE,
                              ![p].cells = @ \cup WrittenCells(c, i)]
      /\ UNCHANGED << log, appendOffset, flushed, idb, pending, phase, index, cache,
                      fileValues, job, acked, tainted >>
  BY DEF Write, device, stores, memory, ghosts
<1>2. MemoryOK /\ \A q \in Paths : ChannelOK(q)
  BY MemoryParts
<1>3. /\ Idle /\ chan[p] \in Channels /\ chan[p].mode \in {"write", "truncate"}
      /\ c \in Contents
  BY <1>1, WritableChannel
<1>4. w \in Contents /\ WrittenCells(c, i) \subseteq 1..MaxSize
  BY <1>3, WrittenContent
<1> HIDE DEF c, w
<1>5. /\ vfile' \in [Paths -> Rows \cup {Placeholder}] /\ vfile'[p] = w
      /\ \A q \in Paths : q # p => vfile'[q] = vfile[q]
  BY <1>1, <1>2, <1>4 DEF MemoryOK, Rows
<1>6. chan[p].cells \cup WrittenCells(c, i) \in SUBSET (1..MaxSize)
  BY <1>3, <1>4 DEF Channels
<1>7. /\ chan' \in [Paths -> Channels]
      /\ chan'[p].mode = chan[p].mode /\ chan'[p].dirty
      /\ \A q \in Paths : q # p => chan'[q] = chan[q]
  BY <1>1, <1>2, <1>3, <1>6 DEF MemoryOK, Channels
<1>8. ChannelOK(p)'
  BY <1>2, <1>3, <1>4, <1>5, <1>7 DEF ChannelOK
<1>9. \A q \in Paths : ChannelOK(q)'
  BY <1>2, <1>5, <1>7, <1>8 DEF ChannelOK
<1> QED
  BY <1>1, <1>2, <1>3, <1>5, <1>7, <1>9, IdleStep DEF MemoryOK

\* A truncation through a channel keeps the first layer.
LEMMA TruncateKeeps ==
  ASSUME StoreInv, NEW p \in Paths, NEW n \in Nat, Truncate(p, n)
  PROVE  StoreInv'
<1>1. /\ Writable(p) /\ n < Len(vfile[p])
      /\ vfile' = [vfile EXCEPT ![p] = SubSeq(@, 1, n)]
      /\ chan' = [chan EXCEPT ![p].dirty = TRUE]
      /\ UNCHANGED << log, appendOffset, flushed, idb, pending, phase, index, cache,
                      fileValues, job, acked, tainted >>
  BY DEF Truncate, device, stores, memory, ghosts
<1>2. MemoryOK /\ \A q \in Paths : ChannelOK(q)
  BY MemoryParts
<1>3. /\ Idle /\ chan[p] \in Channels /\ chan[p].mode \in {"write", "truncate"}
      /\ vfile[p] \in Contents
  BY <1>1, WritableChannel
<1>4. SubSeq(vfile[p], 1, n) \in Contents
  BY <1>1, <1>3, CutContent
<1>5. /\ vfile' \in [Paths -> Rows \cup {Placeholder}] /\ vfile'[p] \in Contents
      /\ \A q \in Paths : q # p => vfile'[q] = vfile[q]
  BY <1>1, <1>2, <1>4 DEF MemoryOK, Rows
<1>6. /\ chan' \in [Paths -> Channels]
      /\ chan'[p].mode = chan[p].mode /\ chan'[p].dirty
      /\ \A q \in Paths : q # p => chan'[q] = chan[q]
  BY <1>1, <1>2, <1>3 DEF MemoryOK, Channels
<1>7. ChannelOK(p)'
  BY <1>2, <1>3, <1>5, <1>6 DEF ChannelOK
<1>8. \A q \in Paths : ChannelOK(q)'
  BY <1>2, <1>5, <1>6, <1>7 DEF ChannelOK
<1> QED
  BY <1>1, <1>2, <1>3, <1>5, <1>6, <1>8, IdleStep DEF MemoryOK

\* Sequences with the same members are equal.
LEMMA SameSequence ==
  ASSUME NEW S, NEW s \in Seq(S), NEW t \in Seq(S), Len(s) = Len(t),
         \A i \in 1..Len(s) : s[i] = t[i]
  PROVE  s = t
OBVIOUS

\* Appending to the empty sequence.
LEMMA AppendToNone == ASSUME NEW x PROVE Append(<< >>, x) = << x >>
OBVIOUS

\* Appending to a sequence of one member.
LEMMA AppendToOne == ASSUME NEW x, NEW y PROVE Append(<< x >>, y) = << x, y >>
<1> DEFINE S == {x, y}
           a == Append(<< x >>, y)
           b == << x, y >>
<1>1. /\ a \in Seq(S) /\ Len(a) = 2 /\ a[1] = x /\ a[2] = y
  OBVIOUS
<1>2. /\ b \in Seq(S) /\ Len(b) = 2 /\ b[1] = x /\ b[2] = y
  OBVIOUS
<1>3. \A i \in 1..2 : i = 1 \/ i = 2
  OBVIOUS
<1> HIDE DEF a, b
<1>4. a = b
  BY <1>1, <1>2, <1>3, SameSequence
<1> QED
  BY <1>4 DEF a, b

\* The records of a dirty channel.
LEMMA PatchRecordsOf ==
  ASSUME NEW p \in Paths, NEW n \in 0..MaxSize, NEW d \in Data, IndexOK
  PROVE  \/ /\ PatchRecords(p, n, d) = << PatchRecord(p, n, d, NextGeneration(index[p])) >>
            /\ ~LongChain(index[p])
         \/ /\ PatchRecords(p, n, d) =
                 << FullRecord(p, Base(p)),
                    PatchRecord(p, n, d, NextGeneration(index[p]) + 1) >>
            /\ Base(p) \in Contents
<1>1. index[p] \in Entries /\ index[p].gen \in Nat
  BY DEF IndexOK, Indexes, Entries
<1>2. Base(p) \in Contents
  BY <1>1, MaterializedContent DEF Base
<1>3. CASE LongChain(index[p])
  <2>1. PatchRecords(p, n, d) =
          Append(<< FullRecord(p, Base(p)) >>, PatchRecord(p, n, d, PatchGeneration(index[p])))
    BY <1>3 DEF PatchRecords, Base
  <2>2. PatchGeneration(index[p]) = NextGeneration(index[p]) + 1
    BY <1>3 DEF PatchGeneration
  <2> QED
    BY <1>2, <2>1, <2>2, AppendToOne
<1>4. CASE ~LongChain(index[p])
  <2>1. PatchRecords(p, n, d) =
          Append(<< >>, PatchRecord(p, n, d, PatchGeneration(index[p])))
    BY <1>4 DEF PatchRecords
  <2>2. PatchGeneration(index[p]) = NextGeneration(index[p])
    BY <1>1, <1>4 DEF PatchGeneration, NextGeneration
  <2> QED
    BY <1>4, <2>1, <2>2, AppendToNone
<1> QED
  BY <1>3, <1>4

\* A force or a close begins with records that fit the index.
LEMMA PersistKeeps ==
  ASSUME StoreInv, NEW p \in Paths, NEW kind \in {"force", "close"}, Persist(kind, p)
  PROVE  StoreInv'
<1> DEFINE c == vfile[p]
           data == [i \in chan[p].cells \cap 1..Len(c) |-> c[i]]
           todo == PatchRecords(p, Len(c), data)
<1>1. /\ Idle /\ chan[p].dirty /\ Begin(kind, p, todo, c)
      /\ UNCHANGED << log, appendOffset, flushed, idb, pending, phase, index, cache,
                      fileValues, vfile, chan, tainted >>
  BY DEF Persist, device, stores, memory, java
<1>2. MemoryOK /\ IndexOK /\ \A q \in Paths : ChannelOK(q)
  BY MemoryParts
<1>3. c \in Contents /\ chan[p].cells \in SUBSET (1..MaxSize)
  BY <1>1, <1>2 DEF MemoryOK, ChannelOK, Channels
<1>4. data \in Data /\ Len(c) \in 0..MaxSize
  BY <1>3, CellsData, ContentIsSeq
<1> HIDE DEF data, c
<1>5. \/ /\ todo = << PatchRecord(p, Len(c), data, NextGeneration(index[p])) >>
         /\ ~LongChain(index[p])
      \/ /\ todo = << FullRecord(p, Base(p)),
                      PatchRecord(p, Len(c), data, NextGeneration(index[p]) + 1) >>
         /\ Base(p) \in Contents
  BY <1>2, <1>4, PatchRecordsOf
<1>6. todo # << >>
  BY <1>5
<1> HIDE DEF todo
<1>7. job' = [kind |-> kind, path |-> p, todo |-> todo, bytes |-> c, stage |-> "append"]
  BY <1>1, <1>6 DEF Begin
<1>8. PatchTodo(p)'
  <2>1. job'.todo = todo /\ index' = index
    BY <1>1, <1>7
  <2> QED
    BY <2>1, <1>4, <1>5 DEF PatchTodo
<1>9. job'.path = p
  BY <1>7
<1>10. PatchTodo(job.path)'
  BY <1>8, <1>9
<1>11. JobOK'
  BY <1>1, <1>2, <1>6, <1>7, <1>9, <1>10 DEF JobOK, Idle, c
<1>12. \A q \in Paths : ChannelOK(q)'
  BY <1>1, <1>2 DEF ChannelOK
<1> QED
  BY <1>1, <1>2, <1>3, <1>11, <1>12, BeginStep DEF MemoryOK, Rows

\* A move begins with a full record.
LEMMA MoveKeeps ==
  ASSUME StoreInv, NEW p \in Paths, NEW c \in Contents, Move(p, c)
  PROVE  StoreInv'
<1> DEFINE todo == << FullRecord(p, c) >>
<1>1. /\ Idle /\ p \in Moved /\ chan[p] = NoChan
      /\ vfile' = [vfile EXCEPT ![p] = c]
      /\ Begin("move", p, todo, c)
      /\ UNCHANGED << log, appendOffset, flushed, idb, pending, phase, index, cache,
                      fileValues, chan, tainted >>
  BY DEF Move, device, stores, memory
<1>2. MemoryOK /\ \A q \in Paths : ChannelOK(q)
  BY MemoryParts
<1>3. vfile' \in [Paths -> Rows \cup {Placeholder}]
  BY <1>1, <1>2 DEF MemoryOK, Rows
<1>4. \A q \in Paths : ChannelOK(q)'
  BY <1>1, <1>2 DEF ChannelOK, NoChan, MemoryOK
<1>5. job' = [kind |-> "move", path |-> p, todo |-> todo, bytes |-> c, stage |-> "append"]
  BY <1>1 DEF Begin
<1>6. JobOK'
  BY <1>1, <1>5 DEF JobOK, Idle
<1> QED
  BY <1>1, <1>3, <1>4, <1>6, BeginStep DEF Rows

\* A deletion begins with a tombstone, if the log has the file.
LEMMA DeleteKeeps == ASSUME StoreInv, NEW p \in Paths, Delete(p) PROVE StoreInv'
<1> DEFINE todo == Tombstone(p)
<1>1. /\ Idle /\ chan[p] = NoChan
      /\ vfile' = [vfile EXCEPT ![p] = Absent]
      /\ Begin("delete", p, todo, Absent)
      /\ UNCHANGED << log, appendOffset, flushed, idb, pending, phase, index, cache,
                      fileValues, chan, tainted >>
  BY DEF Delete, device, stores, memory
<1>2. MemoryOK /\ \A q \in Paths : ChannelOK(q)
  BY MemoryParts
<1>3. vfile' \in [Paths -> Rows \cup {Placeholder}] /\ vfile'[p] = Absent
  BY <1>1, <1>2 DEF MemoryOK, Rows
<1>4. \A q \in Paths : ChannelOK(q)'
  BY <1>1, <1>2 DEF ChannelOK, NoChan, MemoryOK
<1>5. todo \in {<< >>, << DeletedRecord(p) >>}
  BY DEF Tombstone
<1> HIDE DEF todo
<1>6. job' = [kind |-> "delete", path |-> p, todo |-> todo, bytes |-> Absent,
              stage |-> IF todo = << >> THEN "flush" ELSE "append"]
  BY <1>1 DEF Begin
<1>7. JobOK'
  BY <1>1, <1>3, <1>5, <1>6 DEF JobOK, Idle
<1> QED
  BY <1>1, <1>3, <1>4, <1>7, BeginStep DEF Rows

\* Closing a clean channel keeps the first layer.
LEMMA CloseCleanKeeps == ASSUME StoreInv, NEW p \in Paths, CloseClean(p) PROVE StoreInv'
<1>1. /\ Idle
      /\ chan' = [chan EXCEPT ![p] = NoChan]
      /\ vfile' = [vfile EXCEPT ![p] = IF Stored(p) # Absent THEN Absent ELSE @]
      /\ UNCHANGED << log, appendOffset, flushed, idb, pending, phase, index, cache,
                      fileValues, job, acked, tainted >>
  BY DEF CloseClean, Reclaimed, device, stores, memory, ghosts
<1>2. MemoryOK /\ \A q \in Paths : ChannelOK(q)
  BY MemoryParts
<1>3. vfile' \in [Paths -> Rows \cup {Placeholder}] /\ chan' \in [Paths -> Channels]
  BY <1>1, <1>2 DEF MemoryOK, Rows, Channels, NoChan
<1>4. \A q \in Paths : ChannelOK(q)'
  BY <1>1, <1>2 DEF ChannelOK, NoChan, MemoryOK
<1> QED
  BY <1>1, <1>2, <1>3, <1>4, IdleStep DEF MemoryOK

\* An eviction keeps the first layer.
LEMMA EvictKeeps == ASSUME StoreInv, NEW p \in Paths, Evict(p) PROVE StoreInv'
<1>1. /\ Idle /\ cache' = [cache EXCEPT ![p] = Absent]
      /\ UNCHANGED << log, appendOffset, flushed, idb, pending, phase, index,
                      fileValues, vfile, chan, job, acked, tainted >>
  BY DEF Evict, Uncached, device, stores, java, ghosts
<1>2. MemoryOK /\ \A q \in Paths : ChannelOK(q)
  BY MemoryParts
<1>3. cache' \in [Paths -> Rows]
  BY <1>1, <1>2 DEF MemoryOK, Rows
<1>4. \A q \in Paths : ChannelOK(q)'
  BY <1>1, <1>2 DEF ChannelOK
<1> QED
  BY <1>1, <1>2, <1>3, <1>4, IdleStep DEF MemoryOK

\* Migrating a row begins with a full record of it.
LEMMA MigrateKeeps == ASSUME StoreInv, NEW p \in Paths, Migrate(p) PROVE StoreInv'
<1>1. /\ phase = "scanned" /\ job = NoJob /\ idb[p] # Absent
      /\ job' = [kind |-> "migrate", path |-> p, bytes |-> idb[p], stage |-> "append",
                 todo |-> << FullRecord(p, idb[p]) >>]
      /\ UNCHANGED << log, appendOffset, flushed, idb, pending, phase, index, cache,
                      fileValues, vfile, chan, acked, tainted >>
  BY DEF Migrate, Migrating, device, stores, memory, java, ghosts
<1>2. MemoryOK /\ AsleepOK /\ \A q \in Paths : ChannelOK(q)
  BY MemoryParts
<1>3. DeviceOK' /\ IndexOK' /\ IndexIsLog'
  BY <1>1, LogKept DEF device
<1>4. idb[p] \in Contents
  BY <1>1, <1>2 DEF MemoryOK, Rows
<1>5. JobOK'
  BY <1>1, <1>4 DEF JobOK
<1>6. MemoryOK' /\ AsleepOK' /\ \A q \in Paths : ChannelOK(q)'
  BY <1>1, <1>2 DEF MemoryOK, AsleepOK, ChannelOK
<1> QED
  BY <1>3, <1>5, <1>6 DEF StoreInv

\* Writing the queued rows keeps the first layer.
LEMMA FlushPendingKeeps == ASSUME StoreInv, FlushPending PROVE StoreInv'
<1>1. /\ Idle
      /\ idb' = [p \in Paths |-> IF pending[p].changed THEN pending[p].value ELSE idb[p]]
      /\ pending' = [p \in Paths |-> NoChange]
      /\ UNCHANGED << log, appendOffset, flushed, phase, index, cache, fileValues,
                      vfile, chan, job, acked, tainted >>
  BY DEF FlushPending, device, memory, java, ghosts
<1>2. MemoryOK /\ \A q \in Paths : ChannelOK(q)
  BY MemoryParts
<1>3. DeviceOK' /\ IndexOK' /\ IndexIsLog'
  BY <1>1, LogKept DEF device
<1>4. idb' \in [Paths -> Rows] /\ pending' \in [Paths -> Changes]
  BY <1>1, <1>2 DEF MemoryOK, Changes, NoChange, Rows
<1>5. MemoryOK' /\ AsleepOK' /\ \A q \in Paths : ChannelOK(q)'
  BY <1>1, <1>2, <1>4 DEF MemoryOK, AsleepOK, ChannelOK, Idle
<1> QED
  BY <1>1, <1>3, <1>5, NoJobOK DEF StoreInv, Idle

\* Every file operation of the game keeps the first layer.
LEMMA GameStepKeeps == ASSUME StoreInv, NEW p \in Paths, GameStep(p) PROVE StoreInv'
<1>1. CASE Stat(p)
  BY <1>1, StatKeeps
<1>2. CASE \E mode \in {"read", "write", "truncate"} : Open(p, mode)
  BY <1>2, OpenKeeps
<1>3. CASE \E i \in 1..MaxSize, v \in Values : Write(p, i, v)
  BY <1>3, WriteKeeps
<1>4. CASE \E n \in 0..(MaxSize - 1) : Truncate(p, n)
  BY <1>4, TruncateKeeps, BoundsAreNat
<1>5. CASE ForceDirty(p) \/ CloseDirty(p)
  BY <1>5, PersistKeeps DEF ForceDirty, CloseDirty
<1>6. CASE CloseClean(p)
  BY <1>6, CloseCleanKeeps
<1>7. CASE \E v \in Values : Move(p, << v >>)
  BY <1>7, MoveKeeps, OneContent
<1>8. CASE Delete(p)
  BY <1>8, DeleteKeeps
<1> QED
  BY <1>1, <1>2, <1>3, <1>4, <1>5, <1>6, <1>7, <1>8 DEF GameStep

\* A step that changes nothing keeps the first layer.
LEMMA StutterKeeps == ASSUME StoreInv, UNCHANGED vars PROVE StoreInv'
BY DEF vars, device, stores, memory, java, ghosts, counts, StoreInv, DeviceOK, IndexOK,
       IndexIsLog, MemoryOK, AsleepOK, JobOK, ChannelOK, PatchTodo

\* Every step keeps the first layer.
LEMMA StoreStep == ASSUME TruncationWorks, StoreInv, [Next]_vars PROVE StoreInv'
<1>1. CASE \E p \in Paths : GameStep(p) \/ Evict(p) \/ Migrate(p)
  BY <1>1, GameStepKeeps, EvictKeeps, MigrateKeeps
<1>2. CASE WriteBody \/ WriteHeader \/ Succeed \/ Fail
  BY <1>2, WriteBodyKeeps, WriteHeaderKeeps, SucceedKeeps, FailKeeps
<1>3. CASE FlushPending \/ OpenStore \/ MigrateFlush \/ MigrateDelete
  BY <1>3, FlushPendingKeeps, OpenStoreKeeps, MigrateFlushKeeps, MigrateDeleteKeeps
<1>4. CASE \E n \in flushed..Len(log) : Crash(n)
  BY <1>4, CrashKeeps
<1>5. CASE UNCHANGED vars
  BY <1>5, StutterKeeps
<1> QED
  BY <1>1, <1>2, <1>3, <1>4, <1>5 DEF Next

\* The first layer is an invariant while truncations are not refused.
LEMMA StoreInvariance == TruncationWorks => (Spec => []StoreInv)
<1> SUFFICES ASSUME TruncationWorks PROVE Spec => []StoreInv
  OBVIOUS
<1>1. StoreInv /\ [Next]_vars => StoreInv'
  BY StoreStep
<1> QED
  BY <1>1, StoreInit, PTL DEF Spec

\* The invariant implies what the run checks.
LEMMA StoreInvType == StoreInv => IndexIsSound
<1> SUFFICES ASSUME StoreInv PROVE IndexIsSound
  OBVIOUS
<1>1. /\ DeviceOK /\ IndexOK /\ IndexIsLog /\ MemoryOK /\ JobOK
      /\ \A p \in Paths : ChannelOK(p)
  BY DEF StoreInv
<1>2. appendOffset \in 0..Len(log) /\ flushed \in 0..appendOffset
  BY <1>1 DEF DeviceOK
<1>3. ASSUME NEW p \in Paths
      PROVE  /\ {idb[p], cache[p], fileValues[p], pending[p].value}
                  \subseteq Contents \cup {Absent}
             /\ vfile[p] \in Contents \cup {Absent, Placeholder}
             /\ chan[p].mode # "closed" => vfile[p] \in Contents
             /\ chan[p].cells \subseteq 1..MaxSize
             /\ Materialized(index[p]) \in Contents
             /\ Len(index[p].patches) <= PatchLimit
  <2>1. Materialized(index[p]) \in Contents /\ Len(index[p].patches) <= PatchLimit
    BY <1>1, MaterializedContent DEF IndexOK, Indexes, Bounded
  <2>2. pending[p] \in Changes /\ chan[p] \in Channels
    BY <1>1 DEF MemoryOK
  <2> QED
    BY <2>1, <2>2, <1>1 DEF MemoryOK, Rows, ChannelOK, Changes, Channels
<1>4. job # NoJob => job.path \in Paths /\ phase \in {"scanned", "open"}
  BY <1>1 DEF JobOK
<1>5. phase \in {"down", "scanned", "migrated", "open"}
  BY <1>1 DEF MemoryOK
<1> QED
  BY <1>1, <1>2, <1>3, <1>4, <1>5 DEF IndexIsSound, TypeOK

\* Every entry and copy is one the code can build, and the index that the worker
\* reads and patches by is the one a scan of its own log would build, unless the
\* truncation after a scan is refused.
THEOREM IndexSoundness == TruncationWorks => (Spec => []IndexIsSound)
BY StoreInvType, StoreInvariance, PTL

-----------------------------------------------------------------------------
(* The second layer relates the copies of a file to one another.  A moved   *)
(* file whose record is refused lives on as a string that the index hides.  *)

MovesWork == Faulty \cap Moved = {}

\* Without refused moves no bytes of a region are queued for IndexedDB.
RowsOK ==
  /\ \A p \in Paths : fileValues[p] = Absent /\ pending[p].value = Absent
  /\ phase = "open" => \A p \in Paths : idb[p] = Absent

\* A row whose record is written is what the index serves.
MigratedOK ==
  \A p \in Paths :
    /\ idb[p] # Absent
    /\ phase = "migrated" \/ (phase = "scanned" /\ ~Migrating(p))
    => Indexed(p) /\ Base(p) = idb[p]

Moving(p) == job.kind = "move" /\ job.path = p

\* The copy in TeaVM differs from the log in the cells a channel has recorded.
CopyOK(p) ==
  phase = "open" /\ ~tainted[p] /\ vfile[p] \in Contents /\ ~Moving(p) =>
    /\ ~chan[p].dirty => vfile[p] = Base(p)
    /\ \A i \in 1..Len(vfile[p]) \ chan[p].cells :
         vfile[p][i] = IF i <= Len(Base(p)) THEN Base(p)[i] ELSE Zero

\* The cache serves what the log holds, as far as it is asked.
CacheOK(p) ==
  phase = "open" /\ cache[p] # Absent =>
    /\ ~tainted[p] /\ ~chan[p].dirty /\ ~Moving(p) /\ Indexed(p) => cache[p] = Base(p)
    /\ acked[p] # Placeholder => Indexed(p) /\ cache[p] = Base(p)

\* What is left to write makes the log serve the bytes the call will promise.
GoalOK ==
  LET p == job.path IN
  job # NoJob =>
    /\ phase = "open" => acked[p] = Placeholder
    /\ job.kind \in {"force", "close"} /\ ~tainted[p] =>
         IF job.todo = << >> THEN Indexed(p) /\ Base(p) = job.bytes
         ELSE /\ ApplyPatch(Base(p), job.todo[Len(job.todo)]) = job.bytes
              /\ Len(job.todo) = 2 => job.todo[1].data = Base(p)
    /\ job.kind = "move" /\ job.todo = << >> => Indexed(p) /\ Base(p) = job.bytes
    /\ job.kind = "delete" /\ job.todo = << >> => ~Indexed(p)

FilesInv ==
  /\ RowsOK /\ MigratedOK /\ GoalOK /\ AckSurvives
  /\ \A p \in Paths : CopyOK(p) /\ CacheOK(p)

\* A path that the index does not serve has no bytes.
LEMMA NothingServed ==
  ASSUME StoreInv, NEW p \in Paths, ~Indexed(p)
  PROVE  Base(p) = << >>
<1>1. index[p] \in Entries /\ (index[p].gen = 0 => index[p] = NoEntry)
  BY DEF StoreInv, IndexOK, Indexes, Bounded
<1>2. index[p].gen = 0
  BY <1>1 DEF Indexed, Entries
<1>3. index[p] = NoEntry /\ NoEntry.patches = << >> /\ NoEntry.base = << >>
  BY <1>1, <1>2 DEF NoEntry
<1>4. Materialized(NoEntry) = << >>
  BY <1>3, NoIndexType, MaterializedBase
<1> QED
  BY <1>3, <1>4 DEF Base

\* What the index serves is a content.
LEMMA BaseType ==
  ASSUME StoreInv, NEW p \in Paths
  PROVE  Base(p) \in Contents /\ Base(p) # Absent /\ Base(p) # Placeholder
<1>1. Base(p) \in Contents
  BY StoredType DEF StoreInv
<1> QED
  BY <1>1, MarksAreApart

\* A patch of the recorded cells turns the stored bytes into those of the copy.
LEMMA PatchRestores ==
  ASSUME NEW c \in Contents, NEW b \in Contents, NEW D \in SUBSET (1..MaxSize),
         \A i \in 1..Len(c) \ D : c[i] = IF i <= Len(b) THEN b[i] ELSE Zero,
         NEW patch, patch.size = Len(c),
         patch.data = [i \in D \cap 1..Len(c) |-> c[i]]
  PROVE  ApplyPatch(b, patch) = c
<1>1. /\ Len(c) \in Nat /\ c = [i \in 1..Len(c) |-> c[i]]
  BY ContentIsSeq, BoundsAreNat
<1>2. DOMAIN patch.data = D \cap 1..Len(c)
  OBVIOUS
<1>3. ASSUME NEW i \in 1..Len(c)
      PROVE  (IF i \in DOMAIN patch.data THEN patch.data[i] ELSE Resized(b, Len(c))[i]) = c[i]
  <2>1. CASE i \in D
    BY <2>1, <1>2
  <2>2. CASE i \notin D
    <3>1. Resized(b, Len(c))[i] = IF i <= Len(b) THEN b[i] ELSE Zero
      BY DEF Resized
    <3> QED
      BY <2>2, <3>1, <1>2
  <2> QED
    BY <2>1, <2>2
<1>4. ApplyPatch(b, patch) =
        [i \in 1..Len(c) |-> IF i \in DOMAIN patch.data THEN patch.data[i]
                             ELSE Resized(b, Len(c))[i]]
  BY DEF ApplyPatch
<1>5. ApplyPatch(b, patch) = [i \in 1..Len(c) |-> c[i]]
  BY <1>3, <1>4
<1> QED
  BY <1>1, <1>5

\* What is stored while no bytes wait for IndexedDB.
LEMMA StoredOpen ==
  ASSUME StoreInv, RowsOK, NEW p \in Paths
  PROVE  /\ ~Indexed(p) => Stored(p) = Absent
         /\ Indexed(p) /\ cache[p] # Absent => Stored(p) = cache[p]
         /\ Indexed(p) /\ cache[p] = Absent => Stored(p) = Base(p)
         /\ Indexed(p) => Stored(p) # Absent
BY BaseType DEF Stored, RowsOK, Base

\* The second layer holds before the worker starts.
LEMMA FilesInit == Init => FilesInv
<1> SUFFICES ASSUME Init PROVE FilesInv
  OBVIOUS
<1>1. log \in Seq(Records) /\ Len(log) = 0
  BY DEF Init
<1>2. SubSeq(log, 1, 0) = << >>
  BY DEF Init
<1>3. \A p \in Paths : Scan(<< >>)[p].gen = 0
  BY ScannedEmpty DEF Scan, NoScan, NoIndex, NoEntry
<1>4. AckSurvives
  <2>1. \A n \in flushed..Len(log) : n = 0
    BY <1>1 DEF Init
  <2>2. \A p \in Paths : AfterRestart(0)[p] = idb[p]
    BY <1>2, <1>3 DEF AfterRestart
  <2> QED
    BY <2>1, <2>2 DEF AckSurvives, Init
<1>5. RowsOK
  BY DEF Init, RowsOK, NoChange
<1>6. MigratedOK /\ GoalOK
  BY DEF Init, MigratedOK, GoalOK
<1> QED
  BY <1>4, <1>5, <1>6 DEF Init, FilesInv, CopyOK, CacheOK

\* A step of the game on one file.
LEMMA IdleFiles ==
  ASSUME StoreInv, FilesInv, Idle, NEW p \in Paths,
         UNCHANGED << log, appendOffset, flushed, idb, pending, phase, index, fileValues,
                      tainted >>,
         \A q \in Paths \ {p} :
           /\ vfile'[q] = vfile[q] /\ chan'[q] = chan[q]
           /\ cache'[q] = cache[q] /\ acked'[q] = acked[q],
         acked'[p] \in {acked[p], Placeholder},
         CopyOK(p)', CacheOK(p)', GoalOK',
         job' = NoJob \/ job'.path = p
  PROVE  FilesInv'
<1>1. phase = "open" /\ job = NoJob /\ RowsOK /\ AckSurvives
  BY DEF Idle, FilesInv
<1>2. AckSurvives'
  <2>1. \A n : AfterRestart(n)' = AfterRestart(n)
    BY DEF AfterRestart
  <2>2. \A q \in Paths : acked'[q] # Placeholder => acked'[q] = acked[q]
    OBVIOUS
  <2> QED
    BY <1>1, <2>1, <2>2 DEF AckSurvives
<1>3. RowsOK' /\ MigratedOK'
  BY <1>1 DEF RowsOK, MigratedOK
<1>4. ASSUME NEW q \in Paths, q # p PROVE CopyOK(q)' /\ CacheOK(q)'
  <2>1. CopyOK(q) /\ CacheOK(q)
    BY DEF FilesInv
  <2>2. ~Moving(q) /\ ~Moving(q)'
    BY <1>1, <1>4 DEF Moving, NoJob
  <2>3. Base(q)' = Base(q) /\ Indexed(q)' = Indexed(q)
    BY DEF Base, Indexed
  <2> HIDE DEF Base, Indexed, Moving
  <2> QED
    BY <1>1, <1>4, <2>1, <2>2, <2>3 DEF CopyOK, CacheOK
<1> QED
  BY <1>2, <1>3, <1>4 DEF FilesInv

\* The parts of both layers that concern one file.
LEMMA FilesParts ==
  ASSUME StoreInv, FilesInv, NEW p \in Paths
  PROVE  /\ RowsOK /\ MigratedOK /\ GoalOK /\ AckSurvives /\ CopyOK(p) /\ CacheOK(p)
         /\ MemoryOK /\ IndexOK /\ DeviceOK /\ AsleepOK /\ ChannelOK(p)
BY DEF FilesInv, StoreInv

\* An idle step that leaves the cache alone, and the changes of a channel that
\* has some.
LEMMA CacheKept ==
  ASSUME StoreInv, FilesInv, Idle, NEW p \in Paths,
         UNCHANGED << phase, index, tainted >>,
         cache'[p] = cache[p], acked'[p] \in {acked[p], Placeholder},
         chan[p].dirty => chan'[p].dirty \/ Moving(p)'
  PROVE  CacheOK(p)'
<1>1. CacheOK(p) /\ ~Moving(p)
  BY FilesParts DEF Moving, Idle, NoJob
<1>2. Base(p)' = Base(p) /\ Indexed(p)' = Indexed(p)
  BY DEF Base, Indexed
<1> HIDE DEF Base, Indexed, Moving
<1> QED
  BY <1>1, <1>2 DEF CacheOK

\* A placeholder is no copy of the bytes.
LEMMA StatFiles == ASSUME StoreInv, FilesInv, NEW p \in Paths, Stat(p) PROVE FilesInv'
<1>1. /\ Idle
      /\ vfile' = [vfile EXCEPT ![p] = Placeholder]
      /\ UNCHANGED << log, appendOffset, flushed, idb, pending, phase, index, cache,
                      fileValues, chan, job, acked, tainted >>
  BY DEF Stat, device, stores, memory, ghosts
<1>2. vfile'[p] = Placeholder /\ \A q \in Paths \ {p} : vfile'[q] = vfile[q]
  BY <1>1, FilesParts DEF MemoryOK
<1>3. CopyOK(p)'
  BY <1>2, MarksAreApart DEF CopyOK
<1>4. CacheOK(p)'
  BY <1>1, CacheKept
<1>5. job' = NoJob /\ GoalOK'
  BY <1>1 DEF GoalOK, Idle
<1> QED
  BY <1>1, <1>2, <1>3, <1>4, <1>5, IdleFiles

\* An opened file shows what is stored.
LEMMA OpenFiles ==
  ASSUME StoreInv, FilesInv, NEW p \in Paths, NEW mode \in {"read", "write", "truncate"},
         Open(p, mode)
  PROVE  FilesInv'
<1> DEFINE restored == vfile[p] \in {Absent, Placeholder} /\ Stored(p) # Absent
           found == IF restored THEN Stored(p)
                    ELSE IF vfile[p] \in {Absent, Placeholder} THEN << >> ELSE vfile[p]
<1>1. /\ Idle /\ chan[p] = NoChan
      /\ vfile' = [vfile EXCEPT ![p] = IF mode = "truncate" THEN << >> ELSE found]
      /\ chan' = [chan EXCEPT ![p] = [mode |-> mode, cells |-> {},
                                      dirty |-> mode = "truncate"]]
      /\ cache' = IF restored /\ Indexed(p)
                  THEN [cache EXCEPT ![p] = Stored(p)] ELSE cache
      /\ UNCHANGED << log, appendOffset, flushed, idb, pending, phase, index, fileValues,
                      job, acked, tainted >>
  BY DEF Open, device, stores, ghosts
<1>2. /\ RowsOK /\ MemoryOK /\ CopyOK(p) /\ CacheOK(p) /\ ~Moving(p) /\ ~Moving(p)'
      /\ phase = "open" /\ job = NoJob /\ job' = NoJob
  BY <1>1, FilesParts DEF Idle, Moving, NoJob
<1>3. Base(p)' = Base(p) /\ Indexed(p)' = Indexed(p)
  BY <1>1 DEF Base, Indexed
<1>4. /\ vfile'[p] = IF mode = "truncate" THEN << >> ELSE found
      /\ chan'[p] = [mode |-> mode, cells |-> {}, dirty |-> mode = "truncate"]
      /\ cache'[p] = IF restored /\ Indexed(p) THEN Stored(p) ELSE cache[p]
      /\ \A q \in Paths \ {p} : /\ vfile'[q] = vfile[q] /\ chan'[q] = chan[q]
                                /\ cache'[q] = cache[q] /\ acked'[q] = acked[q]
  BY <1>1, <1>2 DEF MemoryOK
<1>5. /\ ~Indexed(p) => Stored(p) = Absent /\ Base(p) = << >>
      /\ Indexed(p) => Stored(p) = (IF cache[p] # Absent THEN cache[p] ELSE Base(p))
      /\ Indexed(p) => Stored(p) # Absent
  BY <1>2, StoredOpen, NothingServed
<1>6. chan[p].dirty = FALSE /\ chan[p].cells = {}
  BY <1>1 DEF NoChan
<1> HIDE DEF Base, Indexed, Moving, Stored
<1>7. ~tainted[p] /\ Indexed(p) => Stored(p) = Base(p)
  BY <1>2, <1>5, <1>6 DEF CacheOK
<1>8. CacheOK(p)'
  BY <1>1, <1>2, <1>3, <1>4, <1>5, <1>6, <1>7 DEF CacheOK
<1>9. CopyOK(p)'
  <2> SUFFICES ASSUME ~tainted[p], vfile'[p] \in Contents
               PROVE  /\ ~chan'[p].dirty => vfile'[p] = Base(p)
                      /\ \A i \in 1..Len(vfile'[p]) \ chan'[p].cells :
                           vfile'[p][i] = IF i <= Len(Base(p)) THEN Base(p)[i] ELSE Zero
    BY <1>1, <1>3 DEF CopyOK
  <2>1. CASE mode = "truncate"
    <3>1. vfile'[p] = << >>
      BY <2>1, <1>4
    <3>2. chan'[p].dirty = (mode = "truncate")
      BY <1>4
    <3>3. chan'[p].dirty
      BY <2>1, <3>2, Zenon
    <3>4. 1..Len(vfile'[p]) = {}
      BY <3>1
    <3> QED
      BY <3>3, <3>4
  <2>2. CASE mode # "truncate"
    <3>1. found = Base(p)
      <4>1. vfile[p] \in Rows \cup {Placeholder}
        BY <1>2 DEF MemoryOK
      <4>2. vfile[p] \in Contents => vfile[p] = Base(p)
        BY <1>2, <1>6 DEF CopyOK
      <4> QED
        BY <4>1, <4>2, <1>5, <1>7, MarksAreApart DEF Rows
    <3>2. vfile'[p] = Base(p)
      BY <2>2, <3>1, <1>4
    <3> HIDE DEF found
    <3> QED
      BY <3>2, <1>4
  <2> QED
    BY <2>1, <2>2
<1>10. GoalOK'
  BY <1>2 DEF GoalOK
<1> QED
  BY <1>1, <1>2, <1>4, <1>8, <1>9, <1>10, IdleFiles

\* A write records every cell in which the copy leaves the log.
LEMMA WriteFiles ==
  ASSUME StoreInv, FilesInv, NEW p \in Paths, NEW i \in 1..MaxSize, NEW v \in Values,
         Write(p, i, v)
  PROVE  FilesInv'
<1> DEFINE c == vfile[p]
           grown == IF i > Len(c) THEN Resized(c, i) ELSE c
           w == [grown EXCEPT ![i] = v]
<1>1. /\ Writable(p)
      /\ vfile' = [vfile EXCEPT ![p] = w]
      /\ chan' = [chan EXCEPT ![p].dirty = TRUE,
                              ![p].cells = @ \cup WrittenCells(c, i)]
      /\ UNCHANGED << log, appendOffset, flushed, idb, pending, phase, index, cache,
                      fileValues, job, acked, tainted >>
  BY DEF Write, device, stores, memory, ghosts
<1>2. /\ Idle /\ chan[p] \in Channels /\ c \in Contents
      /\ phase = "open" /\ job = NoJob /\ job' = NoJob
  BY <1>1, WritableChannel DEF Idle
<1>3. /\ w \in Contents
      /\ \A k \in 1..Len(w) : k \notin WrittenCells(c, i) => k <= Len(c) /\ w[k] = c[k]
  BY <1>2, WrittenContent
<1> HIDE DEF c, w
<1>4. /\ vfile'[p] = w /\ chan'[p].dirty
      /\ chan'[p].cells = chan[p].cells \cup WrittenCells(c, i)
      /\ \A q \in Paths \ {p} : vfile'[q] = vfile[q] /\ chan'[q] = chan[q]
  BY <1>1, <1>2, FilesParts DEF MemoryOK, Channels
<1>5. CopyOK(p) /\ ~Moving(p)
  BY <1>2, FilesParts DEF Moving, NoJob
<1>6. Base(p)' = Base(p)
  BY <1>1 DEF Base
<1>7. CopyOK(p)'
  <2> SUFFICES ASSUME ~tainted[p]
               PROVE  \A k \in 1..Len(w) \ (chan[p].cells \cup WrittenCells(c, i)) :
                           w[k] = IF k <= Len(Base(p)) THEN Base(p)[k] ELSE Zero
    BY <1>1, <1>4, <1>6, ZenonT(60) DEF CopyOK
  <2>1. \A k \in 1..Len(c) \ chan[p].cells :
          c[k] = IF k <= Len(Base(p)) THEN Base(p)[k] ELSE Zero
    BY <1>2, <1>5 DEF CopyOK, c
  <2>2. Len(c) \in Nat /\ Len(w) \in Nat
    BY <1>2, <1>3, ContentIsSeq, BoundsAreNat
  <2> HIDE DEF Base
  <2> QED
    BY <2>1, <2>2, <1>3
<1>8. CacheOK(p)'
  BY <1>1, <1>2, <1>4, CacheKept
<1>9. GoalOK'
  BY <1>2 DEF GoalOK
<1> QED
  BY <1>1, <1>2, <1>4, <1>7, <1>8, <1>9, IdleFiles

\* A truncation leaves the cells that remain as they were.
LEMMA TruncateFiles ==
  ASSUME StoreInv, FilesInv, NEW p \in Paths, NEW n \in Nat, Truncate(p, n)
  PROVE  FilesInv'
<1> DEFINE c == vfile[p]
           w == SubSeq(c, 1, n)
<1>1. /\ Writable(p) /\ n < Len(c)
      /\ vfile' = [vfile EXCEPT ![p] = w]
      /\ chan' = [chan EXCEPT ![p].dirty = TRUE]
      /\ UNCHANGED << log, appendOffset, flushed, idb, pending, phase, index, cache,
                      fileValues, job, acked, tainted >>
  BY DEF Truncate, device, stores, memory, ghosts
<1>2. /\ Idle /\ chan[p] \in Channels /\ c \in Contents
      /\ phase = "open" /\ job = NoJob /\ job' = NoJob
  BY <1>1, WritableChannel DEF Idle
<1>3. Len(w) = n /\ (\A k \in 1..n : w[k] = c[k]) /\ Len(c) \in Nat
  BY <1>1, <1>2, CutContent, ContentIsSeq, BoundsAreNat
<1> HIDE DEF c, w
<1>4. /\ vfile'[p] = w /\ chan'[p].dirty /\ chan'[p].cells = chan[p].cells
      /\ \A q \in Paths \ {p} : vfile'[q] = vfile[q] /\ chan'[q] = chan[q]
  BY <1>1, <1>2, FilesParts DEF MemoryOK, Channels
<1>5. CopyOK(p) /\ ~Moving(p)
  BY <1>2, FilesParts DEF Moving, NoJob
<1>6. Base(p)' = Base(p)
  BY <1>1 DEF Base
<1>7. CopyOK(p)'
  <2> SUFFICES ASSUME ~tainted[p]
               PROVE  \A k \in 1..n \ chan[p].cells :
                           w[k] = IF k <= Len(Base(p)) THEN Base(p)[k] ELSE Zero
    BY <1>1, <1>3, <1>4, <1>6 DEF CopyOK
  <2>1. \A k \in 1..Len(c) \ chan[p].cells :
          c[k] = IF k <= Len(Base(p)) THEN Base(p)[k] ELSE Zero
    BY <1>2, <1>5 DEF CopyOK, c
  <2> HIDE DEF Base
  <2> QED
    BY <2>1, <1>1, <1>3
<1>8. CacheOK(p)'
  BY <1>1, <1>2, <1>4, CacheKept
<1>9. GoalOK'
  BY <1>2 DEF GoalOK
<1> QED
  BY <1>1, <1>2, <1>4, <1>7, <1>8, <1>9, IdleFiles
\* A storage call begins: nothing is promised for the file, and what the call
\* writes leads to the bytes it will promise.
LEMMA PersistFiles ==
  ASSUME StoreInv, FilesInv, NEW p \in Paths, NEW kind \in {"force", "close"},
         Persist(kind, p)
  PROVE  FilesInv'
<1> DEFINE c == vfile[p]
           data == [i \in chan[p].cells \cap 1..Len(c) |-> c[i]]
           todo == PatchRecords(p, Len(c), data)
<1>1. /\ Idle /\ chan[p].dirty /\ Begin(kind, p, todo, c)
      /\ UNCHANGED << log, appendOffset, flushed, idb, pending, phase, index, cache,
                      fileValues, vfile, chan, tainted >>
  BY DEF Persist, device, stores, memory, java
<1>2. /\ MemoryOK /\ IndexOK /\ ChannelOK(p) /\ CopyOK(p) /\ ~Moving(p)
      /\ phase = "open" /\ job = NoJob
  BY <1>1, FilesParts DEF Idle, Moving, NoJob
<1>3. c \in Contents /\ chan[p].cells \in SUBSET (1..MaxSize)
  BY <1>1, <1>2 DEF MemoryOK, ChannelOK, Channels
<1>4. data \in Data /\ Len(c) \in 0..MaxSize
  BY <1>3, CellsData, ContentIsSeq
<1>5. ~tainted[p] =>
        \A patch : patch.size = Len(c) /\ patch.data = data => ApplyPatch(Base(p), patch) = c
  <2> SUFFICES ASSUME ~tainted[p], NEW patch, patch.size = Len(c), patch.data = data
               PROVE  ApplyPatch(Base(p), patch) = c
    BY Zenon
  <2>1. \A i \in 1..Len(c) \ chan[p].cells :
          c[i] = IF i <= Len(Base(p)) THEN Base(p)[i] ELSE Zero
    BY <1>2, <1>3 DEF CopyOK
  <2> DEFINE b == Base(p)
             D == chan[p].cells
  <2>2. b \in Contents /\ c \in Contents /\ D \in SUBSET (1..MaxSize)
    BY <1>3, BaseType
  <2>3. patch.data = [i \in D \cap 1..Len(c) |-> c[i]]
    OBVIOUS
  <2>4. \A i \in 1..Len(c) \ D : c[i] = IF i <= Len(b) THEN b[i] ELSE Zero
    BY <2>1
  <2> HIDE DEF data, c, b, D
  <2>5. ApplyPatch(b, patch) = c
    BY <2>2, <2>3, <2>4, PatchRestores
  <2> QED
    BY <2>5 DEF b
<1> HIDE DEF data, c
<1>6. \/ todo = << PatchRecord(p, Len(c), data, NextGeneration(index[p])) >>
      \/ todo = << FullRecord(p, Base(p)),
                   PatchRecord(p, Len(c), data, NextGeneration(index[p]) + 1) >>
  BY <1>2, <1>4, PatchRecordsOf
<1>7. /\ todo # << >> /\ todo[Len(todo)].size = Len(c) /\ todo[Len(todo)].data = data
      /\ Len(todo) = 2 => todo[1].data = Base(p)
  <2>1. \A g : /\ PatchRecord(p, Len(c), data, g).size = Len(c)
                /\ PatchRecord(p, Len(c), data, g).data = data
    BY DEF PatchRecord
  <2>2. FullRecord(p, Base(p)).data = Base(p)
    BY DEF FullRecord
  <2> DEFINE g1 == PatchRecord(p, Len(c), data, NextGeneration(index[p]))
             g2 == PatchRecord(p, Len(c), data, NextGeneration(index[p]) + 1)
             f  == FullRecord(p, Base(p))
             ok(s) == /\ s # << >> /\ s[Len(s)].size = Len(c) /\ s[Len(s)].data = data
                      /\ Len(s) = 2 => s[1].data = Base(p)
  <2>3. /\ g1.size = Len(c) /\ g1.data = data /\ g2.size = Len(c) /\ g2.data = data
        /\ f.data = Base(p) /\ todo \in {<< g1 >>, << f, g2 >>}
    BY <1>6, <2>1, <2>2
  <2> HIDE DEF g1, g2, f
  <2>4. ok(<< g1 >>) /\ ok(<< f, g2 >>)
    BY <2>3
  <2> QED
    BY <2>3, <2>4
<1> HIDE DEF todo
<1>8. /\ job' = [kind |-> kind, path |-> p, todo |-> todo, bytes |-> c, stage |-> "append"]
      /\ acked' = [acked EXCEPT ![p] = Placeholder]
  BY <1>1, <1>7 DEF Begin
<1>9. /\ job'.path = p /\ job'.kind = kind /\ job'.todo = todo /\ job'.bytes = c
      /\ acked'[p] = Placeholder
      /\ \A q \in Paths \ {p} : /\ vfile'[q] = vfile[q] /\ chan'[q] = chan[q]
                                /\ cache'[q] = cache[q] /\ acked'[q] = acked[q]
  BY <1>1, <1>2, <1>8 DEF MemoryOK
<1>10. Base(p)' = Base(p)
  BY <1>1 DEF Base
<1>11. GoalOK'
  <2>1. ~tainted[p] => ApplyPatch(Base(p), todo[Len(todo)]) = c
    BY <1>5, <1>7, Zenon
  <2> HIDE DEF Base
  <2> QED
    BY <2>1, <1>1, <1>7, <1>9, <1>10 DEF GoalOK
<1>12. CopyOK(p)'
  BY <1>1, <1>2, <1>10 DEF CopyOK
<1>13. CacheOK(p)'
  BY <1>1, <1>9, CacheKept
<1> QED
  BY <1>1, <1>9, <1>11, <1>12, <1>13, IdleFiles

\* A move promises nothing for its file yet.
LEMMA MoveFiles ==
  ASSUME StoreInv, FilesInv, NEW p \in Paths, NEW c \in Contents, Move(p, c)
  PROVE  FilesInv'
<1> DEFINE todo == << FullRecord(p, c) >>
<1>1. /\ Idle
      /\ vfile' = [vfile EXCEPT ![p] = c]
      /\ Begin("move", p, todo, c)
      /\ UNCHANGED << log, appendOffset, flushed, idb, pending, phase, index, cache,
                      fileValues, chan, tainted >>
  BY DEF Move, device, stores, memory
<1>2. /\ job' = [kind |-> "move", path |-> p, todo |-> todo, bytes |-> c, stage |-> "append"]
      /\ acked' = [acked EXCEPT ![p] = Placeholder]
  BY <1>1 DEF Begin
<1>3. /\ job'.path = p /\ job'.kind = "move" /\ job'.todo # << >>
      /\ acked'[p] = Placeholder
      /\ \A q \in Paths \ {p} : /\ vfile'[q] = vfile[q] /\ chan'[q] = chan[q]
                                /\ cache'[q] = cache[q] /\ acked'[q] = acked[q]
  BY <1>1, <1>2, FilesParts DEF MemoryOK
<1>4. Moving(p)'
  BY <1>3 DEF Moving
<1>5. GoalOK'
  BY <1>3 DEF GoalOK
<1>6. CopyOK(p)'
  BY <1>4 DEF CopyOK
<1>7. CacheOK(p)'
  BY <1>1, <1>3, <1>4, CacheKept
<1> QED
  BY <1>1, <1>3, <1>5, <1>6, <1>7, IdleFiles

\* A deletion promises nothing for its file yet.
LEMMA DeleteFiles ==
  ASSUME StoreInv, FilesInv, NEW p \in Paths, Delete(p) PROVE FilesInv'
<1> DEFINE todo == Tombstone(p)
<1>1. /\ Idle
      /\ vfile' = [vfile EXCEPT ![p] = Absent]
      /\ Begin("delete", p, todo, Absent)
      /\ UNCHANGED << log, appendOffset, flushed, idb, pending, phase, index, cache,
                      fileValues, chan, tainted >>
  BY DEF Delete, device, stores, memory
<1>2. todo = << >> => ~Indexed(p)
  BY DEF Tombstone
<1> HIDE DEF todo
<1>3. /\ job'.path = p /\ job'.kind = "delete" /\ job'.todo = todo
      /\ acked' = [acked EXCEPT ![p] = Placeholder]
  BY <1>1 DEF Begin
<1>4. /\ acked'[p] = Placeholder /\ vfile'[p] = Absent
      /\ \A q \in Paths \ {p} : /\ vfile'[q] = vfile[q] /\ chan'[q] = chan[q]
                                /\ cache'[q] = cache[q] /\ acked'[q] = acked[q]
  BY <1>1, <1>3, FilesParts DEF MemoryOK
<1>5. Indexed(p)' = Indexed(p)
  BY <1>1 DEF Indexed
<1>6. GoalOK'
  BY <1>2, <1>3, <1>4, <1>5 DEF GoalOK
<1>7. CopyOK(p)'
  BY <1>4, MarksAreApart DEF CopyOK
<1>8. CacheOK(p)'
  BY <1>1, <1>4, CacheKept
<1> QED
  BY <1>1, <1>3, <1>4, <1>6, <1>7, <1>8, IdleFiles

\* A clean copy may be dropped.
LEMMA CloseCleanFiles ==
  ASSUME StoreInv, FilesInv, NEW p \in Paths, CloseClean(p) PROVE FilesInv'
<1>1. /\ Idle /\ ~chan[p].dirty
      /\ chan' = [chan EXCEPT ![p] = NoChan]
      /\ vfile' = [vfile EXCEPT ![p] = IF Stored(p) # Absent THEN Absent ELSE @]
      /\ UNCHANGED << log, appendOffset, flushed, idb, pending, phase, index, cache,
                      fileValues, job, acked, tainted >>
  BY DEF CloseClean, Reclaimed, device, stores, memory, ghosts
<1>2. /\ vfile'[p] \in {vfile[p], Absent}
      /\ chan'[p] = NoChan
      /\ \A q \in Paths \ {p} : vfile'[q] = vfile[q] /\ chan'[q] = chan[q]
  BY <1>1, FilesParts DEF MemoryOK
<1>3. /\ CopyOK(p) /\ ChannelOK(p) /\ ~Moving(p)
      /\ phase = "open" /\ job = NoJob /\ job' = NoJob
  BY <1>1, FilesParts DEF Idle, Moving, NoJob
<1>4. Base(p)' = Base(p)
  BY <1>1 DEF Base
<1>5. CopyOK(p)'
  <2>1. CASE vfile'[p] = Absent
    BY <2>1, MarksAreApart DEF CopyOK
  <2>2. CASE vfile'[p] = vfile[p]
    <3>1. chan[p].cells = {} /\ chan'[p].cells = {}
      BY <1>1, <1>2, <1>3 DEF ChannelOK, NoChan
    <3> HIDE DEF Base
    <3> QED
      BY <2>2, <3>1, <1>1, <1>2, <1>3, <1>4 DEF CopyOK
  <2> QED
    BY <2>1, <2>2, <1>2
<1>6. CacheOK(p)'
  BY <1>1, <1>2, CacheKept
<1>7. GoalOK'
  BY <1>3 DEF GoalOK
<1> QED
  BY <1>1, <1>2, <1>3, <1>5, <1>6, <1>7, IdleFiles

\* A cached region may be dropped.
LEMMA EvictFiles ==
  ASSUME StoreInv, FilesInv, NEW p \in Paths, Evict(p) PROVE FilesInv'
<1>1. /\ Idle /\ cache' = [cache EXCEPT ![p] = Absent]
      /\ UNCHANGED << log, appendOffset, flushed, idb, pending, phase, index,
                      fileValues, vfile, chan, job, acked, tainted >>
  BY DEF Evict, Uncached, device, stores, java, ghosts
<1>2. cache'[p] = Absent /\ \A q \in Paths \ {p} : cache'[q] = cache[q]
  BY <1>1, FilesParts DEF MemoryOK
<1>3. CopyOK(p) /\ job = NoJob /\ job' = NoJob /\ ~Moving(p)
  BY <1>1, FilesParts DEF Idle, Moving, NoJob
<1>4. Base(p)' = Base(p)
  BY <1>1 DEF Base
<1>5. CopyOK(p)'
  BY <1>1, <1>3, <1>4 DEF CopyOK
<1>6. CacheOK(p)'
  BY <1>2 DEF CacheOK
<1>7. GoalOK'
  BY <1>3 DEF GoalOK
<1> QED
  BY <1>1, <1>2, <1>3, <1>5, <1>6, <1>7, IdleFiles

\* Every file operation of the game keeps the second layer.
LEMMA GameStepFiles ==
  ASSUME StoreInv, FilesInv, NEW p \in Paths, GameStep(p) PROVE FilesInv'
<1>1. CASE Stat(p)
  BY <1>1, StatFiles
<1>2. CASE \E mode \in {"read", "write", "truncate"} : Open(p, mode)
  BY <1>2, OpenFiles
<1>3. CASE \E i \in 1..MaxSize, v \in Values : Write(p, i, v)
  BY <1>3, WriteFiles
<1>4. CASE \E n \in 0..(MaxSize - 1) : Truncate(p, n)
  BY <1>4, TruncateFiles, BoundsAreNat
<1>5. CASE ForceDirty(p) \/ CloseDirty(p)
  BY <1>5, PersistFiles DEF ForceDirty, CloseDirty
<1>6. CASE CloseClean(p)
  BY <1>6, CloseCleanFiles
<1>7. CASE \E v \in Values : Move(p, << v >>)
  BY <1>7, MoveFiles, OneContent
<1>8. CASE Delete(p)
  BY <1>8, DeleteFiles
<1> QED
  BY <1>1, <1>2, <1>3, <1>4, <1>5, <1>6, <1>7, <1>8 DEF GameStep
-----------------------------------------------------------------------------
(* What a restart finds, before and after the steps that touch the device.  *)

RestartOf(rows, found) ==
  [p \in Paths |-> IF rows[p] # Absent THEN rows[p]
                   ELSE IF found[p].gen = 0 THEN Absent ELSE Materialized(found[p])]

\* What a restart finds depends on the rows and on the log alone.
LEMMA RestartFrom ==
  ASSUME NEW n
  PROVE  /\ AfterRestart(n) = RestartOf(idb, Scan(SubSeq(log, 1, n)))
         /\ AfterRestart(n)' = RestartOf(idb', Scan(SubSeq(log', 1, n)))
BY DEF AfterRestart, RestartOf

\* A restart that finds every accepted record serves what the worker does.
LEMMA TailRestart ==
  ASSUME StoreInv, NEW n \in appendOffset..Len(log)
  PROVE  /\ AfterRestart(n) = AfterRestart(appendOffset)
         /\ phase # "down" => AfterRestart(n) = RestartOf(idb, index)
<1>1. DeviceOK /\ IndexIsLog
  BY DEF StoreInv
<1>2. Scan(SubSeq(log, 1, n)) = Scan(SubSeq(log, 1, appendOffset))
  BY <1>1, ScanOfLog DEF Scan
<1>3. phase # "down" => Scan(SubSeq(log, 1, appendOffset)) = index
  BY <1>1 DEF IndexIsLog
<1> QED
  BY <1>2, <1>3, RestartFrom

\* A torn record is not found by any restart.
LEMMA BodyRestarts ==
  ASSUME StoreInv, WriteBody
  PROVE  /\ Len(log') = appendOffset + 1
         /\ \A i \in 1..appendOffset : log'[i] = log[i]
         /\ \A n \in 0..appendOffset : AfterRestart(n)' = AfterRestart(n)
         /\ \A n : n = appendOffset + 1 => AfterRestart(n)' = AfterRestart(appendOffset)
<1>1. /\ log' = Append(SubSeq(log, 1, appendOffset), Torn)
      /\ idb' = idb /\ DeviceOK
  BY DEF WriteBody, stores, StoreInv
<1>2. /\ log \in Seq(Records) /\ appendOffset \in 0..Len(log) /\ Torn \in Records
  BY <1>1 DEF DeviceOK, Records
<1>3. /\ log' \in Seq(Records) /\ Len(log') = appendOffset + 1
      /\ log'[appendOffset + 1] = Torn
      /\ \A i \in 1..appendOffset : log'[i] = log[i]
  BY <1>1, <1>2
<1>4. \A m \in 0..appendOffset : SubSeq(log', 1, m) = SubSeq(log, 1, m)
  <2>1. appendOffset \in Nat /\ appendOffset <= Len(log) /\ appendOffset <= Len(log')
    BY <1>2, <1>3
  <2> QED
    BY <2>1, <1>2, <1>3, PrefixSame
<1>5. \A n \in 0..appendOffset : AfterRestart(n)' = AfterRestart(n)
  BY <1>1, <1>4, RestartFrom
<1>6. Scan(SubSeq(log', 1, appendOffset + 1)) = Scan(SubSeq(log, 1, appendOffset))
  <2>1. Scanned(SubSeq(log', 1, appendOffset + 1)) = Scanned(SubSeq(log', 1, appendOffset))
    BY <1>2, <1>3, TornScan
  <2>2. SubSeq(log', 1, appendOffset) = SubSeq(log, 1, appendOffset)
    BY <1>2, <1>4
  <2> QED
    BY <2>1, <2>2 DEF Scan
<1>7. \A n : n = appendOffset + 1 => AfterRestart(n)' = AfterRestart(appendOffset)
  BY <1>1, <1>6, RestartFrom
<1> QED
  BY <1>3, <1>5, <1>7

\* A header adds one restart, which serves the new index.
LEMMA HeaderRestarts ==
  ASSUME StoreInv, StoreInv', WriteHeader
  PROVE  /\ Len(log') = appendOffset + 1 /\ appendOffset' = appendOffset + 1
         /\ Len(log) = appendOffset + 1
         /\ log'[appendOffset + 1] = Head(job.todo)
         /\ \A i \in 1..appendOffset : log'[i] = log[i]
         /\ \A n \in 0..appendOffset : AfterRestart(n)' = AfterRestart(n)
         /\ \A n : n = appendOffset + 1 => AfterRestart(n)' = RestartOf(idb, index')
<1> DEFINE r == Head(job.todo)
<1>1. /\ log' = [log EXCEPT ![appendOffset + 1] = r]
      /\ appendOffset' = appendOffset + 1 /\ job.stage = "commit"
      /\ idb' = idb /\ phase' = phase /\ DeviceOK /\ JobOK /\ DeviceOK' /\ IndexIsLog'
  BY DEF WriteHeader, stores, StoreInv
<1>2. /\ log \in Seq(Records) /\ appendOffset \in Nat /\ Len(log) = appendOffset + 1
      /\ phase # "down"
  BY <1>1 DEF DeviceOK, JobOK, NoJob
<1>3. /\ log' \in Seq(Records) /\ Len(log') = appendOffset + 1
      /\ \A i \in 1..appendOffset : log'[i] = log[i]
      /\ log'[appendOffset + 1] = r
  <2> HIDE DEF r
  <2>1. log' \in Seq(Records)
    BY <1>1 DEF DeviceOK
  <2> QED
    BY <1>1, <1>2, <2>1
<1>4. \A m \in 0..appendOffset : SubSeq(log', 1, m) = SubSeq(log, 1, m)
  <2>1. appendOffset <= Len(log) /\ appendOffset <= Len(log')
    BY <1>2, <1>3
  <2> QED
    BY <2>1, <1>2, <1>3, PrefixSame
<1>5. \A n \in 0..appendOffset : AfterRestart(n)' = AfterRestart(n)
  BY <1>1, <1>4, RestartFrom
<1>6. Scan(SubSeq(log', 1, appendOffset + 1)) = index'
  BY <1>1, <1>2 DEF IndexIsLog
<1>7. \A n : n = appendOffset + 1 => AfterRestart(n)' = RestartOf(idb, index')
  BY <1>1, <1>6, RestartFrom
<1> QED
  BY <1>1, <1>2, <1>3, <1>5, <1>7

\* What the record that is written last does for its file.
LEMMA HeaderEffect ==
  ASSUME StoreInv, GoalOK, job # NoJob, job.stage = "commit",
         NEW idx \in Indexes, idx = Applied(index, Head(job.todo))
  PROVE  LET p == job.path
             rest == Tail(job.todo)
         IN  /\ \A q \in Paths : q # p => idx[q] = index[q]
             /\ job.kind = "migrate" => Materialized(idx[p]) = idb[p] /\ idx[p].gen > 0
             /\ job.kind = "move" => Materialized(idx[p]) = job.bytes /\ idx[p].gen > 0
             /\ job.kind = "delete" => idx[p].gen = 0
             /\ job.kind \in {"force", "close"} /\ ~tainted[p] =>
                  \/ /\ rest = << >> /\ idx[p].gen > 0
                     /\ Materialized(idx[p]) = job.bytes
                  \/ /\ rest # << >> /\ Len(rest) = 1
                     /\ Materialized(idx[p]) = Base(p)
                     /\ ApplyPatch(Materialized(idx[p]), rest[Len(rest)]) = job.bytes
<1> DEFINE p == job.path
           r == Head(job.todo)
           rest == Tail(job.todo)
<1>1. JobOK /\ IndexOK
  BY DEF StoreInv
<1>2. p \in Paths /\ index \in Indexes /\ index[p] \in Entries /\ job.todo # << >>
  BY <1>1 DEF JobOK, IndexOK, Indexes
<1>3. \A q \in Paths : q # p => idx[q] = index[q]
  BY <1>2, HeaderFits, AppliedType
<1>4. ASSUME NEW c \in Contents, r = FullRecord(p, c)
      PROVE  Materialized(idx[p]) = c /\ idx[p].gen > 0
  <2>1. FullRecord(p, c) \in FullSet /\ FullRecord(p, c).path = p /\ FullRecord(p, c).data = c
    BY <1>2, RecordTypes DEF FullRecord
  <2>2. idx[p] = FullEntry(index[p], c)
    BY <2>1, <1>2, <1>4, AppliedFull DEF Indexes
  <2>3. /\ FullEntry(index[p], c) \in Entries /\ FullEntry(index[p], c).gen > 0
        /\ FullEntry(index[p], c).patches = << >> /\ FullEntry(index[p], c).base = c
    BY <1>2, FullEntryBounds
  <2> QED
    BY <2>2, <2>3, MaterializedBase
<1>5. ASSUME NEW n \in 0..MaxSize, NEW d \in Data, NEW g \in Nat,
             r = PatchRecord(p, n, d, g), g = NextGeneration(index[p]), ~LongChain(index[p])
      PROVE  Materialized(idx[p]) = ApplyPatch(Base(p), r) /\ idx[p].gen > 0
  <2> DEFINE patch == [size |-> n, data |-> d]
             e2 == PatchedEntry(index[p], r)
  <2>1. /\ r \in PatchSet /\ r.path = p /\ r.size = n /\ r.data = d /\ r.gen = g
    BY <1>2, <1>5, RecordTypes DEF PatchRecord
  <2>2. idx[p] = e2
    BY <2>1, <1>2, AppliedPatch DEF Indexes
  <2>3. e2 \in Entries /\ e2.gen > 0
    BY <2>1, <1>2, <1>5, PatchedEntryBounds
  <2>4. e2.base = index[p].base /\ e2.patches = Append(index[p].patches, patch)
    BY <2>1 DEF PatchedEntry
  <2>5. patch \in Patches
    BY DEF Patches
  <2> HIDE DEF e2, patch
  <2>6. Materialized(e2) = ApplyPatch(Materialized(index[p]), patch)
    BY <2>3, <2>4, <2>5, <1>2, <1>5, MaterializedPatched
  <2>7. ApplyPatch(Base(p), r) = ApplyPatch(Base(p), patch)
    BY <2>1 DEF ApplyPatch, patch
  <2> QED
    BY <2>2, <2>3, <2>6, <2>7 DEF Base
<1>6. ASSUME job.kind = "migrate"
      PROVE  Materialized(idx[p]) = idb[p] /\ idx[p].gen > 0
  <2>1. idb[p] \in Contents /\ r = FullRecord(p, idb[p])
    BY <1>1, <1>6 DEF JobOK
  <2> QED
    BY <2>1, <1>4
<1>7. ASSUME job.kind = "move"
      PROVE  Materialized(idx[p]) = job.bytes /\ idx[p].gen > 0
  <2>1. job.bytes \in Contents /\ r = FullRecord(p, job.bytes)
    BY <1>1, <1>2, <1>7 DEF JobOK
  <2> QED
    BY <2>1, <1>4
<1>8. ASSUME job.kind = "delete" PROVE idx[p].gen = 0
  <2>1. r = DeletedRecord(p)
    BY <1>1, <1>2, <1>8 DEF JobOK
  <2>2. DeletedRecord(p) \in DeletedSet /\ DeletedRecord(p).path = p
    BY <1>2, RecordTypes DEF DeletedRecord
  <2> QED
    BY <2>1, <2>2, <1>2, AppliedDeleted DEF NoEntry, Indexes
<1>9. ASSUME job.kind \in {"force", "close"}, ~tainted[p]
      PROVE  \/ /\ rest = << >> /\ idx[p].gen > 0
                /\ Materialized(idx[p]) = job.bytes
             \/ /\ rest # << >> /\ Len(rest) = 1
                /\ Materialized(idx[p]) = Base(p)
                /\ ApplyPatch(Materialized(idx[p]), rest[Len(rest)]) = job.bytes
  <2>1. PatchTodo(p)
    BY <1>1, <1>2, <1>9 DEF JobOK
  <2>2. PICK n \in 0..MaxSize, d \in Data :
          \/ /\ job.todo = << PatchRecord(p, n, d, NextGeneration(index[p])) >>
             /\ ~LongChain(index[p])
          \/ \E c \in Contents :
               job.todo = << FullRecord(p, c),
                             PatchRecord(p, n, d, NextGeneration(index[p]) + 1) >>
    BY <2>1 DEF PatchTodo
  <2>3. /\ ApplyPatch(Base(p), job.todo[Len(job.todo)]) = job.bytes
        /\ Len(job.todo) = 2 => job.todo[1].data = Base(p)
    BY <1>2, <1>9 DEF GoalOK
  <2>4. CASE /\ job.todo = << PatchRecord(p, n, d, NextGeneration(index[p])) >>
             /\ ~LongChain(index[p])
    <3>1. NextGeneration(index[p]) \in Nat
      BY <1>2 DEF NextGeneration, Entries
    <3>2. r = PatchRecord(p, n, d, NextGeneration(index[p])) /\ rest = << >>
      BY <2>4
    <3>3. job.todo[Len(job.todo)] = r
      BY <2>4
    <3>4. Materialized(idx[p]) = ApplyPatch(Base(p), r) /\ idx[p].gen > 0
      BY <3>1, <3>2, <2>4, <1>5
    <3> QED
      BY <3>2, <3>3, <3>4, <2>3
  <2>5. ASSUME NEW c \in Contents,
               job.todo = << FullRecord(p, c),
                             PatchRecord(p, n, d, NextGeneration(index[p]) + 1) >>
        PROVE  /\ rest # << >> /\ Len(rest) = 1
               /\ Materialized(idx[p]) = Base(p)
               /\ ApplyPatch(Materialized(idx[p]), rest[Len(rest)]) = job.bytes
    <3> DEFINE f == FullRecord(p, c)
               g == PatchRecord(p, n, d, NextGeneration(index[p]) + 1)
    <3>1. f.data = c
      BY DEF FullRecord
    <3>2. job.todo = << f, g >>
      BY <2>5
    <3> HIDE DEF f, g
    <3>3. /\ r = f /\ rest = << g >> /\ Len(job.todo) = 2 /\ job.todo[2] = g
          /\ job.todo[1] = f
      BY <3>2
    <3>4. Materialized(idx[p]) = c
      BY <3>3, <1>4 DEF f
    <3>5. c = Base(p)
      BY <3>1, <3>3, <2>3
    <3>6. rest # << >> /\ Len(rest) = 1 /\ rest[1] = g
      <4>1. << g >> # << >> /\ Len(<< g >>) = 1 /\ << g >>[1] = g
        OBVIOUS
      <4> HIDE DEF rest
      <4> QED
        BY <3>3, <4>1
    <3>7. ApplyPatch(Base(p), g) = job.bytes
      BY <3>3, <2>3
    <3> HIDE DEF rest, p
    <3> QED
      BY <3>4, <3>5, <3>6, <3>7
  <2> QED
    BY <2>2, <2>4, <2>5
<1> QED
  BY <1>3, <1>6, <1>7, <1>8, <1>9
-----------------------------------------------------------------------------
(* The steps of the storage and of the worker keep the second layer.        *)

\* A promise that no step disturbs.
LEMMA AckKept ==
  ASSUME StoreInv, FilesInv, UNCHANGED << log, idb >>, flushed' \in flushed..Len(log),
         \A p \in Paths : acked'[p] \in {acked[p], Placeholder}
  PROVE  AckSurvives'
<1>1. \A n \in Nat : AfterRestart(n)' = AfterRestart(n)
  BY RestartFrom
<1>2. AckSurvives /\ flushed \in Nat /\ Len(log) \in Nat
  BY FilesParts DEF FilesInv, StoreInv, DeviceOK
<1>3. flushed'..Len(log) \subseteq flushed..Len(log) /\ flushed'..Len(log) \subseteq Nat
  BY <1>2
<1> QED
  BY <1>1, <1>2, <1>3 DEF AckSurvives

\* While no move is refused the queue holds no bytes for IndexedDB.
LEMMA FlushPendingFiles == ASSUME StoreInv, FilesInv, FlushPending PROVE FilesInv' /\ idb' = idb
<1>1. /\ Idle
      /\ idb' = [p \in Paths |-> IF pending[p].changed THEN pending[p].value ELSE idb[p]]
      /\ pending' = [p \in Paths |-> NoChange]
      /\ UNCHANGED << log, appendOffset, flushed, phase, index, cache, fileValues,
                      vfile, chan, job, acked, tainted >>
  BY DEF FlushPending, device, memory, java, ghosts
<1>2. RowsOK /\ MemoryOK /\ DeviceOK /\ phase = "open" /\ job = NoJob
  BY <1>1 DEF FilesInv, StoreInv, Idle
<1>3. idb' = idb
  BY <1>1, <1>2 DEF RowsOK, MemoryOK
<1>4. RowsOK'
  BY <1>1, <1>2, <1>3 DEF RowsOK, NoChange
<1>5. flushed' \in flushed..Len(log)
  BY <1>1, <1>2 DEF DeviceOK
<1>6. AckSurvives'
  BY <1>1, <1>3, <1>5, AckKept
<1>7. MigratedOK' /\ GoalOK'
  BY <1>1, <1>2 DEF MigratedOK, GoalOK
<1>8. ASSUME NEW q \in Paths PROVE CopyOK(q)' /\ CacheOK(q)'
  BY <1>1, FilesParts DEF CopyOK, CacheOK, Moving, Base, Indexed
<1> QED
  BY <1>3, <1>4, <1>6, <1>7, <1>8 DEF FilesInv

\* A torn record keeps the second layer.
LEMMA WriteBodyFiles == ASSUME StoreInv, FilesInv, WriteBody PROVE FilesInv'
<1>1. /\ job.stage = "append" /\ job' = [job EXCEPT !.stage = "commit"]
      /\ UNCHANGED << appendOffset, flushed, idb, pending, phase, index, cache,
                      fileValues, vfile, chan, acked, tainted >>
  BY DEF WriteBody, stores, memory, java, ghosts
<1>2. DeviceOK /\ JobOK /\ RowsOK /\ MigratedOK /\ GoalOK /\ AckSurvives
  BY DEF StoreInv, FilesInv
<1>3. job # NoJob
  BY <1>1 DEF NoJob
<1>4. job' = [kind |-> job.kind, path |-> job.path, todo |-> job.todo,
              stage |-> "commit", bytes |-> job.bytes]
  BY <1>1, <1>2, <1>3 DEF JobOK
<1>5. /\ Len(log') = appendOffset + 1
      /\ \A i \in 1..appendOffset : log'[i] = log[i]
      /\ \A n \in 0..appendOffset : AfterRestart(n)' = AfterRestart(n)
      /\ \A n : n = appendOffset + 1 => AfterRestart(n)' = AfterRestart(appendOffset)
  BY BodyRestarts
<1>6. appendOffset \in Nat /\ flushed \in 0..appendOffset /\ Len(log) \in Nat
      /\ appendOffset <= Len(log)
  BY <1>2 DEF DeviceOK
<1>7. AckSurvives'
  <2> SUFFICES ASSUME NEW n \in flushed..(appendOffset + 1), NEW p \in Paths,
                      acked[p] # Placeholder
               PROVE  AfterRestart(n)'[p] = acked[p]
    BY <1>1, <1>5 DEF AckSurvives
  <2>1. CASE n \in flushed..appendOffset
    <3>1. n \in 0..appendOffset /\ n \in flushed..Len(log)
      BY <2>1, <1>6
    <3> QED
      BY <3>1, <1>2, <1>5 DEF AckSurvives
  <2>2. CASE n = appendOffset + 1
    <3>1. appendOffset \in flushed..Len(log)
      BY <1>6
    <3> QED
      BY <2>2, <3>1, <1>2, <1>5 DEF AckSurvives
  <2> QED
    BY <2>1, <2>2, <1>6
<1>8. ASSUME NEW p \in Paths PROVE Migrating(p)' = Migrating(p)
  <2>1. \A i \in (flushed + 1)..appendOffset : log'[i] = log[i]
    BY <1>5, <1>6
  <2> QED
    BY <2>1, <1>1 DEF Migrating
<1>9. RowsOK' /\ MigratedOK'
  BY <1>1, <1>2, <1>8 DEF RowsOK, MigratedOK, Indexed, Base
<1>10. GoalOK'
  BY <1>1, <1>2, <1>3, <1>4 DEF GoalOK, Indexed, Base
<1>11. ASSUME NEW q \in Paths PROVE CopyOK(q)' /\ CacheOK(q)'
  <2>1. Moving(q)' = Moving(q) /\ Base(q)' = Base(q) /\ Indexed(q)' = Indexed(q)
    BY <1>1, <1>4 DEF Moving, Base, Indexed
  <2> HIDE DEF Moving, Base, Indexed
  <2> QED
    BY <1>1, <2>1, FilesParts DEF CopyOK, CacheOK
<1> QED
  BY <1>7, <1>9, <1>10, <1>11 DEF FilesInv

\* A header keeps the second layer: the file of the call has no promise to keep,
\* and every other file is served as before.
LEMMA WriteHeaderFiles ==
  ASSUME StoreInv, StoreInv', FilesInv, WriteHeader PROVE FilesInv'
<1> DEFINE r == Head(job.todo)
           rest == Tail(job.todo)
<1>1. /\ job.stage = "commit"
      /\ index' = Applied(index, r)
      /\ job' = IF job.kind = "migrate" THEN NoJob
                ELSE [job EXCEPT !.todo = rest,
                        !.stage = IF rest = << >> THEN "flush" ELSE "append"]
      /\ UNCHANGED << flushed, idb, pending, phase, cache, fileValues, vfile, chan,
                      acked, tainted >>
  BY DEF WriteHeader, stores, java, ghosts
<1>2. /\ DeviceOK /\ JobOK /\ RowsOK /\ MigratedOK /\ GoalOK /\ AckSurvives
      /\ index' \in Indexes
  BY DEF StoreInv, FilesInv, IndexOK
<1>3. job # NoJob /\ job.path \in Paths
  BY <1>1, <1>2 DEF NoJob, JobOK
<1>4. PICK p \in Paths : p = job.path
  BY <1>3
<1>5. /\ \A q \in Paths : q # p => index'[q] = index[q]
      /\ job.kind = "migrate" => Materialized(index'[p]) = idb[p] /\ index'[p].gen > 0
      /\ job.kind = "move" => Materialized(index'[p]) = job.bytes /\ index'[p].gen > 0
      /\ job.kind = "delete" => index'[p].gen = 0
      /\ job.kind \in {"force", "close"} /\ ~tainted[p] =>
           \/ /\ rest = << >> /\ index'[p].gen > 0
              /\ Materialized(index'[p]) = job.bytes
           \/ /\ rest # << >> /\ Len(rest) = 1
              /\ Materialized(index'[p]) = Base(p)
              /\ ApplyPatch(Materialized(index'[p]), rest[Len(rest)]) = job.bytes
  BY <1>1, <1>2, <1>3, <1>4, HeaderEffect
<1>6. /\ Len(log') = appendOffset + 1 /\ appendOffset' = appendOffset + 1
      /\ log'[appendOffset + 1] = r
      /\ \A i \in 1..appendOffset : log'[i] = log[i]
      /\ \A n \in 0..appendOffset : AfterRestart(n)' = AfterRestart(n)
      /\ \A n : n = appendOffset + 1 => AfterRestart(n)' = RestartOf(idb, index')
  BY HeaderRestarts
<1>7. /\ appendOffset \in Nat /\ flushed \in 0..appendOffset /\ Len(log) \in Nat
      /\ appendOffset <= Len(log)
  BY <1>2 DEF DeviceOK
<1> HIDE DEF r, rest
<1>8. /\ phase = IF job.kind = "migrate" THEN "scanned" ELSE "open"
      /\ job.kind \in {"force", "close", "move", "delete", "migrate"}
      /\ job.kind = "migrate" => idb[p] # Absent
  BY <1>2, <1>3, MarksAreApart, <1>4 DEF JobOK
<1>9. phase = "open" => acked[p] = Placeholder
  BY <1>2, <1>3, <1>4 DEF GoalOK
<1>10. AckSurvives'
  <2> SUFFICES ASSUME NEW n \in flushed..(appendOffset + 1), NEW q \in Paths,
                      acked[q] # Placeholder
               PROVE  AfterRestart(n)'[q] = acked[q]
    BY <1>1, <1>6 DEF AckSurvives
  <2>1. CASE n \in flushed..appendOffset
    <3>1. n \in 0..appendOffset /\ n \in flushed..Len(log)
      BY <2>1, <1>7
    <3> QED
      BY <3>1, <1>2, <1>6 DEF AckSurvives
  <2>2. CASE n = appendOffset + 1
    <3>1. appendOffset \in flushed..Len(log) /\ appendOffset \in appendOffset..Len(log)
      BY <1>7
    <3>2. AfterRestart(appendOffset)[q] = acked[q]
      BY <3>1, <1>2 DEF AckSurvives
    <3>3. AfterRestart(appendOffset) = RestartOf(idb, index)
      BY <3>1, <1>8, TailRestart
    <3>4. AfterRestart(n)' = RestartOf(idb, index')
      BY <2>2, <1>6
    <3>5. RestartOf(idb, index')[q] = RestartOf(idb, index)[q]
      <4>1. CASE q # p
        BY <4>1, <1>5 DEF RestartOf
      <4>2. CASE q = p
        BY <4>2, <1>8, <1>9 DEF RestartOf
      <4> QED
        BY <4>1, <4>2
    <3> QED
      BY <3>2, <3>3, <3>4, <3>5
  <2> QED
    BY <2>1, <2>2, <1>7
<1>11. RowsOK'
  BY <1>1, <1>2 DEF RowsOK
<1>12. /\ \A q \in Paths : q # p => Base(q)' = Base(q) /\ Indexed(q)' = Indexed(q)
       /\ Base(p)' = Materialized(index'[p])
       /\ Indexed(p)' = (index'[p].gen > 0)
  BY <1>3, <1>5 DEF Base, Indexed
<1>13. MigratedOK'
  <2> SUFFICES ASSUME NEW q \in Paths, idb[q] # Absent, phase = "scanned", ~Migrating(q)'
               PROVE  Indexed(q)' /\ Base(q)' = idb[q]
    BY <1>1, <1>8 DEF MigratedOK
  <2>1. job.kind = "migrate"
    BY <1>8
  <2>2. CASE q = p
    BY <2>1, <2>2, <1>5, <1>12
  <2>3. CASE q # p
    <3>1. PICK i \in (flushed + 1)..(appendOffset + 1) : log'[i].path = q
      BY <1>1, <1>6 DEF Migrating
    <3>2. log'[appendOffset + 1].path = p
      BY <1>1, <1>3, <1>6, HeaderFits, <1>4 DEF r
    <3>3. i \in (flushed + 1)..appendOffset /\ i \in 1..appendOffset
      BY <2>3, <3>1, <3>2, <1>7
    <3>4. ~Migrating(q)
      BY <3>1, <3>3, <1>6 DEF Migrating
    <3> QED
      BY <2>3, <3>4, <1>2, <1>12 DEF MigratedOK
  <2> QED
    BY <2>2, <2>3
<1>14. job.kind # "migrate" =>
         /\ job' # NoJob
         /\ job'.kind = job.kind /\ job'.path = p /\ job'.todo = rest
         /\ job'.bytes = job.bytes
  BY <1>1, <1>2, <1>3, <1>4 DEF JobOK, NoJob
<1>15. GoalOK'
  <2>1. CASE job.kind = "migrate"
    BY <2>1, <1>1 DEF GoalOK
  <2>2. CASE job.kind # "migrate"
    <3>1. acked'[p] = Placeholder
      BY <2>2, <1>1, <1>8, <1>9
    <3>2. job.kind \in {"force", "close"} /\ ~tainted[p] =>
            IF rest = << >> THEN Indexed(p)' /\ Base(p)' = job.bytes
            ELSE /\ ApplyPatch(Base(p)', rest[Len(rest)]) = job.bytes
                 /\ Len(rest) # 2
      <4>1. index'[p].gen > 0 => Indexed(p)'
        BY <1>12
      <4>2. Base(p)' = Materialized(index'[p])
        BY <1>12
      <4> HIDE DEF Base, Indexed
      <4>3. SUFFICES ASSUME job.kind \in {"force", "close"}, ~tainted[p]
                     PROVE  IF rest = << >> THEN Indexed(p)' /\ Base(p)' = job.bytes
                            ELSE /\ ApplyPatch(Base(p)', rest[Len(rest)]) = job.bytes
                                 /\ Len(rest) # 2
        OBVIOUS
      <4>4. Len(rest) = 1 => Len(rest) # 2
        OBVIOUS
      <4> QED
        BY <4>1, <4>2, <4>3, <4>4, <1>5, Zenon
    <3>3. job.kind = "move" => Indexed(p)' /\ Base(p)' = job.bytes
      BY <1>5, <1>12
    <3>4. job.kind = "delete" => ~Indexed(p)'
      <4>1. job.kind = "delete" => ~(index'[p].gen > 0)
        BY <1>5
      <4> QED
        BY <4>1, <1>12
    <3> HIDE DEF Base, Indexed
    <3> QED
      BY <2>2, <3>1, <3>2, <3>3, <3>4, <1>1, <1>14 DEF GoalOK
  <2> QED
    BY <2>1, <2>2
<1>16. ASSUME NEW q \in Paths, q # p PROVE CopyOK(q)' /\ CacheOK(q)'
  <2>1. ~Moving(q) /\ ~Moving(q)'
    BY <1>1, <1>14, <1>16, <1>4 DEF Moving, NoJob
  <2>2. Base(q)' = Base(q) /\ Indexed(q)' = Indexed(q)
    BY <1>12, <1>16
  <2> HIDE DEF Base, Indexed, Moving
  <2> QED
    BY <2>1, <2>2, <1>1, FilesParts DEF CopyOK, CacheOK
<1>17. CopyOK(p)' /\ CacheOK(p)'
  <2>1. CASE job.kind = "migrate"
    BY <2>1, <1>1, <1>8 DEF CopyOK, CacheOK
  <2>2. CASE job.kind = "move"
    <3>1. Moving(p)'
      BY <2>2, <1>14 DEF Moving
    <3> QED
      BY <2>2, <3>1, <1>1, <1>8, <1>9 DEF CopyOK, CacheOK
  <2>3. CASE job.kind = "delete"
    <3>1. vfile[p] = Absent
      BY <2>3, <1>2, <1>3, <1>4 DEF JobOK
    <3>2. ~Indexed(p)'
      <4>1. ~(index'[p].gen > 0)
        BY <2>3, <1>5
      <4> QED
        BY <4>1, <1>12
    <3> HIDE DEF Indexed
    <3> QED
      BY <2>3, <3>1, <3>2, <1>1, <1>8, <1>9, MarksAreApart DEF CopyOK, CacheOK
  <2>4. CASE job.kind \in {"force", "close"}
    <3>1. chan[p].dirty /\ vfile[p] = job.bytes
      BY <2>4, <1>2, <1>3, <1>4 DEF JobOK
    <3>2. ~Moving(p)
      BY <2>4 DEF Moving
    <3>3. CacheOK(p)'
      BY <2>4, <3>1, <1>1, <1>8, <1>9 DEF CacheOK
    <3>4. CopyOK(p)'
      <4> SUFFICES ASSUME ~tainted[p], vfile[p] \in Contents
                   PROVE  \A i \in 1..Len(vfile[p]) \ chan[p].cells :
                            vfile[p][i] = IF i <= Len(Base(p)') THEN Base(p)'[i] ELSE Zero
        BY <3>1, <1>1 DEF CopyOK
      <4>1. CASE Base(p)' = vfile[p]
        BY <4>1
      <4>2. CASE Base(p)' = Base(p)
        <5>1. phase = "open"
          BY <2>4, <1>8
        <5> HIDE DEF Base
        <5> QED
          BY <4>2, <3>2, <5>1, <1>3, FilesParts DEF CopyOK
      <4> QED
        BY <4>1, <4>2, <2>4, <3>1, <1>5, <1>12
    <3> QED
      BY <3>3, <3>4
  <2> QED
    BY <2>1, <2>2, <2>3, <2>4, <1>8
<1> QED
  BY <1>10, <1>11, <1>13, <1>15, <1>16, <1>17 DEF FilesInv
\* A call that succeeds promises what the log then holds.
LEMMA SucceedFiles == ASSUME StoreInv, FilesInv, Succeed PROVE FilesInv'
<1>1. /\ job.stage = "flush" /\ flushed' = appendOffset
      /\ cache' = [cache EXCEPT ![job.path] = Absent] /\ job' = NoJob
      /\ acked' = [acked EXCEPT ![job.path] =
                     IF tainted[job.path] THEN Placeholder ELSE job.bytes]
      /\ UNCHANGED << log, appendOffset, idb, phase, index, fileValues, tainted >>
  BY DEF Succeed, OpfsFlushed, Uncached, Promise
<1>2. /\ DeviceOK /\ JobOK /\ MemoryOK /\ RowsOK /\ MigratedOK /\ GoalOK /\ AckSurvives
  BY DEF StoreInv, FilesInv
<1>3. job # NoJob /\ job.path \in Paths
  BY <1>1, <1>2 DEF NoJob, JobOK
<1>4. PICK p \in Paths : p = job.path
  BY <1>3
<1>5. job.kind # "migrate" /\ phase = "open" /\ job.todo = << >>
  BY <1>1, <1>2, <1>3 DEF JobOK
<1>6. /\ cache'[p] = Absent /\ (~tainted[p] => acked'[p] = job.bytes)
      /\ tainted[p] => acked'[p] = Placeholder
      /\ \A q \in Paths : q # p => cache'[q] = cache[q] /\ acked'[q] = acked[q]
  BY <1>1, <1>2, <1>4 DEF MemoryOK
<1>7. /\ \A q \in Paths : q # p => vfile'[q] = vfile[q] /\ chan'[q] = chan[q]
      /\ \A q \in Paths : pending'[q].value = Absent
      /\ \/ vfile'[p] = Absent
         \/ /\ job.kind = "force" /\ vfile'[p] = vfile[p] /\ chan'[p].cells = {}
  <2>1. CASE job.kind = "force"
    <3>1. /\ chan' = [chan EXCEPT ![p].dirty = FALSE, ![p].cells = {}]
          /\ UNCHANGED << vfile, pending >>
      BY <2>1, <1>4 DEF Succeed
    <3>2. chan[p] \in Channels
      BY <1>2 DEF MemoryOK
    <3> QED
      BY <2>1, <3>1, <3>2, <1>2 DEF MemoryOK, RowsOK, Channels
  <2>2. CASE job.kind = "close"
    <3>1. /\ chan' = [chan EXCEPT ![p] = NoChan]
          /\ vfile' = [vfile EXCEPT ![p] = Absent]
          /\ UNCHANGED pending
      BY <2>2, <1>4 DEF Succeed, Reclaimed
    <3> QED
      BY <3>1, <1>2 DEF MemoryOK, RowsOK
  <2>3. CASE job.kind = "move"
    <3>1. vfile' = [vfile EXCEPT ![p] = Absent] /\ UNCHANGED << chan, pending >>
      BY <2>3, <1>4 DEF Succeed, Reclaimed
    <3> QED
      BY <3>1, <1>2 DEF MemoryOK, RowsOK
  <2>4. CASE job.kind = "delete"
    <3>1. /\ pending' = [pending EXCEPT ![p] = Change(Absent)]
          /\ UNCHANGED << vfile, chan >>
      BY <2>4, <1>4 DEF Succeed
    <3>2. vfile[p] = Absent
      BY <2>4, <1>2, <1>3, <1>4 DEF JobOK
    <3> QED
      BY <3>1, <3>2, <1>2 DEF MemoryOK, RowsOK, Change
  <2> QED
    BY <2>1, <2>2, <2>3, <2>4, <1>2, <1>3, <1>5 DEF JobOK
<1>8. /\ job.kind \in {"force", "close"} /\ ~tainted[p] => Indexed(p) /\ Base(p) = job.bytes
      /\ job.kind = "move" => Indexed(p) /\ Base(p) = job.bytes
      /\ job.kind = "delete" => ~Indexed(p) /\ job.bytes = Absent
      /\ job.kind \in {"force", "close", "move", "delete"}
      /\ job.kind = "force" => vfile[p] = job.bytes
      /\ index[p].gen \in Nat
  <2>1. index[p] \in Entries
    BY DEF StoreInv, IndexOK, Indexes
  <2>2. index[p].gen \in Nat
    BY <2>1 DEF Entries
  <2>3. /\ job.kind \in {"force", "close"} /\ ~tainted[p] => Indexed(p) /\ Base(p) = job.bytes
        /\ job.kind = "move" => Indexed(p) /\ Base(p) = job.bytes
        /\ job.kind = "delete" => ~Indexed(p)
    BY <1>2, <1>3, <1>4, <1>5 DEF GoalOK
  <2>4. /\ job.kind = "delete" => job.bytes = Absent
        /\ job.kind \in {"force", "close", "move", "delete"}
        /\ job.kind = "force" => vfile[p] = job.bytes
    BY <1>2, <1>3, <1>4, <1>5 DEF JobOK
  <2> QED
    BY <2>2, <2>3, <2>4
<1>9. AckSurvives'
  <2> SUFFICES ASSUME NEW n \in appendOffset..Len(log), NEW q \in Paths,
                      acked'[q] # Placeholder
               PROVE  AfterRestart(n)'[q] = acked'[q]
    BY <1>1 DEF AckSurvives
  <2>1. AfterRestart(n)' = AfterRestart(n)
    BY <1>1, RestartFrom
  <2>2. AfterRestart(n) = RestartOf(idb, index)
    BY <1>5, TailRestart
  <2>3. CASE q # p
    <3>1. n \in flushed..Len(log)
      BY <1>2 DEF DeviceOK
    <3> QED
      BY <2>1, <2>3, <3>1, <1>2, <1>6 DEF AckSurvives
  <2>4. CASE q = p
    <3>1. ~tainted[p] /\ acked'[p] = job.bytes
      BY <2>4, <1>6
    <3>2. idb[p] = Absent
      BY <1>2, <1>5 DEF RowsOK
    <3>3. RestartOf(idb, index)[p] = IF index[p].gen = 0 THEN Absent ELSE Base(p)
      BY <3>2 DEF RestartOf, Base
    <3>4. CASE job.kind = "delete"
      <4>1. index[p].gen = 0
        BY <3>4, <1>8 DEF Indexed
      <4> QED
        BY <2>1, <2>2, <2>4, <3>1, <3>3, <3>4, <4>1, <1>8
    <3>5. CASE job.kind # "delete"
      <4>1. Indexed(p) /\ Base(p) = job.bytes
        BY <3>1, <3>5, <1>8
      <4>2. index[p].gen # 0
        BY <4>1, <1>8 DEF Indexed
      <4> HIDE DEF Base
      <4> QED
        BY <2>1, <2>2, <2>4, <3>1, <3>3, <4>1, <4>2
    <3> QED
      BY <3>4, <3>5
  <2> QED
    BY <2>3, <2>4
<1>10. RowsOK' /\ MigratedOK' /\ GoalOK'
  BY <1>1, <1>2, <1>5, <1>7 DEF RowsOK, MigratedOK, GoalOK
<1>11. \A q \in Paths : Base(q)' = Base(q) /\ Indexed(q)' = Indexed(q) /\ ~Moving(q)'
  BY <1>1 DEF Base, Indexed, Moving, NoJob
<1>12. ASSUME NEW q \in Paths, q # p PROVE CopyOK(q)' /\ CacheOK(q)'
  <2>1. ~Moving(q)
    BY <1>4, <1>12 DEF Moving
  <2> HIDE DEF Base, Indexed, Moving
  <2> QED
    BY <2>1, <1>1, <1>6, <1>7, <1>11, <1>12, FilesParts DEF CopyOK, CacheOK
<1>13. CopyOK(p)'
  <2>1. CASE vfile'[p] = Absent
    BY <2>1, MarksAreApart DEF CopyOK
  <2>2. CASE job.kind = "force" /\ vfile'[p] = vfile[p] /\ chan'[p].cells = {}
    <3> SUFFICES ASSUME ~tainted[p]
                 PROVE  /\ vfile[p] = Base(p)
                        /\ \A i \in 1..Len(vfile[p]) :
                             vfile[p][i] = IF i <= Len(Base(p)) THEN Base(p)[i] ELSE Zero
      BY <2>2, <1>1, <1>11 DEF CopyOK
    <3>1. vfile[p] = Base(p)
      BY <2>2, <1>8
    <3> HIDE DEF Base
    <3> QED
      BY <3>1
  <2> QED
    BY <2>1, <2>2, <1>7
<1>14. CacheOK(p)'
  BY <1>6 DEF CacheOK
<1> QED
  BY <1>9, <1>10, <1>12, <1>13, <1>14 DEF FilesInv

\* A failure leaves the bytes as they are and promises nothing; only a refused
\* move would put bytes where the index hides them.
LEMMA FailFiles == ASSUME MovesWork, StoreInv, FilesInv, Fail PROVE FilesInv'
<1>1. /\ job.kind # "migrate" /\ job.stage \in {"append", "commit", "flush"}
      /\ job' = NoJob /\ job.path \in Faulty
      /\ UNCHANGED << log, appendOffset, flushed, idb, phase, index, cache >>
  BY DEF Fail, device
<1>2. DeviceOK /\ JobOK /\ MemoryOK /\ RowsOK /\ MigratedOK /\ GoalOK
  BY DEF StoreInv, FilesInv
<1>3. job # NoJob /\ job.path \in Paths
  BY <1>1, <1>2 DEF NoJob, JobOK
<1>4. PICK p \in Paths : p = job.path
  BY <1>3
<1>5. /\ phase = "open" /\ acked[p] = Placeholder
      /\ job.kind \in {"force", "close", "delete"}
  <2>1. phase = "open" /\ job.kind \in {"force", "close", "move", "delete"}
        /\ (job.kind = "move" => p \in Moved)
    BY <1>1, <1>2, <1>3, <1>4 DEF JobOK
  <2>2. p \notin Moved
    BY <1>1, <1>4 DEF MovesWork
  <2> QED
    BY <2>1, <2>2, <1>2, <1>3, <1>4 DEF GoalOK
<1>6. /\ UNCHANGED << pending, fileValues, vfile, acked >>
      /\ \A q \in Paths : q # p => chan'[q] = chan[q] /\ tainted'[q] = tainted[q]
      /\ tainted'[p] \/ (chan'[p] = chan[p] /\ tainted'[p] = tainted[p])
  <2>1. CASE job.kind \in {"force", "delete"}
    BY <2>1 DEF Fail, java, ghosts
  <2>2. CASE job.kind = "close"
    <3>1. /\ chan' = [chan EXCEPT ![p] = NoChan]
          /\ tainted' = [tainted EXCEPT ![p] = TRUE]
          /\ UNCHANGED << pending, fileValues, vfile, acked >>
      BY <2>2, <1>4 DEF Fail
    <3>2. tainted'[p]
      BY <3>1, <1>2, Zenon DEF MemoryOK
    <3>3. \A q \in Paths : q # p => chan'[q] = chan[q] /\ tainted'[q] = tainted[q]
      BY <3>1, <1>2 DEF MemoryOK
    <3> QED
      BY <3>1, <3>2, <3>3
  <2> QED
    BY <2>1, <2>2, <1>5
<1>7. AckSurvives'
  <2>1. flushed' \in flushed..Len(log)
    BY <1>1, <1>2 DEF DeviceOK
  <2> QED
    BY <2>1, <1>1, <1>6, AckKept
<1>8. RowsOK' /\ MigratedOK' /\ GoalOK'
  BY <1>1, <1>2, <1>5, <1>6 DEF RowsOK, MigratedOK, GoalOK
<1>9. \A q \in Paths : /\ Base(q)' = Base(q) /\ Indexed(q)' = Indexed(q)
                       /\ ~Moving(q) /\ ~Moving(q)'
  BY <1>1, <1>5 DEF Base, Indexed, Moving, NoJob
<1>10. ASSUME NEW q \in Paths PROVE CopyOK(q)' /\ CacheOK(q)'
  <2> HIDE DEF Base, Indexed, Moving
  <2>1. CASE q # p \/ (chan'[p] = chan[p] /\ tainted'[p] = tainted[p])
    BY <2>1, <1>1, <1>6, <1>9, FilesParts DEF CopyOK, CacheOK
  <2>2. CASE q = p /\ tainted'[p]
    BY <2>2, <1>5, <1>6 DEF CopyOK, CacheOK
  <2> QED
    BY <2>1, <2>2, <1>6
<1> QED
  BY <1>7, <1>8, <1>10 DEF FilesInv

\* A migration begins without touching a file.
LEMMA MigrateFiles == ASSUME StoreInv, FilesInv, NEW p \in Paths, Migrate(p) PROVE FilesInv'
<1>1. /\ phase = "scanned" /\ job = NoJob
      /\ job' = [kind |-> "migrate", path |-> p, bytes |-> idb[p], stage |-> "append",
                 todo |-> << FullRecord(p, idb[p]) >>]
      /\ UNCHANGED << log, appendOffset, flushed, idb, pending, phase, index, cache,
                      fileValues, vfile, chan, acked, tainted >>
  BY DEF Migrate, device, stores, memory, java, ghosts
<1>2. DeviceOK /\ RowsOK /\ MigratedOK
  BY DEF StoreInv, FilesInv
<1>3. AckSurvives'
  <2>1. flushed' \in flushed..Len(log)
    BY <1>1, <1>2 DEF DeviceOK
  <2> QED
    BY <2>1, <1>1, AckKept
<1>4. MigratedOK'
  BY <1>1, <1>2 DEF MigratedOK, Migrating, Indexed, Base
<1>5. RowsOK' /\ GoalOK'
  BY <1>1, <1>2 DEF RowsOK, GoalOK
<1>6. \A q \in Paths : CopyOK(q)' /\ CacheOK(q)'
  BY <1>1 DEF CopyOK, CacheOK
<1> QED
  BY <1>3, <1>4, <1>5, <1>6 DEF FilesInv

\* The flush after the migration keeps every promise.
LEMMA MigrateFlushFiles == ASSUME StoreInv, FilesInv, MigrateFlush PROVE FilesInv'
<1>1. /\ phase = "scanned" /\ phase' = "migrated" /\ flushed' = appendOffset
      /\ job = NoJob /\ \A p \in Paths : ~Migrating(p)
      /\ UNCHANGED << log, appendOffset, idb, pending, index, cache, fileValues, vfile,
                      chan, job, acked, tainted >>
  BY DEF MigrateFlush, OpfsFlushed, stores, memory, java, ghosts
<1>2. DeviceOK /\ RowsOK /\ MigratedOK
  BY DEF StoreInv, FilesInv
<1>3. AckSurvives'
  <2>1. flushed' \in flushed..Len(log)
    BY <1>1, <1>2 DEF DeviceOK
  <2> QED
    BY <2>1, <1>1, AckKept
<1>4. MigratedOK'
  BY <1>1, <1>2 DEF MigratedOK, Indexed, Base
<1>5. RowsOK' /\ GoalOK'
  BY <1>1, <1>2 DEF RowsOK, GoalOK
<1>6. \A q \in Paths : CopyOK(q)' /\ CacheOK(q)'
  BY <1>1 DEF CopyOK, CacheOK
<1> QED
  BY <1>3, <1>4, <1>5, <1>6 DEF FilesInv

\* The rows are deleted: the index serves what they held.
LEMMA MigrateDeleteFiles ==
  ASSUME StoreInv, FilesInv, MigrateDelete
  PROVE  /\ FilesInv'
         /\ flushed = appendOffset /\ Len(log) \in Nat
         /\ \A n \in flushed..Len(log) : AfterRestart(n)' = AfterRestart(n)
<1>1. /\ phase = "migrated" /\ phase' = "open"
      /\ idb' = [p \in Paths |-> Absent] /\ acked' = [p \in Paths |-> Stored(p)]
      /\ UNCHANGED << log, appendOffset, flushed, pending, index, cache, fileValues,
                      vfile, chan, job, tainted >>
  BY DEF MigrateDelete, device, memory, java
<1>2. DeviceOK /\ JobOK /\ RowsOK /\ MigratedOK /\ AsleepOK /\ IndexOK
  BY DEF StoreInv, FilesInv
<1>3. job = NoJob /\ flushed = appendOffset
      /\ Len(log) \in Nat /\ appendOffset \in Nat /\ appendOffset <= Len(log)
  BY <1>1, <1>2 DEF JobOK, DeviceOK
<1>4. ASSUME NEW n \in flushed..Len(log)
      PROVE  /\ AfterRestart(n) = RestartOf(idb, index)
             /\ AfterRestart(n)' = RestartOf(idb', index)
  <2>1. n \in appendOffset..Len(log)
    BY <1>3
  <2>2. AfterRestart(n) = RestartOf(idb, index)
    BY <2>1, <1>1, TailRestart
  <2>3. Scan(SubSeq(log, 1, n)) = index
    BY <2>1, <1>1, <1>2, ScanOfLog DEF StoreInv, IndexIsLog, Scan
  <2> QED
    BY <2>2, <2>3, <1>1, RestartFrom
<1>5. ASSUME NEW p \in Paths
      PROVE  RestartOf(idb, index)[p] = Stored(p) /\ RestartOf(idb', index)[p] = Stored(p)
  <2>1. index[p] \in Entries
    BY <1>2 DEF IndexOK, Indexes
  <2>2. index[p].gen \in Nat
    BY <2>1 DEF Entries
  <2>3. Stored(p) = IF index[p].gen = 0 THEN Absent ELSE Base(p)
    BY <2>2, <1>1, <1>2 DEF AsleepOK, Stored, Indexed, Base
  <2>4. RestartOf(idb', index)[p] = IF index[p].gen = 0 THEN Absent ELSE Base(p)
    BY <1>1 DEF RestartOf, Base
  <2>5. idb[p] # Absent => index[p].gen # 0 /\ Base(p) = idb[p]
    BY <2>2, <1>1, <1>2 DEF MigratedOK, Indexed
  <2>6. RestartOf(idb, index)[p] =
          IF idb[p] # Absent THEN idb[p] ELSE IF index[p].gen = 0 THEN Absent ELSE Base(p)
    BY DEF RestartOf, Base
  <2> HIDE DEF Base, Stored
  <2> QED
    BY <2>3, <2>4, <2>5, <2>6
<1>6. RestartOf(idb', index) = RestartOf(idb, index)
  <2>1. \A p \in Paths : RestartOf(idb', index)[p] = RestartOf(idb, index)[p]
    BY <1>5
  <2> QED
    BY <2>1 DEF RestartOf
<1>7. AckSurvives'
  <2> SUFFICES ASSUME NEW n \in flushed..Len(log), NEW p \in Paths
               PROVE  AfterRestart(n)'[p] = acked'[p]
    BY <1>1 DEF AckSurvives
  <2>1. acked'[p] = Stored(p)
    BY <1>1
  <2> QED
    BY <2>1, <1>4, <1>5
<1>8. RowsOK' /\ MigratedOK' /\ GoalOK'
  BY <1>1, <1>2, <1>3 DEF RowsOK, MigratedOK, GoalOK
<1>9. \A q \in Paths : CopyOK(q)' /\ CacheOK(q)'
  BY <1>1, <1>2, MarksAreApart DEF CopyOK, CacheOK, AsleepOK
<1> QED
  BY <1>3, <1>4, <1>6, <1>7, <1>8, <1>9 DEF FilesInv

\* A scan finds what the log held.
LEMMA OpenStoreFiles ==
  ASSUME TruncationWorks, StoreInv, FilesInv, OpenStore
  PROVE  /\ FilesInv'
         /\ appendOffset' = appendOffset /\ flushed' = appendOffset
         /\ flushed = appendOffset
         /\ AfterRestart(appendOffset)' = AfterRestart(appendOffset)
<1>1. /\ phase = "down" /\ phase' = "scanned"
      /\ log' = SubSeq(log, 1, Scanned(log).end)
      /\ appendOffset' = Len(log') /\ flushed' = Len(log')
      /\ UNCHANGED << idb, pending, cache, fileValues, vfile, chan, job, acked, tainted >>
  BY DEF OpenStore, TruncationWorks, stores, java, ghosts
<1>2. DeviceOK /\ JobOK /\ RowsOK /\ MemoryOK /\ AckSurvives
  BY DEF StoreInv, FilesInv
<1>3. /\ log \in Seq(Records) /\ appendOffset \in 0..Len(log) /\ Len(log) \in Nat
      /\ appendOffset \in Nat /\ flushed = appendOffset
  BY <1>1, <1>2 DEF DeviceOK
<1>4. Scanned(log).end = appendOffset
  <2>1. Len(log) \in appendOffset..Len(log)
    BY <1>3
  <2>2. SubSeq(log, 1, Len(log)) = log
    BY <1>3, WholeLog
  <2>3. Scanned(SubSeq(log, 1, Len(log))).end = appendOffset
    BY <2>1, <1>2, ScanOfLog
  <2> QED
    BY <2>2, <2>3
<1>5. log' = SubSeq(log, 1, appendOffset) /\ Len(log') = appendOffset
      /\ log' \in Seq(Records)
  BY <1>1, <1>3, <1>4, PrefixType
<1>6. appendOffset' = appendOffset /\ flushed' = appendOffset
  BY <1>1, <1>5
<1>7. \A n : n = appendOffset => AfterRestart(n)' = AfterRestart(n)
  <2>1. SubSeq(log', 1, appendOffset) = SubSeq(log, 1, appendOffset)
    BY <1>5, WholeLog
  <2> QED
    BY <2>1, <1>1, RestartFrom
<1>8. AckSurvives'
  <2> SUFFICES ASSUME NEW n, n = appendOffset, NEW p \in Paths, acked[p] # Placeholder
               PROVE  AfterRestart(n)'[p] = acked[p]
    BY <1>1, <1>3, <1>5, <1>6 DEF AckSurvives
  <2>1. n \in flushed..Len(log)
    BY <1>3
  <2> QED
    BY <2>1, <1>2, <1>7 DEF AckSurvives
<1>9. MigratedOK'
  <2>1. \A p \in Paths : idb'[p] # Absent => Migrating(p)'
    BY <1>3, <1>6 DEF Migrating
  <2> QED
    BY <2>1, <1>1 DEF MigratedOK
<1>10. job' = NoJob
  BY <1>1, <1>2 DEF JobOK
<1>11. RowsOK' /\ GoalOK'
  BY <1>1, <1>2, <1>10 DEF RowsOK, GoalOK
<1>12. \A q \in Paths : CopyOK(q)' /\ CacheOK(q)'
  BY <1>1 DEF CopyOK, CacheOK
<1>13. AfterRestart(appendOffset)' = AfterRestart(appendOffset)
  BY <1>3, <1>6, <1>7
<1> QED
  BY <1>3, <1>6, <1>8, <1>9, <1>11, <1>12, <1>13 DEF FilesInv

\* A crash finds one of the states that every promise already covered.
LEMMA CrashFiles ==
  ASSUME StoreInv, FilesInv, NEW n \in flushed..Len(log), Crash(n)
  PROVE  /\ FilesInv'
         /\ Len(log') = n
         /\ appendOffset' = (IF n < appendOffset THEN n ELSE appendOffset)
         /\ flushed' = appendOffset'
         /\ \A m \in 0..n : AfterRestart(m)' = AfterRestart(m)
<1> DEFINE a == IF n < appendOffset THEN n ELSE appendOffset
<1>1. /\ phase' = "down" /\ log' = SubSeq(log, 1, n)
      /\ appendOffset' = a /\ flushed' = a
      /\ fileValues' = [p \in Paths |-> Absent]
      /\ pending' = [p \in Paths |-> NoChange]
      /\ job' = NoJob /\ UNCHANGED << idb, acked >>
  BY DEF Crash
<1>2. DeviceOK /\ AckSurvives
  BY DEF StoreInv, FilesInv
<1>3. /\ log \in Seq(Records) /\ appendOffset \in 0..Len(log) /\ Len(log) \in Nat
      /\ flushed \in 0..appendOffset /\ n \in 0..Len(log) /\ appendOffset \in Nat
  BY <1>2 DEF DeviceOK
<1>4. /\ log' \in Seq(Records) /\ Len(log') = n
      /\ \A i \in 1..n : log'[i] = log[i]
  BY <1>1, <1>3, PrefixType
<1>5. \A m \in 0..n : AfterRestart(m)' = AfterRestart(m)
  <2>1. n \in Nat /\ n <= Len(log) /\ n <= Len(log')
    BY <1>3, <1>4
  <2>2. \A m \in 0..n : SubSeq(log', 1, m) = SubSeq(log, 1, m)
    BY <2>1, <1>3, <1>4, PrefixSame
  <2> QED
    BY <2>2, <1>1, RestartFrom
<1>6. AckSurvives'
  <2> SUFFICES ASSUME NEW m \in a..n, NEW p \in Paths, acked[p] # Placeholder
               PROVE  AfterRestart(m)'[p] = acked[p]
    BY <1>1, <1>4 DEF AckSurvives
  <2>1. m \in flushed..Len(log) /\ m \in 0..n
    BY <1>3
  <2> QED
    BY <2>1, <1>2, <1>5 DEF AckSurvives
<1>7. RowsOK' /\ MigratedOK' /\ GoalOK'
  BY <1>1 DEF RowsOK, MigratedOK, GoalOK, NoChange
<1>8. \A q \in Paths : CopyOK(q)' /\ CacheOK(q)'
  BY <1>1 DEF CopyOK, CacheOK
<1> QED
  BY <1>1, <1>4, <1>5, <1>6, <1>7, <1>8 DEF FilesInv

\* A step that changes nothing keeps the second layer.
LEMMA StutterFiles == ASSUME StoreInv, FilesInv, UNCHANGED vars PROVE FilesInv'
<1>1. UNCHANGED << log, appendOffset, flushed, idb, pending, phase, index, cache,
                   fileValues, vfile, chan, job, acked, tainted >>
  BY DEF vars, device, stores, memory, java, ghosts
<1>2. DeviceOK /\ RowsOK /\ MigratedOK /\ GoalOK
  BY DEF StoreInv, FilesInv
<1>3. AckSurvives'
  <2>1. flushed' \in flushed..Len(log)
    BY <1>1, <1>2 DEF DeviceOK
  <2> QED
    BY <2>1, <1>1, AckKept
<1>4. RowsOK' /\ MigratedOK' /\ GoalOK'
  BY <1>1, <1>2 DEF RowsOK, MigratedOK, GoalOK, Migrating, Indexed, Base
<1>5. \A q \in Paths : CopyOK(q)' /\ CacheOK(q)'
  BY <1>1, FilesParts DEF CopyOK, CacheOK, Moving, Indexed, Base
<1> QED
  BY <1>3, <1>4, <1>5 DEF FilesInv

\* Every step keeps the second layer while no move is refused.
LEMMA FilesStep ==
  ASSUME TruncationWorks, MovesWork, StoreInv, StoreInv', FilesInv, [Next]_vars
  PROVE  FilesInv'
<1>1. CASE \E p \in Paths : GameStep(p) \/ Evict(p) \/ Migrate(p)
  BY <1>1, GameStepFiles, EvictFiles, MigrateFiles
<1>2. CASE WriteBody \/ WriteHeader \/ Succeed \/ Fail
  BY <1>2, WriteBodyFiles, WriteHeaderFiles, SucceedFiles, FailFiles
<1>3. CASE FlushPending \/ OpenStore \/ MigrateFlush \/ MigrateDelete
  BY <1>3, FlushPendingFiles, OpenStoreFiles, MigrateFlushFiles, MigrateDeleteFiles
<1>4. CASE \E n \in flushed..Len(log) : Crash(n)
  BY <1>4, CrashFiles
<1>5. CASE UNCHANGED vars
  BY <1>5, StutterFiles
<1> QED
  BY <1>1, <1>2, <1>3, <1>4, <1>5 DEF Next
\* Both layers are invariants.
LEMMA FilesInvariance ==
  ASSUME TruncationWorks, MovesWork PROVE Spec => [](StoreInv /\ FilesInv)
<1>1. (StoreInv /\ FilesInv) /\ [Next]_vars => (StoreInv /\ FilesInv)'
  BY StoreStep, FilesStep
<1>2. Init => StoreInv /\ FilesInv
  BY StoreInit, FilesInit
<1> QED
  BY <1>1, <1>2, PTL DEF Spec

\* After a storage call that returned success, whatever the log keeps of what was
\* not flushed, a restart finds the bytes the file had then.
THEOREM AckSurvival == TruncationWorks /\ MovesWork => (Spec => []AckSurvives)
<1> SUFFICES ASSUME TruncationWorks, MovesWork PROVE Spec => []AckSurvives
  OBVIOUS
<1>1. StoreInv /\ FilesInv => AckSurvives
  BY DEF FilesInv
<1> QED
  BY <1>1, FilesInvariance, PTL

\* The second layer implies the agreement of the copies.
LEMMA FilesAgree == StoreInv /\ FilesInv => CopiesAgree
<1> SUFFICES ASSUME StoreInv, FilesInv, NEW p \in Paths, Idle
             PROVE  /\ /\ ~tainted[p] /\ ~chan[p].dirty
                       /\ vfile[p] \in Contents /\ Stored(p) # Absent
                       => vfile[p] = Stored(p)
                    /\ cache[p] # Absent /\ acked[p] # Placeholder
                       => Indexed(p) /\ cache[p] = Materialized(index[p])
  BY DEF CopiesAgree, CopyAgrees, CacheAgrees
<1>1. /\ RowsOK /\ CopyOK(p) /\ CacheOK(p)
      /\ phase = "open" /\ ~Moving(p)
  BY FilesParts DEF Idle, Moving, NoJob
<1>2. cache[p] # Absent /\ acked[p] # Placeholder => Indexed(p) /\ cache[p] = Base(p)
  BY <1>1 DEF CacheOK
<1>3. ASSUME ~tainted[p], ~chan[p].dirty, vfile[p] \in Contents, Stored(p) # Absent
      PROVE  vfile[p] = Stored(p)
  <2>1. Indexed(p) /\ Stored(p) = IF cache[p] # Absent THEN cache[p] ELSE Base(p)
    BY <1>1, <1>3, StoredOpen
  <2>2. cache[p] # Absent => cache[p] = Base(p)
    BY <2>1, <1>1, <1>3 DEF CacheOK
  <2>3. vfile[p] = Base(p)
    BY <1>1, <1>3 DEF CopyOK
  <2> HIDE DEF Base, Stored, Indexed
  <2> QED
    BY <2>1, <2>2, <2>3
<1> QED
  BY <1>2, <1>3 DEF Base

\* Neither the copy in TeaVM's file system nor the cached region serves other
\* bytes than the storage.
THEOREM CopiesAgreement == TruncationWorks /\ MovesWork => (Spec => []CopiesAgree)
<1> SUFFICES ASSUME TruncationWorks, MovesWork PROVE Spec => []CopiesAgree
  OBVIOUS
<1> QED
  BY FilesAgree, FilesInvariance, PTL

-----------------------------------------------------------------------------
(* The log implements whole files that are put, synchronised and lost.      *)

\* A restart finds a content or nothing for every file.
LEMMA RestartType ==
  ASSUME StoreInv, NEW n \in 0..Len(log)
  PROVE  AfterRestart(n) \in [Paths -> Rows]
<1>1. log \in Seq(Records) /\ idb \in [Paths -> Rows]
  BY DEF StoreInv, DeviceOK, MemoryOK
<1>2. SubSeq(log, 1, n) \in Seq(Records)
  BY <1>1, PrefixType
<1>3. Scan(SubSeq(log, 1, n)) \in Indexes
  BY <1>2, ScannedType DEF Scan, Scans
<1>4. \A p \in Paths : Materialized(Scan(SubSeq(log, 1, n))[p]) \in Contents
  BY <1>3, MaterializedContent DEF Indexes
<1> QED
  BY <1>1, <1>4, RestartFrom DEF RestartOf, Rows

\* The versions are the restarts from the flushed records to the appended ones.
LEMMA RestartsAre ==
  ASSUME StoreInv
  PROVE  /\ Restarts \in Seq([Paths -> Rows])
         /\ Len(Restarts) = appendOffset - flushed + 1
         /\ \A n \in flushed..appendOffset : Restarts[n - flushed + 1] = AfterRestart(n)
<1>1. flushed \in Nat /\ appendOffset \in Nat /\ Len(log) \in Nat
      /\ flushed <= appendOffset /\ appendOffset <= Len(log)
  BY DEF StoreInv, DeviceOK
<1>2. \A k \in 1..(appendOffset - flushed + 1) : flushed + k - 1 \in 0..Len(log)
  BY <1>1
<1>3. \A k \in 1..(appendOffset - flushed + 1) :
        AfterRestart(flushed + k - 1) \in [Paths -> Rows]
  BY <1>2, RestartType
<1>4. Restarts \in Seq([Paths -> Rows]) /\ Len(Restarts) = appendOffset - flushed + 1
  <2>1. PICK m \in Nat : m = appendOffset - flushed + 1
    BY <1>1
  <2>2. Restarts \in [1..m -> [Paths -> Rows]]
    BY <2>1, <1>3 DEF Restarts
  <2> HIDE DEF Restarts
  <2> QED
    BY <2>1, <2>2
<1>5. ASSUME NEW n \in flushed..appendOffset
      PROVE  Restarts[n - flushed + 1] = AfterRestart(n)
  <2>1. n - flushed + 1 \in 1..(appendOffset - flushed + 1)
        /\ flushed + (n - flushed + 1) - 1 = n
    BY <1>1
  <2> QED
    BY <2>1 DEF Restarts
<1> QED
  BY <1>4, <1>5

\* Positions and record counts correspond.
LEMMA Offsets ==
  ASSUME NEW f \in Nat, NEW a \in Nat, f <= a
  PROVE  /\ a - f + 1 \in Nat
         /\ \A k \in 1..(a - f + 1) : f + k - 1 \in f..a
         /\ \A n \in f..a : n - f + 1 \in 1..(a - f + 1) /\ f + (n - f + 1) - 1 = n
OBVIOUS

\* The same in the next state, whose offsets are given names.
LEMMA RestartsNext ==
  ASSUME StoreInv', NEW f, NEW a, f = flushed', a = appendOffset'
  PROVE  /\ Restarts' \in Seq([Paths -> Rows])
         /\ Len(Restarts') = a - f + 1
         /\ f \in Nat /\ a \in Nat /\ f <= a
         /\ \A n \in f..a : Restarts'[n - f + 1] = AfterRestart(n)'
<1>1. /\ f \in Nat /\ a \in Nat /\ Len(log') \in Nat /\ f <= a /\ a <= Len(log')
      /\ log' \in Seq(Records) /\ idb' \in [Paths -> Rows]
  <2>1. /\ appendOffset' \in 0..Len(log') /\ flushed' \in 0..appendOffset'
        /\ log' \in Seq(Records) /\ idb' \in [Paths -> Rows]
    BY DEF StoreInv, DeviceOK, MemoryOK
  <2> QED
    BY <2>1
<1>2. ASSUME NEW n \in f..a PROVE RestartOf(idb', Scan(SubSeq(log', 1, n))) \in [Paths -> Rows]
  <2>1. SubSeq(log', 1, n) \in Seq(Records)
    BY <1>1, PrefixType
  <2>2. Scan(SubSeq(log', 1, n)) \in Indexes
    BY <2>1, ScannedType DEF Scan, Scans
  <2>3. \A p \in Paths : Materialized(Scan(SubSeq(log', 1, n))[p]) \in Contents
    BY <2>2, MaterializedContent DEF Indexes
  <2> QED
    BY <1>1, <2>3 DEF RestartOf, Rows
<1>3. Restarts' = [k \in 1..(a - f + 1) |-> RestartOf(idb', Scan(SubSeq(log', 1, f + k - 1)))]
  BY DEF Restarts, AfterRestart, RestartOf
<1>4. \A k \in 1..(a - f + 1) : f + k - 1 \in f..a
  BY <1>1, Offsets
<1>5. \A k \in 1..(a - f + 1) :
        RestartOf(idb', Scan(SubSeq(log', 1, f + k - 1))) \in [Paths -> Rows]
  BY <1>2, <1>4
<1>6. Restarts' \in Seq([Paths -> Rows]) /\ Len(Restarts') = a - f + 1
  <2>1. a - f + 1 \in Nat
    BY <1>1, Offsets
  <2> QED
    BY <1>3, <1>5, <2>1
<1>7. ASSUME NEW n \in f..a PROVE Restarts'[n - f + 1] = AfterRestart(n)'
  <2>1. n - f + 1 \in 1..(a - f + 1) /\ f + (n - f + 1) - 1 = n
    BY <1>1, Offsets
  <2> QED
    BY <2>1, <1>3, RestartFrom
<1> QED
  BY <1>1, <1>6, <1>7

\* Lists of versions that agree from the first count to the last are equal.
LEMMA SequencesEqual ==
  ASSUME NEW S, NEW s \in Seq(S), NEW t \in Seq(S),
         NEW f \in Nat, NEW a \in Nat, f <= a, Len(s) = a - f + 1, Len(t) = a - f + 1,
         \A n \in f..a : s[n - f + 1] = t[n - f + 1]
  PROVE  s = t
<1>1. ASSUME NEW i \in 1..Len(s) PROVE s[i] = t[i]
  <2>1. f + i - 1 \in f..a /\ (f + i - 1) - f + 1 = i
    OBVIOUS
  <2> QED
    BY <2>1
<1> QED
  BY <1>1, SameSequence

\* A sequence of length one.
LEMMA OneElement ==
  ASSUME NEW S, NEW t \in Seq(S), Len(t) = 1 PROVE t = << t[1] >>
OBVIOUS

\* A sequence that extends another by one member.
LEMMA OneLonger ==
  ASSUME NEW S, NEW s \in Seq(S), NEW t \in Seq(S), Len(t) = Len(s) + 1,
         \A i \in 1..Len(s) : t[i] = s[i]
  PROVE  SubSeq(t, 1, Len(s)) = s
OBVIOUS

\* Steps that leave every version as it is.
LEMMA SameRestarts ==
  ASSUME StoreInv, StoreInv', UNCHANGED << appendOffset, flushed >>,
         \A n \in flushed..appendOffset : AfterRestart(n)' = AfterRestart(n)
  PROVE  UNCHANGED Restarts
<1> DEFINE f == flushed
           a == appendOffset
<1>1. /\ Restarts \in Seq([Paths -> Rows]) /\ Len(Restarts) = appendOffset - flushed + 1
      /\ \A n \in flushed..appendOffset : Restarts[n - flushed + 1] = AfterRestart(n)
  BY RestartsAre
<1>2. PICK x, y : x = flushed /\ y = appendOffset
  OBVIOUS
<1>3. /\ Restarts' \in Seq([Paths -> Rows]) /\ Len(Restarts') = y - x + 1
      /\ x \in Nat /\ y \in Nat /\ x <= y
      /\ \A n \in x..y : Restarts'[n - x + 1] = AfterRestart(n)'
  BY <1>2, RestartsNext
<1>4. \A n \in x..y : Restarts'[n - x + 1] = Restarts[n - x + 1]
  BY <1>1, <1>2, <1>3
<1> QED
  BY <1>1, <1>2, <1>3, <1>4, SequencesEqual

\* A header puts one file.
LEMMA HeaderPuts ==
  ASSUME StoreInv, StoreInv', WriteHeader
  PROVE  Durable!Put(Restarts, Restarts')
<1> DEFINE R == Restarts
           T == Restarts'
<1>1. /\ index' = Applied(index, Head(job.todo)) /\ flushed' = flushed
      /\ job.stage = "commit"
  BY DEF WriteHeader
<1>2. JobOK /\ DeviceOK /\ IndexOK /\ MemoryOK
  BY DEF StoreInv
<1>3. job # NoJob
  BY <1>1 DEF NoJob
<1>4. phase # "down" /\ job.path \in Paths
  BY <1>2, <1>3 DEF JobOK
<1>5. PICK f, a : f = flushed /\ a = appendOffset
  OBVIOUS
<1>6. /\ appendOffset' = a + 1
      /\ \A n \in 0..a : AfterRestart(n)' = AfterRestart(n)
      /\ AfterRestart(a + 1)' = RestartOf(idb, index')
  BY <1>5, HeaderRestarts
<1>7. /\ R \in Seq([Paths -> Rows]) /\ Len(R) = a - f + 1
      /\ \A n \in f..a : R[n - f + 1] = AfterRestart(n)
  BY <1>5, RestartsAre
<1>8. /\ T \in Seq([Paths -> Rows]) /\ Len(T) = (a + 1) - f + 1
      /\ \A n \in f..(a + 1) : T[n - f + 1] = AfterRestart(n)'
  BY <1>1, <1>5, <1>6, RestartsNext
<1>9. f \in Nat /\ a \in Nat /\ f <= a /\ a <= Len(log) /\ Len(log) \in Nat
  BY <1>2, <1>5 DEF DeviceOK
<1> HIDE DEF R, T
<1>10. Len(T) = Len(R) + 1
  BY <1>7, <1>8, <1>9
<1>11. \A i \in 1..Len(R) : T[i] = R[i]
  <2> TAKE i \in 1..Len(R)
  <2>1. f + i - 1 \in f..a /\ f + i - 1 \in 0..a /\ f + i - 1 \in f..(a + 1)
        /\ (f + i - 1) - f + 1 = i
    BY <1>7, <1>9
  <2> QED
    BY <2>1, <1>6, <1>7, <1>8
<1>12. SubSeq(T, 1, Len(R)) = R
  BY <1>7, <1>8, <1>10, <1>11, OneLonger
<1>13. T[Len(T)] = RestartOf(idb, index')
  <2>1. a + 1 \in f..(a + 1) /\ (a + 1) - f + 1 = Len(T)
    BY <1>8, <1>9
  <2> QED
    BY <2>1, <1>6, <1>8
<1>14. R[Len(R)] = RestartOf(idb, index)
  <2>1. a \in f..a /\ a - f + 1 = Len(R) /\ a \in appendOffset..Len(log)
    BY <1>5, <1>7, <1>9
  <2> QED
    BY <2>1, <1>4, <1>7, TailRestart
<1>15. T[Len(T)] \in [Paths -> Rows]
  <2>1. Len(T) \in 1..Len(T)
    BY <1>8, <1>9
  <2> QED
    BY <2>1, <1>8
<1>16. \A g \in Paths \ {job.path} : T[Len(T)][g] = R[Len(R)][g]
  <2>1. \A g \in Paths : g # job.path => index'[g] = index[g]
    BY <1>1, <1>3, HeaderFits, AppliedType
  <2> QED
    BY <2>1, <1>13, <1>14 DEF RestartOf
<1>17. \E p \in Paths : \A g \in Paths \ {p} : T[Len(T)][g] = R[Len(R)][g]
  BY <1>4, <1>16
<1> QED
  BY <1>10, <1>12, <1>15, <1>17 DEF Durable!Put, Durable!Latest, Durable!Images, Rows, R, T

\* A flush leaves the last version.
LEMMA FlushSyncs ==
  ASSUME StoreInv, StoreInv', flushed' = appendOffset, UNCHANGED << log, appendOffset, idb >>
  PROVE  Durable!Sync(Restarts, Restarts')
<1> DEFINE R == Restarts
           T == Restarts'
<1>1. PICK f, a : f = flushed /\ a = appendOffset
  OBVIOUS
<1>2. /\ R \in Seq([Paths -> Rows]) /\ Len(R) = a - f + 1
      /\ \A n \in f..a : R[n - f + 1] = AfterRestart(n)
  BY <1>1, RestartsAre
<1>3. /\ T \in Seq([Paths -> Rows]) /\ Len(T) = a - a + 1
      /\ \A n \in a..a : T[n - a + 1] = AfterRestart(n)'
  BY <1>1, RestartsNext
<1>4. f \in Nat /\ a \in Nat /\ f <= a
  BY <1>1 DEF StoreInv, DeviceOK
<1>5. AfterRestart(a)' = AfterRestart(a)
  BY RestartFrom
<1> HIDE DEF R, T
<1>6. Len(T) = 1 /\ T[1] = AfterRestart(a)
  <2>1. a \in a..a /\ a - a + 1 = 1
    BY <1>4
  <2> QED
    BY <2>1, <1>3, <1>5
<1>7. R[Len(R)] = AfterRestart(a)
  <2>1. a \in f..a /\ a - f + 1 = Len(R)
    BY <1>2, <1>4
  <2> QED
    BY <2>1, <1>2
<1>8. T = << R[Len(R)] >>
  BY <1>3, <1>6, <1>7, OneElement
<1> QED
  BY <1>8 DEF Durable!Sync, Durable!Latest, R, T

\* A crash keeps one of the versions.
LEMMA CrashLoses ==
  ASSUME StoreInv, StoreInv', FilesInv, NEW n \in flushed..Len(log), Crash(n)
  PROVE  Durable!Crash(Restarts, Restarts')
<1> DEFINE R == Restarts
           T == Restarts'
<1>1. PICK f, a : f = flushed /\ a = appendOffset
  OBVIOUS
<1>2. PICK b : b = IF n < a THEN n ELSE a
  OBVIOUS
<1>3. /\ appendOffset' = b /\ flushed' = b
      /\ \A m \in 0..n : AfterRestart(m)' = AfterRestart(m)
  BY <1>1, <1>2, CrashFiles
<1>4. f \in Nat /\ a \in Nat /\ f <= a /\ n \in Nat /\ f <= n
  BY <1>1 DEF StoreInv, DeviceOK
<1>5. /\ R \in Seq([Paths -> Rows]) /\ Len(R) = a - f + 1
      /\ \A m \in f..a : R[m - f + 1] = AfterRestart(m)
  BY <1>1, RestartsAre
<1>6. /\ T \in Seq([Paths -> Rows]) /\ Len(T) = b - b + 1
      /\ \A m \in b..b : T[m - b + 1] = AfterRestart(m)'
  BY <1>3, RestartsNext
<1>7. b \in Nat /\ b \in f..a /\ b \in 0..n
  BY <1>2, <1>4
<1> HIDE DEF R, T
<1>8. Len(T) = 1 /\ T[1] = AfterRestart(b)
  <2>1. b \in b..b /\ b - b + 1 = 1
    BY <1>7
  <2> QED
    BY <2>1, <1>3, <1>6, <1>7
<1>9. b - f + 1 \in 1..Len(R) /\ R[b - f + 1] = AfterRestart(b)
  BY <1>4, <1>5, <1>7
<1>10. T = << R[b - f + 1] >>
  BY <1>6, <1>8, <1>9, OneElement
<1> QED
  BY <1>9, <1>10 DEF Durable!Crash, R, T

\* Every step puts, synchronises or loses versions, or leaves them as they are.
LEMMA FilesSimulated ==
  ASSUME TruncationWorks, StoreInv, StoreInv', FilesInv, [Next]_vars
  PROVE  UNCHANGED << device, idb >> \/ Durable!Next \/ UNCHANGED Restarts
<1>1. CASE \E p \in Paths : GameStep(p) \/ Evict(p) \/ Migrate(p)
  <2>1. PICK p \in Paths : GameStep(p) \/ Evict(p) \/ Migrate(p)
    BY <1>1
  <2>2. CASE GameStep(p)
    BY <2>2 DEF GameStep, Stat, Open, Write, Truncate, ForceDirty, CloseDirty, Persist,
                CloseClean, Move, Delete, stores
  <2> QED
    BY <2>1, <2>2 DEF Evict, Migrate, stores
<1>2. CASE WriteBody
  <2>1. UNCHANGED << appendOffset, flushed >>
    BY <1>2 DEF WriteBody
  <2>2. \A n \in flushed..appendOffset : n \in 0..appendOffset
    BY DEF StoreInv, DeviceOK
  <2>3. UNCHANGED Restarts
    BY <1>2, <2>1, <2>2, BodyRestarts, SameRestarts
  <2> QED
    BY <2>3
<1>3. CASE WriteHeader
  BY <1>3, HeaderPuts DEF Durable!Next
<1>4. CASE Succeed \/ MigrateFlush
  <2>1. flushed' = appendOffset /\ UNCHANGED << log, appendOffset, idb >>
    BY <1>4 DEF Succeed, MigrateFlush, OpfsFlushed, stores
  <2> QED
    BY <2>1, FlushSyncs DEF Durable!Next
<1>5. CASE Fail
  BY <1>5 DEF Fail
<1>6. CASE FlushPending
  BY <1>6, FlushPendingFiles DEF FlushPending
<1>7. CASE OpenStore
  <2>1. /\ UNCHANGED << appendOffset, flushed >> /\ flushed = appendOffset
        /\ AfterRestart(appendOffset)' = AfterRestart(appendOffset)
    BY <1>7, OpenStoreFiles
  <2>2. appendOffset \in Nat
    BY DEF StoreInv, DeviceOK
  <2>3. ASSUME NEW n \in flushed..appendOffset PROVE AfterRestart(n)' = AfterRestart(n)
    <3>1. n = appendOffset /\ n = appendOffset'
      BY <2>1, <2>2
    <3> QED
      BY <2>1, <3>1, RestartFrom DEF AfterRestart
  <2>4. UNCHANGED Restarts
    BY <2>1, <2>3, SameRestarts
  <2> QED
    BY <2>4
<1>8. CASE MigrateDelete
  <2>1. UNCHANGED << appendOffset, flushed >>
    BY <1>8 DEF MigrateDelete, device
  <2>2. /\ \A n \in flushed..Len(log) : AfterRestart(n)' = AfterRestart(n)
        /\ \A n \in flushed..appendOffset : n \in flushed..Len(log)
    BY <1>8, MigrateDeleteFiles DEF StoreInv, DeviceOK
  <2>3. UNCHANGED Restarts
    BY <2>1, <2>2, SameRestarts
  <2> QED
    BY <2>3
<1>9. CASE \E n \in flushed..Len(log) : Crash(n)
  BY <1>9, CrashLoses DEF Durable!Next
<1>10. CASE UNCHANGED vars
  BY <1>10 DEF vars, stores
<1> QED
  BY <1>1, <1>2, <1>3, <1>4, <1>5, <1>6, <1>7, <1>8, <1>9, <1>10 DEF Next

\* There is one version before the worker starts.
LEMMA FilesStart == Init => Durable!Init
<1> SUFFICES ASSUME Init PROVE Durable!Init
  OBVIOUS
<1>1. StoreInv
  BY StoreInit
<1>2. Restarts \in Seq([Paths -> Rows]) /\ Len(Restarts) = 1
  <2>1. appendOffset - flushed + 1 = 1
    BY DEF Init
  <2> QED
    BY <1>1, <2>1, RestartsAre
<1>3. Restarts[1] \in [Paths -> Rows] /\ Restarts = << Restarts[1] >>
  BY <1>2
<1> QED
  BY <1>3 DEF Durable!Init, Durable!Images, Rows

\* Every restart finds each file in one of its whole versions.
THEOREM RefinesFiles == TruncationWorks /\ MovesWork => (Spec => ImplementsFiles)
<1> SUFFICES ASSUME TruncationWorks, MovesWork PROVE Spec => ImplementsFiles
  OBVIOUS
<1>1. /\ StoreInv /\ FilesInv /\ (StoreInv /\ FilesInv)' /\ [Next]_vars
      => [UNCHANGED << device, idb >> \/ Durable!Next \/ UNCHANGED Restarts]_vars
  BY FilesSimulated
<1> QED
  BY <1>1, FilesStart, FilesInvariance, PTL DEF Spec, ImplementsFiles
=============================================================================
