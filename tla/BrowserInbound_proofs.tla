------------------------- MODULE BrowserInbound_proofs -------------------------
(***************************************************************************)
(* Theorems about BrowserInbound, for every size of frames and every value *)
(* of the watermarks that satisfies WatermarkAssumption: the packets that  *)
(* wait for the client are bounded, nothing queued waits for nothing, a    *)
(* drained channel has decoded the tail, and the channel implements the    *)
(* ordered hop OrderedRelay.                                               *)
(*                                                                         *)
(* The inductive invariant is Inv.  Turns says who is responsible for what *)
(* is queued in every phase of the page's one thread, between its events   *)
(* and within them.  Stream says that what was decoded, what was cut and   *)
(* what is not cut yet are the received stream, one after the other.       *)
(***************************************************************************)
EXTENDS BrowserInbound, SequenceTheorems, WellFoundedInduction, TLAPS

-----------------------------------------------------------------------------
(* The inductive invariant.                                                *)

Queues ==
    [pending : Seq(Slices), inbound : Seq(Slices), decodeFlowPaused : BOOLEAN,
     flowPaused : BOOLEAN, slicing : {"none", "microtask", "message"},
     status : {"connected", "closed", "disposed"}, error : BOOLEAN,
     retiring : BOOLEAN, grace : 0 .. GraceRetries]

Typed == TypeOK /\ queue \in Queues

\* The exact queue is paused from its high watermark to its low one, and a
\* slice is only handed to the decoder while it is not.
Gauge ==
    /\ exactPaused => packets > PacketLow
    /\ ~exactPaused => packets < PacketHigh
    /\ task = "decode" => ~exactPaused
    /\ PacketsBounded

\* In every phase of the page, a slice has a wakeup that is pending, or comes
\* with the end of a loop that moved something, or waits for the exact queue.
SliceTurn ==
    queue.inbound /= <<>> =>
      \/ wake \/ exactPaused
      \/ task = "slices" /\ progress = "moved"
      \/ task \in {"pump", "decode"}

\* A frame that is not cut has its callback, or waits for slices or the exact
\* queue; a relay that is paused is so by an entry that is paused, and while
\* no callback cuts, only because something waits.
FrameTurn(q, exact) ==
    /\ q.pending /= <<>> => q.slicing /= "none" \/ q.inbound /= <<>> \/ exact
    /\ q.status = "connected" /\ q.flowPaused => exact \/ HasPending(q)

PauseTold == queue.status = "connected" /\ queue.flowPaused => queue.decodeFlowPaused

Turns ==
    /\ SliceTurn /\ PauseTold
    /\ task /= "slices" => FrameTurn(queue, exactPaused)
    /\ progress = "empty" => task = "slices"
    /\ task = "decode" => progress = "moved"

\* A channel that ended holds nothing, and one that has not is not disposed.
Ends ==
    /\ ended /= "no" =>
         /\ queue.status /= "connected"
         /\ queue.pending = <<>> /\ queue.inbound = <<>>
    /\ queue.status = "closed" /\ ended = "no" => remote /= "open" /\ received = Len(sent)
    /\ queue.retiring => queue.status = "closed"
    /\ ended = "no" => queue.status /= "disposed"
    /\ ~javaOpen => queue.status = "disposed"
    /\ ended = "drained" => remote /= "open" /\ received = Len(sent)

\* Where the cut slices end in the stream.
CutTo ==
    IF queue.pending = <<>> THEN Before[received] ELSE Position(queue.pending[1])

\* The frames that are not cut are the last ones received, and only the first
\* of them may be cut in part; slices are numbered on from what was decoded.
Stream ==
    /\ \A i \in 1 .. Len(queue.pending) :
         /\ queue.pending[i][1] = received - Len(queue.pending) + i
         /\ queue.pending[i][2] <= sent[queue.pending[i][1]]
         /\ i > 1 => queue.pending[i][2] = 0
    /\ \A i \in 1 .. Len(queue.inbound) :
         queue.inbound[i][1] <= received /\ Position(queue.inbound[i]) = Len(decoded) + i
    /\ \A i \in 1 .. Len(decoded) :
         decoded[i][1] <= received /\ Position(decoded[i]) = i
    /\ ended = "no" => Len(decoded) + Len(queue.inbound) = CutTo
    /\ ended = "drained" => Len(decoded) = Before[received]

Inv == Typed /\ Gauge /\ Turns /\ Ends /\ Stream
-----------------------------------------------------------------------------
(* Induction and iteration, without an operator as a parameter.            *)

\* A non-empty set of numbers has a least element.
LEMMA NatLeast ==
  ASSUME NEW T, T \subseteq Nat, T # {}
  PROVE  \E n \in T : \A m \in T : n <= m
<1> DEFINE R == OpToRel(<, Nat)
<1>1. IsWellFoundedOn(R, Nat)
  BY NatLessThanWellFounded, Zenon
<1>2. \A x, y \in Nat : (<<x, y>> \in R) <=> x < y
  BY DEF OpToRel
<1> HIDE DEF R
<1>3. PICK n \in T : \A m \in T : ~ (<<m, n>> \in R)
  BY <1>1, WFMin, Zenon
<1>4. \A m \in T : ~ (m < n)
  BY <1>2, <1>3, Zenon
<1> QED
  BY <1>4

\* A set that contains zero and the successor of each of its members contains
\* every number.
LEMMA NatAll ==
  ASSUME NEW T, 0 \in T, \A k \in Nat : k \in T => k + 1 \in T
  PROVE  Nat \subseteq T
<1> SUFFICES ASSUME Nat \ T # {} PROVE FALSE
  OBVIOUS
<1>1. PICK n \in Nat \ T : \A m \in Nat \ T : n <= m
  BY NatLeast, Zenon
<1>2. n # 0 /\ n - 1 \in Nat /\ n - 1 \in T
  BY <1>1
<1> QED
  BY <1>1, <1>2

\* Each of n steps stays in a set, and the states f that they lead through.
StaysIn(S, n, step) == \A s \in S, k \in 1..n : step[<<s, k>>] \in S

Iterates(S, base, n, step, f) ==
  /\ f \in [0..n -> S]
  /\ f[0] = base
  /\ \A k \in 1..n : f[k] = step[<<f[k - 1], k>>]

\* A recursion over 1..n has a run.
LEMMA Iteration ==
  ASSUME NEW S, NEW n \in Nat, NEW step, StaysIn(S, n, step), NEW base \in S
  PROVE  \E f : Iterates(S, base, n, step, f)
<1> DEFINE Goes(m, f) == f[0] = base /\ \A k \in 1..m : f[k] = step[<<f[k - 1], k>>]
           T == {m \in Nat : m <= n => \E f \in [0..m -> S] : Goes(m, f)}
<1>1. 0 \in T
  <2>1. [k \in 0..0 |-> base] \in [0..0 -> S] /\ Goes(0, [k \in 0..0 |-> base])
    OBVIOUS
  <2> QED
    BY <2>1, Zenon
<1>2. ASSUME NEW m \in Nat, m \in T PROVE m + 1 \in T
  <2> SUFFICES ASSUME m + 1 <= n PROVE \E f \in [0..(m + 1) -> S] : Goes(m + 1, f)
    OBVIOUS
  <2>1. PICK f \in [0..m -> S] : Goes(m, f)
    BY <1>2
  <2> DEFINE g == [k \in 0..(m + 1) |-> IF k <= m THEN f[k] ELSE step[<<f[m], m + 1>>]]
  <2>2. step[<<f[m], m + 1>>] \in S
    BY <2>1 DEF StaysIn
  <2>3. g \in [0..(m + 1) -> S]
    BY <2>1, <2>2
  <2>4. g[0] = base
    BY <2>1
  <2>5. ASSUME NEW k \in 1..(m + 1) PROVE g[k] = step[<<g[k - 1], k>>]
    <3>1. CASE k = m + 1
      BY <3>1
    <3>2. CASE k <= m
      BY <3>2, <2>1
    <3> QED
      BY <3>1, <3>2
  <2> HIDE DEF g
  <2> QED
    BY <2>3, <2>4, <2>5
<1> HIDE DEF T
<1>3. n \in T
  BY <1>1, <1>2, NatAll
<1> QED
  BY <1>3 DEF T, Iterates

-----------------------------------------------------------------------------
(* Positions in the stream.  Running is what the recursion inside Before   *)
(* computes: the sums of the sizes of the first frames.                    *)

Running(s, n, g) ==
    /\ g \in [0 .. n -> Nat] /\ g[0] = 0
    /\ \A k \in 1 .. n : g[k] = g[k - 1] + s[k]

\* The sizes of a stream have running sums.
LEMMA RunningExists ==
  ASSUME NEW s \in Seq(Nat)
  PROVE  \E g : Running(s, Len(s), g)
<1> DEFINE n == Len(s)
           step == [gk \in Nat \X (1 .. n) |-> gk[1] + s[gk[2]]]
<1>1. \A g \in Nat, k \in 1 .. n : step[<<g, k>>] = g + s[k] /\ g + s[k] \in Nat
  OBVIOUS
<1> HIDE DEF step
<1>2. StaysIn(Nat, n, step)
  BY <1>1, Zenon DEF StaysIn
<1>0. n \in Nat
  OBVIOUS
<1> HIDE DEF n
<1>3. PICK g : Iterates(Nat, 0, n, step, g)
  BY <1>0, <1>2, Iteration, Zenon
<1>4. ASSUME NEW k \in 1 .. n PROVE g[k] = g[k - 1] + s[k]
  <2>1. g[k - 1] \in Nat
    BY <1>0, <1>3 DEF Iterates
  <2> QED
    BY <1>1, <1>3, <2>1, Zenon DEF Iterates
<1> QED
  BY <1>3, <1>4, Zenon DEF Iterates, Running, n

\* The recursion up to f, as Before writes it.
Partial(s, f) ==
    LET sum[i \in 0 .. f] == IF i = 0 THEN 0 ELSE sum[i - 1] + s[i]
    IN  sum[f]

\* The recursion up to f of those sums ends in the f-th of them.
LEMMA PartialIsRunning ==
  ASSUME NEW s, NEW n \in Nat, NEW g, Running(s, n, g), NEW f \in 0 .. n
  PROVE  Partial(s, f) = g[f]
<1> DEFINE sum[i \in 0 .. f] == IF i = 0 THEN 0 ELSE sum[i - 1] + s[i]
           h == [i \in 0 .. f |-> g[i]]
           T == {i \in Nat : i <= f => sum[i] = g[i]}
<1>1. Partial(s, f) = sum[f]
  BY DEF Partial
<1>2. h = [i \in 0 .. f |-> IF i = 0 THEN 0 ELSE h[i - 1] + s[i]]
  <2>1. ASSUME NEW i \in 0 .. f
        PROVE  g[i] = IF i = 0 THEN 0 ELSE h[i - 1] + s[i]
    BY DEF Running
  <2> QED  BY <2>1
<1>3. sum = CHOOSE e : e = [i \in 0 .. f |-> IF i = 0 THEN 0 ELSE e[i - 1] + s[i]]
  BY Zenon DEF sum
<1>4. sum = [i \in 0 .. f |-> IF i = 0 THEN 0 ELSE sum[i - 1] + s[i]]
  <2> HIDE DEF h, sum
  <2> QED  BY <1>2, <1>3, Zenon
<1> HIDE DEF sum, h
<1>5. 0 \in T
  BY <1>4 DEF Running
<1>6. ASSUME NEW k \in Nat, k \in T PROVE k + 1 \in T
  <2> SUFFICES ASSUME k + 1 <= f PROVE sum[k + 1] = g[k + 1]
    OBVIOUS
  <2>1. sum[k] = g[k]
    BY <1>6
  <2>2. sum[k + 1] = sum[k] + s[k + 1]
    BY <1>4
  <2> QED  BY <2>1, <2>2 DEF Running
<1> HIDE DEF T
<1>7. f \in T
  BY <1>5, <1>6, NatAll
<1> QED
  BY <1>1, <1>7 DEF T

\* The sums of a stream: where each frame starts and ends.
Sums(s) == [f \in 0 .. Len(s) |-> Partial(s, f)]

\* Before is those sums of what was sent, in a state and in the next one.
LEMMA BeforeIsSums == Before = Sums(sent)
  BY DEF Before, Sums, Partial

\* The same after a step.
LEMMA BeforeIsSumsNext == Before' = Sums(sent')
  BY DEF Before, Sums, Partial

\* Each frame starts where the one before it ends.
LEMMA SumsRun ==
  ASSUME NEW s \in Seq(Nat)
  PROVE  /\ Running(s, Len(s), Sums(s))
         /\ \A f \in 0 .. Len(s) : Sums(s)[f] \in Nat
<1>1. PICK g : Running(s, Len(s), g)
  BY RunningExists
<1>2. ASSUME NEW f \in 0 .. Len(s) PROVE Sums(s)[f] = g[f]
  <2>1. Len(s) \in Nat
    OBVIOUS
  <2> QED  BY <1>1, <2>1, PartialIsRunning DEF Sums
<1>3. Sums(s) \in [0 .. Len(s) -> Nat]
  <2>1. \A f \in 0 .. Len(s) : Sums(s)[f] \in Nat
    BY <1>1, <1>2, Zenon DEF Running
  <2>2. Sums(s) = [f \in 0 .. Len(s) |-> Sums(s)[f]]
    BY DEF Sums
  <2> QED  BY <2>1, <2>2
<1> QED
  BY <1>1, <1>2, <1>3 DEF Running

\* Later frames start later.
LEMMA SumsGrow ==
  ASSUME NEW s \in Seq(Nat), NEW a \in 0 .. Len(s), NEW b \in 0 .. Len(s), a <= b
  PROVE  Sums(s)[a] <= Sums(s)[b]
<1> DEFINE S == Sums(s)
           T == {k \in Nat : a + k <= Len(s) => S[a] <= S[a + k]}
<1>1. Running(s, Len(s), S) /\ Len(s) \in Nat
  BY SumsRun
<1> HIDE DEF S
<1>2. 0 \in T
  <2>1. S[a] \in Nat
    BY <1>1, Zenon DEF Running
  <2> QED  BY <2>1
<1>3. ASSUME NEW k \in Nat, k \in T PROVE k + 1 \in T
  <2> SUFFICES ASSUME a + (k + 1) <= Len(s) PROVE S[a] <= S[a + (k + 1)]
    OBVIOUS
  <2>1. S[a] <= S[a + k]
    BY <1>1, <1>3
  <2>2. S[a + (k + 1)] = S[a + k] + s[a + (k + 1)] /\ s[a + (k + 1)] \in Nat
    BY <1>1 DEF Running
  <2>3. S[a] \in Nat /\ S[a + k] \in Nat
    <3>1. a + k \in 0 .. Len(s)
      BY <1>1
    <3> QED  BY <1>1, <3>1, Zenon DEF Running
  <2> QED  BY <2>1, <2>2, <2>3
<1> HIDE DEF T
<1>4. b - a \in T
  <2>1. b - a \in Nat
    BY <1>1
  <2> QED  BY <2>1, <1>2, <1>3, NatAll, Zenon
<1> QED
  BY <1>4 DEF T, S

\* A frame that is sent moves none of those before it.
LEMMA SumsAppend ==
  ASSUME NEW s \in Seq(Nat), NEW size \in Nat, NEW f \in 0 .. Len(s)
  PROVE  Sums(Append(s, size))[f] = Sums(s)[f]
<1> DEFINE S == Sums(s)
           t == Append(s, size)
           R == Sums(t)
           T == {k \in Nat : k <= Len(s) => R[k] = S[k]}
<1>1. Running(s, Len(s), S) /\ Len(s) \in Nat
  BY SumsRun
<1>2. t \in Seq(Nat) /\ Len(t) = Len(s) + 1 /\ \A k \in 1 .. Len(s) : t[k] = s[k]
  OBVIOUS
<1>3. Running(t, Len(t), R)
  BY <1>2, SumsRun, Zenon
<1> HIDE DEF S, R, t
<1>4. 0 \in T
  BY <1>1, <1>3 DEF Running
<1>5. ASSUME NEW k \in Nat, k \in T PROVE k + 1 \in T
  <2> SUFFICES ASSUME k + 1 <= Len(s) PROVE R[k + 1] = S[k + 1]
    OBVIOUS
  <2>1. R[k] = S[k]
    BY <1>5, <1>1
  <2>2. S[k + 1] = S[k] + s[k + 1]
    BY <1>1 DEF Running
  <2>3. R[k + 1] = R[k] + t[k + 1]
    BY <1>1, <1>2, <1>3 DEF Running
  <2> QED  BY <1>1, <1>2, <2>1, <2>2, <2>3
<1> HIDE DEF T
<1>6. f \in T
  <2>1. f \in Nat
    BY <1>1
  <2> QED  BY <2>1, <1>4, <1>5, NatAll, Zenon
<1> QED
  BY <1>6 DEF T, S, R, t

\* A stream is no longer than its frames can make it.
LEMMA SumsBounded ==
  ASSUME NEW s \in Seq(Nat), NEW widest \in Nat,
         \A k \in 1 .. Len(s) : s[k] <= widest, NEW f \in 0 .. Len(s)
  PROVE  Sums(s)[f] <= widest * f
<1> DEFINE S == Sums(s)
           T == {k \in Nat : k <= Len(s) => S[k] <= widest * k}
<1>1. Running(s, Len(s), S) /\ Len(s) \in Nat
  BY SumsRun
<1> HIDE DEF S
<1>2. 0 \in T
  BY <1>1 DEF Running
<1>3. ASSUME NEW k \in Nat, k \in T PROVE k + 1 \in T
  <2> SUFFICES ASSUME k + 1 <= Len(s) PROVE S[k + 1] <= widest * (k + 1)
    OBVIOUS
  <2>1. S[k] <= widest * k
    BY <1>1, <1>3
  <2>2. S[k + 1] = S[k] + s[k + 1] /\ s[k + 1] \in Nat /\ s[k + 1] <= widest
    BY <1>1 DEF Running
  <2>3. widest * (k + 1) = widest * k + widest
    OBVIOUS
  <2>4. S[k] \in Nat
    <3>1. k \in 0 .. Len(s)
      BY <1>1
    <3> QED  BY <1>1, <3>1, Zenon DEF Running
  <2>5. widest * k \in Int
    OBVIOUS
  <2> QED  BY <2>1, <2>2, <2>3, <2>4, <2>5
<1> HIDE DEF T
<1>4. f \in T
  <2>1. f \in Nat
    BY <1>1
  <2> QED  BY <2>1, <1>2, <1>3, NatAll, Zenon
<1> QED
  BY <1>4 DEF T, S

-----------------------------------------------------------------------------
(* The entry.                                                              *)

\* The watermarks are numbers, and a low one lies below its high one.
LEMMA Marks ==
    /\ SliceLow \in Nat /\ SliceHigh \in Nat /\ SliceLow < SliceHigh
    /\ FrameLow \in Nat /\ FrameHigh \in Nat /\ FrameLow < FrameHigh
    /\ BytesLow \in Nat /\ BytesHigh \in Nat /\ BytesLow < BytesHigh
    /\ PacketLow \in Nat /\ PacketHigh \in Nat /\ PacketLow < PacketHigh
    /\ MaxYield \in Nat /\ FrameBudget \in Nat /\ GraceRetries \in Nat
    /\ Sizes \subseteq Nat
<1>1. \A p \in {<<SliceLow, SliceHigh>>, <<FrameLow, FrameHigh>>,
                <<BytesLow, BytesHigh>>, <<PacketLow, PacketHigh>>} :
        p[1] \in Nat /\ p[2] \in Nat /\ p[1] < p[2]
  BY WatermarkAssumption
<1>2. \A a, b : <<a, b>> \in {<<SliceLow, SliceHigh>>, <<FrameLow, FrameHigh>>,
                <<BytesLow, BytesHigh>>, <<PacketLow, PacketHigh>>} =>
        a \in Nat /\ b \in Nat /\ a < b
  BY <1>1
<1>3. SliceLow \in Nat /\ SliceHigh \in Nat /\ SliceLow < SliceHigh
  BY <1>2
<1>4. FrameLow \in Nat /\ FrameHigh \in Nat /\ FrameLow < FrameHigh
  BY <1>2
<1>5. BytesLow \in Nat /\ BytesHigh \in Nat /\ BytesLow < BytesHigh
  BY <1>2
<1>6. PacketLow \in Nat /\ PacketHigh \in Nat /\ PacketLow < PacketHigh
  BY <1>2
<1>7. MaxYield \in Nat /\ FrameBudget \in Nat /\ GraceRetries \in Nat /\ Sizes \subseteq Nat
  BY WatermarkAssumption
<1> QED
  BY <1>3, <1>4, <1>5, <1>6, <1>7

\* An entry with other flags or another callback holds the same input.
Same(q, r) ==
    /\ r \in Queues
    /\ r.pending = q.pending /\ r.inbound = q.inbound
    /\ r.status = q.status /\ r.retiring = q.retiring

\* A paused relay has an entry that knows why.
TellsPause(q) == q.status = "connected" /\ q.flowPaused => q.decodeFlowPaused

FlowDone(q, r, exact) ==
    /\ Same(q, r) /\ r.slicing = q.slicing
    /\ TellsPause(q) =>
         /\ TellsPause(r)
         /\ r.status = "connected" /\ r.flowPaused => exact \/ HasPending(r)

\* What waits for the slice callback, in an entry that has not been disposed.
CallbackDue(q, exact) ==
    q.pending /= <<>> => q.slicing /= "none" \/ q.inbound /= <<>> \/ exact

\* Nothing queued is nothing counted.
LEMMA EmptyCounts ==
  ASSUME NEW q, q.pending = <<>>, q.inbound = <<>>
  PROVE  queuedFrameCount(q) = 0 /\ workDepth(q) = 0 /\ queuedBytes(q) = 0
<1> DEFINE left[i \in 0 .. Len(q.pending)] ==
             IF i = 0 THEN 0 ELSE left[i - 1] + Left(q.pending[i])
           g == [i \in 0 .. Len(q.pending) |-> 0]
<1>1. Len(q.pending) = 0 /\ Len(q.inbound) = 0
  OBVIOUS
<1>2. queuedBytes(q) = Len(q.inbound) + left[Len(q.pending)]
  BY DEF queuedBytes
<1>3. g = [i \in 0 .. Len(q.pending) |-> IF i = 0 THEN 0 ELSE g[i - 1] + Left(q.pending[i])]
  BY <1>1
<1>4. left = CHOOSE e : e = [i \in 0 .. Len(q.pending) |->
                               IF i = 0 THEN 0 ELSE e[i - 1] + Left(q.pending[i])]
  BY Zenon DEF left
<1>5. left = [i \in 0 .. Len(q.pending) |->
                IF i = 0 THEN 0 ELSE left[i - 1] + Left(q.pending[i])]
  <2> HIDE DEF left, g
  <2> QED  BY <1>3, <1>4, Zenon
<1> HIDE DEF left
<1>6. left[0] = 0
  BY <1>1, <1>5
<1> QED
  BY <1>1, <1>2, <1>6 DEF queuedFrameCount, workDepth

\* applyFlowControl changes flags only, and a pause it leaves has a reason.
LEMMA FlowControlled ==
  ASSUME NEW q \in Queues, NEW exact
  PROVE  FlowDone(q, applyFlowControl(q, exact), exact)
<1> DEFINE r == applyFlowControl(q, exact)
           paused == [[q EXCEPT !.decodeFlowPaused = TRUE] EXCEPT !.flowPaused = TRUE]
           resumed == [[q EXCEPT !.decodeFlowPaused = FALSE] EXCEPT !.flowPaused = FALSE]
<1>1. CASE q.status = "disposed"
  BY <1>1 DEF applyFlowControl, FlowDone, Same, TellsPause
<1>2. CASE q.status /= "disposed" /\ MustPause(q, exact)
  <2>1. ~exact => HasPending(q)
    <3>1. CASE ~HasPending(q) /\ ~exact
      BY <1>2, <3>1, EmptyCounts, Marks DEF MustPause, HasPending
    <3> QED  BY <3>1
  <2>2. r = setInboundPaused([q EXCEPT !.decodeFlowPaused = TRUE], TRUE)
    BY <1>2 DEF applyFlowControl
  <2>3. CASE q.status = "connected"
    <3>1. r = paused
      BY <2>2, <2>3 DEF setInboundPaused, Queues
    <3> QED  BY <2>1, <3>1, Zenon DEF FlowDone, Same, TellsPause, Queues, HasPending
  <2>4. CASE q.status /= "connected"
    <3>1. r = [q EXCEPT !.decodeFlowPaused = TRUE]
      BY <2>2, <2>4 DEF setInboundPaused, Queues
    <3> QED  BY <2>4, <3>1, Zenon DEF FlowDone, Same, TellsPause, Queues
  <2> QED  BY <2>3, <2>4
<1>3. CASE q.status /= "disposed" /\ ~MustPause(q, exact) /\ MayResume(q, exact)
  <2>1. r = setInboundPaused([q EXCEPT !.decodeFlowPaused = FALSE], FALSE)
    BY <1>3 DEF applyFlowControl
  <2>2. CASE q.status = "connected"
    <3>1. r = resumed
      BY <2>1, <2>2 DEF setInboundPaused, Queues
    <3> QED  BY <3>1, Zenon DEF FlowDone, Same, TellsPause, Queues
  <2>3. CASE q.status /= "connected"
    <3>1. r = [q EXCEPT !.decodeFlowPaused = FALSE]
      BY <2>1, <2>3 DEF setInboundPaused, Queues
    <3> QED  BY <2>3, <3>1, Zenon DEF FlowDone, Same, TellsPause, Queues
  <2> QED  BY <2>2, <2>3
<1>4. CASE q.status /= "disposed" /\ ~MustPause(q, exact) /\ ~MayResume(q, exact)
  <2>1. r = q
    BY <1>4 DEF applyFlowControl
  <2>2. q.decodeFlowPaused => exact \/ HasPending(q)
    <3>1. CASE ~HasPending(q) /\ ~exact
      BY <1>4, <3>1, EmptyCounts, Marks DEF MayResume, HasPending
    <3> QED  BY <3>1
  <2> QED  BY <2>1, <2>2 DEF FlowDone, Same, TellsPause
<1> QED
  BY <1>1, <1>2, <1>3, <1>4

ScheduleDone(q, r, exact) ==
    /\ Same(q, r)
    /\ r.flowPaused = q.flowPaused /\ r.decodeFlowPaused = q.decodeFlowPaused
    /\ (q.status = "disposed" => q.pending = <<>>) => CallbackDue(r, exact)

\* scheduleSlices posts the callback, unless there is one, or slices that wait
\* or the exact queue will lead to one.
LEMMA SlicesScheduled ==
  ASSUME NEW q \in Queues, NEW exact, NEW how \in {"microtask", "message"}
  PROVE  ScheduleDone(q, scheduleSlices(q, exact, how), exact)
<1> DEFINE r == scheduleSlices(q, exact, how)
           kept == \/ q.status = "disposed" \/ q.slicing /= "none" \/ q.pending = <<>>
                   \/ workDepth(q) >= SliceHigh
                   \/ shouldBlockInboundSliceAdmission(q, exact)
<1>1. CASE kept
  <2>1. r = q
    BY <1>1 DEF scheduleSlices
  <2>2. workDepth(q) > SliceLow \/ workDepth(q) >= SliceHigh => q.inbound /= <<>>
    <3>1. q.inbound = <<>> => Len(q.inbound) = 0
      OBVIOUS
    <3> QED  BY <3>1, Marks DEF workDepth
  <2> QED
    BY <1>1, <2>1, <2>2 DEF ScheduleDone, Same, CallbackDue, shouldBlockInboundSliceAdmission
<1>2. CASE ~kept
  <2>1. r = [q EXCEPT !.slicing = how]
    BY <1>2 DEF scheduleSlices
  <2> QED
    BY <2>1, Zenon DEF ScheduleDone, Same, CallbackDue, Queues
<1> QED
  BY <1>1, <1>2

\* Settle leaves an entry that tells its pause and whose frames have their turn.
LEMMA Settles ==
  ASSUME NEW q \in Queues, NEW exact, NEW how \in {"microtask", "message"},
         TellsPause(q), q.status = "disposed" => q.pending = <<>>
  PROVE  /\ Same(q, Settle(q, exact, how))
         /\ TellsPause(Settle(q, exact, how))
         /\ FrameTurn(Settle(q, exact, how), exact)
<1> DEFINE p == applyFlowControl(q, exact)
           r == scheduleSlices(p, exact, how)
<1>1. FlowDone(q, p, exact)
  BY FlowControlled
<1>2. p \in Queues
  BY <1>1 DEF FlowDone, Same
<1> HIDE DEF p
<1>3. ScheduleDone(p, r, exact)
  BY <1>2, SlicesScheduled
<1>4. Settle(q, exact, how) = r
  BY DEF Settle, p
<1> HIDE DEF r
<1>5. Same(q, r) /\ TellsPause(r)
  BY <1>1, <1>3 DEF FlowDone, ScheduleDone, Same, TellsPause
<1>6. FrameTurn(r, exact)
  BY <1>1, <1>3 DEF FlowDone, ScheduleDone, Same, TellsPause, CallbackDue, FrameTurn, HasPending
<1> QED
  BY <1>4, <1>5, <1>6

\* What the relay is told is a flag.
LEMMA ToldType ==
  ASSUME flows \in Seq(BOOLEAN), NEW q \in Queues, Told(q)
  PROVE  flows' \in Seq(BOOLEAN)
<1>1. q.flowPaused \in BOOLEAN
  BY Zenon DEF Queues
<1>2. PICK b \in BOOLEAN : b = q.flowPaused
  BY <1>1, Zenon
<1>3. flows' = flows \/ flows' = Append(flows, b)
  BY <1>2, Zenon DEF Told
<1> QED
  BY <1>3

\* What discardInbound leaves.
LEMMA Discarded ==
  ASSUME NEW q \in Queues
  PROVE  /\ fail(q) \in Queues /\ closeEntry(q) \in Queues
         /\ fail(q).pending = <<>> /\ closeEntry(q).pending = <<>>
         /\ fail(q).inbound = <<>> /\ closeEntry(q).inbound = <<>>
         /\ fail(q).status = "closed" /\ closeEntry(q).status = "disposed"
         /\ closeEntry(q).retiring = FALSE
<1> DEFINE d == discardInbound(q)
           c == [[d EXCEPT !.status = "closed"] EXCEPT !.error = TRUE]
<1>1. /\ d \in Queues /\ d.pending = <<>> /\ d.inbound = <<>>
  <2> DEFINE e == [[q EXCEPT !.pending = <<>>] EXCEPT !.inbound = <<>>]
             f == [[e EXCEPT !.slicing = "none"] EXCEPT !.decodeFlowPaused = FALSE]
  <2>1. e \in Queues /\ e.pending = <<>> /\ e.inbound = <<>>
    <3>0. <<>> \in Seq(Slices)
      OBVIOUS
    <3>1. PICK nil \in Seq(Slices) : nil = <<>>
      BY <3>0, Zenon
    <3>2. e = [[q EXCEPT !.pending = nil] EXCEPT !.inbound = nil]
      BY <3>1
    <3> HIDE DEF e
    <3>3. e \in Queues /\ e.pending = nil /\ e.inbound = nil
      BY <3>2, Zenon DEF Queues
    <3> QED  BY <3>1, <3>3
  <2>2. d = [[[e EXCEPT !.slicing = "none"] EXCEPT !.decodeFlowPaused = FALSE]
               EXCEPT !.flowPaused = FALSE]
    BY DEF discardInbound, Queues
  <2> HIDE DEF e
  <2>3. f \in Queues /\ f.pending = <<>> /\ f.inbound = <<>>
    BY <2>1, Zenon DEF Queues
  <2> HIDE DEF f, d
  <2>4. d = [f EXCEPT !.flowPaused = FALSE]
    BY <2>2 DEF f
  <2> QED  BY <2>3, <2>4, Zenon DEF Queues
<1> HIDE DEF d
<1>2. /\ c \in Queues /\ c.pending = <<>> /\ c.inbound = <<>> /\ c.status = "closed"
  BY <1>1, Zenon DEF Queues
<1>3. c = [d EXCEPT !.status = "closed", !.error = TRUE]
  BY <1>1 DEF Queues
<1>4. fail(q) = retireClosedEntry(c)
  BY <1>3 DEF fail, d
<1> HIDE DEF c
<1>5. /\ fail(q) \in Queues /\ fail(q).pending = <<>> /\ fail(q).inbound = <<>>
      /\ fail(q).status = "closed"
  BY <1>2, <1>4, Zenon DEF retireClosedEntry, Queues
<1>6. closeEntry(q) = [d EXCEPT !.status = "disposed", !.retiring = FALSE]
  BY DEF closeEntry, d
<1>7. /\ closeEntry(q) \in Queues /\ closeEntry(q).pending = <<>>
      /\ closeEntry(q).inbound = <<>> /\ closeEntry(q).status = "disposed"
      /\ closeEntry(q).retiring = FALSE
  BY <1>1, <1>6, Zenon DEF Queues
<1> QED
  BY <1>5, <1>7

-----------------------------------------------------------------------------
(* What the steps have in common.                                          *)

\* state.open leaves an entry that satisfies the invariant.
LEMMA Initially == Init => Inv
<1> SUFFICES ASSUME Init PROVE Inv
  OBVIOUS
<1>1. EmptyQueue \in Queues
  BY Marks DEF EmptyQueue, Queues
<1>2. Typed
  <2>1. /\ EmptyQueue.decodeFlowPaused \in BOOLEAN /\ EmptyQueue.flowPaused \in BOOLEAN
        /\ EmptyQueue.error \in BOOLEAN /\ EmptyQueue.retiring \in BOOLEAN
    BY DEF EmptyQueue
  <2>2. /\ EmptyQueue.pending \in Seq(Slices) /\ EmptyQueue.inbound \in Seq(Slices)
        /\ EmptyQueue.slicing \in {"none", "microtask", "message"}
        /\ EmptyQueue.status \in {"connected", "closed", "disposed"}
        /\ EmptyQueue.grace \in 0 .. GraceRetries
    BY <1>1 DEF Queues
  <2>3. sent \in Seq(Sizes) /\ Len(sent) <= FrameBudget /\ received \in 0 .. Len(sent)
    BY Marks DEF Init
  <2>4. flows \in Seq(BOOLEAN) /\ decoded \in Seq(Slices) /\ packets \in Nat
    BY DEF Init
  <2> QED  BY <1>1, <2>1, <2>2, <2>3, <2>4, Zenon DEF Init, Typed, TypeOK, Codes
<1>3. Gauge
  BY Marks DEF Init, Gauge, PacketsBounded
<1>4. Turns
  BY DEF Init, Turns, SliceTurn, PauseTold, FrameTurn, EmptyQueue
<1>5. Ends
  BY DEF Init, Ends, EmptyQueue
<1>6. Stream
  <2>1. sent \in Seq(Nat) /\ Len(sent) = 0
    BY DEF Init
  <2>2. Before[0] = 0
    BY <2>1, BeforeIsSums, SumsRun, Zenon DEF Running
  <2> QED
    BY <2>2 DEF Init, Stream, CutTo, EmptyQueue
<1> QED
  BY <1>2, <1>3, <1>4, <1>5, <1>6 DEF Inv

\* The stream while nothing is sent, received, cut or decoded.
LEMMA StreamKept ==
  ASSUME Stream, queue'.pending = queue.pending, queue'.inbound = queue.inbound,
         UNCHANGED <<sent, received, decoded>>,
         ended' = "no" => ended = "no",
         ended' = "drained" => ended = "drained" \/ Len(decoded) = Before[received]
  PROVE  Stream'
<1>1. Before' = Before
  BY BeforeIsSums, BeforeIsSumsNext
<1>2. CutTo' = CutTo
  BY <1>1 DEF CutTo, Position
<1> QED
  BY <1>1, <1>2 DEF Stream, Position

\* The stream when what is queued is dropped.
LEMMA StreamDropped ==
  ASSUME Typed, Stream, queue'.pending = <<>>, queue'.inbound = <<>>,
         UNCHANGED <<sent, decoded>>, received' \in received .. Len(sent),
         ended' /= "no",
         ended' = "drained" => received' = received /\ Len(decoded) = Before[received]
  PROVE  Stream'
<1>1. Before' = Before
  BY BeforeIsSums, BeforeIsSumsNext
<1>2. received \in Nat /\ received' \in Nat /\ received <= received'
  BY DEF Typed, TypeOK
<1>3. decoded \in Seq(Slices)
  BY DEF Typed, TypeOK
<1>4. ASSUME NEW i \in 1 .. Len(decoded)
      PROVE  decoded[i][1] <= received' /\ Position(decoded[i]) = i
  <2>1. decoded[i] \in Slices
    BY <1>3
  <2>2. decoded[i][1] \in Nat
    BY <2>1 DEF Slices, Frames
  <2> QED  BY <1>2, <2>2 DEF Stream
<1>5. Len(<<>>) = 0
  OBVIOUS
<1> QED
  BY <1>1, <1>4, <1>5 DEF Stream, Position

\* The entry's part of the invariant after a step that changes its flags.
LEMMA EndsKept ==
  ASSUME Ends, queue'.pending = queue.pending, queue'.inbound = queue.inbound,
         queue'.status = queue.status, queue'.retiring = queue.retiring,
         UNCHANGED <<sent, received, ended, javaOpen>>, remote' = remote \/ remote' /= "open"
  PROVE  Ends'
  BY DEF Ends

\* state.close empties the entry and ends the channel.
LEMMA Closes ==
  ASSUME Inv, NEW reason \in {"failed", "left", "drained", "expired", "error"},
         queue' = closeEntry(queue), EndedBy(reason),
         UNCHANGED <<sent, received, decoded, remote>>,
         reason = "drained" => queue.status /= "connected" /\ ~HasPending(queue)
  PROVE  /\ queue' \in Queues /\ Ends' /\ Stream'
         /\ ended' \in {"failed", "left", "drained", "expired", "error"}
         /\ queue'.pending = <<>> /\ queue'.inbound = <<>> /\ queue'.status = "disposed"
<1>1. /\ queue' \in Queues /\ queue'.pending = <<>> /\ queue'.inbound = <<>>
      /\ queue'.status = "disposed" /\ queue'.retiring = FALSE
  BY Discarded, Zenon DEF Inv, Typed
<1>2. ended' \in {"failed", "left", "drained", "expired", "error"}
  BY DEF Inv, Typed, TypeOK, EndedBy
<1>3. ended' = "drained" /\ ended = "no" =>
        /\ remote /= "open" /\ received = Len(sent)
        /\ Len(decoded) = Before[received]
  <2> SUFFICES ASSUME ended' = "drained", ended = "no"
               PROVE  /\ remote /= "open" /\ received = Len(sent)
                      /\ Len(decoded) = Before[received]
    OBVIOUS
  <2>1. queue.status /= "connected" /\ ~HasPending(queue)
    BY DEF EndedBy
  <2>2. queue.status = "closed"
    BY <2>1 DEF Inv, Ends, Typed, Queues
  <2>3. Len(queue.inbound) = 0 /\ Len(decoded) + Len(queue.inbound) = Before[received]
    BY <2>1 DEF HasPending, Inv, Stream, CutTo
  <2>4. Len(decoded) \in Nat
    BY DEF Inv, Typed, TypeOK
  <2> QED  BY <2>2, <2>3, <2>4 DEF Inv, Ends
<1>4. ended' = "drained" => ended \in {"no", "drained"}
  BY DEF EndedBy
<1>5. Ends'
  BY <1>1, <1>2, <1>3, <1>4 DEF Inv, Ends
<1>6. received' \in received .. Len(sent)
  BY DEF Inv, Typed, TypeOK
<1>7. Stream'
  <2>1. ended' = "drained" => Len(decoded) = Before[received]
    BY <1>3, <1>4 DEF Inv, Stream
  <2> QED  BY <1>1, <1>2, <1>6, <2>1, StreamDropped DEF Inv
<1> QED
  BY <1>1, <1>2, <1>5, <1>7

\* Types after a step, from those of what it changes.
Retyped ==
    /\ sent' \in Seq(Sizes) /\ Len(sent') <= FrameBudget
    /\ received' \in 0 .. Len(sent')
    /\ relayPaused' \in BOOLEAN /\ flows' \in Seq(BOOLEAN)
    /\ remote' \in {"open", "gone"} \cup Codes
    /\ queue' \in Queues
    /\ exactPaused' \in BOOLEAN /\ wake' \in BOOLEAN
    /\ task' \in {"none", "slices", "pump", "decode"}
    /\ progress' \in {"none", "empty", "moved"} /\ packets' \in Nat
    /\ javaOpen' \in BOOLEAN /\ decoded' \in Seq(Slices)
    /\ ended' \in {"no", "failed", "left", "drained", "expired", "error"}

\* A step that keeps those types keeps Typed.
LEMMA TypedNext == ASSUME Retyped PROVE Typed'
<1>1. /\ queue'.decodeFlowPaused \in BOOLEAN /\ queue'.flowPaused \in BOOLEAN
      /\ queue'.error \in BOOLEAN /\ queue'.retiring \in BOOLEAN
  BY Zenon DEF Retyped, Queues
<1>2. /\ queue'.pending \in Seq(Slices) /\ queue'.inbound \in Seq(Slices)
      /\ queue'.slicing \in {"none", "microtask", "message"}
      /\ queue'.status \in {"connected", "closed", "disposed"}
      /\ queue'.grace \in 0 .. GraceRetries
  BY DEF Retyped, Queues
<1> QED
  BY <1>1, <1>2, Zenon DEF Retyped, Typed, TypeOK

-----------------------------------------------------------------------------
(* The relay and the WebSocket.                                            *)

\* An entry that state.close disposed of holds nothing.
LEMMA DisposedIsEmpty ==
  ASSUME Inv, queue.status = "disposed"
  PROVE  queue.pending = <<>> /\ queue.inbound = <<>>
  BY DEF Inv, Ends

\* What the sums are about.
LEMMA SentSizes ==
  ASSUME Typed
  PROVE  /\ sent \in Seq(Nat) /\ received \in 0 .. Len(sent)
         /\ Before = Sums(sent) /\ Before[received] \in Nat
<1>1. sent \in Seq(Nat)
  <2>1. Sizes \subseteq Nat
    BY Marks
  <2> QED  BY <2>1, SeqMonotonic, Zenon DEF Typed, TypeOK
<1> QED
  BY <1>1, BeforeIsSums, SumsRun DEF Typed, TypeOK

\* A slice of a frame that was sent keeps its position when one more is sent.
LEMMA PositionKept ==
  ASSUME Typed, NEW size \in Nat, sent' = Append(sent, size), NEW slice \in Slices,
         slice[1] <= received
  PROVE  Position(slice)' = Position(slice)
<1>1. sent \in Seq(Nat) /\ received \in 0 .. Len(sent) /\ Len(sent) \in Nat
  BY SentSizes
<1>2. slice[1] - 1 \in 0 .. Len(sent)
  BY <1>1, Marks DEF Slices, Frames
<1>3. Before'[slice[1] - 1] = Before[slice[1] - 1]
  BY <1>1, <1>2, SumsAppend, BeforeIsSums, BeforeIsSumsNext
<1> QED
  BY <1>3 DEF Position

\* A frame the relay sends moves nothing that was received.
LEMMA RelaySendsKeeps == ASSUME Inv, RelaySends PROVE Inv'
<1>1. PICK size \in Sizes : sent' = Append(sent, size)
  BY DEF RelaySends
<1>2. size \in Nat /\ Typed /\ Stream
  BY Marks DEF Inv
<1>3. sent \in Seq(Nat) /\ received \in 0 .. Len(sent) /\ Len(sent) \in Nat
  BY <1>2, SentSizes
<1>4. /\ UNCHANGED <<received, queue, exactPaused, wake, task, progress, packets,
                     javaOpen, decoded, ended, remote>>
      /\ remote = "open"
  BY DEF RelaySends
<1>5. Retyped
  <2>1. sent' \in Seq(Sizes) /\ Len(sent') = Len(sent) + 1
    BY <1>1, <1>2 DEF Typed, TypeOK
  <2>2. received' \in 0 .. Len(sent') /\ Len(sent') <= FrameBudget
    BY <1>3, <2>1, Marks DEF RelaySends
  <2> QED
    BY <1>2, <2>1, <2>2, Zenon DEF RelaySends, Retyped, Typed, TypeOK
<1>6. Gauge' /\ Turns'
  BY <1>4 DEF Inv, Gauge, PacketsBounded, Turns, SliceTurn, PauseTold, FrameTurn, HasPending
<1>7. Ends'
  BY <1>4 DEF Inv, Ends
<1>8. Stream'
  <2>1. queue.pending \in Seq(Slices) /\ queue.inbound \in Seq(Slices) /\ decoded \in Seq(Slices)
    BY <1>2 DEF Typed, TypeOK
  <2>2. Before'[received] = Before[received]
    BY <1>1, <1>2, <1>3, SumsAppend, BeforeIsSums, BeforeIsSumsNext
  <2>3. ASSUME NEW i \in 1 .. Len(queue.pending)
        PROVE  /\ queue.pending[i][1] <= received
               /\ sent'[queue.pending[i][1]] = sent[queue.pending[i][1]]
    <3>1. queue.pending[i][1] = received - Len(queue.pending) + i
      BY <1>2 DEF Stream
    <3>2. queue.pending[i] \in Slices
      BY <2>1
    <3>3. queue.pending[i][1] \in Nat /\ queue.pending[i][1] >= 1
      BY <3>2, Marks DEF Slices, Frames
    <3>4. queue.pending[i][1] \in 1 .. Len(sent)
      BY <1>3, <2>1, <3>1, <3>3
    <3> QED  BY <1>1, <1>2, <1>3, <2>1, <3>1, <3>4
  <2>4. CutTo' = CutTo
    <3>1. CASE queue.pending = <<>>
      BY <1>4, <2>2, <3>1 DEF CutTo
    <3>2. CASE queue.pending /= <<>>
      <4>1. 1 \in 1 .. Len(queue.pending) /\ queue.pending[1] \in Slices
        BY <2>1, <3>2
      <4>2. Position(queue.pending[1])' = Position(queue.pending[1])
        <5>1. Position(queue.pending[1])' = Before'[queue.pending[1][1] - 1] + queue.pending[1][2]
          BY <1>4 DEF Position
        <5>2. Before'[queue.pending[1][1] - 1] = Before[queue.pending[1][1] - 1]
          <6>1. queue.pending[1][1] - 1 \in 0 .. Len(sent)
            BY <1>3, <2>3, <4>1, Marks, SMTT(30) DEF Slices, Frames
          <6> QED  BY <1>1, <1>2, <1>3, <6>1, SumsAppend, BeforeIsSums, BeforeIsSumsNext
        <5> QED  BY <5>1, <5>2 DEF Position
      <4> QED  BY <1>4, <3>2, <4>2 DEF CutTo
    <3> QED  BY <3>1, <3>2
  <2>5. \A slice \in Slices : slice[1] <= received =>
          Before'[slice[1] - 1] + slice[2] = Position(slice)
    BY <1>1, <1>2, PositionKept DEF Position
  <2>6. ASSUME NEW i \in 1 .. Len(queue.inbound)
        PROVE  /\ queue.inbound[i][1] <= received
               /\ Before'[queue.inbound[i][1] - 1] + queue.inbound[i][2] = Len(decoded) + i
    BY <1>2, <2>1, <2>5 DEF Stream
  <2>7. ASSUME NEW i \in 1 .. Len(decoded)
        PROVE  /\ decoded[i][1] <= received
               /\ Before'[decoded[i][1] - 1] + decoded[i][2] = i
    BY <1>2, <2>1, <2>5 DEF Stream
  <2> QED
    BY <1>2, <1>4, <2>2, <2>3, <2>4, <2>6, <2>7 DEF Stream, Position
<1> QED
  BY <1>5, <1>6, <1>7, <1>8, TypedNext DEF Inv

\* A flow message the relay takes changes nothing in the page.
LEMMA RelayTakesFlowKeeps == ASSUME Inv, RelayTakesFlow PROVE Inv'
<1>1. UNCHANGED <<sent, received, remote, queue, exactPaused, wake, task, progress,
                  packets, javaOpen, decoded, ended>>
  BY DEF RelayTakesFlow
<1>2. Retyped
  <2>1. flows \in Seq(BOOLEAN) /\ flows /= <<>>
    BY DEF Inv, Typed, TypeOK, RelayTakesFlow
  <2>2. Head(flows) \in BOOLEAN /\ Tail(flows) \in Seq(BOOLEAN)
    BY <2>1
  <2>3. relayPaused' \in BOOLEAN /\ flows' \in Seq(BOOLEAN)
    BY <2>2, Zenon DEF RelayTakesFlow
  <2> QED
    BY <1>1, <2>3, ZenonT(60) DEF Inv, Retyped, Typed, TypeOK
<1>3. Gauge' /\ Turns'
  BY <1>1 DEF Inv, Gauge, PacketsBounded, Turns, SliceTurn, PauseTold, FrameTurn, HasPending
<1>4. Ends' /\ Stream'
  BY <1>1, EndsKept, StreamKept DEF Inv
<1> QED
  BY <1>2, <1>3, <1>4, TypedNext DEF Inv

\* Nor does its close, which stops what is sent.
LEMMA RelayClosesKeeps == ASSUME Inv, RelayCloses PROVE Inv'
<1>1. /\ UNCHANGED <<sent, received, flows, queue, exactPaused, wake, task, progress,
                     packets, javaOpen, decoded, ended>>
      /\ remote' /= "open"
  BY DEF RelayCloses, Codes
<1>2. Retyped
  BY ZenonT(60) DEF RelayCloses, Inv, Retyped, Typed, TypeOK
<1>3. Gauge' /\ Turns'
  BY <1>1 DEF Inv, Gauge, PacketsBounded, Turns, SliceTurn, PauseTold, FrameTurn, HasPending
<1>4. Ends' /\ Stream'
  BY <1>1, EndsKept, StreamKept DEF Inv
<1> QED
  BY <1>2, <1>3, <1>4, TypedNext DEF Inv

\* A failure empties the entry, closes it and ends the channel.
LEMMA Fails ==
  ASSUME Inv, queue' = fail(queue), EndedBy("failed"), queue.status = "connected",
         UNCHANGED <<sent, decoded, remote, javaOpen>>, received' \in received .. Len(sent)
  PROVE  /\ queue' \in Queues /\ Ends' /\ Stream'
         /\ ended' \in {"no", "failed", "left", "drained", "expired", "error"}
         /\ queue'.pending = <<>> /\ queue'.inbound = <<>> /\ queue'.status = "closed"
<1>1. /\ queue' \in Queues /\ queue'.pending = <<>> /\ queue'.inbound = <<>>
      /\ queue'.status = "closed"
  BY Discarded, Zenon DEF Inv, Typed
<1>2. ended = "no" /\ ended' = "failed"
  BY DEF Inv, Ends, EndedBy
<1>3. Ends'
  BY <1>1, <1>2 DEF Inv, Ends
<1>4. Stream'
  BY <1>1, <1>2, StreamDropped DEF Inv
<1> QED
  BY <1>1, <1>2, <1>3, <1>4

\* Everything is in order when the entry holds nothing and is not connected.
LEMMA EmptyTurns ==
  ASSUME Turns, queue'.pending = <<>>, queue'.inbound = <<>>, queue'.status /= "connected",
         progress' = progress, task' = task \/ (task /= "slices" /\ task' = "pump")
  PROVE  Turns'
  BY DEF Turns, SliceTurn, PauseTold, FrameTurn

\* onerror fails the entry.
LEMMA OnErrorKeeps == ASSUME Inv, OnError PROVE Inv'
<1>1. received \in received .. Len(sent)
  BY DEF Inv, Typed, TypeOK
<1>2. /\ queue' \in Queues /\ Ends' /\ Stream'
      /\ ended' \in {"no", "failed", "left", "drained", "expired", "error"}
      /\ queue'.pending = <<>> /\ queue'.inbound = <<>> /\ queue'.status = "closed"
  BY <1>1, Fails DEF OnError, relay
<1>3. Retyped
  BY <1>2, Zenon DEF OnError, relay, Inv, Retyped, Typed, TypeOK
<1>4. Gauge'
  BY DEF OnError, Inv, Gauge, PacketsBounded
<1>5. Turns'
  <2>1. Turns /\ queue'.status /= "connected" /\ progress' = progress /\ task' = task
    BY <1>2 DEF OnError, Inv
  <2> QED  BY <1>2, <2>1, EmptyTurns
<1> QED
  BY <1>2, <1>3, <1>4, <1>5, TypedNext DEF Inv

\* What is appended is the last element, and the others stay.
LEMMA Appended ==
  ASSUME NEW S, NEW s \in Seq(S), NEW e \in S
  PROVE  /\ Len(s) \in Nat /\ Append(s, e) \in Seq(S) /\ Len(Append(s, e)) = Len(s) + 1
         /\ Append(s, e)[Len(s) + 1] = e
         /\ \A i \in 1 .. Len(s) : Append(s, e)[i] = s[i]
  OBVIOUS

\* The stream when a frame is received and queued behind the others.
LEMMA StreamQueued ==
  ASSUME Inv, received < Len(sent), received' = received + 1, ended = "no",
         queue'.pending = Append(queue.pending, <<received + 1, 0>>),
         queue'.inbound = queue.inbound, UNCHANGED <<sent, decoded, ended>>
  PROVE  Stream'
<1>1. /\ sent \in Seq(Nat) /\ received \in Nat /\ Len(sent) \in Nat
      /\ queue.pending \in Seq(Slices) /\ queue.inbound \in Seq(Slices)
      /\ decoded \in Seq(Slices)
  BY SentSizes DEF Inv, Typed, TypeOK
<1>2. Before' = Before
  BY BeforeIsSums, BeforeIsSumsNext
<1> DEFINE n == Len(queue.pending)
           p == queue'.pending
           item == <<received + 1, 0>>
<1>3. item \in Slices
  <2>1. Len(sent) <= FrameBudget
    BY DEF Inv, Typed, TypeOK
  <2>2. received + 1 \in 1 .. FrameBudget
    BY <1>1, <2>1, Marks
  <2> QED  BY <2>2 DEF Slices, Frames
<1>4. /\ n \in Nat /\ Len(p) = n + 1 /\ p[n + 1] = item
      /\ \A i \in 1 .. n : p[i] = queue.pending[i]
  <2> HIDE DEF item
  <2> QED  BY <1>1, <1>3, Appended, SMTT(30) DEF item
<1> HIDE DEF n, p
<1>5. item[1] = received + 1 /\ item[2] = 0
  OBVIOUS
<1> HIDE DEF item
<1>6. ASSUME NEW i \in 1 .. Len(p)
      PROVE  /\ p[i][1] = received' - Len(p) + i
             /\ p[i][2] <= sent'[p[i][1]]
             /\ i > 1 => p[i][2] = 0
  <2>1. CASE i = n + 1
    <3>1. sent[received + 1] \in Nat
      BY <1>1, SMTT(30)
    <3> QED  BY <1>1, <1>4, <1>5, <2>1, <3>1
  <2>2. CASE i \in 1 .. n
    <3>1. /\ queue.pending[i][1] = received - n + i
          /\ queue.pending[i][2] <= sent[queue.pending[i][1]]
          /\ i > 1 => queue.pending[i][2] = 0
      BY <2>2 DEF Inv, Stream, n
    <3>2. p[i] = queue.pending[i] /\ Len(p) = n + 1 /\ n \in Nat
      BY <1>4, <2>2
    <3>3. received' - Len(p) + i = received - n + i
      BY <1>1, <2>2, <3>2
    <3> QED  BY <3>1, <3>2, <3>3, Zenon
  <2> QED  BY <1>4, <2>1, <2>2
<1>7. CutTo' = CutTo
  <2>1. p /= <<>>
    BY <1>4
  <2>2. CutTo' = Before[p[1][1] - 1] + p[1][2]
    BY <1>2, <2>1, Zenon DEF CutTo, Position, p
  <2>3. CASE n = 0
    <3>1. CutTo = Before[received]
      BY <1>1, <2>3 DEF CutTo, n
    <3>2. p[1][1] = received + 1 /\ p[1][2] = 0
      BY <1>4, <1>5, <2>3
    <3>3. Before[received] \in Nat
      BY SentSizes DEF Inv
    <3> QED  BY <1>1, <2>2, <3>1, <3>2, <3>3
  <2>4. CASE n /= 0
    <3>1. queue.pending /= <<>> /\ p[1] = queue.pending[1]
      BY <1>1, <1>4, <2>4 DEF n
    <3> QED  BY <2>2, <3>1 DEF CutTo, Position
  <2> QED  BY <2>3, <2>4
<1>8. ASSUME NEW i \in 1 .. Len(queue.inbound)
      PROVE  /\ queue.inbound[i][1] <= received'
             /\ Position(queue.inbound[i])' = Len(decoded) + i
  <2>1. queue.inbound[i][1] <= received /\ Position(queue.inbound[i]) = Len(decoded) + i
    BY DEF Inv, Stream
  <2>2. queue.inbound[i] \in Slices
    BY <1>1
  <2>3. queue.inbound[i][1] \in Nat
    BY <2>2, Marks DEF Slices, Frames
  <2> QED  BY <1>1, <1>2, <2>1, <2>3, SMTT(30) DEF Position
<1>9. ASSUME NEW i \in 1 .. Len(decoded)
      PROVE  decoded[i][1] <= received' /\ Position(decoded[i])' = i
  <2>1. decoded[i][1] <= received /\ Position(decoded[i]) = i
    BY DEF Inv, Stream
  <2>2. decoded[i] \in Slices
    BY <1>1
  <2>3. decoded[i][1] \in Nat
    BY <2>2, Marks DEF Slices, Frames
  <2> QED  BY <1>1, <1>2, <2>1, <2>3 DEF Position
<1>10. Len(decoded) + Len(queue.inbound) = CutTo
  BY DEF Inv, Stream
<1> QED
  BY <1>2, <1>6, <1>7, <1>8, <1>9, <1>10 DEF Stream, Position, p

\* onmessage and deliverInbound queue a frame and settle, or fail the entry.
LEMMA OnMessageKeeps == ASSUME Inv, OnMessage PROVE Inv'
<1>1. /\ queue.status = "connected" /\ received < Len(sent) /\ received' = received + 1
      /\ UNCHANGED <<relay, exactPaused, wake, task, progress, packets, javaOpen, decoded>>
      /\ task = "none"
  BY DEF OnMessage, Quiet
<1>2. sent \in Seq(Nat) /\ received \in Nat /\ Len(sent) \in Nat
  BY SentSizes DEF Inv
<1>3. received' \in 0 .. Len(sent) /\ received' \in received .. Len(sent) /\ UNCHANGED <<sent, remote>>
  BY <1>1, <1>2 DEF relay
<1>4. ended = "no"
  BY <1>1 DEF Inv, Ends
<1>5. Gauge'
  BY <1>1 DEF Inv, Gauge, PacketsBounded
<1>6. CASE Overflows(sent[received + 1])
  <2>1. queue' = fail(queue) /\ EndedBy("failed") /\ UNCHANGED flows
    BY <1>6 DEF OnMessage
  <2>2. /\ queue' \in Queues /\ Ends' /\ Stream'
        /\ ended' \in {"no", "failed", "left", "drained", "expired", "error"}
        /\ queue'.pending = <<>> /\ queue'.inbound = <<>> /\ queue'.status = "closed"
    BY <1>1, <1>3, <2>1, Fails DEF relay
  <2>3. Retyped
    BY <1>1, <1>3, <2>1, <2>2, Zenon DEF relay, Inv, Retyped, Typed, TypeOK
  <2>4. Turns'
    <3>1. Turns /\ queue'.status /= "connected" /\ progress' = progress /\ task' = task
      BY <1>1, <2>2 DEF Inv
    <3> QED  BY <2>2, <3>1, EmptyTurns
  <2> QED  BY <1>5, <2>2, <2>3, <2>4, TypedNext DEF Inv
<1>7. CASE ~Overflows(sent[received + 1])
  <2> DEFINE q == [queue EXCEPT !.pending = Append(@, <<received + 1, 0>>)]
  <2>1. queue' = Settle(q, exactPaused, "microtask") /\ Told(queue') /\ UNCHANGED ended
    BY <1>7 DEF OnMessage
  <2>2. <<received + 1, 0>> \in Slices
    BY <1>1, <1>2, Marks, SMTT(30) DEF Slices, Frames, Inv, Typed, TypeOK
  <2>3. /\ q \in Queues /\ q.status = "connected" /\ q.inbound = queue.inbound
        /\ q.pending = Append(queue.pending, <<received + 1, 0>>)
        /\ q.flowPaused = queue.flowPaused /\ q.decodeFlowPaused = queue.decodeFlowPaused
        /\ q.retiring = queue.retiring
    <3>1. PICK item \in Slices : item = <<received + 1, 0>>
      BY <2>2, Zenon
    <3>2. q = [queue EXCEPT !.pending = Append(@, item)]
      BY <3>1
    <3>3. queue.pending \in Seq(Slices) /\ queue \in Queues
      BY DEF Inv, Typed, TypeOK
    <3>4. Append(queue.pending, item) \in Seq(Slices)
      BY <3>3
    <3>5. PICK p \in Seq(Slices) : p = Append(queue.pending, item)
      BY <3>4, Zenon
    <3>6. q = [queue EXCEPT !.pending = p]
      BY <3>2, <3>5
    <3> HIDE DEF q
    <3> QED  BY <1>1, <3>1, <3>3, <3>5, <3>6, Zenon DEF Queues
  <2> HIDE DEF q
  <2>4. TellsPause(q)
    BY <1>1, <2>3 DEF TellsPause, Inv, Turns, PauseTold
  <2>5. Same(q, queue') /\ TellsPause(queue') /\ FrameTurn(queue', exactPaused)
    BY <2>1, <2>3, <2>4, Settles
  <2>6. flows' \in Seq(BOOLEAN) /\ queue' \in Queues
    BY <2>1, <2>5, ToldType DEF Same, Inv, Typed, TypeOK
  <2>7. Retyped
    BY <1>1, <1>3, <2>1, <2>6, Zenon DEF relay, Inv, Retyped, Typed, TypeOK
  <2>8. Turns'
    BY <1>1, <2>3, <2>5 DEF Same, Inv, Turns, SliceTurn, PauseTold, TellsPause, FrameTurn, HasPending
  <2>9. Ends'
    BY <1>1, <1>3, <1>4, <2>1, <2>3, <2>5 DEF Inv, Ends, Same
  <2>10. Stream'
    BY <1>1, <1>3, <1>4, <2>1, <2>3, <2>5, StreamQueued DEF Same
  <2> QED  BY <1>5, <2>7, <2>8, <2>9, <2>10, TypedNext DEF Inv
<1> QED
  BY <1>6, <1>7

\* onclose keeps what is queued, of everything that was sent.
LEMMA OnCloseKeeps == ASSUME Inv, OnClose PROVE Inv'
<1> DEFINE q == [queue EXCEPT !.status = "closed", !.error = (remote = "abnormal")]
<1>1. /\ queue.status = "connected" /\ remote \in Codes /\ received = Len(sent)
      /\ UNCHANGED <<relay, received, flows, exactPaused, wake, task, progress,
                     packets, javaOpen, decoded, ended>>
      /\ queue' = retireClosedEntry(q)
  BY DEF OnClose
<1>2. q \in Queues /\ q.status = "closed" /\ q.pending = queue.pending /\ q.inbound = queue.inbound
      /\ q.slicing = queue.slicing
  <2>1. PICK b \in BOOLEAN : b = (remote = "abnormal")
    BY Zenon
  <2>2. q = [[queue EXCEPT !.status = "closed"] EXCEPT !.error = b]
    BY <2>1 DEF Inv, Typed, Queues
  <2> HIDE DEF q
  <2> QED  BY <2>2, Zenon DEF Inv, Typed, Queues
<1> HIDE DEF q
<1>3. /\ queue' \in Queues /\ queue'.status = "closed" /\ queue'.slicing = queue.slicing
      /\ queue'.pending = queue.pending /\ queue'.inbound = queue.inbound
  BY <1>1, <1>2, Zenon DEF retireClosedEntry, Queues
<1>4. Retyped
  BY <1>1, <1>3, ZenonT(60) DEF relay, Inv, Retyped, Typed, TypeOK
<1>5. Gauge'
  BY <1>1 DEF Inv, Gauge, PacketsBounded
<1>6. Turns'
  BY <1>1, <1>3 DEF Inv, Turns, SliceTurn, PauseTold, FrameTurn
<1>7. Ends' /\ Stream'
  <2>1. UNCHANGED <<sent, received, remote, ended, decoded>> /\ remote /= "open" /\ ended = "no"
    BY <1>1 DEF relay, Codes, Inv, Ends
  <2>2. Ends'
    BY <1>1, <1>3, <2>1 DEF Inv, Ends
  <2> QED  BY <1>3, <2>1, <2>2, StreamKept DEF Inv
<1> QED
  BY <1>4, <1>5, <1>6, <1>7, TypedNext DEF Inv

-----------------------------------------------------------------------------
(* The slice pump.                                                         *)

\* pumpSlices starts to cut, or leaves its frames to what blocks it.
LEMMA SliceCallbackKeeps == ASSUME Inv, SliceCallback PROVE Inv'
<1> DEFINE q == [queue EXCEPT !.slicing = "none"]
<1>1. /\ task = "none" /\ queue' = applyFlowControl(q, exactPaused) /\ Told(queue')
      /\ task' = IF shouldBlockInboundSliceAdmission(queue', exactPaused)
                 THEN "none" ELSE "slices"
      /\ UNCHANGED <<relay, received, exactPaused, wake, progress, packets,
                     javaOpen, decoded, ended>>
  BY DEF SliceCallback
<1>2. /\ q \in Queues /\ q.status = queue.status /\ q.retiring = queue.retiring
      /\ q.pending = queue.pending /\ q.inbound = queue.inbound
      /\ q.flowPaused = queue.flowPaused /\ q.decodeFlowPaused = queue.decodeFlowPaused
  BY Zenon DEF Inv, Typed, Queues
<1> HIDE DEF q
<1>3. TellsPause(q)
  BY <1>2 DEF TellsPause, Inv, Turns, PauseTold
<1>4. FlowDone(q, queue', exactPaused)
  BY <1>1, <1>2, FlowControlled
<1>5. /\ queue' \in Queues /\ Same(q, queue') /\ TellsPause(queue')
      /\ queue'.status = "connected" /\ queue'.flowPaused => exactPaused \/ HasPending(queue')
  BY <1>3, <1>4 DEF FlowDone, Same
<1>6. flows' \in Seq(BOOLEAN)
  BY <1>1, <1>5, ToldType DEF Inv, Typed, TypeOK
<1>7. task' \in {"none", "slices"}
  BY <1>1
<1>8. Retyped
  BY <1>1, <1>5, <1>6, <1>7, ZenonT(60) DEF relay, Inv, Retyped, Typed, TypeOK
<1>9. Gauge'
  BY <1>1, <1>7 DEF Inv, Gauge, PacketsBounded
<1>10. Turns'
  <2>1. SliceTurn'
    BY <1>1, <1>2, <1>5 DEF Same, Inv, Turns, SliceTurn
  <2>2. task' = "none" => exactPaused \/ queue'.inbound /= <<>>
    <3>1. queue'.inbound = <<>> => Len(queue'.inbound) = 0
      OBVIOUS
    <3> QED  BY <1>1, <3>1, Marks DEF shouldBlockInboundSliceAdmission, workDepth
  <2>3. FrameTurn(queue', exactPaused) \/ task' = "slices"
    BY <1>5, <1>7, <2>2 DEF FrameTurn
  <2>4. progress /= "empty" /\ PauseTold'
    BY <1>1, <1>5 DEF Inv, Turns, PauseTold, TellsPause
  <2> QED  BY <1>1, <1>7, <2>1, <2>3, <2>4 DEF Turns, FrameTurn, HasPending
<1>11. Ends' /\ Stream'
  BY <1>1, <1>2, <1>5, EndsKept, StreamKept DEF relay, Same, Inv
<1> QED
  BY <1>8, <1>9, <1>10, <1>11, TypedNext DEF Inv

\* The head of the frames that are not cut: where it lies in the stream.
LEMMA HeadFrame ==
  ASSUME Inv, queue.pending /= <<>>
  PROVE  /\ ended = "no" /\ sent \in Seq(Nat) /\ Len(sent) <= FrameBudget
         /\ queue.pending \in Seq(Slices) /\ queue.inbound \in Seq(Slices)
         /\ decoded \in Seq(Slices) /\ Len(queue.pending) \in Nat /\ Len(queue.pending) >= 1
         /\ Head(queue.pending) = queue.pending[1]
         /\ queue.pending[1][1] \in 1 .. Len(sent) /\ queue.pending[1][2] \in Nat
         /\ queue.pending[1][1] = received - Len(queue.pending) + 1
         /\ queue.pending[1][2] <= sent[queue.pending[1][1]]
         /\ received \in Nat /\ received <= Len(sent) /\ Len(sent) \in Nat
         /\ Len(decoded) + Len(queue.inbound) = Position(queue.pending[1])
         /\ Before[queue.pending[1][1]] =
              Before[queue.pending[1][1] - 1] + sent[queue.pending[1][1]]
         /\ Before[queue.pending[1][1] - 1] \in Nat /\ sent[queue.pending[1][1]] \in Nat
<1>1. /\ ended = "no" /\ sent \in Seq(Nat) /\ Len(sent) <= FrameBudget /\ Len(sent) \in Nat
      /\ queue.pending \in Seq(Slices) /\ queue.inbound \in Seq(Slices)
      /\ decoded \in Seq(Slices) /\ received \in Nat /\ received <= Len(sent)
  BY SentSizes DEF Inv, Typed, TypeOK, Ends
<1>2. /\ Len(queue.pending) \in Nat /\ Len(queue.pending) >= 1
      /\ Head(queue.pending) = queue.pending[1] /\ queue.pending[1] \in Slices
  BY <1>1
<1>3. /\ queue.pending[1][1] = received - Len(queue.pending) + 1
      /\ queue.pending[1][2] <= sent[queue.pending[1][1]]
  BY <1>2 DEF Inv, Stream
<1>4. /\ queue.pending[1][1] \in Frames /\ queue.pending[1][2] \in Nat
  BY <1>2 DEF Slices
<1>5. queue.pending[1][1] \in 1 .. Len(sent)
  BY <1>1, <1>2, <1>3, <1>4, Marks DEF Frames
<1>6. Len(decoded) + Len(queue.inbound) = Position(queue.pending[1])
  BY <1>1 DEF Inv, Stream, CutTo
<1>7. Running(sent, Len(sent), Before)
  BY <1>1, SumsRun, BeforeIsSums
<1>8. Before[queue.pending[1][1]] =
        Before[queue.pending[1][1] - 1] + sent[queue.pending[1][1]]
  BY <1>5, <1>7, Zenon DEF Running
<1>9. sent[queue.pending[1][1]] \in Nat
  BY <1>1, <1>5
<1>10. Before[queue.pending[1][1] - 1] \in Nat
  <2>1. queue.pending[1][1] - 1 \in 0 .. Len(sent)
    BY <1>1, <1>5, SMTT(30)
  <2> QED  BY <2>1, <1>7 DEF Running
<1> QED
  BY <1>1, <1>2, <1>3, <1>4, <1>5, <1>6, <1>8, <1>9, <1>10, Zenon

\* The frames behind the head are whole, and follow it.
LEMMA TailFrames ==
  ASSUME Inv, queue.pending /= <<>>
  PROVE  /\ Tail(queue.pending) \in Seq(Slices)
         /\ \A i \in 1 .. Len(Tail(queue.pending)) :
              /\ Tail(queue.pending)[i][1] = received - Len(Tail(queue.pending)) + i
              /\ Tail(queue.pending)[i][2] <= sent[Tail(queue.pending)[i][1]]
              /\ Tail(queue.pending)[i][2] = 0
         /\ Len(Tail(queue.pending)) = Len(queue.pending) - 1
         /\ \A i \in 1 .. Len(Tail(queue.pending)) :
              Tail(queue.pending)[i] = queue.pending[i + 1]
<1> DEFINE t == Tail(queue.pending)
<1>1. queue.pending \in Seq(Slices) /\ Len(queue.pending) \in Nat /\ received \in Nat
  BY HeadFrame
<1>2. /\ t \in Seq(Slices) /\ Len(t) = Len(queue.pending) - 1
      /\ \A i \in 1 .. Len(t) : t[i] = queue.pending[i + 1]
  BY <1>1
<1> HIDE DEF t
<1>3. ASSUME NEW i \in 1 .. Len(t)
      PROVE  /\ t[i][1] = received - Len(t) + i
             /\ t[i][2] <= sent[t[i][1]]
             /\ t[i][2] = 0
  <2>1. i + 1 \in 1 .. Len(queue.pending) /\ i + 1 > 1
    BY <1>1, <1>2
  <2>2. /\ queue.pending[i + 1][1] = received - Len(queue.pending) + (i + 1)
        /\ queue.pending[i + 1][2] <= sent[queue.pending[i + 1][1]]
        /\ i + 1 > 1 => queue.pending[i + 1][2] = 0
    BY <2>1 DEF Inv, Stream
  <2>3. received - Len(queue.pending) + (i + 1) = received - Len(t) + i
    BY <1>1, <1>2
  <2> QED  BY <1>2, <2>1, <2>2, <2>3, Zenon
<1> QED
  BY <1>2, <1>3, Zenon DEF t

\* Where the frames behind the head start, the head ends.
LEMMA HeadEnds ==
  ASSUME Inv, queue.pending /= <<>>
  PROVE  IF Tail(queue.pending) = <<>>
         THEN Before[received] = Before[queue.pending[1][1]]
         ELSE Position(Tail(queue.pending)[1]) = Before[queue.pending[1][1]]
<1> DEFINE t == Tail(queue.pending)
<1>1. /\ t \in Seq(Slices) /\ Len(t) = Len(queue.pending) - 1
      /\ \A i \in 1 .. Len(t) : t[i][1] = received - Len(t) + i /\ t[i][2] = 0
  BY TailFrames, Zenon
<1>2. /\ received \in Nat /\ Len(queue.pending) \in Nat
      /\ queue.pending[1][1] = received - Len(queue.pending) + 1
      /\ Before[queue.pending[1][1] - 1] \in Nat /\ sent[queue.pending[1][1]] \in Nat
      /\ Before[queue.pending[1][1]] =
           Before[queue.pending[1][1] - 1] + sent[queue.pending[1][1]]
  BY HeadFrame
<1> DEFINE x == queue.pending[1][1]
           n == Len(queue.pending)
           size == sent[x]
<1>5. /\ received \in Nat /\ n \in Nat /\ x = received - n + 1
      /\ Before[x - 1] \in Nat /\ size \in Nat /\ Before[x] = Before[x - 1] + size
      /\ Len(t) = n - 1
  BY <1>1, <1>2, Zenon
<1> HIDE DEF t, x, n, size
<1>3. CASE t = <<>>
  <2>1. Len(t) = 0
    BY <1>3
  <2>2. x = received
    BY <1>5, <2>1
  <2> QED  BY <1>3, <2>2 DEF t, x
<1>4. CASE t /= <<>>
  <2>1. t[1][1] = received - Len(t) + 1 /\ t[1][2] = 0
    BY <1>1, <1>4
  <2>2. t[1][1] - 1 = x
    BY <1>5, <2>1
  <2>3. Position(t[1]) = Before[x] + 0
    BY <2>1, <2>2 DEF Position
  <2>4. Before[x] \in Nat
    BY <1>5
  <2> QED  BY <1>4, <2>3, <2>4 DEF t, x
<1> QED
  BY <1>3, <1>4

\* The stream when an empty or finished frame is dropped.
LEMMA StreamFrameDropped ==
  ASSUME Inv, queue.pending /= <<>>, queue.pending[1][2] = sent[queue.pending[1][1]],
         queue'.pending = Tail(queue.pending), queue'.inbound = queue.inbound,
         UNCHANGED <<sent, received, decoded, ended>>
  PROVE  Stream'
<1>1. Before' = Before
  BY BeforeIsSums, BeforeIsSumsNext
<1>2. CutTo' = Position(queue.pending[1])
  <2>1. Position(queue.pending[1]) = Before[queue.pending[1][1]]
    BY HeadFrame DEF Position
  <2> QED  BY <1>1, <2>1, HeadEnds, Zenon DEF CutTo, Position
<1>3. Len(decoded) + Len(queue.inbound) = CutTo'
  BY <1>2, HeadFrame
<1> QED
  BY <1>1, <1>3, TailFrames DEF Inv, Stream, Position

\* The stream when a slice is cut from the head, which stays or was finished.
LEMMA StreamCut ==
  ASSUME Inv, queue.pending /= <<>>,
         queue.pending[1][2] < sent[queue.pending[1][1]],
         NEW cut, cut = <<queue.pending[1][1], queue.pending[1][2] + 1>>,
         queue'.inbound = Append(queue.inbound, cut),
         queue'.pending = IF cut[2] = sent[queue.pending[1][1]]
                          THEN Tail(queue.pending) ELSE <<cut>> \o Tail(queue.pending),
         UNCHANGED <<sent, received, decoded, ended>>
  PROVE  Stream'
<1> DEFINE f == queue.pending[1][1]
           off == queue.pending[1][2]
           size == sent[f]
           t == Tail(queue.pending)
           p == queue'.pending
           b == queue'.inbound
           n == Len(queue.pending)
           m == Len(queue.inbound)
           d == Len(decoded)
<1>1. Before' = Before
  BY BeforeIsSums, BeforeIsSumsNext
<1>2. /\ f \in 1 .. Len(sent) /\ Len(sent) <= FrameBudget /\ Len(sent) \in Nat
      /\ off \in Nat /\ d + m = Position(queue.pending[1])
      /\ Before[f] = Before[f - 1] + size
      /\ Before[f - 1] \in Nat /\ size \in Nat
      /\ f = received - n + 1 /\ n \in Nat /\ n >= 1
      /\ queue.inbound \in Seq(Slices) /\ decoded \in Seq(Slices)
      /\ received \in Nat /\ ended = "no"
  BY HeadFrame
<1>0. d \in Nat /\ m \in Nat /\ off < size /\ cut = <<f, off + 1>>
  <2>1. off < size /\ cut = <<f, off + 1>>
    OBVIOUS
  <2>2. queue.inbound \in Seq(Slices) /\ decoded \in Seq(Slices)
    BY <1>2
  <2>3. d \in Nat /\ m \in Nat
    BY <2>2
  <2> QED  BY <2>1, <2>3
<1>13. Position(queue.pending[1]) = Before[f - 1] + off
  BY DEF Position
<1>12. /\ p = IF cut[2] = size THEN t ELSE <<cut>> \o t
       /\ b = Append(queue.inbound, cut)
  OBVIOUS
<1> HIDE DEF f, off, size, t, p, b, n, m, d
<1>3. cut \in Slices /\ cut[1] = f /\ cut[2] = off + 1
  <2>1. f \in Frames /\ off + 1 \in Nat
    BY <1>2, Marks DEF Frames
  <2> QED  BY <1>0, <2>1 DEF Slices
<1>4. Position(cut) = d + m + 1
  <2>1. Position(cut) = Before[f - 1] + (off + 1)
    BY <1>3 DEF Position
  <2>2. PICK start \in Nat : start = Before[f - 1]
    BY <1>2
  <2>3. d + m = Position(queue.pending[1]) /\ off \in Nat
    BY <1>2
  <2>4. d + m = start + off
    BY <1>13, <2>2, <2>3
  <2>5. Position(cut) = start + (off + 1)
    BY <2>1, <2>2
  <2> QED  BY <1>0, <2>3, <2>4, <2>5
<1>5. /\ Len(b) = m + 1 /\ b[m + 1] = cut
      /\ \A i \in 1 .. m : b[i] = queue.inbound[i]
  <2>1. queue.inbound \in Seq(Slices)
    BY <1>2
  <2>2. /\ Len(Append(queue.inbound, cut)) = m + 1
        /\ Append(queue.inbound, cut)[m + 1] = cut
        /\ \A i \in 1 .. m : Append(queue.inbound, cut)[i] = queue.inbound[i]
    BY <1>3, <2>1, Appended DEF m
  <2> QED  BY <1>12, <2>2, Zenon
<1>6. /\ t \in Seq(Slices) /\ Len(t) = n - 1
      /\ \A i \in 1 .. Len(t) :
           /\ t[i][1] = received - Len(t) + i
           /\ t[i][2] <= sent[t[i][1]]
           /\ t[i][2] = 0
  BY TailFrames, Zenon DEF t, n
<1>7. IF t = <<>> THEN Before[received] = Before[f] ELSE Position(t[1]) = Before[f]
  BY HeadEnds DEF t, f
<1>8. ASSUME NEW i \in 1 .. Len(b)
      PROVE  b[i][1] <= received /\ Position(b[i]) = d + i
  <2>1. CASE i = m + 1
    <3>1. f <= received
      BY <1>2
    <3>2. b[i] = cut /\ Position(cut) = d + i
      BY <1>0, <1>4, <1>5, <2>1
    <3> QED  BY <1>3, <3>1, <3>2
  <2>2. CASE i \in 1 .. m
    <3>1. /\ queue.inbound[i][1] <= received
          /\ Position(queue.inbound[i]) = d + i
      BY <2>2 DEF Inv, Stream, d, m
    <3>2. b[i] = queue.inbound[i]
      BY <1>5, <2>2
    <3> QED  BY <3>1, <3>2
  <2> QED  BY <1>0, <1>5, <2>1, <2>2
<1>9. /\ \A i \in 1 .. Len(p) :
           /\ p[i][1] = received - Len(p) + i
           /\ p[i][2] <= sent[p[i][1]]
           /\ i > 1 => p[i][2] = 0
      /\ d + Len(b) = IF p = <<>> THEN Before[received] ELSE Position(p[1])
  <2>1. CASE cut[2] = size
    <3>1. p = t
      BY <1>12, <2>1
    <3>2. Position(cut) = Before[f]
      BY <1>2, <1>3, <2>1, Zenon DEF Position
    <3>3. d + Len(b) = Position(cut)
      BY <1>0, <1>4, <1>5
    <3> QED  BY <1>6, <1>7, <3>1, <3>2, <3>3, Zenon
  <2>2. CASE cut[2] /= size
    <3>1. p = <<cut>> \o t
      BY <1>12, <2>2
    <3>2. /\ Len(p) = Len(t) + 1 /\ p[1] = cut /\ p /= <<>>
          /\ \A i \in 2 .. Len(p) : p[i] = t[i - 1]
      BY <1>3, <1>6, <3>1
    <3>3. cut[2] <= size
      BY <1>0, <1>2, <1>3
    <3>4. ASSUME NEW i \in 1 .. Len(p)
          PROVE  /\ p[i][1] = received - Len(p) + i
                 /\ p[i][2] <= sent[p[i][1]]
                 /\ i > 1 => p[i][2] = 0
      <4>1. CASE i = 1
        <5>1. p[i] = cut /\ Len(p) = n
          BY <1>2, <1>6, <3>2, <4>1
        <5>2. received - n + i = f
          BY <1>2, <4>1
        <5>3. sent[p[i][1]] = size
          BY <1>3, <5>1 DEF size
        <5> QED  BY <1>3, <3>3, <4>1, <5>1, <5>2, <5>3
      <4>2. CASE i > 1
        <5>4. Len(t) = n - 1 /\ Len(p) = n /\ n \in Nat
          BY <1>2, <1>6, <3>2
        <5>5. i \in 2 .. Len(p) /\ i - 1 \in 1 .. Len(t)
          BY <4>2, <5>4
        <5>1. i - 1 \in 1 .. Len(t) /\ p[i] = t[i - 1]
          BY <3>2, <5>5
        <5>2. /\ t[i - 1][1] = received - Len(t) + (i - 1)
              /\ t[i - 1][2] <= sent[t[i - 1][1]]
              /\ t[i - 1][2] = 0
          BY <1>6, <5>1
        <5>3. received - Len(t) + (i - 1) = received - Len(p) + i
          BY <1>2, <1>6, <3>2
        <5> QED  BY <5>1, <5>2, <5>3
      <4> QED  BY <4>1, <4>2
    <3>5. d + Len(b) = Position(p[1])
      <4>1. Position(p[1]) = Position(cut)
        BY <3>2
      <4> QED  BY <1>0, <1>4, <1>5, <4>1
    <3> QED  BY <3>2, <3>4, <3>5
  <2> QED  BY <2>1, <2>2
<1>10. \A i \in 1 .. Len(decoded) :
         decoded[i][1] <= received /\ Position(decoded[i]) = i
  BY DEF Inv, Stream
<1>11. CutTo' = IF p = <<>> THEN Before[received] ELSE Position(p[1])
  BY <1>1 DEF CutTo, Position, p
<1> QED
  BY <1>1, <1>2, <1>8, <1>9, <1>10, <1>11, Zenon DEF Stream, Position, b, p, d

\* One round of pumpSlices drops an empty frame or cuts one slice.
LEMMA AdmitSliceKeeps == ASSUME Inv, AdmitSlice PROVE Inv'
<1> DEFINE frame == queue.pending[1]
           cut == <<frame[1], frame[2] + 1>>
<1>1. /\ task = "slices" /\ queue.pending /= <<>>
      /\ UNCHANGED <<relay, received, flows, exactPaused, wake, task, packets,
                     javaOpen, decoded, ended>>
  BY DEF AdmitSlice, CanAdmit
<1>2. /\ Head(queue.pending) = frame /\ frame[1] \in 1 .. Len(sent) /\ frame[2] \in Nat
      /\ sent[frame[1]] \in Nat /\ frame[2] <= sent[frame[1]]
      /\ queue.pending \in Seq(Slices) /\ queue.inbound \in Seq(Slices)
      /\ Len(sent) \in Nat /\ Len(sent) <= FrameBudget
  BY <1>1, HeadFrame
<1>3. /\ Tail(queue.pending) \in Seq(Slices)
  BY <1>1, TailFrames
<1>4. cut \in Slices
  <2>1. frame[1] \in Frames /\ frame[2] + 1 \in Nat
    BY <1>2, Marks, SMTT(30) DEF Frames
  <2> QED  BY <2>1 DEF Slices
<1>5. IF Left(frame) = 0
      THEN /\ queue' = [queue EXCEPT !.pending = Tail(@)]
           /\ progress' = IF progress = "none" THEN "empty" ELSE progress
      ELSE /\ queue' = [queue EXCEPT
                  !.inbound = Append(@, cut),
                  !.pending = IF Left(frame) = 1 THEN Tail(@) ELSE <<cut>> \o Tail(@)]
           /\ progress' = "moved"
  BY <1>1, <1>2 DEF AdmitSlice
<1>6. progress' \in {"empty", "moved"} /\ (progress = "moved" => progress' = "moved")
  BY <1>5 DEF Inv, Typed, TypeOK
<1>7. /\ queue' \in Queues /\ queue'.status = queue.status /\ queue'.retiring = queue.retiring
      /\ queue'.flowPaused = queue.flowPaused
      /\ queue'.decodeFlowPaused = queue.decodeFlowPaused
      /\ queue'.inbound = queue.inbound \/ progress' = "moved"
      /\ Stream'
  <2>1. UNCHANGED <<sent, received, decoded, ended>>
    BY <1>1 DEF relay
  <2>2. CASE Left(frame) = 0
    <3>1. frame[2] = sent[frame[1]]
      BY <1>2, <2>2 DEF Left
    <3>2. PICK t \in Seq(Slices) : t = Tail(queue.pending)
      BY <1>3, Zenon
    <3>3. queue' = [queue EXCEPT !.pending = t]
      BY <1>5, <2>2, <3>2
    <3>4. /\ queue' \in Queues /\ queue'.status = queue.status
          /\ queue'.retiring = queue.retiring /\ queue'.flowPaused = queue.flowPaused
          /\ queue'.decodeFlowPaused = queue.decodeFlowPaused
          /\ queue'.inbound = queue.inbound /\ queue'.pending = t
      BY <3>3, Zenon DEF Inv, Typed, Queues
    <3>5. Stream'
      BY <1>1, <2>1, <3>1, <3>2, <3>4, StreamFrameDropped
    <3> QED  BY <3>4, <3>5
  <2>3. CASE Left(frame) /= 0
    <3> DEFINE rest == IF Left(frame) = 1 THEN Tail(queue.pending)
                       ELSE <<cut>> \o Tail(queue.pending)
    <3>1. frame[2] < sent[frame[1]]
      BY <1>2, <2>3 DEF Left
    <3>2. PICK p \in Seq(Slices) : p = rest
      <4>1. <<cut>> \in Seq(Slices)
        BY <1>4
      <4>2. <<cut>> \o Tail(queue.pending) \in Seq(Slices)
        BY <1>3, <4>1
      <4>3. rest \in Seq(Slices)
        BY <1>3, <4>2, Zenon
      <4> QED  BY <4>3, Zenon
    <3>3. PICK b \in Seq(Slices) : b = Append(queue.inbound, cut)
      <4>1. Append(queue.inbound, cut) \in Seq(Slices)
        BY <1>2, <1>4, Appended
      <4> QED  BY <4>1, Zenon
    <3>4. progress' = "moved" /\ queue' = [[queue EXCEPT !.inbound = b] EXCEPT !.pending = p]
      <4>1. progress' = "moved" /\ queue' = [queue EXCEPT !.inbound = b, !.pending = p]
        BY <1>5, <2>3, <3>2, <3>3, Zenon
      <4> QED  BY <4>1 DEF Inv, Typed, Queues
    <3>5. /\ queue' \in Queues /\ queue'.status = queue.status
          /\ queue'.retiring = queue.retiring /\ queue'.flowPaused = queue.flowPaused
          /\ queue'.decodeFlowPaused = queue.decodeFlowPaused
          /\ queue'.inbound = b /\ queue'.pending = p
      BY <3>4, Zenon DEF Inv, Typed, Queues
    <3>6. Left(frame) = 1 <=> cut[2] = sent[frame[1]]
      <4>1. PICK off \in Nat, size \in Nat : off = frame[2] /\ size = sent[frame[1]]
        BY <1>2, Zenon
      <4>2. cut[2] = off + 1 /\ Left(frame) = size - off
        BY <4>1 DEF Left
      <4> QED  BY <4>1, <4>2, SMTT(30)
    <3>7. p = IF cut[2] = sent[frame[1]] THEN Tail(queue.pending)
              ELSE <<cut>> \o Tail(queue.pending)
      BY <3>2, <3>6, Zenon
    <3>8. Stream'
      BY <1>1, <2>1, <3>1, <3>3, <3>5, <3>7, StreamCut, Zenon
    <3> QED  BY <3>4, <3>5, <3>8
  <2> QED  BY <2>2, <2>3
<1>8. Retyped
  BY <1>1, <1>6, <1>7, Zenon DEF relay, Inv, Retyped, Typed, TypeOK
<1>9. Gauge'
  BY <1>1 DEF Inv, Gauge, PacketsBounded
<1>10. Turns'
  BY <1>1, <1>6, <1>7 DEF Inv, Turns, SliceTurn, PauseTold
<1>11. Ends'
  <2>1. ended = "no" /\ ended' = "no" /\ remote' = remote /\ UNCHANGED <<sent, received>>
    BY <1>1, HeadFrame DEF relay
  <2> QED  BY <1>1, <1>7, <2>1 DEF Inv, Ends
<1> QED
  BY <1>7, <1>8, <1>9, <1>10, <1>11, TypedNext DEF Inv

\* A step that settles the entry and nothing else of the stream.
LEMMA SettledEnds ==
  ASSUME Inv, NEW exact, NEW how \in {"microtask", "message"},
         queue' = Settle(queue, exact, how), Told(queue'),
         UNCHANGED <<sent, received, decoded, ended, remote, javaOpen>>
  PROVE  /\ Ends' /\ Stream' /\ queue' \in Queues /\ flows' \in Seq(BOOLEAN)
         /\ PauseTold' /\ FrameTurn(queue', exact)
         /\ queue'.inbound = queue.inbound
<1>1. TellsPause(queue) /\ queue \in Queues
  BY DEF TellsPause, Inv, Turns, PauseTold, Typed
<1>2. Same(queue, queue') /\ TellsPause(queue') /\ FrameTurn(queue', exact)
  BY <1>1, DisposedIsEmpty, Settles
<1>3. Ends' /\ Stream'
  BY <1>2, EndsKept, StreamKept DEF Same, Inv
<1>4. flows' \in Seq(BOOLEAN) /\ queue' \in Queues
  BY <1>2, ToldType DEF Same, Inv, Typed, TypeOK
<1> QED
  BY <1>2, <1>3, <1>4 DEF Same, PauseTold, TellsPause

\* The end of pumpSlices settles and wakes the pump for what it moved.
LEMMA SlicesEndKeeps == ASSUME Inv, SlicesEnd PROVE Inv'
<1>1. /\ task = "slices" /\ queue' = Settle(queue, exactPaused, "message") /\ Told(queue')
      /\ IF progress = "moved" THEN signalInbound(exactPaused) ELSE UNCHANGED wake
      /\ task' = "none" /\ progress' = "none"
      /\ UNCHANGED <<relay, received, exactPaused, packets, javaOpen, decoded, ended>>
  BY DEF SlicesEnd
<1>2. /\ Ends' /\ Stream' /\ queue' \in Queues /\ flows' \in Seq(BOOLEAN)
      /\ PauseTold' /\ FrameTurn(queue', exactPaused) /\ queue'.inbound = queue.inbound
  BY <1>1, SettledEnds DEF relay
<1>3. wake' \in BOOLEAN
  BY <1>1, Zenon DEF signalInbound, Inv, Typed, TypeOK
<1>4. Retyped
  BY <1>1, <1>2, <1>3, Zenon DEF relay, Inv, Retyped, Typed, TypeOK
<1>5. Gauge'
  BY <1>1 DEF Inv, Gauge, PacketsBounded
<1>6. Turns'
  BY <1>1, <1>2, Zenon DEF Inv, Turns, SliceTurn, PauseTold, FrameTurn, HasPending, signalInbound
<1> QED
  BY <1>2, <1>4, <1>5, <1>6, TypedNext DEF Inv

-----------------------------------------------------------------------------
(* The Java pump.                                                          *)

\* The pump starts for an entry without an error, or closes the channel.
LEMMA PumpStartsKeeps ==
  ASSUME Inv, PumpStarts, task = "none", wake' \in BOOLEAN
  PROVE  Inv'
<1>1. UNCHANGED <<sent, relayPaused, remote, received, flows, exactPaused, progress, packets,
                  decoded>>
  BY DEF PumpStarts, relay
<1>2. CASE HasError
  <2>1. JavaClose("error") /\ task' = task
    BY <1>2 DEF PumpStarts
  <2>2. /\ queue' \in Queues /\ Ends' /\ Stream'
        /\ ended' \in {"failed", "left", "drained", "expired", "error"}
        /\ queue'.pending = <<>> /\ queue'.inbound = <<>> /\ queue'.status = "disposed"
    BY <1>1, <2>1, Closes DEF JavaClose
  <2>3. Retyped
    BY <1>1, <2>1, <2>2, Zenon DEF JavaClose, Inv, Retyped, Typed, TypeOK
  <2>4. Gauge'
    BY <1>1, <2>1 DEF Inv, Gauge, PacketsBounded
  <2>5. Turns'
    <3>1. Turns /\ queue'.status /= "connected" /\ progress' = progress /\ task' = task
      BY <1>1, <2>1, <2>2 DEF Inv
    <3> QED  BY <2>2, <3>1, EmptyTurns
  <2> QED  BY <2>2, <2>3, <2>4, <2>5, TypedNext DEF Inv
<1>3. CASE ~HasError
  <2>1. task' = "pump" /\ UNCHANGED <<queue, javaOpen, ended>>
    BY <1>3 DEF PumpStarts
  <2>2. Retyped
    BY <1>1, <2>1, Zenon DEF Inv, Retyped, Typed, TypeOK
  <2>3. Gauge'
    BY <1>1, <2>1 DEF Inv, Gauge, PacketsBounded
  <2>4. Turns'
    BY <1>1, <2>1 DEF Inv, Turns, SliceTurn, PauseTold, FrameTurn, HasPending
  <2>5. Ends' /\ Stream'
    BY <1>1, <2>1, EndsKept, StreamKept DEF Inv
  <2> QED  BY <2>2, <2>3, <2>4, <2>5, TypedNext DEF Inv
<1> QED
  BY <1>2, <1>3

\* The wakeup starts the pump, or finds the channel closed.
LEMMA WakeCallbackKeeps == ASSUME Inv, WakeCallback PROVE Inv'
<1>1. wake' = FALSE /\ task = "none"
  BY DEF WakeCallback, Quiet
<1>2. CASE javaOpen /\ PumpStarts
  BY <1>1, <1>2, PumpStartsKeeps, Zenon
<1>3. CASE ~javaOpen /\ UNCHANGED <<relay, received, flows, queue, exactPaused, task,
                                   progress, packets, javaOpen, decoded, ended>>
  <2>1. UNCHANGED <<sent, relayPaused, remote>>
    BY <1>3 DEF relay
  <2>2. Retyped
    BY <1>1, <1>3, <2>1, Zenon DEF Inv, Retyped, Typed, TypeOK
  <2>3. Gauge'
    BY <1>3 DEF Inv, Gauge, PacketsBounded
  <2>4. queue.status = "disposed" /\ queue.pending = <<>> /\ queue.inbound = <<>>
    BY <1>3, DisposedIsEmpty DEF Inv, Ends
  <2>5. Turns'
    BY <1>3, <2>4 DEF Inv, Turns, SliceTurn, PauseTold, FrameTurn, HasPending
  <2>6. Ends' /\ Stream'
    BY <1>3, <2>1, EndsKept, StreamKept DEF Inv
  <2> QED  BY <2>2, <2>3, <2>5, <2>6, TypedNext DEF Inv
<1> QED
  BY <1>2, <1>3 DEF WakeCallback

\* The pump at a frame boundary needs no wakeup and takes none.
LEMMA FramePumpKeeps == ASSUME Inv, FramePump PROVE Inv'
<1>1. wake' \in BOOLEAN
  BY Zenon DEF FramePump, Inv, Typed, TypeOK
<1>2. PumpStarts /\ task = "none"
  BY DEF FramePump, Quiet
<1> QED
  BY <1>1, <1>2, PumpStartsKeeps

\* The first slice: where it lies in the stream.
LEMMA HeadSlice ==
  ASSUME Inv, queue.inbound /= <<>>
  PROVE  /\ queue.inbound \in Seq(Slices) /\ decoded \in Seq(Slices)
         /\ Head(queue.inbound) = queue.inbound[1] /\ Head(queue.inbound) \in Slices
         /\ queue.inbound[1][1] <= received /\ ended = "no"
         /\ Position(queue.inbound[1]) = Len(decoded) + 1
<1>1. queue.inbound \in Seq(Slices) /\ decoded \in Seq(Slices) /\ ended = "no"
  BY DEF Inv, Typed, TypeOK, Ends
<1>2. /\ Head(queue.inbound) = queue.inbound[1] /\ 1 \in 1 .. Len(queue.inbound)
      /\ queue.inbound[1] \in Slices
  BY <1>1
<1>3. queue.inbound[1][1] <= received /\ Position(queue.inbound[1]) = Len(decoded) + 1
  BY <1>2 DEF Inv, Stream
<1> QED
  BY <1>1, <1>2, <1>3

\* The stream when the first slice is handed to the decoder.
LEMMA StreamPolled ==
  ASSUME Inv, queue.inbound /= <<>>, decoded' = Append(decoded, Head(queue.inbound)),
         queue'.inbound = Tail(queue.inbound), queue'.pending = queue.pending,
         UNCHANGED <<sent, received, ended>>
  PROVE  Stream'
<1> DEFINE slice == queue.inbound[1]
           t == Tail(queue.inbound)
           m == Len(queue.inbound)
           d == Len(decoded)
           e == decoded'
<1>1. Before' = Before
  BY BeforeIsSums, BeforeIsSumsNext
<1>2. /\ queue.inbound \in Seq(Slices) /\ decoded \in Seq(Slices)
      /\ Head(queue.inbound) = slice /\ slice \in Slices
      /\ slice[1] <= received /\ Position(slice) = d + 1 /\ ended = "no"
  BY HeadSlice
<1>3. /\ m \in Nat /\ m >= 1 /\ Len(t) = m - 1
      /\ \A i \in 1 .. Len(t) : t[i] = queue.inbound[i + 1]
  BY <1>2
<1>4. e = Append(decoded, slice)
  BY <1>2
<1> HIDE DEF e, slice
<1>5. /\ d \in Nat /\ Len(e) = d + 1 /\ e[d + 1] = slice
      /\ \A i \in 1 .. d : e[i] = decoded[i]
  BY <1>2, <1>4, Appended
<1> HIDE DEF t, m, d
<1>6. ASSUME NEW i \in 1 .. Len(t)
      PROVE  t[i][1] <= received /\ Position(t[i]) = Len(e) + i
  <2>1. i + 1 \in 1 .. m /\ t[i] = queue.inbound[i + 1]
    BY <1>3
  <2>2. /\ queue.inbound[i + 1][1] <= received
        /\ Position(queue.inbound[i + 1]) = d + (i + 1)
    BY <2>1 DEF Inv, Stream, m, d
  <2>3. d + (i + 1) = Len(e) + i
    BY <1>5
  <2> QED  BY <2>1, <2>2, <2>3
<1>7. ASSUME NEW i \in 1 .. Len(e)
      PROVE  e[i][1] <= received /\ Position(e[i]) = i
  <2>1. CASE i = d + 1
    BY <1>2, <1>5, <2>1
  <2>2. CASE i \in 1 .. d
    BY <1>5, <2>2 DEF Inv, Stream, d
  <2> QED  BY <1>5, <2>1, <2>2
<1>8. CutTo' = CutTo
  BY <1>1 DEF CutTo, Position
<1>9. Len(e) + Len(t) = CutTo
  <2>1. d + m = CutTo
    BY <1>2 DEF Inv, Stream, d, m
  <2> QED  BY <1>3, <1>5, <2>1
<1> QED
  BY <1>1, <1>2, <1>6, <1>7, <1>8, <1>9, Zenon DEF Inv, Stream, Position, e, t

\* pollInbound hands out a slice and settles.
LEMMA PollKeeps == ASSUME Inv, Poll PROVE Inv'
<1> DEFINE q == [queue EXCEPT !.inbound = Tail(@)]
<1>1. /\ task = "pump" /\ queue.inbound /= <<>> /\ ~exactPaused
      /\ decoded' = Append(decoded, Head(queue.inbound))
      /\ queue' = Settle(q, exactPaused, "message") /\ Told(queue')
      /\ task' = "decode" /\ progress' = "moved"
      /\ UNCHANGED <<relay, received, exactPaused, wake, packets, javaOpen, ended>>
  BY DEF Poll, CanPoll
<1>2. /\ queue.inbound \in Seq(Slices) /\ decoded \in Seq(Slices)
      /\ Head(queue.inbound) \in Slices /\ ended = "no"
  BY <1>1, HeadSlice
<1>3. Tail(queue.inbound) \in Seq(Slices)
  BY <1>1, <1>2
<1>4. /\ q \in Queues /\ q.status = queue.status /\ q.pending = queue.pending
      /\ q.inbound = Tail(queue.inbound) /\ q.retiring = queue.retiring
      /\ q.flowPaused = queue.flowPaused /\ q.decodeFlowPaused = queue.decodeFlowPaused
  <2>1. PICK t \in Seq(Slices) : t = Tail(queue.inbound)
    BY <1>3, Zenon
  <2>2. q = [queue EXCEPT !.inbound = t]
    BY <2>1
  <2> HIDE DEF q
  <2> QED  BY <2>1, <2>2, Zenon DEF Inv, Typed, Queues
<1> HIDE DEF q
<1>5. TellsPause(q) /\ (q.status = "disposed" => q.pending = <<>>)
  BY <1>4, DisposedIsEmpty DEF TellsPause, Inv, Turns, PauseTold
<1>6. Same(q, queue') /\ TellsPause(queue') /\ FrameTurn(queue', exactPaused)
  BY <1>1, <1>4, <1>5, Settles
<1>7. flows' \in Seq(BOOLEAN) /\ queue' \in Queues
  BY <1>1, <1>6, ToldType DEF Same, Inv, Typed, TypeOK
<1>8. decoded' \in Seq(Slices)
  BY <1>1, <1>2, Appended
<1>9. Retyped
  BY <1>1, <1>7, <1>8, Zenon DEF relay, Inv, Retyped, Typed, TypeOK
<1>10. Gauge'
  BY <1>1 DEF Inv, Gauge, PacketsBounded
<1>11. Turns'
  BY <1>1, <1>6 DEF Turns, SliceTurn, PauseTold, TellsPause, FrameTurn, HasPending
<1>12. Ends'
  BY <1>1, <1>2, <1>4, <1>6 DEF relay, Same, Inv, Ends
<1>13. Stream'
  BY <1>1, <1>4, <1>6, StreamPolled DEF relay, Same
<1> QED
  BY <1>9, <1>10, <1>11, <1>12, <1>13, TypedNext DEF Inv

\* The decoded packets raise the gauge by at most one slice's.
LEMMA DecodeKeeps == ASSUME Inv, Decode PROVE Inv'
<1>1. /\ task = "decode" /\ task' = "pump"
      /\ exactPaused' = (exactPaused \/ packets' >= PacketHigh)
      /\ queue' = Settle(queue, exactPaused', "message") /\ Told(queue')
      /\ UNCHANGED <<relay, received, wake, progress, javaOpen, decoded, ended>>
  BY DEF Decode
<1>2. PICK n \in 0 .. MaxYield : packets' = packets + n
  BY DEF Decode
<1>3. packets \in Nat /\ n \in Nat /\ n <= MaxYield /\ packets' \in Nat
  BY <1>2, Marks DEF Inv, Typed, TypeOK
<1>4. exactPaused' \in BOOLEAN
  BY <1>1, Zenon
<1>5. /\ Ends' /\ Stream' /\ queue' \in Queues /\ flows' \in Seq(BOOLEAN)
      /\ PauseTold' /\ FrameTurn(queue', exactPaused') /\ queue'.inbound = queue.inbound
  BY <1>1, SettledEnds DEF relay
<1>6. Retyped
  BY <1>1, <1>3, <1>4, <1>5, Zenon DEF relay, Inv, Retyped, Typed, TypeOK
<1>7. Gauge'
  <2>1. ~exactPaused /\ packets < PacketHigh
    BY <1>1 DEF Inv, Gauge
  <2>2. packets' < PacketHigh + MaxYield
    BY <1>2, <1>3, <2>1, Marks
  <2>3. exactPaused' => packets' > PacketLow
    <3>1. exactPaused' => packets' >= PacketHigh
      BY <1>1, <2>1, Zenon
    <3>2. packets' >= PacketHigh => packets' > PacketLow
      BY <1>3, Marks
    <3> QED  BY <3>1, <3>2, Zenon
  <2>4. ~exactPaused' => packets' < PacketHigh
    <3>1. ~exactPaused' => ~(packets' >= PacketHigh)
      BY <1>1, Zenon
    <3>2. ~(packets' >= PacketHigh) => packets' < PacketHigh
      BY <1>3, Marks
    <3> QED  BY <3>1, <3>2, Zenon
  <2> QED  BY <1>1, <2>2, <2>3, <2>4 DEF Gauge, PacketsBounded
<1>8. Turns'
  BY <1>1, <1>5 DEF Inv, Turns, SliceTurn
<1> QED
  BY <1>5, <1>6, <1>7, <1>8, TypedNext DEF Inv

\* A close from within the pipeline.
LEMMA DecodeClosesKeeps == ASSUME Inv, DecodeCloses PROVE Inv'
<1>1. /\ task = "decode" /\ task' = "pump" /\ JavaClose("left")
      /\ UNCHANGED <<relay, received, flows, exactPaused, wake, progress, packets, decoded>>
  BY DEF DecodeCloses
<1>2. /\ queue' \in Queues /\ Ends' /\ Stream'
      /\ ended' \in {"failed", "left", "drained", "expired", "error"}
      /\ queue'.pending = <<>> /\ queue'.inbound = <<>> /\ queue'.status = "disposed"
  BY <1>1, Closes DEF JavaClose, relay
<1>3. Retyped
  BY <1>1, <1>2, Zenon DEF JavaClose, relay, Inv, Retyped, Typed, TypeOK
<1>4. Gauge'
  BY <1>1 DEF Inv, Gauge, PacketsBounded
<1>5. Turns'
  <2>1. /\ Turns /\ queue'.status /= "connected" /\ progress' = progress
        /\ task /= "slices" /\ task' = "pump"
    BY <1>1, <1>2 DEF Inv
  <2> QED  BY <1>2, <2>1, EmptyTurns
<1> QED
  BY <1>2, <1>3, <1>4, <1>5, TypedNext DEF Inv

\* The entry the loop of pump() stops with holds what it held, and its frames
\* have their turn.
LEMMA StoppedEntry ==
  ASSUME Inv, task = "pump", NEW q \in Stopped
  PROVE  /\ Same(queue, q) /\ TellsPause(q) /\ FrameTurn(q, exactPaused)
         /\ progress = "moved" \/ queue.inbound = <<>> \/ exactPaused
<1>1. queue \in Queues /\ TellsPause(queue) /\ FrameTurn(queue, exactPaused)
  BY DEF TellsPause, Inv, Turns, PauseTold, Typed
<1>2. progress \in {"none", "moved"}
  BY DEF Inv, Turns, Typed, TypeOK
<1>3. CASE progress /= "none" /\ q = queue
  BY <1>1, <1>2, <1>3 DEF Same
<1>4. CASE queue.inbound = <<>> /\ q = scheduleSlices(queue, exactPaused, "microtask")
  <2>1. ScheduleDone(queue, q, exactPaused)
    BY <1>1, <1>4, SlicesScheduled
  <2> QED
    BY <1>1, <1>4, <2>1, DisposedIsEmpty
       DEF ScheduleDone, Same, TellsPause, FrameTurn, CallbackDue, HasPending
<1>5. CASE exactPaused /\ q = applyFlowControl(queue, exactPaused)
  <2>1. FlowDone(queue, q, exactPaused)
    BY <1>1, <1>5, FlowControlled, Zenon
  <2> QED
    BY <1>1, <1>5, <2>1, Zenon DEF FlowDone, FrameTurn
<1> QED
  BY <1>3, <1>4, <1>5 DEF Stopped

\* The end of pump() leaves a wakeup for what it did not poll, or closes.
LEMMA PumpEndKeeps == ASSUME Inv, PumpEnd PROVE Inv'
<1>1. /\ task = "pump" /\ task' = "none" /\ progress' = "none"
      /\ UNCHANGED <<sent, relayPaused, remote, received, exactPaused, packets, decoded>>
  BY DEF PumpEnd, relay
<1>2. PICK q \in Stopped :
        IF javaOpen /\ DrainedOut(q)
        THEN JavaClose("drained") /\ UNCHANGED <<wake, flows>>
        ELSE /\ queue' = q /\ Told(q)
             /\ wake' = (wake \/ (progress = "moved" /\ CanPoll))
             /\ UNCHANGED <<javaOpen, ended>>
  BY DEF PumpEnd
<1>3. /\ Same(queue, q) /\ TellsPause(q) /\ FrameTurn(q, exactPaused)
      /\ progress = "moved" \/ queue.inbound = <<>> \/ exactPaused
  BY <1>1, StoppedEntry
<1>4. Gauge'
  BY <1>1 DEF Inv, Gauge, PacketsBounded
<1>5. CASE javaOpen /\ DrainedOut(q)
  <2>1. JavaClose("drained") /\ UNCHANGED <<wake, flows>>
    BY <1>2, <1>5
  <2>2. queue.status /= "connected" /\ ~HasPending(queue)
    BY <1>3, <1>5 DEF DrainedOut, HasPending, Same
  <2>3. /\ queue' \in Queues /\ Ends' /\ Stream'
        /\ ended' \in {"failed", "left", "drained", "expired", "error"}
        /\ queue'.pending = <<>> /\ queue'.inbound = <<>> /\ queue'.status = "disposed"
    BY <1>1, <2>1, <2>2, Closes DEF JavaClose
  <2>4. Retyped
    BY <1>1, <2>1, <2>3, Zenon DEF JavaClose, Inv, Retyped, Typed, TypeOK
  <2>5. Turns'
    BY <1>1, <2>3 DEF Turns, SliceTurn, PauseTold, FrameTurn
  <2> QED  BY <1>4, <2>3, <2>4, <2>5, TypedNext DEF Inv
<1>6. CASE ~(javaOpen /\ DrainedOut(q))
  <2>1. /\ queue' = q /\ Told(q)
        /\ wake' = (wake \/ (progress = "moved" /\ CanPoll))
        /\ UNCHANGED <<javaOpen, ended>>
    BY <1>2, <1>6
  <2>2. queue' \in Queues /\ flows' \in Seq(BOOLEAN)
    BY <1>3, <2>1, ToldType DEF Same, Inv, Typed, TypeOK
  <2>3. wake' \in BOOLEAN
    BY <2>1, Zenon
  <2>4. Retyped
    BY <1>1, <2>1, <2>2, <2>3, Zenon DEF Inv, Retyped, Typed, TypeOK
  <2>5. Turns'
    <3>1. SliceTurn'
      BY <1>1, <1>3, <2>1, Zenon DEF Same, SliceTurn, CanPoll
    <3> QED
      BY <1>1, <1>3, <2>1, <3>1 DEF Turns, PauseTold, TellsPause, FrameTurn, HasPending
  <2>6. Ends' /\ Stream'
    BY <1>1, <1>3, <2>1, EndsKept, StreamKept DEF Same, Inv
  <2> QED  BY <1>4, <2>4, <2>5, <2>6, TypedNext DEF Inv
<1> QED
  BY <1>5, <1>6

-----------------------------------------------------------------------------
(* The client and the retirement.                                          *)

\* A handled packet lowers the gauge; its falling edge wakes and settles.
LEMMA ClientTickKeeps == ASSUME Inv, ClientTick PROVE Inv'
<1>1. /\ task = "none" /\ packets > 0 /\ packets' = packets - 1
      /\ exactPaused' = (exactPaused /\ packets' > PacketLow)
      /\ UNCHANGED <<sent, relayPaused, remote, received, task, progress, javaOpen, decoded,
                     ended>>
  BY DEF ClientTick, Quiet, relay
<1>2. packets \in Nat /\ packets' \in Nat /\ packets' < packets
  BY <1>1 DEF Inv, Typed, TypeOK
<1>3. exactPaused' \in BOOLEAN
  BY <1>1, Zenon
<1>4. Gauge'
  <2>1. /\ exactPaused' => packets' > PacketLow
        /\ ~exactPaused' => ~exactPaused \/ ~(packets' > PacketLow)
    BY <1>1, Zenon
  <2>2. /\ ~exactPaused => packets' < PacketHigh
        /\ ~(packets' > PacketLow) => packets' < PacketHigh
        /\ packets' < PacketHigh + MaxYield
    BY <1>2, Marks DEF Inv, Gauge, PacketsBounded
  <2>3. task' /= "decode"
    BY <1>1
  <2> QED  BY <2>1, <2>2, <2>3, Zenon DEF Gauge, PacketsBounded
<1>5. CASE exactPaused' = exactPaused
  <2>1. UNCHANGED <<queue, flows, wake>>
    BY <1>5 DEF ClientTick
  <2>2. Retyped
    BY <1>1, <1>2, <1>3, <2>1, Zenon DEF Inv, Retyped, Typed, TypeOK
  <2>3. Turns'
    BY <1>1, <1>5, <2>1 DEF Inv, Turns, SliceTurn, PauseTold, FrameTurn, HasPending
  <2>4. Ends' /\ Stream'
    BY <1>1, <2>1, EndsKept, StreamKept DEF Inv
  <2> QED  BY <1>4, <2>2, <2>3, <2>4, TypedNext DEF Inv
<1>6. CASE exactPaused' /= exactPaused
  <2>1. /\ signalInbound(exactPaused')
        /\ queue' = Settle(queue, exactPaused', "message") /\ Told(queue')
    BY <1>6 DEF ClientTick
  <2>2. exactPaused' = FALSE
    BY <1>1, <1>6, <1>3, Zenon DEF Inv, Typed, TypeOK
  <2>3. wake' = TRUE
    BY <2>1, <2>2, Zenon DEF signalInbound
  <2>4. /\ Ends' /\ Stream' /\ queue' \in Queues /\ flows' \in Seq(BOOLEAN)
        /\ PauseTold' /\ FrameTurn(queue', exactPaused') /\ queue'.inbound = queue.inbound
    BY <1>1, <2>1, SettledEnds
  <2>5. Retyped
    BY <1>1, <1>2, <1>3, <2>3, <2>4, Zenon DEF Inv, Retyped, Typed, TypeOK
  <2>6. Turns'
    BY <1>1, <2>3, <2>4 DEF Inv, Turns, SliceTurn
  <2> QED  BY <1>4, <2>4, <2>5, <2>6, TypedNext DEF Inv
<1> QED
  BY <1>5, <1>6

\* The client closes the channel.
LEMMA DisconnectKeeps == ASSUME Inv, Disconnect PROVE Inv'
<1>1. /\ JavaClose("left")
      /\ UNCHANGED <<sent, relayPaused, remote, received, flows, exactPaused, wake, task,
                     progress, packets, decoded>>
  BY DEF Disconnect, relay
<1>2. /\ queue' \in Queues /\ Ends' /\ Stream'
      /\ ended' \in {"failed", "left", "drained", "expired", "error"}
      /\ queue'.pending = <<>> /\ queue'.inbound = <<>> /\ queue'.status = "disposed"
  BY <1>1, Closes DEF JavaClose
<1>3. Retyped
  BY <1>1, <1>2, ZenonT(60) DEF JavaClose, Inv, Retyped, Typed, TypeOK
<1>4. Gauge'
  BY <1>1 DEF Inv, Gauge, PacketsBounded
<1>5. Turns'
  <2>1. Turns /\ queue'.status /= "connected" /\ progress' = progress /\ task' = task
    BY <1>1, <1>2 DEF Inv
  <2> QED  BY <1>2, <2>1, EmptyTurns
<1> QED
  BY <1>2, <1>3, <1>4, <1>5, TypedNext DEF Inv

\* A retry of the retirement wakes the pump once more.
LEMMA RetireRetryKeeps == ASSUME Inv, RetireRetry PROVE Inv'
<1>1. /\ queue.grace > 0 /\ queue' = [queue EXCEPT !.grace = @ - 1]
      /\ signalInbound(exactPaused) /\ task = "none"
      /\ UNCHANGED <<sent, relayPaused, remote, received, flows, exactPaused, task, progress,
                     packets, javaOpen, decoded, ended>>
  BY DEF RetireRetry, Quiet, relay
<1>2. PICK n \in 0 .. GraceRetries : n = queue.grace - 1
  <2>1. queue.grace \in 0 .. GraceRetries
    BY DEF Inv, Typed, TypeOK
  <2> QED  BY <1>1, <2>1, Marks
<1>3. /\ queue' \in Queues /\ queue'.pending = queue.pending
      /\ queue'.inbound = queue.inbound /\ queue'.status = queue.status
      /\ queue'.retiring = queue.retiring /\ queue'.slicing = queue.slicing
      /\ queue'.flowPaused = queue.flowPaused
      /\ queue'.decodeFlowPaused = queue.decodeFlowPaused
  BY <1>1, <1>2, Zenon DEF Inv, Typed, Queues
<1>4. wake' \in BOOLEAN /\ (wake => wake')
  BY <1>1, Zenon DEF signalInbound
<1>5. Retyped
  BY <1>1, <1>3, <1>4, Zenon DEF Inv, Retyped, Typed, TypeOK
<1>6. Gauge'
  BY <1>1 DEF Inv, Gauge, PacketsBounded
<1>7. Turns'
  BY <1>1, <1>3, <1>4 DEF Inv, Turns, SliceTurn, PauseTold, FrameTurn, HasPending
<1>8. Ends' /\ Stream'
  BY <1>1, <1>3, EndsKept, StreamKept DEF Inv
<1> QED
  BY <1>5, <1>6, <1>7, <1>8, TypedNext DEF Inv

\* The retirement disposes of an entry that is empty or out of time.
LEMMA RetireEndsKeeps == ASSUME Inv, finalizeRemoteCloseRetire PROVE Inv'
<1> DEFINE reason == IF queue.grace = 0 THEN "expired" ELSE "drained"
<1>1. /\ queue.retiring /\ (hasRemoteCloseRetireWork => queue.grace = 0)
      /\ queue' = closeEntry(queue) /\ wake' = TRUE /\ EndedBy(reason)
      /\ UNCHANGED <<sent, relayPaused, remote, received, flows, exactPaused, task, progress,
                     packets, javaOpen, decoded>>
  BY DEF finalizeRemoteCloseRetire, relay
<1>2. reason = "drained" => queue.status /= "connected" /\ ~HasPending(queue)
  BY <1>1 DEF hasRemoteCloseRetireWork, Inv, Ends
<1>3. reason \in {"failed", "left", "drained", "expired", "error"}
  OBVIOUS
<1> HIDE DEF reason
<1>4. /\ queue' \in Queues /\ Ends' /\ Stream'
      /\ ended' \in {"failed", "left", "drained", "expired", "error"}
      /\ queue'.pending = <<>> /\ queue'.inbound = <<>> /\ queue'.status = "disposed"
  BY <1>1, <1>2, <1>3, Closes
<1>5. Retyped
  BY <1>1, <1>4, ZenonT(60) DEF Inv, Retyped, Typed, TypeOK
<1>6. Gauge'
  BY <1>1 DEF Inv, Gauge, PacketsBounded
<1>7. Turns'
  <2>1. Turns /\ queue'.status /= "connected" /\ progress' = progress /\ task' = task
    BY <1>1, <1>4 DEF Inv
  <2> QED  BY <1>4, <2>1, EmptyTurns
<1> QED
  BY <1>4, <1>5, <1>6, <1>7, TypedNext DEF Inv

-----------------------------------------------------------------------------
(* The theorems.                                                           *)

\* A step that changes nothing.
LEMMA Stutters == ASSUME Inv, UNCHANGED vars PROVE Inv'
<1>1. UNCHANGED <<sent, received, relayPaused, flows, remote, queue, exactPaused,
                  wake, task, progress, packets, javaOpen, decoded, ended>>
  BY DEF vars
<1>2. Retyped
  BY <1>1, ZenonT(60) DEF Inv, Retyped, Typed, TypeOK
<1>3. Gauge' /\ Turns'
  BY <1>1 DEF Inv, Gauge, PacketsBounded, Turns, SliceTurn, PauseTold, FrameTurn, HasPending
<1>4. Ends' /\ Stream'
  BY <1>1, EndsKept, StreamKept DEF Inv
<1> QED
  BY <1>2, <1>3, <1>4, TypedNext DEF Inv

\* The types, the gauge of the packets, the turns of what is queued, the ends
\* of the channel and its stream hold in every reachable state.
THEOREM Invariance == Spec => []Inv
<1>1. Inv /\ [Next]_vars => Inv'
  <2> SUFFICES ASSUME Inv, [Next]_vars PROVE Inv'
    OBVIOUS
  <2>1. CASE Relay
    BY <2>1, RelaySendsKeeps, RelayTakesFlowKeeps, RelayClosesKeeps DEF Relay
  <2>2. CASE Socket
    BY <2>2, OnMessageKeeps, OnCloseKeeps, OnErrorKeeps DEF Socket
  <2>3. CASE SlicePump
    BY <2>3, SliceCallbackKeeps, AdmitSliceKeeps, SlicesEndKeeps DEF SlicePump
  <2>4. CASE JavaPump
    BY <2>4, WakeCallbackKeeps, FramePumpKeeps, PollKeeps, DecodeKeeps,
       DecodeClosesKeeps, PumpEndKeeps DEF JavaPump, PumpLoop
  <2>5. CASE Client
    BY <2>5, ClientTickKeeps, DisconnectKeeps DEF Client
  <2>6. CASE Retire
    BY <2>6, RetireRetryKeeps, RetireEndsKeeps DEF Retire
  <2>7. CASE UNCHANGED vars
    BY <2>7, Stutters
  <2> QED
    BY <2>1, <2>2, <2>3, <2>4, <2>5, <2>6, <2>7 DEF Next
<1> QED
  BY <1>1, Initially, PTL DEF Spec

\* The queues keep their types, and the packets that wait for the client stay
\* below the exact queue's watermark and one slice (recordDecodedPacketQueue,
\* pollInbound), whatever the watermarks are.
THEOREM Bounded == Spec => []InputIsBounded
<1>1. Inv => InputIsBounded
  BY DEF Inv, Typed, Gauge, InputIsBounded
<1> QED
  BY <1>1, Invariance, PTL

\* A channel that ended because it was drained has decoded everything that was
\* sent before the remote close (pump, finalizeRemoteCloseRetire).
THEOREM TailDecoded == Spec => []DrainedKeepsTail
<1>1. Inv => DrainedKeepsTail
  BY DEF Inv, Ends, Stream, DrainedKeepsTail
<1> QED
  BY <1>1, Invariance, PTL

\* Between the events of the page, what is queued has a wakeup, a callback or
\* the paused exact queue to wait for, and a paused relay waits for something
\* that will drain (scheduleSlices, signalInbound, applyFlowControl).
THEOREM EverythingHasTurn == Spec => []NeverStuck
<1>1. Inv => NeverStuck
  BY DEF Inv, Gauge, Turns, SliceTurn, FrameTurn, Quiet, NeverStuck, BacklogHasTurn,
         PauseHasDrain
<1> QED
  BY <1>1, Invariance, PTL

-----------------------------------------------------------------------------
(* The refinement.                                                         *)

\* The first n positions of the stream.
Positions(n) == [i \in 1 .. n |-> i]

\* Positions that follow those are the positions of a longer stream.
LEMMA PositionsGrow ==
  ASSUME NEW n \in Nat, NEW k \in Nat
  PROVE  Positions(n) \o [i \in 1 .. k |-> n + i] = Positions(n + k)
<1> DEFINE a == Positions(n)
           b == [i \in 1 .. k |-> n + i]
           c == Positions(n + k)
<1>1. a \in Seq(Nat) /\ Len(a) = n /\ \A i \in 1 .. n : a[i] = i
  BY DEF Positions
<1>2. b \in Seq(Nat) /\ Len(b) = k /\ \A i \in 1 .. k : b[i] = n + i
  OBVIOUS
<1>3. c \in Seq(Nat) /\ Len(c) = n + k /\ \A i \in 1 .. n + k : c[i] = i
  BY DEF Positions
<1> HIDE DEF a, b, c
<1>4. /\ a \o b \in Seq(Nat) /\ Len(a \o b) = n + k
      /\ \A i \in 1 .. n + k : (a \o b)[i] = IF i <= n THEN a[i] ELSE b[i - n]
  BY <1>1, <1>2, ConcatProperties, ZenonT(60)
<1>5. ASSUME NEW i \in 1 .. n + k PROVE (a \o b)[i] = c[i]
  <2>1. CASE i <= n
    BY <1>1, <1>3, <1>4, <2>1
  <2>2. CASE i > n
    <3>1. i - n \in 1 .. k /\ ~(i <= n)
      BY <2>2
    <3>2. (a \o b)[i] = b[i - n]
      BY <1>4, <3>1
    <3>3. b[i - n] = n + (i - n)
      BY <1>2, <3>1
    <3> QED  BY <1>3, <3>2, <3>3
  <2>3. i <= n \/ i > n
    OBVIOUS
  <2> QED  BY <2>1, <2>2, <2>3, Zenon
<1>6. a \o b = c
  BY <1>3, <1>4, <1>5, SeqEqual, Zenon
<1> QED
  BY <1>6, Zenon DEF a, b, c

\* The decoder was given the positions of the stream one after the other.
LEMMA HandedOut ==
  ASSUME Inv
  PROVE  /\ [i \in 1 .. Len(decoded) |-> Position(decoded[i])] = Positions(Len(decoded))
         /\ Len(decoded) \in Nat
<1>1. \A i \in 1 .. Len(decoded) : Position(decoded[i]) = i
  BY DEF Inv, Stream
<1>2. Len(decoded) \in Nat
  BY DEF Inv, Typed, TypeOK
<1> QED
  BY <1>1, <1>2 DEF Positions

\* The same after a step.
LEMMA HandedOutNext ==
  ASSUME Inv'
  PROVE  /\ [i \in 1 .. Len(decoded) |-> Position(decoded[i])]' = Positions(Len(decoded'))
         /\ Len(decoded') \in Nat
<1>1. \A i \in 1 .. Len(decoded') : Position(decoded[i])' = i
  BY DEF Inv, Stream
<1>2. Len(decoded') \in Nat
  BY DEF Inv, Typed, TypeOK
<1> QED
  BY <1>1, <1>2 DEF Positions

\* An open channel has decoded no more than was received, and no more can be
\* received than the frames that may be sent.
Confined ==
    /\ Before[received] \in Nat /\ Before[received] <= Widest * FrameBudget
    /\ ended = "no" =>
         /\ Len(decoded) <= Before[received]
         /\ queue.inbound /= <<>> => Len(decoded) + 1 <= Before[received]

\* The bounds follow from where the cut slices and the frames lie.
LEMMA Within == Inv => Confined
<1> SUFFICES ASSUME Inv PROVE Confined
  OBVIOUS
<1>1. /\ sent \in Seq(Nat) /\ received \in 0 .. Len(sent) /\ Before[received] \in Nat
      /\ Before = Sums(sent) /\ Len(sent) <= FrameBudget /\ Len(sent) \in Nat
      /\ sent \in Seq(Sizes)
  BY SentSizes DEF Inv, Typed, TypeOK
<1>2. Widest \in Nat /\ \A size \in Sizes : size <= Widest
  BY WatermarkAssumption, Marks, Zenon DEF Widest
<1>3. Before[received] <= Widest * FrameBudget
  <2>1. \A k \in 1 .. Len(sent) : sent[k] <= Widest
    <3>1. \A k \in 1 .. Len(sent) : sent[k] \in Sizes
      BY <1>1
    <3> QED  BY <1>2, <3>1
  <2>2. Before[received] <= Widest * received
    BY <1>1, <1>2, <2>1, SumsBounded, Zenon
  <2>3. received <= FrameBudget /\ received \in Nat /\ FrameBudget \in Nat
    BY <1>1, Marks
  <2>4. \A w, a, b \in Nat : a <= b => w * a <= w * b
    OBVIOUS
  <2>5. Widest * received <= Widest * FrameBudget
    BY <1>2, <2>3, <2>4
  <2>6. Widest * received \in Int /\ Widest * FrameBudget \in Int
    BY <1>2, <2>3
  <2> QED  BY <1>1, <2>2, <2>5, <2>6
<1>4. CASE ended = "no"
  <2> DEFINE d == Len(decoded)
             m == Len(queue.inbound)
  <2>1. /\ d \in Nat /\ m \in Nat /\ (queue.inbound /= <<>> => m >= 1)
        /\ d + m = CutTo
    <3>1. decoded \in Seq(Slices) /\ queue.inbound \in Seq(Slices)
      BY DEF Inv, Typed, TypeOK
    <3> QED  BY <1>4, <3>1 DEF Inv, Stream
  <2> HIDE DEF d, m
  <2>2. CutTo <= Before[received]
    <3>1. CASE queue.pending = <<>>
      BY <1>1, <3>1 DEF CutTo
    <3>2. CASE queue.pending /= <<>>
      <4> DEFINE f == queue.pending[1][1]
                 off == queue.pending[1][2]
      <4>1. /\ f \in 1 .. Len(sent) /\ off \in Nat /\ off <= sent[f]
            /\ f <= received /\ sent[f] \in Nat
            /\ Before[f] = Before[f - 1] + sent[f] /\ Before[f - 1] \in Nat
        <5>1. /\ f = received - Len(queue.pending) + 1
              /\ Len(queue.pending) \in Nat /\ Len(queue.pending) >= 1
              /\ received \in Nat
          BY <3>2, HeadFrame
        <5>2. f <= received
          BY <5>1
        <5> QED  BY <3>2, <5>2, HeadFrame
      <4>2. CutTo = Before[f - 1] + off
        BY <3>2 DEF CutTo, Position
      <4> HIDE DEF f, off
      <4>3. f \in 0 .. Len(sent)
        BY <1>1, <4>1
      <4>4. Before[f] <= Before[received]
        BY <1>1, <4>1, <4>3, SumsGrow, Zenon
      <4> QED  BY <1>1, <4>1, <4>2, <4>4, SMTT(30)
    <3> QED  BY <3>1, <3>2
  <2>3. d <= Before[received] /\ (queue.inbound /= <<>> => d + 1 <= Before[received])
    BY <1>1, <2>1, <2>2
  <2> QED  BY <1>1, <1>3, <2>3 DEF d, Confined
<1> QED
  BY <1>1, <1>3, <1>4 DEF Confined

\* What a step does to the stream: nothing, a frame more, a slice more, or its
\* end.
Rests ==
    /\ received' = received /\ decoded' = decoded /\ (ended' = "no" <=> ended = "no")
    /\ sent' = sent \/ \E size \in Sizes : sent' = Append(sent, size)
Receives ==
    /\ ended = "no" /\ ended' = "no" /\ sent' = sent /\ decoded' = decoded
    /\ received' = received + 1 /\ received < Len(sent)
Hands ==
    /\ ended = "no" /\ ended' = "no" /\ sent' = sent /\ received' = received
    /\ queue.inbound /= <<>> /\ decoded' = Append(decoded, Head(queue.inbound))
Stops ==
    /\ ended = "no" /\ ended' /= "no" /\ sent' = sent /\ decoded' = decoded
    /\ \/ received' = received
       \/ received' = received + 1 /\ received < Len(sent)

\* A close of the channel is its end, or comes after it.
LEMMA CloseStops ==
  ASSUME NEW reason \in {"failed", "left", "drained", "expired", "error"},
         EndedBy(reason), UNCHANGED <<sent, received, decoded>>
  PROVE  Rests \/ Stops
  BY DEF EndedBy, Rests, Stops

\* Every step does one of these to the stream.
LEMMA StepKinds ==
  ASSUME Inv, [Next]_vars
  PROVE  Rests \/ Receives \/ Hands \/ Stops
<1>1. CASE Relay
  BY <1>1 DEF Relay, RelaySends, RelayTakesFlow, RelayCloses, Rests
<1>2. CASE Socket
  <2>1. CASE OnMessage
    <3>1. /\ ended = "no" /\ sent' = sent /\ decoded' = decoded
          /\ received' = received + 1 /\ received < Len(sent)
      BY <2>1 DEF OnMessage, relay, Inv, Ends
    <3>2. EndedBy("failed") \/ UNCHANGED ended
      BY <2>1 DEF OnMessage
    <3> QED  BY <3>1, <3>2 DEF EndedBy, Receives, Stops
  <2>2. CASE OnClose
    BY <2>2 DEF OnClose, relay, Rests
  <2>3. CASE OnError
    BY <2>3, CloseStops DEF OnError, relay
  <2> QED  BY <1>2, <2>1, <2>2, <2>3 DEF Socket
<1>3. CASE SlicePump
  BY <1>3 DEF SlicePump, SliceCallback, AdmitSlice, SlicesEnd, relay, Rests
<1>4. CASE WakeCallback \/ FramePump
  <2>1. CASE PumpStarts
    BY <2>1, CloseStops DEF PumpStarts, JavaClose, relay, Rests
  <2>2. CASE UNCHANGED <<relay, received, decoded, ended>>
    BY <2>2 DEF relay, Rests
  <2> QED  BY <1>4, <2>1, <2>2 DEF WakeCallback, FramePump
<1>5. CASE PumpLoop
  <2>1. CASE Poll
    <3>1. /\ queue.inbound /= <<>> /\ decoded' = Append(decoded, Head(queue.inbound))
          /\ UNCHANGED <<sent, received, ended>>
      BY <2>1 DEF Poll, CanPoll, relay
    <3>2. ended = "no"
      BY <3>1 DEF Inv, Ends
    <3> QED  BY <3>1, <3>2 DEF Hands
  <2>2. CASE Decode
    BY <2>2 DEF Decode, relay, Rests
  <2>3. CASE DecodeCloses
    BY <2>3, CloseStops DEF DecodeCloses, JavaClose, relay
  <2>4. CASE PumpEnd
    <3>1. UNCHANGED <<sent, received, decoded>> /\ (EndedBy("drained") \/ UNCHANGED ended)
      BY <2>4 DEF PumpEnd, JavaClose, relay
    <3> QED  BY <3>1, CloseStops DEF Rests
  <2> QED  BY <1>5, <2>1, <2>2, <2>3, <2>4 DEF PumpLoop
<1>6. CASE Client
  BY <1>6, CloseStops DEF Client, ClientTick, Disconnect, JavaClose, relay, Rests
<1>7. CASE Retire
  <2>1. CASE RetireRetry
    BY <2>1 DEF RetireRetry, relay, Rests
  <2>2. CASE finalizeRemoteCloseRetire
    <3>1. PICK reason \in {"expired", "drained"} : EndedBy(reason)
      BY <2>2 DEF finalizeRemoteCloseRetire
    <3> QED  BY <2>2, <3>1, CloseStops DEF finalizeRemoteCloseRetire, relay
  <2> QED  BY <1>7, <2>1, <2>2 DEF Retire
<1>8. CASE UNCHANGED vars
  BY <1>8 DEF vars, Rests
<1> QED
  BY <1>1, <1>2, <1>3, <1>4, <1>5, <1>6, <1>7, <1>8 DEF Next, JavaPump

\* What was received lies where it lay.
LEMMA ArrivedKept ==
  ASSUME Inv, sent' = sent \/ \E size \in Sizes : sent' = Append(sent, size)
  PROVE  Before'[received] = Before[received]
<1>1. sent \in Seq(Nat) /\ received \in 0 .. Len(sent)
  BY SentSizes DEF Inv
<1>2. CASE sent' = sent
  BY <1>2, BeforeIsSums, BeforeIsSumsNext
<1>3. CASE \E size \in Sizes : sent' = Append(sent, size)
  <2>1. PICK size \in Nat : sent' = Append(sent, size)
    BY <1>3, Marks
  <2> QED  BY <1>1, <2>1, SumsAppend, BeforeIsSums, BeforeIsSumsNext
<1> QED
  BY <1>2, <1>3

\* Every step of the channel is a step of the ordered hop, or none.
LEMMA OrderedStep ==
  ASSUME Inv, Inv', [Next]_vars
  PROVE  [Ordered!Next]_Ordered!vars
<1> DEFINE out == [i \in 1 .. Len(decoded) |-> Position(decoded[i])]
           d == Len(decoded)
           a == Before[received]
<1>1. /\ out = Positions(d) /\ d \in Nat
      /\ out' = Positions(d') /\ d' \in Nat
  BY HandedOut, HandedOutNext
<1>2. /\ a \in Nat /\ a <= Widest * FrameBudget /\ (ended = "no" => d <= a)
      /\ queue.inbound /= <<>> /\ ended = "no" => d + 1 <= a
  BY Within DEF Confined
<1>3. /\ a' \in Nat /\ a' <= Widest * FrameBudget /\ (ended' = "no" => d' <= a')
  <2>1. Confined'
    BY Within, PTL
  <2> QED  BY <2>1 DEF Confined
<1>4. Widest * FrameBudget \in Nat
  <2>1. Widest \in Nat /\ FrameBudget \in Nat
    BY WatermarkAssumption, Marks, Zenon DEF Widest
  <2> QED  BY <2>1
<1>5. sent \in Seq(Nat) /\ received \in 0 .. Len(sent) /\ Before = Sums(sent)
      /\ Len(sent) \in Nat
  BY SentSizes DEF Inv
<1> HIDE DEF out, d, a
<1>6. CASE Rests
  <2>1. a' = a
    BY <1>6, ArrivedKept DEF Rests, a
  <2>2. d' = d /\ out' = out
    <3>1. d' = d
      BY <1>6 DEF Rests, d
    <3> QED  BY <1>1, <3>1
  <2>3. UNCHANGED Ordered!vars
    BY <1>6, <2>1, <2>2 DEF Ordered!vars, Rests, a, d, out
  <2> QED  BY <2>3
<1>7. CASE Receives
  <2>1. a' \in a .. Widest * FrameBudget
    <3>1. a <= a'
      <4>1. Before' = Before
        BY <1>7, BeforeIsSums, BeforeIsSumsNext DEF Receives
      <4>2. received + 1 \in 0 .. Len(sent) /\ received <= received + 1
        BY <1>5, <1>7 DEF Receives
      <4>3. Sums(sent)[received] <= Sums(sent)[received + 1]
        BY <1>5, <4>2, SumsGrow
      <4>4. a' = Before[received + 1]
        BY <1>7, <4>1 DEF Receives, a
      <4> QED  BY <1>5, <4>3, <4>4 DEF a
    <3> QED  BY <1>2, <1>3, <1>4, <3>1
  <2>2. d' = d /\ d' \in d .. a'
    <3>1. d' = d
      BY <1>7 DEF Receives, d
    <3> QED  BY <1>1, <1>3, <1>7, <3>1 DEF Receives
  <2>3. out' = out \o [i \in 1 .. d' - d |-> d + i]
    <3>1. d' = d + 0 /\ d' - d = 0 /\ 0 \in Nat
      BY <1>1, <2>2
    <3>2. Positions(d) \o [i \in 1 .. 0 |-> d + i] = Positions(d + 0)
      BY <1>1, <3>1, PositionsGrow
    <3> QED  BY <1>1, <3>1, <3>2, Zenon
  <2>4. Ordered!Deliver
    BY <1>7, <2>1, <2>2, <2>3, Zenon DEF Ordered!Deliver, Ordered!Arrive, Receives, a, d, out
  <2> QED  BY <1>7, <2>4 DEF Ordered!Next, Receives
<1>8. CASE Hands
  <2>1. a' = a /\ d' = d + 1
    <3>1. Before' = Before
      BY <1>8, BeforeIsSums, BeforeIsSumsNext DEF Hands
    <3>2. decoded \in Seq(Slices) /\ Head(queue.inbound) \in Slices
      BY <1>8, HeadSlice DEF Hands
    <3> QED  BY <1>8, <3>1, <3>2, Appended DEF Hands, a, d
  <2>2. a' \in a .. Widest * FrameBudget /\ d' \in d .. a'
    BY <1>1, <1>2, <1>3, <1>4, <1>8, <2>1 DEF Hands
  <2>3. out' = out \o [i \in 1 .. d' - d |-> d + i]
    <3>1. d' - d = 1 /\ 1 \in Nat
      BY <1>1, <2>1
    <3>2. Positions(d) \o [i \in 1 .. 1 |-> d + i] = Positions(d + 1)
      BY <1>1, <3>1, PositionsGrow, Zenon
    <3> QED  BY <1>1, <2>1, <3>1, <3>2
  <2>4. Ordered!Deliver
    BY <1>8, <2>2, <2>3, Zenon DEF Ordered!Deliver, Ordered!Arrive, Hands, a, d, out
  <2> QED  BY <1>8, <2>4 DEF Ordered!Next, Hands
<1>9. CASE Stops
  <2>1. a <= a'
    <3>1. Before' = Before
      BY <1>9, BeforeIsSums, BeforeIsSumsNext DEF Stops
    <3>2. received' \in 0 .. Len(sent) /\ received <= received'
      BY <1>5, <1>9 DEF Stops
    <3>3. Sums(sent)[received] <= Sums(sent)[received']
      BY <1>5, <3>2, SumsGrow
    <3> QED  BY <1>5, <3>1, <3>3 DEF a
  <2>2. d' = d /\ out' = out
    <3>1. d' = d
      BY <1>9 DEF Stops, d
    <3> QED  BY <1>1, <3>1
  <2>3. a' \in a .. Widest * FrameBudget /\ d' \in d .. a'
    BY <1>1, <1>2, <1>3, <1>4, <1>9, <2>1, <2>2 DEF Stops
  <2>4. Ordered!Abandon
    BY <1>9, <2>2, <2>3 DEF Ordered!Abandon, Ordered!Arrive, Stops, a, d, out
  <2> QED  BY <2>4 DEF Ordered!Next
<1> QED
  BY <1>6, <1>7, <1>8, <1>9, StepKinds

\* A channel that was opened is an ordered hop at its start.
LEMMA OrderedInit == Init => Ordered!Init
<1> SUFFICES ASSUME Init PROVE Ordered!Init
  OBVIOUS
<1>1. Before[received] = 0
  <2>1. sent \in Seq(Nat) /\ received = 0
    BY DEF Init
  <2> QED  BY <2>1, BeforeIsSums, SumsRun DEF Running
<1>2. Len(decoded) = 0 /\ [i \in 1 .. Len(decoded) |-> Position(decoded[i])] = <<>>
  <2>1. Len(decoded) = 0
    BY DEF Init
  <2> QED  BY <2>1
<1>3. ended = "no"
  BY DEF Init
<1> QED
  BY <1>1, <1>2, <1>3 DEF Ordered!Init

\* The channel in the page keeps the promise of an ordered hop: what it was
\* given reaches the decoder once and in order, and nothing after its end
\* (deliverInbound, pumpSlices, pollInbound, discardInbound).
THEOREM RefinesRelay == Spec => ImplementsRelay
<1>1. Inv /\ Inv' /\ [Next]_vars => [Ordered!Next]_Ordered!vars
  BY OrderedStep
<1> QED
  BY <1>1, OrderedInit, Invariance, PTL DEF Spec, ImplementsRelay, Ordered!Spec
=============================================================================
