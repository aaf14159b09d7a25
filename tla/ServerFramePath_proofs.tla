------------------------- MODULE ServerFramePath_proofs -------------------------
(* Proofs about ServerFramePath, for every stream, high-water mark and     *)
(* frame budget.                                                           *)
EXTENDS ServerFramePath, FiniteSetTheorems, TLAPS

\* An empty buffer takes nothing off.
LEMMA MinusEmpty == \A x \in Nat : x - Len(<<>>) = x
OBVIOUS

USE StreamAssumption, HighWaterAssumption, FrameBudgetAssumption

-----------------------------------------------------------------------------
(* ExactlyOnceInOrder in two halves: the buffer b is a run of positions    *)
(* that starts after t, and the first t units are spread over the output   *)
(* and the two sets.                                                       *)

Run(t, b) == \A i \in 1 .. Len(b) : b[i] = t + i

Placed(t, o, pr, di) ==
    /\ \A i, j \in 1 .. Len(o) : i < j => o[i] < o[j]
    /\ Elements(o) \cup pr \cup di = 1 .. t
    /\ Elements(o) \cap pr = {}
    /\ (Elements(o) \cup pr) \cap di = {}

\* The first n elements of a run are a run, and so is what follows them.
LEMMA RunSplit ==
    ASSUME NEW t \in Nat, NEW b \in Seq(Units), Run(t, b), NEW n \in 1 .. Len(b)
    PROVE  /\ Take(b, n) \in Seq(Units) /\ Len(Take(b, n)) = n /\ Run(t, Take(b, n))
           /\ Drop(b, n) \in Seq(Units) /\ Len(Drop(b, n)) = Len(b) - n
           /\ Run(t + n, Drop(b, n))
<1>1. Len(b) \in Nat /\ n \in Nat /\ 1 <= n /\ n <= Len(b)
  OBVIOUS
<1>2. /\ Take(b, n) \in Seq(Units) /\ Len(Take(b, n)) = n
      /\ \A i \in 1 .. n : Take(b, n)[i] = b[i]
  BY <1>1 DEF Take
<1>3. /\ Drop(b, n) \in Seq(Units) /\ Len(Drop(b, n)) = Len(b) - n
      /\ \A i \in 1 .. Len(b) - n : Drop(b, n)[i] = b[i + n]
  BY <1>1 DEF Drop
<1>4. \A i \in 1 .. Len(b) : b[i] = t + i
  BY DEF Run
<1>5. Run(t, Take(b, n))
  BY <1>1, <1>2, <1>4 DEF Run
<1>6. ASSUME NEW i \in 1 .. Len(b) - n PROVE Drop(b, n)[i] = (t + n) + i
  <2>1. i + n \in 1 .. Len(b)
    BY <1>1
  <2>2. b[i + n] = t + (i + n)
    BY <1>4, <2>1
  <2> QED
    BY <1>1, <1>3, <2>2
<1>7. Run(t + n, Drop(b, n))
  BY <1>3, <1>6 DEF Run
<1> QED
  BY <1>2, <1>3, <1>5, <1>7

\* The elements of a run are the interval it covers.
LEMMA RunElements ==
    ASSUME NEW t \in Nat, NEW b \in Seq(Units), Run(t, b)
    PROVE  Elements(b) = t + 1 .. t + Len(b)
<1>1. Len(b) \in Nat
  OBVIOUS
<1>2. ASSUME NEW x \in t + 1 .. t + Len(b) PROVE x \in Elements(b)
  <2>1. x - t \in 1 .. Len(b) /\ b[x - t] = x
    BY <1>1, <1>2 DEF Run
  <2> QED
    BY <2>1 DEF Elements
<1>3. ASSUME NEW x \in Elements(b) PROVE x \in t + 1 .. t + Len(b)
  <2>1. PICK i \in 1 .. Len(b) : x = b[i]
    BY <1>3 DEF Elements
  <2> QED
    BY <1>1, <2>1 DEF Run
<1> QED
  BY <1>2, <1>3

\* What a concatenation holds is what its parts hold.
LEMMA ElementsConcat ==
    ASSUME NEW o \in Seq(Units), NEW s \in Seq(Units)
    PROVE  /\ o \o s \in Seq(Units)
           /\ Len(o \o s) = Len(o) + Len(s)
           /\ Elements(o \o s) = Elements(o) \cup Elements(s)
<1>1. /\ Len(o) \in Nat /\ Len(s) \in Nat
      /\ o \o s \in Seq(Units) /\ Len(o \o s) = Len(o) + Len(s)
  OBVIOUS
<1>2. \A i \in 1 .. Len(o) : (o \o s)[i] = o[i]
  BY <1>1
<1>3. \A i \in 1 .. Len(s) : (o \o s)[i + Len(o)] = s[i]
  BY <1>1
<1>4. ASSUME NEW x \in Elements(o \o s) PROVE x \in Elements(o) \cup Elements(s)
  <2>1. PICK i \in 1 .. Len(o \o s) : x = (o \o s)[i]
    BY <1>4 DEF Elements
  <2>2. CASE i <= Len(o)
    BY <1>1, <1>2, <2>1, <2>2 DEF Elements
  <2>3. CASE ~(i <= Len(o))
    <3>1. i - Len(o) \in 1 .. Len(s) /\ x = s[i - Len(o)]
      BY <1>1, <1>3, <2>1, <2>3
    <3> QED
      BY <3>1 DEF Elements
  <2> QED
    BY <2>2, <2>3
<1>5. ASSUME NEW x \in Elements(o) PROVE x \in Elements(o \o s)
  <2>1. PICK i \in 1 .. Len(o) : x = o[i]
    BY <1>5 DEF Elements
  <2>2. i \in 1 .. Len(o \o s) /\ (o \o s)[i] = x
    BY <1>1, <1>2, <2>1
  <2> QED
    BY <2>2 DEF Elements
<1>6. ASSUME NEW x \in Elements(s) PROVE x \in Elements(o \o s)
  <2>1. PICK i \in 1 .. Len(s) : x = s[i]
    BY <1>6 DEF Elements
  <2>2. i + Len(o) \in 1 .. Len(o \o s) /\ (o \o s)[i + Len(o)] = x
    BY <1>1, <1>3, <2>1
  <2> QED
    BY <2>2 DEF Elements
<1> QED
  BY <1>1, <1>4, <1>5, <1>6

\* Sending the run that follows the first t units keeps them all in place.
LEMMA SendRun ==
    ASSUME NEW t \in Nat, NEW o \in Seq(Units), NEW s \in Seq(Units),
           NEW pr \in SUBSET Units,
           Placed(t, o, pr, {}), Run(t, s)
    PROVE  Placed(t + Len(s), o \o s, pr, {})
<1>1. /\ Len(o) \in Nat /\ Len(s) \in Nat
      /\ Len(o \o s) = Len(o) + Len(s)
      /\ Elements(o \o s) = Elements(o) \cup (t + 1 .. t + Len(s))
  BY ElementsConcat, RunElements
<1>2. \A i \in 1 .. Len(o) : (o \o s)[i] = o[i] /\ o[i] \in 1 .. t
  BY <1>1 DEF Placed, Elements
<1>3. \A i \in 1 .. Len(o) + Len(s) :
         i > Len(o) => (o \o s)[i] = t + (i - Len(o))
  BY <1>1 DEF Run
<1>4. \A i, j \in 1 .. Len(o) : i < j => o[i] < o[j]
  BY DEF Placed
<1>5. ASSUME NEW i \in 1 .. Len(o) + Len(s), NEW j \in 1 .. Len(o) + Len(s), i < j
      PROVE  (o \o s)[i] < (o \o s)[j]
  <2>1. CASE j <= Len(o)
    BY <1>1, <1>2, <1>4, <1>5, <2>1
  <2>2. CASE i <= Len(o) /\ j > Len(o)
    <3>1. i \in 1 .. Len(o) /\ j \in Nat
      BY <1>1, <2>2
    <3>2. (o \o s)[i] \in 1 .. t /\ (o \o s)[j] = t + (j - Len(o))
      BY <1>2, <1>3, <2>2, <3>1
    <3> QED
      BY <1>1, <2>2, <3>1, <3>2
  <2>3. CASE i > Len(o)
    <3>1. i \in Nat /\ j \in Nat /\ j > Len(o)
      BY <1>1, <1>5, <2>3
    <3>2. (o \o s)[i] = t + (i - Len(o)) /\ (o \o s)[j] = t + (j - Len(o))
      BY <1>3, <2>3, <3>1
    <3>3. t + (i - Len(o)) < t + (j - Len(o))
      BY <1>1, <1>5, <3>1
    <3> QED
      BY <3>2, <3>3
  <2> QED
    BY <1>1, <2>1, <2>2, <2>3
<1>6. Elements(o) \cup pr = 1 .. t /\ Elements(o) \cap pr = {}
  BY DEF Placed
<1>7. Elements(o \o s) \cup pr \cup {} = 1 .. t + Len(s)
  BY <1>1, <1>6
<1>8. Elements(o \o s) \cap pr = {}
  BY <1>1, <1>6
<1> QED
  BY <1>1, <1>5, <1>7, <1>8 DEF Placed

\* So does answering it, or dropping it.
LEMMA AnswerRun ==
    ASSUME NEW t \in Nat, NEW o, NEW pr, NEW di, NEW n \in Nat,
           Placed(t, o, pr, di)
    PROVE  Placed(t + n, o, pr \cup (t + 1 .. t + n), di)
BY DEF Placed

\* A teardown that discards a run off the head of the buffer keeps the placement.
LEMMA DropRun ==
    ASSUME NEW t \in Nat, NEW o, NEW pr, NEW di, NEW n \in Nat,
           Placed(t, o, pr, di)
    PROVE  Placed(t + n, o, pr, di \cup (t + 1 .. t + n))
BY DEF Placed

-----------------------------------------------------------------------------
(* Type correctness.                                                       *)

\* The number of frame ends up to a position is a natural number.
LEMMA FrameEndsCount ==
    ASSUME NEW b \in Seq(Units), NEW n
    PROVE  Cardinality({j \in FrameEnds(b) : j <= n}) \in Nat
<1>1. IsFiniteSet(1 .. Len(b))
  BY FS_Interval
<1>2. {j \in FrameEnds(b) : j <= n} \in SUBSET (1 .. Len(b))
  BY DEF FrameEnds
<1> QED
  BY <1>1, <1>2, FS_Subset, FS_CardinalityType

\* The prefix and the rest of a sequence of units.
LEMMA SplitType ==
    ASSUME NEW b \in Seq(Units), NEW n \in 1 .. Len(b)
    PROVE  /\ Take(b, n) \in Seq(Units) /\ Len(Take(b, n)) = n
           /\ Drop(b, n) \in Seq(Units) /\ Len(Drop(b, n)) = Len(b) - n
           /\ Elements(Take(b, n)) \in SUBSET Units
<1>1. Len(b) \in Nat /\ n \in Nat /\ 1 <= n /\ n <= Len(b)
  OBVIOUS
<1>2. Take(b, n) \in Seq(Units) /\ Len(Take(b, n)) = n
  BY <1>1 DEF Take
<1>3. Drop(b, n) \in Seq(Units) /\ Len(Drop(b, n)) = Len(b) - n
  BY <1>1 DEF Drop
<1> QED
  BY <1>2, <1>3 DEF Elements

\* What a run holds are positions of the stream.
LEMMA ElementsType ==
    ASSUME NEW b \in Seq(Units)
    PROVE  Elements(b) \in SUBSET Units
BY DEF Elements

\* The types of what a send or a teardown may change.
HalfType ==
    /\ buf \in Seq(Units) /\ out \in Seq(Units)
    /\ flushed \in 0 .. Len(out)
    /\ proxied \in SUBSET Units /\ discarded \in SUBSET Units
    /\ ws \in {"open", "closing", "closed"}
    /\ reading \in BOOLEAN /\ cancelled \in BOOLEAN
    /\ closedBy \in {"none", "target", "browser", "failure"}
    /\ paused \in BOOLEAN /\ clientPaused \in BOOLEAN
    /\ hold \in BOOLEAN /\ scheduled \in BOOLEAN

\* A teardown keeps the types.
LEMMA CloseType ==
    ASSUME TypeOK, NEW by \in {"target", "browser", "failure"},
           NEW extra \in SUBSET Units, CloseBoth(by, extra)
    PROVE  HalfType'
<1>1. discarded' \in SUBSET Units
  <2>1. Elements(buf) \in SUBSET Units
    BY ElementsType DEF TypeOK
  <2> QED
    BY <2>1 DEF TypeOK, CloseBoth
<1>2. buf' \in Seq(Units)
  BY DEF CloseBoth
<1>3. flushed' \in 0 .. Len(out') /\ out' \in Seq(Units)
  BY DEF TypeOK, CloseBoth
<1> QED
  BY <1>1, <1>2, <1>3 DEF TypeOK, CloseBoth, HalfType

\* A send keeps the types.
LEMMA SendType ==
    ASSUME TypeOK, NEW s \in Seq(Units), Send(s),
           buf' \in Seq(Units), proxied' \in SUBSET Units
    PROVE  HalfType'
<1>1. out' \in Seq(Units) /\ Len(out') = Len(out) + Len(s)
  BY ElementsConcat DEF TypeOK, Send
<1>2. Len(out) \in Nat /\ Len(s) \in Nat
  BY DEF TypeOK
<1> QED
  BY <1>1, <1>2 DEF TypeOK, HalfType, Send, UpdateTcpReadState, AtHighWater

\* Forwarding a prefix of the buffer keeps the types.
LEMMA ForwardPrefixType ==
    ASSUME TypeOK, NEW n \in 1 .. Len(buf), NEW frames \in 1 .. FrameBudget - drainFrames,
           ForwardPrefix(n, frames)
    PROVE  /\ HalfType'
           /\ drain' \in {"idle", "loop", "finally"}
           /\ drainFrames' \in 0 .. FrameBudget
           /\ drainHold' \in BOOLEAN /\ drainYield' \in BOOLEAN
<1>1. CASE CloseBoth("failure", {}) /\ drain' = "finally"
           /\ UNCHANGED <<drainFrames, drainHold, drainYield>>
  BY <1>1, CloseType DEF TypeOK, HalfType
<1>2. CASE /\ Send(Take(buf, n)) /\ buf' = Drop(buf, n)
           /\ drain' = IF paused' THEN "finally" ELSE "loop"
           /\ drainFrames' = drainFrames + frames
           /\ UNCHANGED <<proxied, drainHold, drainYield>>
  <2>1. buf \in Seq(Units) /\ drainFrames \in Nat /\ FrameBudget \in Nat
    BY DEF TypeOK
  <2>2. drainFrames' \in 0 .. FrameBudget
    BY <1>2, <2>1
  <2>3. Take(buf, n) \in Seq(Units) /\ buf' \in Seq(Units)
    BY <1>2, <2>1, SplitType
  <2> QED
    BY <1>2, <2>2, <2>3, SendType DEF TypeOK, HalfType
<1> QED
  BY <1>1, <1>2 DEF ForwardPrefix

\* Every step keeps the variables in their types.
LEMMA TypeStep == TypeOK /\ [Next]_vars => TypeOK'
<1> SUFFICES ASSUME TypeOK, [Next]_vars PROVE TypeOK'
  OBVIOUS
<1>0. Len(Stream) \in Nat /\ FrameBudget \in Nat /\ 1 <= FrameBudget
  OBVIOUS
<1>1. ASSUME TcpData PROVE TypeOK'
  <2>1. PICK n \in 1 .. Len(Stream) - arrived :
          LET chunk == [i \in 1 .. n |-> arrived + i] IN
          /\ arrived' = arrived + n
          /\ cuts' = cuts \cup {arrived + n}
          /\ ForwardDirect(chunk) \/ AppendAndDrain(chunk)
    BY <1>1 DEF TcpData
  <2> DEFINE chunk == [i \in 1 .. n |-> arrived + i]
  <2>2. /\ arrived' \in 0 .. Len(Stream) /\ cuts' \in SUBSET Units
        /\ chunk \in Seq(Units)
    BY <2>1 DEF TypeOK, Units
  <2>3. Elements(chunk) \in SUBSET Units
    BY <2>2, ElementsType
  <2>4. ForwardDirect(chunk) \/ AppendAndDrain(chunk)
    BY <2>1
  <2>5. UNCHANGED phaseVars
    BY <1>1 DEF TcpData
  <2> HIDE DEF chunk
  <2>6. CASE ForwardDirect(chunk)
    <3>1. CASE Send(chunk) /\ UNCHANGED <<buf, proxied, drainVars>>
      BY <2>2, <2>5, <3>1, SendType DEF TypeOK, HalfType, phaseVars, drainVars
    <3>2. CASE CloseBoth("failure", Elements(chunk)) /\ UNCHANGED drainVars
      BY <2>2, <2>3, <2>5, <3>2, CloseType DEF TypeOK, HalfType, phaseVars, drainVars
    <3>3. CASE /\ discarded' = discarded \cup Elements(chunk)
               /\ UNCHANGED <<buf, out, flushed, proxied, sockVars, flowVars, drainVars>>
      BY <2>2, <2>3, <2>5, <3>3 DEF TypeOK, phaseVars, drainVars, sockVars, flowVars
    <3> QED
      BY <2>6, <3>1, <3>2, <3>3 DEF ForwardDirect
  <2>7. CASE AppendAndDrain(chunk)
    <3>1. buf' \in Seq(Units)
      BY <2>2, <2>7, ElementsConcat DEF AppendAndDrain, TypeOK
    <3>2. /\ drain' \in {"idle", "loop", "finally"}
          /\ drainFrames' \in 0 .. FrameBudget
          /\ drainHold' \in BOOLEAN /\ drainYield' \in BOOLEAN
      <4>1. CASE StartDrain
        <5>1. drainHold' \in BOOLEAN /\ drainYield' \in BOOLEAN
          BY <4>1, Zenon DEF StartDrain, TypeOK
        <5> QED
          BY <1>0, <4>1, <5>1 DEF StartDrain
      <4>2. CASE UNCHANGED drainVars
        BY <4>2 DEF TypeOK, drainVars
      <4> QED
        BY <2>7, <4>1, <4>2 DEF AppendAndDrain
    <3>3. UNCHANGED <<out, flushed, proxied, discarded, sockVars, flowVars>>
      BY <2>7 DEF AppendAndDrain
    <3> QED
      BY <2>2, <2>5, <3>1, <3>2, <3>3 DEF TypeOK, phaseVars, sockVars, flowVars
  <2> QED
    BY <2>4, <2>6, <2>7
<1>2. ASSUME DrainLoopEnds PROVE TypeOK'
  <2>1. drainYield' \in BOOLEAN
    BY <1>2, Zenon DEF DrainLoopEnds, TypeOK
  <2> QED
    BY <1>2, <2>1 DEF DrainLoopEnds, TypeOK, streamVars, dataVars, sockVars, flowVars, phaseVars
<1>3. ASSUME DrainOpaqueChunk PROVE TypeOK'
  <2>1. PICK n \in 1 .. Len(buf) : ForwardPrefix(n, 1)
    BY <1>3 DEF DrainOpaqueChunk
  <2>2. 1 \in 1 .. FrameBudget - drainFrames
    BY <1>0, <1>3 DEF DrainOpaqueChunk, InLoop, TypeOK
  <2> QED
    BY <1>3, <2>1, <2>2, ForwardPrefixType
    DEF DrainOpaqueChunk, TypeOK, HalfType, streamVars, phaseVars
<1>4. ASSUME DrainOpaqueHead PROVE TypeOK'
  <2>1. framing' \in BOOLEAN
    BY <1>4, Zenon DEF DrainOpaqueHead
  <2> QED
    BY <1>4, <2>1 DEF DrainOpaqueHead, TypeOK, streamVars, dataVars, sockVars, flowVars, drainVars
<1>5. ASSUME DrainBatch PROVE TypeOK'
  <2>1. PICK n \in FrameEnds(buf) :
          LET frames == Cardinality({j \in FrameEnds(buf) : j <= n}) IN
          BatchFits(frames) /\ ForwardPrefix(n, frames)
    BY <1>5 DEF DrainBatch
  <2> DEFINE frames == Cardinality({j \in FrameEnds(buf) : j <= n})
  <2>2. frames \in Nat
    BY FrameEndsCount DEF TypeOK
  <2> HIDE DEF frames
  <2>3. n \in 1 .. Len(buf) /\ frames \in 1 .. FrameBudget - drainFrames
        /\ ForwardPrefix(n, frames)
    BY <1>0, <2>1, <2>2 DEF BatchFits, FrameEnds, TypeOK, frames
  <2> QED
    BY <1>5, <2>3, ForwardPrefixType DEF DrainBatch, TypeOK, HalfType, streamVars, phaseVars
<1>6. ASSUME DrainKeepAlive PROVE TypeOK'
  <2>1. PICK n \in 1 .. Len(buf) : proxied' = proxied \cup Elements(Take(buf, n))
                                   /\ buf' = Drop(buf, n)
    BY <1>6 DEF DrainKeepAlive
  <2>2. buf' \in Seq(Units) /\ proxied' \in SUBSET Units
    BY <2>1, SplitType DEF TypeOK
  <2>3. drainFrames' \in 0 .. FrameBudget
    BY <1>0, <1>6 DEF DrainKeepAlive, InLoop, TypeOK
  <2> QED
    BY <1>6, <2>2, <2>3 DEF DrainKeepAlive, TypeOK, streamVars, sockVars, flowVars, phaseVars
<1>7. ASSUME DrainFrame PROVE TypeOK'
  <2>1. PICK n \in 1 .. Len(buf) : ForwardPrefix(n, 1)
    BY <1>7 DEF DrainFrame
  <2>2. 1 \in 1 .. FrameBudget - drainFrames
    BY <1>0, <1>7 DEF DrainFrame, InLoop, TypeOK
  <2>3. phase' \in Phases /\ encPending' \in BOOLEAN /\ UNCHANGED <<framing, client, streamVars>>
    BY <1>7 DEF DrainFrame, TypeOK, Phases
  <2> QED
    BY <2>1, <2>2, <2>3, ForwardPrefixType DEF TypeOK, HalfType, streamVars
<1>8. ASSUME DrainFinally PROVE TypeOK'
  BY <1>8 DEF DrainFinally, HoldAfterDrain, Reschedule, CanSchedule, Live, UpdateTcpReadState,
     TypeOK, streamVars, dataVars, phaseVars
<1>9. ASSUME ScheduledDrain PROVE TypeOK'
  <2>1. scheduled' \in BOOLEAN /\ drainHold' \in BOOLEAN /\ drainYield' \in BOOLEAN
    <3>1. CASE StartDrain
      BY <1>9, <3>1, Zenon DEF ScheduledDrain, StartDrain, TypeOK
    <3>2. CASE UNCHANGED drainVars
      <4>1. drainHold' = drainHold /\ drainYield' = drainYield
        BY <3>2 DEF drainVars
      <4> QED
        BY <1>9, <4>1, Zenon DEF ScheduledDrain, TypeOK
    <3> QED
      BY <1>9, <3>1, <3>2 DEF ScheduledDrain
  <2> QED
    BY <1>0, <1>9, <2>1 DEF ScheduledDrain, StartDrain, TypeOK, streamVars, dataVars, sockVars,
       drainVars, phaseVars
<1>10. ASSUME SendCallback PROVE TypeOK'
  <2>1. PICK n \in flushed + 1 .. Len(out) : flushed' = n
    BY <1>10 DEF SendCallback
  <2>2. flushed' \in 0 .. Len(out)
    BY <2>1 DEF TypeOK
  <2>3. /\ paused' \in BOOLEAN /\ hold' \in BOOLEAN /\ reading' \in BOOLEAN
        /\ scheduled' \in BOOLEAN
    BY <1>10 DEF SendCallback, TypeOK, UpdateTcpReadState, CanSchedule, Live, AtHighWater
  <2> QED
    BY <1>10, <2>2, <2>3 DEF SendCallback, TypeOK, streamVars, drainVars, phaseVars
<1>11. ASSUME NEW p \in BOOLEAN, FlowMessage(p) PROVE TypeOK'
  BY <1>11 DEF FlowMessage, UpdateTcpReadState, CanSchedule, Live, TypeOK, streamVars, dataVars,
     drainVars, phaseVars
<1>12. ASSUME ClientHandshake PROVE TypeOK'
  BY <1>12 DEF ClientHandshake, TypeOK, streamVars, dataVars, sockVars, flowVars, drainVars
<1>13. ASSUME ClientEncryptionResponse PROVE TypeOK'
  <2>1. framing' \in BOOLEAN /\ encPending' \in BOOLEAN /\ scheduled' \in BOOLEAN
    BY <1>13, Zenon DEF ClientEncryptionResponse, TypeOK
  <2> QED
    BY <1>13, <2>1 DEF ClientEncryptionResponse, TypeOK, streamVars, dataVars, sockVars, drainVars
<1>14. ASSUME ClientInspection PROVE TypeOK'
  <2>1. framing' \in BOOLEAN /\ encPending' \in BOOLEAN
    <3>1. CASE framing' = FALSE /\ encPending' = FALSE
      BY <3>1, Zenon
    <3>2. CASE UNCHANGED <<framing, encPending>>
      <4>1. framing' = framing /\ encPending' = encPending
        BY <3>2
      <4> QED
        BY <4>1, Zenon DEF TypeOK
    <3> QED
      BY <1>14, <3>1, <3>2 DEF ClientInspection
  <2> QED
    <3>1. phase' \in Phases
      BY <1>14, Zenon DEF ClientInspection, TypeOK, Phases
    <3>2. UNCHANGED <<client, streamVars, dataVars, sockVars, flowVars, drainVars>>
      BY <1>14 DEF ClientInspection
    <3> QED
      BY <2>1, <3>1, <3>2 DEF TypeOK, streamVars, dataVars, sockVars, flowVars, drainVars
<1>15. ASSUME TargetCloses PROVE TypeOK'
  BY <1>15, CloseType DEF TargetCloses, TypeOK, HalfType, streamVars, drainVars, phaseVars
<1>16. ASSUME TunnelFails PROVE TypeOK'
  BY <1>16, CloseType DEF TunnelFails, TypeOK, HalfType, streamVars, drainVars, phaseVars
<1>17. ASSUME BrowserCloses PROVE TypeOK'
  BY <1>17 DEF BrowserCloses, TypeOK, streamVars, dataVars, flowVars, drainVars, phaseVars
<1>18. ASSUME WebSocketClosed PROVE TypeOK'
  <2>1. /\ cancelled' \in BOOLEAN /\ scheduled' \in BOOLEAN
        /\ paused' \in BOOLEAN /\ hold' \in BOOLEAN
    BY <1>18, Zenon DEF WebSocketClosed
  <2>2. discarded' \in SUBSET Units
    <3>1. Elements(buf) \in SUBSET Units
      BY ElementsType DEF TypeOK
    <3> QED
      BY <1>18, <3>1 DEF WebSocketClosed, TypeOK
  <2>3. buf' \in Seq(Units)
    BY <1>18 DEF WebSocketClosed
  <2> QED
    BY <1>18, <2>1, <2>2, <2>3 DEF WebSocketClosed, TypeOK, streamVars, drainVars, phaseVars
<1>19. ASSUME UNCHANGED vars PROVE TypeOK'
  BY <1>19 DEF TypeOK, vars, streamVars, dataVars, sockVars, flowVars, drainVars, phaseVars
<1> QED
  BY <1>1, <1>2, <1>3, <1>4, <1>5, <1>6, <1>7, <1>8, <1>9, <1>10, <1>11, <1>12, <1>13,
     <1>14, <1>15, <1>16, <1>17, <1>18, <1>19 DEF Next, DrainStep, Closed

\* The variables of a tunnel always have their types.
THEOREM Typing == Spec => []TypeOK
<1>1. Init => TypeOK
  <2>1. Init => /\ reading \in BOOLEAN /\ cancelled \in BOOLEAN
                /\ paused \in BOOLEAN /\ clientPaused \in BOOLEAN
                /\ hold \in BOOLEAN /\ scheduled \in BOOLEAN
                /\ drainHold \in BOOLEAN /\ drainYield \in BOOLEAN
                /\ framing \in BOOLEAN /\ encPending \in BOOLEAN
    BY Zenon DEF Init
  <2>2. Len(Stream) \in Nat /\ FrameBudget \in Nat
    OBVIOUS
  <2> QED
    BY <2>1, <2>2 DEF Init, TypeOK, Phases
<1> QED
  BY <1>1, TypeStep, PTL DEF Spec

-----------------------------------------------------------------------------
(* The inductive invariant.                                                *)

\* ExactlyOnceInOrder in terms of runs and places.
LEMMA InOrderForm ==
    /\ ExactlyOnceInOrder <=> /\ Run(Taken, buf)
                              /\ Placed(Taken, out, proxied, discarded)
                              /\ Live => discarded = {}
    /\ ExactlyOnceInOrder' <=> /\ Run(Taken', buf')
                               /\ Placed(Taken', out', proxied', discarded')
                               /\ Live' => discarded' = {}
BY DEF ExactlyOnceInOrder, Run, Placed

\* The buffer holds the units that arrived last.
LEMMA TakenNat ==
    ASSUME TypeOK, ExactlyOnceInOrder
    PROVE  /\ Taken \in Nat /\ Len(buf) \in Nat /\ arrived \in Nat
           /\ arrived = Taken + Len(buf)
<1>1. Len(buf) \in Nat /\ arrived \in Nat /\ Len(Stream) \in Nat
  BY DEF TypeOK
<1>2. CASE Len(buf) = 0
  BY <1>1, <1>2 DEF Taken
<1>3. CASE Len(buf) # 0
  <2>1. 1 \in 1 .. Len(buf)
    BY <1>1, <1>3
  <2>2. buf[1] = Taken + 1 /\ Taken \in Int
    BY <1>1, <2>1 DEF ExactlyOnceInOrder, Taken
  <2>3. buf[1] \in Units
    BY <2>1 DEF TypeOK
  <2> QED
    BY <1>1, <2>2, <2>3 DEF Units, Taken
<1> QED
  BY <1>2, <1>3

\* A teardown drops what is retained and whatever extra bytes are in hand.
LEMMA CloseKeeps ==
    ASSUME IndInv, TypeOK', NEW extra,
           discarded' = discarded \cup Elements(buf) \cup extra,
           out' = out, proxied' = proxied, buf' = <<>>,
           cancelled' = TRUE, hold' = FALSE,
           drain' # "loop", NEW m \in Nat, arrived' = Taken + m,
           Elements(buf) \cup extra = Taken + 1 .. Taken + m
    PROVE  IndInv'
<1>1. Taken \in Nat /\ TypeOK /\ ExactlyOnceInOrder
  BY TakenNat DEF IndInv
<1>2. Placed(Taken, out, proxied, discarded)
  BY <1>1, InOrderForm
<1>3. discarded' = discarded \cup (Taken + 1 .. Taken + m)
  OBVIOUS
<1>4. Placed(Taken + m, out', proxied', discarded')
  <2>1. Placed(Taken + m, out, proxied, discarded \cup (Taken + 1 .. Taken + m))
    BY <1>1, <1>2, DropRun
  <2> QED
    BY <1>3, <2>1
<1>5. Taken' = Taken + m /\ Run(Taken', buf')
  BY <1>1 DEF Taken, Run
<1>6. ~Live'
  BY DEF Live
<1>7. ExactlyOnceInOrder'
  BY <1>4, <1>5, <1>6, InOrderForm
<1>8. PauseHasWakeup' /\ ReadGate' /\ RunnableHasTurn'
  BY <1>6 DEF PauseHasWakeup, ReadGate, RunnableHasTurn
<1>9. DrainInvariant'
  BY <1>6 DEF DrainInvariant
<1> QED
  BY <1>7, <1>8, <1>9 DEF IndInv

\* The same when the bytes in hand are just those retained.
LEMMA CloseKeepsAll ==
    ASSUME IndInv, TypeOK', discarded' = discarded \cup Elements(buf),
           out' = out, proxied' = proxied, buf' = <<>>,
           cancelled' = TRUE, hold' = FALSE, drain' # "loop",
           arrived' = arrived
    PROVE  IndInv'
<1>1. /\ Taken \in Nat /\ Len(buf) \in Nat /\ arrived = Taken + Len(buf)
      /\ buf \in Seq(Units) /\ Run(Taken, buf)
  BY TakenNat, InOrderForm DEF IndInv, TypeOK
<1>2. Elements(buf) \cup {} = Taken + 1 .. Taken + Len(buf)
  BY <1>1, RunElements
<1> QED
  BY <1>1, <1>2, CloseKeeps

\* Sending the run that comes next, from an open and unpaused tunnel.
LEMMA SendKeeps ==
    ASSUME IndInv, TypeOK', Live, ~paused,
           NEW s \in Seq(Units), Run(Taken, s), Send(s),
           Taken' = Taken + Len(s), Run(Taken', buf'), proxied' = proxied
    PROVE  ExactlyOnceInOrder' /\ PauseHasWakeup' /\ ReadGate'
<1>1. Taken \in Nat /\ TypeOK /\ ExactlyOnceInOrder
  BY TakenNat DEF IndInv
<1>2. /\ Placed(Taken, out, proxied, {}) /\ discarded = {}
      /\ out \in Seq(Units) /\ proxied \in SUBSET Units
  BY <1>1, InOrderForm DEF TypeOK
<1>3. out' = out \o s /\ discarded' = discarded
  BY DEF Send
<1>4. Placed(Taken', out', proxied', discarded')
  BY <1>1, <1>2, <1>3, SendRun
<1>5. ExactlyOnceInOrder'
  BY <1>2, <1>3, <1>4, InOrderForm
<1>6. /\ Len(out') = Len(out) + Len(s) /\ Len(out) \in Nat /\ Len(s) \in Nat
      /\ flushed' = flushed /\ flushed \in Nat /\ HighWater \in Nat /\ HighWater > 0
  BY <1>2, <1>3, ElementsConcat DEF Send, TypeOK, IndInv
<1>7. PauseHasWakeup'
  <2>1. paused' <=> Len(out) + Len(s) - flushed >= HighWater
    BY DEF Send, AtHighWater
  <2>2. CASE Len(out) + Len(s) - flushed >= HighWater
    BY <1>6, <2>1, <2>2 DEF PauseHasWakeup
  <2>3. CASE ~(Len(out) + Len(s) - flushed >= HighWater)
    BY <1>6, <2>1, <2>3 DEF PauseHasWakeup
  <2> QED
    BY <2>2, <2>3
<1>8. ReadGate'
  BY DEF ReadGate, Send, UpdateTcpReadState
<1> QED
  BY <1>5, <1>7, <1>8

\* One turn of the loop that sends a prefix of the buffer, or fails to.
LEMMA ForwardKeeps ==
    ASSUME IndInv, TypeOK', InLoop, NEW n \in 1 .. Len(buf), NEW frames,
           ForwardPrefix(n, frames), arrived' = arrived, client' = client
    PROVE  IndInv'
<1>0. /\ Taken \in Nat /\ Len(buf) \in Nat /\ arrived = Taken + Len(buf)
      /\ buf \in Seq(Units) /\ Run(Taken, buf)
  BY TakenNat, InOrderForm DEF IndInv, TypeOK
<1>1. CASE CloseBoth("failure", {}) /\ drain' = "finally"
  BY <1>1, CloseKeepsAll DEF CloseBoth
<1>2. CASE /\ Send(Take(buf, n)) /\ buf' = Drop(buf, n)
           /\ drain' = IF paused' THEN "finally" ELSE "loop"
           /\ UNCHANGED <<proxied, drainHold, drainYield>>
  <2>1. Live /\ ~paused
    BY DEF IndInv, DrainInvariant, InLoop, LoopCondition, Live
  <2>2. /\ Take(buf, n) \in Seq(Units) /\ Len(Take(buf, n)) = n
        /\ Run(Taken, Take(buf, n)) /\ Len(Drop(buf, n)) = Len(buf) - n
        /\ Run(Taken + n, Drop(buf, n))
    BY <1>0, RunSplit
  <2>3. Taken' = Taken + n
    BY <1>0, <1>2, <2>2 DEF Taken
  <2>4. ExactlyOnceInOrder' /\ PauseHasWakeup' /\ ReadGate'
    BY <1>2, <2>1, <2>2, <2>3, SendKeeps
  <2>5. /\ ws' = ws /\ cancelled' = cancelled /\ clientPaused' = clientPaused
        /\ hold' = hold /\ scheduled' = scheduled
    BY <1>2 DEF Send
  <2>6. DrainInvariant'
    <3>1. /\ ws = "open" /\ ~cancelled /\ ~clientPaused /\ drain = "loop"
          /\ hold => drainHold
          /\ buf # <<>> /\ client # "unprobed"
      BY <2>1 DEF IndInv, DrainInvariant, InLoop, LoopCondition, Live
    <3>2. drain' # "idle" /\ (drain' = "finally" => paused')
      BY <1>2
    <3> QED
      BY <1>2, <2>5, <3>1, <3>2 DEF DrainInvariant, Idle
  <2>7. RunnableHasTurn'
    BY <1>2 DEF RunnableHasTurn, Idle
  <2> QED
    BY <2>4, <2>6, <2>7 DEF IndInv
<1> QED
  BY <1>1, <1>2 DEF ForwardPrefix

\* A run continued by the run that follows it.
LEMMA RunConcat ==
    ASSUME NEW t \in Nat, NEW b \in Seq(Units), NEW s \in Seq(Units),
           Run(t, b), Run(t + Len(b), s)
    PROVE  Run(t, b \o s)
<1>1. Len(b) \in Nat /\ Len(s) \in Nat /\ Len(b \o s) = Len(b) + Len(s)
  OBVIOUS
<1>2. ASSUME NEW i \in 1 .. Len(b) + Len(s) PROVE (b \o s)[i] = t + i
  <2>1. CASE i <= Len(b)
    BY <1>1, <2>1 DEF Run
  <2>2. CASE ~(i <= Len(b))
    <3>1. i - Len(b) \in 1 .. Len(s) /\ (b \o s)[i] = s[i - Len(b)]
      BY <1>1, <2>2
    <3> QED
      BY <1>1, <3>1 DEF Run
  <2> QED
    BY <2>1, <2>2
<1> QED
  BY <1>1, <1>2 DEF Run

\* A step that moves no unit and opens nothing keeps all of them in place.
LEMMA StillInOrder ==
    ASSUME ExactlyOnceInOrder,
           UNCHANGED <<arrived, buf, out, proxied, discarded>>, Live' => Live
    PROVE  ExactlyOnceInOrder'
BY DEF ExactlyOnceInOrder, Taken

\* Only retained bytes can be runnable.
LEMMA RunnableRetains == Runnable => framing /\ buf # <<>>
BY DEF Runnable, FrameEnds, HeadIsOpaque

\* A chunk that arrives is forwarded, appended or dropped.
LEMMA TcpDataKeeps == IndInv /\ TypeOK' /\ TcpData => IndInv'
<1> SUFFICES ASSUME IndInv, TypeOK', TcpData PROVE IndInv'
  OBVIOUS
<1>1. PICK n \in 1 .. Len(Stream) - arrived :
          LET chunk == [i \in 1 .. n |-> arrived + i] IN
          /\ arrived' = arrived + n
          /\ cuts' = cuts \cup {arrived + n}
          /\ ForwardDirect(chunk) \/ AppendAndDrain(chunk)
  BY DEF TcpData
<1> DEFINE chunk == [i \in 1 .. n |-> arrived + i]
<1>2. /\ Taken \in Nat /\ Len(buf) \in Nat /\ arrived \in Nat
      /\ n \in Nat /\ n > 0
      /\ arrived = Taken + Len(buf) /\ arrived' = arrived + n
      /\ buf \in Seq(Units) /\ Run(Taken, buf) /\ TypeOK /\ ExactlyOnceInOrder
      /\ Placed(Taken, out, proxied, discarded)
  BY <1>1, TakenNat, InOrderForm DEF IndInv, TypeOK
<1>3. chunk \in Seq(Units) /\ Len(chunk) = n
  <2>1. arrived \in 0 .. Len(Stream) /\ Len(Stream) \in Nat
    BY <1>2, StreamAssumption DEF TypeOK, Units
  <2>2. \A i \in 1 .. n : arrived + i \in 1 .. Len(Stream)
    BY <1>1, <1>2, <2>1
  <2>3. chunk \in [1 .. n -> Units]
    BY <2>2 DEF Units
  <2> HIDE DEF chunk
  <2> QED
    BY <1>2, <2>3
<1>4. Run(arrived, chunk)
  BY <1>2, <1>3 DEF Run
<1>5. ForwardDirect(chunk) \/ AppendAndDrain(chunk)
  BY <1>1
<1>6. UNCHANGED phaseVars /\ drain = "idle" /\ ~cancelled /\ client # "unprobed"
  BY DEF TcpData, Idle
<1> HIDE DEF chunk
<1>7. CASE ForwardDirect(chunk)
  <2>1. /\ buf = <<>> /\ Len(buf) = 0 /\ ~framing /\ ~paused /\ ~clientPaused
        /\ UNCHANGED drainVars /\ Taken = arrived
    BY <1>2, <1>7 DEF ForwardDirect, DirectPath
  <2>2. CASE Live /\ Send(chunk) /\ UNCHANGED <<buf, proxied>>
    <3>1. Taken' = Taken + Len(chunk) /\ Run(Taken', buf')
      BY <1>2, <1>3, <2>1, <2>2 DEF Taken, Run
    <3>2. ExactlyOnceInOrder' /\ PauseHasWakeup' /\ ReadGate'
      BY <1>3, <1>4, <2>1, <2>2, <3>1, SendKeeps
    <3>3. /\ ~hold /\ hold' = hold /\ buf' = <<>> /\ drain' = "idle"
          /\ ~framing' /\ client' = client
      BY <1>6, <2>1, <2>2
      DEF IndInv, DrainInvariant, Idle, Send, drainVars, phaseVars
    <3>4. RunnableHasTurn' /\ DrainInvariant'
      BY <3>3 DEF RunnableHasTurn, DrainInvariant, Runnable
    <3> QED
      BY <3>2, <3>4 DEF IndInv
  <2>3. CASE CloseBoth("failure", Elements(chunk))
    <3>1. Elements(buf) = {} /\ Elements(chunk) = Taken + 1 .. Taken + n
      <4>1. Elements(chunk) = Taken + 1 .. Taken + n
        BY <1>2, <1>3, <1>4, <2>1, RunElements
      <4>2. Elements(buf) = {}
        BY <2>1 DEF Elements
      <4> QED
        BY <4>1, <4>2
    <3>2. Elements(buf) \cup Elements(chunk) = Taken + 1 .. Taken + n
      BY <3>1
    <3>3. drain' # "loop"
      BY <1>6, <2>1 DEF drainVars
    <3> QED
      BY <1>2, <2>1, <2>3, <3>2, <3>3, CloseKeeps DEF CloseBoth
  <2>4. CASE /\ ~Live
             /\ discarded' = discarded \cup Elements(chunk)
             /\ UNCHANGED <<buf, out, flushed, proxied, sockVars, flowVars>>
    <3>1. discarded' = discarded \cup (Taken + 1 .. Taken + n)
      BY <1>2, <1>3, <1>4, <2>1, <2>4, RunElements
    <3>2. Placed(Taken + n, out', proxied', discarded')
      <4>1. Placed(Taken + n, out, proxied, discarded \cup (Taken + 1 .. Taken + n))
        BY <1>2, DropRun
      <4>2. out' = out /\ proxied' = proxied
        BY <2>4
      <4> QED
        BY <3>1, <4>1, <4>2
    <3>3. Taken' = Taken + n /\ Run(Taken', buf') /\ ~Live'
      BY <1>2, <2>1, <2>4 DEF Taken, Run, Live, sockVars
    <3>4. ExactlyOnceInOrder'
      BY <3>2, <3>3, InOrderForm
    <3>5. PauseHasWakeup' /\ ReadGate' /\ RunnableHasTurn'
      BY <3>3 DEF PauseHasWakeup, ReadGate, RunnableHasTurn
    <3>6. buf' = <<>> /\ drain' = "idle"
      BY <1>6, <2>1, <2>4 DEF drainVars
    <3>7. DrainInvariant'
      BY <3>3, <3>6 DEF DrainInvariant
    <3> QED
      BY <3>4, <3>5, <3>7 DEF IndInv
  <2> QED
    BY <1>7, <2>2, <2>3, <2>4 DEF ForwardDirect
<1>8. CASE AppendAndDrain(chunk)
  <2>1. /\ buf' = buf \o chunk /\ Len(buf') = Len(buf) + n /\ n > 0
        /\ UNCHANGED <<out, flushed, proxied, discarded, sockVars, flowVars>>
    <3>1. /\ buf' = buf \o chunk
          /\ UNCHANGED <<out, flushed, proxied, discarded, sockVars, flowVars>>
      BY <1>8 DEF AppendAndDrain
    <3>2. Len(buf \o chunk) = Len(buf) + n /\ n > 0
      BY <1>2, <1>3, ElementsConcat
    <3> QED
      BY <3>1, <3>2
  <2>2. Taken' = Taken /\ Run(Taken', buf') /\ buf' # <<>>
    BY <1>2, <1>3, <1>4, <2>1, RunConcat DEF Taken
  <2>3. Live' = Live
    BY <2>1 DEF Live, sockVars
  <2>4. ExactlyOnceInOrder'
    <3>1. Placed(Taken', out', proxied', discarded') /\ (Live' => discarded' = {})
      BY <1>2, <2>1, <2>2, <2>3, InOrderForm
    <3> QED
      BY <2>2, <3>1, InOrderForm
  <2>5. PauseHasWakeup' /\ ReadGate'
    BY <2>1, <2>3 DEF IndInv, PauseHasWakeup, ReadGate, sockVars, flowVars
  <2>6. CASE CanDrain /\ StartDrain
    <3>1. drain' = "loop" /\ drainHold' = hold /\ ws = "open" /\ ~clientPaused
      BY <2>6 DEF StartDrain, CanDrain, Live
    <3>2. RunnableHasTurn'
      BY <3>1 DEF RunnableHasTurn, Idle
    <3>3. DrainInvariant'
      BY <1>6, <2>1, <3>1 DEF DrainInvariant, Idle, sockVars, flowVars, phaseVars
    <3> QED
      BY <2>4, <2>5, <3>2, <3>3 DEF IndInv
  <2>7. CASE ~CanDrain /\ UNCHANGED drainVars
    <3>1. RunnableHasTurn'
      BY <2>1, <2>3, <2>7 DEF RunnableHasTurn, CanDrain, flowVars
    <3>2. DrainInvariant'
      BY <1>6, <2>1, <2>2, <2>3, <2>7
      DEF IndInv, DrainInvariant, Idle, sockVars, flowVars, phaseVars, drainVars
    <3> QED
      BY <2>4, <2>5, <3>1, <3>2 DEF IndInv
  <2> QED
    BY <1>8, <2>6, <2>7 DEF AppendAndDrain
<1> QED
  BY <1>5, <1>7, <1>8

\* The drain's steps.
LEMMA DrainLoopEndsKeeps == IndInv /\ TypeOK' /\ DrainLoopEnds => IndInv'
<1> SUFFICES ASSUME IndInv, TypeOK', DrainLoopEnds PROVE IndInv'
  OBVIOUS
<1>1. /\ drain = "loop" /\ drain' = "finally" /\ drainHold' = drainHold
      /\ UNCHANGED <<streamVars, dataVars, sockVars, flowVars, phaseVars>>
  BY DEF DrainLoopEnds
<1>2. /\ UNCHANGED <<arrived, buf, out, flushed, proxied, discarded>>
      /\ UNCHANGED <<ws, reading, cancelled, paused, clientPaused, hold, scheduled>>
      /\ framing' = framing /\ client' = client
  BY <1>1 DEF streamVars, dataVars, sockVars, flowVars, phaseVars
<1>3. Live' = Live /\ Runnable' = Runnable /\ ~Idle'
  BY <1>1, <1>2 DEF Live, Runnable, FrameEnds, HeadIsOpaque, Kind, Idle
<1>4. ExactlyOnceInOrder' /\ PauseHasWakeup' /\ ReadGate' /\ RunnableHasTurn'
  BY <1>2, <1>3, StillInOrder DEF IndInv, PauseHasWakeup, ReadGate, RunnableHasTurn
<1>5. Live /\ ~paused /\ Runnable => drainYield'
  <2> SUFFICES ASSUME Live, ~paused, Runnable PROVE drainYield'
    OBVIOUS
  <2>1. LoopCondition
    BY <1>1, RunnableRetains DEF LoopCondition, IndInv, DrainInvariant, Live
  <2> QED
    BY <2>1 DEF DrainLoopEnds, Runnable
<1>6. DrainInvariant'
  BY <1>1, <1>2, <1>3, <1>5 DEF IndInv, DrainInvariant
<1> QED
  BY <1>4, <1>6 DEF IndInv

\* A head that turns the path opaque keeps the invariant.
LEMMA DrainOpaqueHeadKeeps == IndInv /\ TypeOK' /\ DrainOpaqueHead => IndInv'
<1> SUFFICES ASSUME IndInv, TypeOK', DrainOpaqueHead PROVE IndInv'
  OBVIOUS
<1>1. /\ drain = "loop" /\ ~framing' /\ client' = client
      /\ UNCHANGED <<streamVars, dataVars, sockVars, flowVars, drainVars>>
  BY DEF DrainOpaqueHead, InLoop
<1>2. /\ UNCHANGED <<arrived, buf, out, flushed, proxied, discarded>>
      /\ UNCHANGED <<ws, reading, cancelled, paused, clientPaused, hold, scheduled>>
      /\ drain' = "loop" /\ drainHold' = drainHold
  BY <1>1 DEF streamVars, dataVars, sockVars, flowVars, drainVars
<1>3. Live' = Live /\ ~Idle' /\ ~Runnable'
  BY <1>1, <1>2 DEF Live, Runnable, Idle
<1>4. ExactlyOnceInOrder' /\ PauseHasWakeup' /\ ReadGate' /\ RunnableHasTurn'
  BY <1>2, <1>3, StillInOrder DEF IndInv, PauseHasWakeup, ReadGate, RunnableHasTurn
<1>5. DrainInvariant'
  BY <1>1, <1>2, <1>3 DEF IndInv, DrainInvariant
<1> QED
  BY <1>4, <1>5 DEF IndInv

\* Forwarding a chunk, a batch or a frame keeps the invariant.
LEMMA DrainForwardKeeps ==
    IndInv /\ TypeOK' /\ (DrainOpaqueChunk \/ DrainBatch \/ DrainFrame) => IndInv'
<1> SUFFICES ASSUME IndInv, TypeOK', DrainOpaqueChunk \/ DrainBatch \/ DrainFrame
             PROVE  IndInv'
  OBVIOUS
<1>1. /\ InLoop /\ arrived' = arrived /\ client' = client
      /\ \E n \in 1 .. Len(buf), frames \in Nat : ForwardPrefix(n, frames)
  <2>1. CASE DrainOpaqueChunk \/ DrainFrame
    BY <2>1 DEF DrainOpaqueChunk, DrainFrame, streamVars, phaseVars
  <2>2. CASE DrainBatch
    <3>1. PICK n \in FrameEnds(buf) :
            ForwardPrefix(n, Cardinality({j \in FrameEnds(buf) : j <= n}))
      BY <2>2 DEF DrainBatch
    <3>2. /\ Cardinality({j \in FrameEnds(buf) : j <= n}) \in Nat
          /\ n \in 1 .. Len(buf)
      BY FrameEndsCount DEF IndInv, TypeOK, FrameEnds
    <3> QED
      BY <2>2, <3>1, <3>2 DEF DrainBatch, streamVars, phaseVars
  <2> QED
    BY <2>1, <2>2
<1> QED
  BY <1>1, ForwardKeeps

\* A keepalive answered by the relay leaves the buffer and joins the answered.
LEMMA DrainKeepAliveKeeps == IndInv /\ TypeOK' /\ DrainKeepAlive => IndInv'
<1> SUFFICES ASSUME IndInv, TypeOK', DrainKeepAlive PROVE IndInv'
  OBVIOUS
<1>1. PICK n \in 1 .. Len(buf) :
          proxied' = proxied \cup Elements(Take(buf, n)) /\ buf' = Drop(buf, n)
  BY DEF DrainKeepAlive
<1>2. /\ UNCHANGED <<arrived, out, flushed, discarded>>
      /\ UNCHANGED <<ws, reading, cancelled, paused, clientPaused, hold, scheduled>>
      /\ framing' = framing /\ client' = client
      /\ drain = "loop" /\ drain' = "loop" /\ drainHold' = drainHold
  BY DEF DrainKeepAlive, InLoop, streamVars, sockVars, flowVars, phaseVars
<1>3. /\ Taken \in Nat /\ Len(buf) \in Nat /\ arrived = Taken + Len(buf)
      /\ buf \in Seq(Units) /\ Run(Taken, buf) /\ buf # <<>>
      /\ Placed(Taken, out, proxied, discarded) /\ (Live => discarded = {})
  BY TakenNat, InOrderForm DEF IndInv, TypeOK, DrainKeepAlive, InLoop, LoopCondition
<1>4. /\ Take(buf, n) \in Seq(Units) /\ Len(Take(buf, n)) = n
      /\ Run(Taken, Take(buf, n)) /\ Len(Drop(buf, n)) = Len(buf) - n
      /\ Run(Taken + n, Drop(buf, n)) /\ n \in Nat
  BY <1>3, RunSplit
<1>5. proxied' = proxied \cup (Taken + 1 .. Taken + n)
  <2>1. Elements(Take(buf, n)) = Taken + 1 .. Taken + n
    BY <1>3, <1>4, RunElements
  <2> QED
    BY <1>1, <2>1
<1>6. Placed(Taken + n, out', proxied', discarded')
  <2>1. Placed(Taken + n, out, proxied \cup (Taken + 1 .. Taken + n), discarded)
    BY <1>3, <1>4, AnswerRun
  <2>2. out' = out /\ discarded' = discarded
    BY <1>2
  <2> QED
    BY <1>5, <2>1, <2>2
<1>7. Taken' = Taken + n /\ Run(Taken', buf')
  BY <1>1, <1>2, <1>3, <1>4 DEF Taken
<1>8. Live' = Live /\ ~Idle'
  BY <1>2 DEF Live, Idle
<1>9. ExactlyOnceInOrder'
  <2>1. Placed(Taken', out', proxied', discarded')
    BY <1>6, <1>7
  <2>2. Live' => discarded' = {}
    BY <1>2, <1>3, <1>8
  <2> QED
    BY <1>7, <2>1, <2>2, InOrderForm
<1>10. PauseHasWakeup' /\ ReadGate' /\ RunnableHasTurn'
  BY <1>2, <1>8 DEF IndInv, PauseHasWakeup, ReadGate, RunnableHasTurn
<1>11. DrainInvariant'
  BY <1>2, <1>3, <1>8
  DEF IndInv, DrainInvariant, DrainKeepAlive, InLoop, LoopCondition
<1> QED
  BY <1>9, <1>10, <1>11 DEF IndInv

\* The finally block leaves no hold and no runnable bytes without a turn.
LEMMA DrainFinallyKeeps == IndInv /\ TypeOK' /\ DrainFinally => IndInv'
<1> SUFFICES ASSUME IndInv, TypeOK', DrainFinally PROVE IndInv'
  OBVIOUS
<1>1. /\ UNCHANGED <<arrived, buf, out, flushed, proxied, discarded>>
      /\ UNCHANGED <<ws, cancelled, paused, clientPaused>>
      /\ framing' = framing /\ client' = client
      /\ drain = "finally" /\ drain' = "idle"
  BY DEF DrainFinally, streamVars, dataVars, phaseVars
<1>2. Live' = Live /\ Runnable' = Runnable
  BY <1>1 DEF Live, Runnable, FrameEnds, HeadIsOpaque, Kind
<1>3. ReadGate'
  <2>1. CASE hold' # hold
    BY <1>1, <1>2, <2>1 DEF DrainFinally, ReadGate, UpdateTcpReadState
  <2>2. CASE hold' = hold
    BY <1>1, <1>2, <2>2 DEF DrainFinally, ReadGate, IndInv
  <2> QED
    BY <2>1, <2>2
<1>4. ExactlyOnceInOrder' /\ PauseHasWakeup'
  BY <1>1, <1>2, StillInOrder DEF IndInv, PauseHasWakeup
<1>5. Live => ~clientPaused /\ (~paused => ~hold')
  BY <1>1 DEF DrainFinally, HoldAfterDrain, IndInv, DrainInvariant, Live
<1>6. Live /\ ~paused /\ Runnable => scheduled'
  BY <1>1, <1>5, RunnableRetains
  DEF DrainFinally, Reschedule, CanSchedule, IndInv, DrainInvariant
<1>7. RunnableHasTurn'
  BY <1>1, <1>2, <1>6 DEF RunnableHasTurn
<1>8. DrainInvariant'
  BY <1>1, <1>2, <1>5 DEF IndInv, DrainInvariant
<1> QED
  BY <1>3, <1>4, <1>7, <1>8 DEF IndInv

\* The immediate that starts a drain keeps the invariant.
LEMMA ScheduledDrainKeeps == IndInv /\ TypeOK' /\ ScheduledDrain => IndInv'
<1> SUFFICES ASSUME IndInv, TypeOK', ScheduledDrain PROVE IndInv'
  OBVIOUS
<1>1. /\ UNCHANGED <<arrived, buf, out, flushed, proxied, discarded>>
      /\ UNCHANGED <<ws, reading, cancelled, paused, clientPaused, hold>>
      /\ framing' = framing /\ client' = client /\ drain = "idle"
  BY DEF ScheduledDrain, Idle, streamVars, dataVars, sockVars, phaseVars
<1>2. Live' = Live
  BY <1>1 DEF Live
<1>3. ExactlyOnceInOrder' /\ PauseHasWakeup' /\ ReadGate'
  BY <1>1, <1>2, StillInOrder DEF IndInv, PauseHasWakeup, ReadGate
<1>4. CASE CanDrain /\ StartDrain
  <2>1. drain' = "loop" /\ drainHold' = hold /\ ws = "open" /\ ~clientPaused /\ ~cancelled
    BY <1>4 DEF StartDrain, CanDrain, Live
  <2>2. RunnableHasTurn' /\ DrainInvariant'
    BY <1>1, <2>1 DEF IndInv, RunnableHasTurn, DrainInvariant, Idle
  <2> QED
    BY <1>3, <2>2 DEF IndInv
<1>5. CASE ~CanDrain /\ UNCHANGED drainVars
  <2>1. drain' = "idle" /\ (Live /\ ~paused => clientPaused)
    BY <1>1, <1>5 DEF drainVars, CanDrain
  <2>2. RunnableHasTurn' /\ DrainInvariant'
    BY <1>1, <1>2, <2>1 DEF IndInv, RunnableHasTurn, DrainInvariant, Idle
  <2> QED
    BY <1>3, <2>2 DEF IndInv
<1> QED
  BY <1>4, <1>5 DEF ScheduledDrain

\* A completed send resumes the target only below the high-water mark, and the
\* read hold it may leave behind comes with a turn.
LEMMA SendCallbackKeeps == IndInv /\ TypeOK' /\ SendCallback => IndInv'
<1> SUFFICES ASSUME IndInv, TypeOK', SendCallback PROVE IndInv'
  OBVIOUS
<1>1. /\ UNCHANGED <<arrived, buf, out, proxied, discarded>>
      /\ UNCHANGED <<ws, cancelled, clientPaused>>
      /\ framing' = framing /\ client' = client /\ drain = "idle" /\ drain' = "idle"
  BY DEF SendCallback, Idle, streamVars, drainVars, phaseVars
<1>2. Live' = Live /\ Runnable' = Runnable /\ Idle /\ Idle'
  BY <1>1 DEF Live, Runnable, FrameEnds, HeadIsOpaque, Kind, Idle
<1>3. ExactlyOnceInOrder'
  BY <1>1, <1>2, StillInOrder DEF IndInv
<1>4. PICK n \in flushed + 1 .. Len(out) :
          /\ flushed' = n
          /\ IF paused /\ Live /\ ~AtHighWater(Len(out) - n)
             THEN /\ paused' = FALSE
                  /\ hold' = (buf # <<>>)
                  /\ UpdateTcpReadState(FALSE, clientPaused, hold')
                  /\ scheduled' = (scheduled \/ CanSchedule(FALSE, clientPaused, buf))
             ELSE UNCHANGED <<paused, hold, reading, scheduled>>
  BY DEF SendCallback
<1>5. /\ Len(out) \in Nat /\ flushed \in Nat /\ n \in Nat /\ flushed < n
      /\ n <= Len(out) /\ HighWater \in Nat /\ HighWater > 0 /\ flushed' = n
  BY <1>4 DEF IndInv, TypeOK
<1>6. CASE paused /\ Live /\ ~AtHighWater(Len(out) - n)
  <2>1. /\ paused' = FALSE /\ hold' = (buf # <<>>)
        /\ UpdateTcpReadState(FALSE, clientPaused, hold')
        /\ scheduled' = (scheduled \/ CanSchedule(FALSE, clientPaused, buf))
    BY <1>4, <1>6
  <2>2. PauseHasWakeup'
    BY <1>1, <1>5, <1>6, <2>1 DEF PauseHasWakeup, AtHighWater
  <2>3. ReadGate'
    BY <1>1, <2>1 DEF ReadGate, UpdateTcpReadState
  <2>4. buf # <<>> => clientPaused \/ scheduled'
    BY <1>6, <2>1 DEF CanSchedule
  <2>5. RunnableHasTurn'
    BY <1>1, <1>2, <2>4, RunnableRetains DEF RunnableHasTurn
  <2>6. DrainInvariant'
    BY <1>1, <1>2, <2>1, <2>4 DEF IndInv, DrainInvariant
  <2> QED
    BY <1>3, <2>2, <2>3, <2>5, <2>6 DEF IndInv
<1>7. CASE ~(paused /\ Live /\ ~AtHighWater(Len(out) - n))
  <2>1. UNCHANGED <<paused, hold, reading, scheduled>>
    BY <1>4, <1>7
  <2>2. PauseHasWakeup'
    BY <1>1, <1>2, <1>5, <1>7, <2>1 DEF IndInv, PauseHasWakeup, AtHighWater
  <2>3. ReadGate' /\ RunnableHasTurn'
    BY <1>1, <1>2, <2>1 DEF IndInv, ReadGate, RunnableHasTurn
  <2>4. DrainInvariant'
    BY <1>1, <1>2, <2>1 DEF IndInv, DrainInvariant
  <2> QED
    BY <1>3, <2>2, <2>3, <2>4 DEF IndInv
<1> QED
  BY <1>6, <1>7

\* The browser's flow message; resuming asks for a turn.
LEMMA FlowMessageKeeps ==
    ASSUME IndInv, TypeOK', NEW p \in BOOLEAN, FlowMessage(p)
    PROVE  IndInv'
<1>1. /\ UNCHANGED <<arrived, buf, out, flushed, proxied, discarded>>
      /\ UNCHANGED <<ws, cancelled, paused, hold>>
      /\ framing' = framing /\ client' = client /\ drain = "idle" /\ drain' = "idle"
  BY DEF FlowMessage, CanReceive, Idle, streamVars, dataVars, drainVars, phaseVars
<1>2. Live' = Live /\ Runnable' = Runnable /\ Idle /\ Idle'
  BY <1>1 DEF Live, Runnable, FrameEnds, HeadIsOpaque, Kind, Idle
<1>3. ExactlyOnceInOrder' /\ PauseHasWakeup'
  BY <1>1, <1>2, StillInOrder DEF IndInv, PauseHasWakeup
<1>4. ReadGate'
  BY <1>1 DEF FlowMessage, UpdateTcpReadState, ReadGate
<1>5. Live /\ ~paused /\ buf # <<>> => clientPaused' \/ scheduled'
  BY DEF FlowMessage, CanSchedule
<1>6. RunnableHasTurn'
  BY <1>1, <1>2, <1>5, RunnableRetains DEF RunnableHasTurn
<1>7. DrainInvariant'
  BY <1>1, <1>2, <1>5 DEF IndInv, DrainInvariant
<1> QED
  BY <1>3, <1>4, <1>6, <1>7 DEF IndInv

\* The client callbacks: framing starts over an empty buffer, and no callback
\* makes retained bytes runnable.
LEMMA ClientKeeps ==
    IndInv /\ TypeOK' /\ (ClientHandshake \/ ClientEncryptionResponse \/ ClientInspection)
        => IndInv'
<1> SUFFICES ASSUME IndInv, TypeOK',
                    ClientHandshake \/ ClientEncryptionResponse \/ ClientInspection
             PROVE  IndInv'
  OBVIOUS
<1>1. /\ UNCHANGED <<arrived, buf, out, flushed, proxied, discarded>>
      /\ UNCHANGED <<ws, reading, cancelled, paused, clientPaused, hold>>
      /\ drain = "idle" /\ drain' = "idle"
      /\ scheduled => scheduled'
      /\ client' = "unprobed" => client = "unprobed"
  <2>1. CASE ClientHandshake
    BY <2>1 DEF ClientHandshake, CanReceive, Idle,
                streamVars, dataVars, sockVars, flowVars, drainVars
  <2>2. CASE ClientEncryptionResponse
    <3>1. scheduled => scheduled'
      BY <2>2, Zenon DEF ClientEncryptionResponse
    <3> QED
      BY <2>2, <3>1 DEF ClientEncryptionResponse, CanReceive, Idle,
                streamVars, dataVars, sockVars, drainVars
  <2>3. CASE ClientInspection
    BY <2>3 DEF ClientInspection, Idle,
                streamVars, dataVars, sockVars, flowVars, drainVars
  <2> QED
    BY <2>1, <2>2, <2>3
<1>2. Live' = Live /\ Idle /\ Idle'
  BY <1>1 DEF Live, Idle
<1>3. Runnable' => Runnable
  <2>1. FrameEnds(buf)' = FrameEnds(buf) /\ HeadIsOpaque(buf)' = HeadIsOpaque(buf)
    BY <1>1 DEF FrameEnds, HeadIsOpaque, Kind
  <2>2. CASE ClientHandshake
    <3>1. buf' = <<>>
      BY <1>1, <2>2 DEF ClientHandshake, IndInv, DrainInvariant
    <3> QED
      BY <3>1 DEF Runnable, FrameEnds, HeadIsOpaque
  <2>3. CASE ClientEncryptionResponse \/ ClientInspection
    <3>1. framing' => framing
      BY <2>3 DEF ClientEncryptionResponse, ClientInspection
    <3> QED
      BY <2>1, <3>1 DEF Runnable
  <2> QED
    BY <2>2, <2>3
<1>4. ExactlyOnceInOrder' /\ PauseHasWakeup' /\ ReadGate'
  BY <1>1, <1>2, StillInOrder DEF IndInv, PauseHasWakeup, ReadGate
<1>5. RunnableHasTurn'
  BY <1>1, <1>2, <1>3 DEF IndInv, RunnableHasTurn
<1>6. DrainInvariant'
  BY <1>1, <1>2 DEF IndInv, DrainInvariant
<1> QED
  BY <1>4, <1>5, <1>6 DEF IndInv

\* Every teardown drops what is retained and leaves no hold behind.
LEMMA TeardownKeeps ==
    IndInv /\ TypeOK' /\ (TargetCloses \/ TunnelFails \/ WebSocketClosed) => IndInv'
<1> SUFFICES ASSUME IndInv, TypeOK', TargetCloses \/ TunnelFails \/ WebSocketClosed
             PROVE  IndInv'
  OBVIOUS
<1>1. /\ discarded' = discarded \cup Elements(buf)
      /\ out' = out /\ proxied' = proxied /\ buf' = <<>>
      /\ cancelled' = TRUE /\ hold' = FALSE
  BY DEF TargetCloses, TunnelFails, WebSocketClosed, CloseBoth
<1>2. arrived' = arrived /\ drain' # "loop"
  BY DEF TargetCloses, TunnelFails, WebSocketClosed, Idle, streamVars, drainVars
<1> QED
  BY <1>1, <1>2, CloseKeepsAll

\* A browser that leaves keeps the invariant.
LEMMA BrowserClosesKeeps == IndInv /\ TypeOK' /\ BrowserCloses => IndInv'
<1> SUFFICES ASSUME IndInv, TypeOK', BrowserCloses PROVE IndInv'
  OBVIOUS
<1>1. /\ UNCHANGED <<arrived, buf, out, proxied, discarded>>
      /\ cancelled' = cancelled /\ client' = client
      /\ drain = "idle" /\ drain' = "idle" /\ ~Live'
  BY DEF BrowserCloses, Idle, Live, streamVars, dataVars, drainVars, phaseVars
<1>2. ExactlyOnceInOrder' /\ PauseHasWakeup' /\ ReadGate' /\ RunnableHasTurn'
  BY <1>1, StillInOrder DEF IndInv, PauseHasWakeup, ReadGate, RunnableHasTurn
<1>3. DrainInvariant'
  BY <1>1 DEF IndInv, DrainInvariant
<1> QED
  BY <1>2, <1>3 DEF IndInv

\* The invariant is inductive.
LEMMA IndInvStep == IndInv /\ [Next]_vars => IndInv'
<1> SUFFICES ASSUME IndInv, [Next]_vars PROVE IndInv'
  OBVIOUS
<1>1. TypeOK'
  BY TypeStep DEF IndInv
<1>2. CASE UNCHANGED vars
  <2>1. /\ UNCHANGED <<arrived, buf, out, flushed, proxied, discarded>>
        /\ UNCHANGED <<ws, reading, cancelled, paused, clientPaused, hold, scheduled>>
        /\ UNCHANGED <<drain, drainHold, drainYield, framing, client>>
    BY <1>2 DEF vars, streamVars, dataVars, sockVars, flowVars, drainVars, phaseVars
  <2>2. Live' = Live /\ Idle' = Idle /\ Runnable' = Runnable
    BY <2>1 DEF Live, Idle, Runnable, FrameEnds, HeadIsOpaque, Kind
  <2>3. ExactlyOnceInOrder' /\ PauseHasWakeup' /\ ReadGate' /\ RunnableHasTurn'
    BY <2>1, <2>2, StillInOrder DEF IndInv, PauseHasWakeup, ReadGate, RunnableHasTurn
  <2>4. DrainInvariant'
    BY <2>1, <2>2 DEF IndInv, DrainInvariant
  <2> QED
    BY <1>1, <2>3, <2>4 DEF IndInv
<1>3. CASE DrainStep
  BY <1>1, <1>3, DrainLoopEndsKeeps, DrainOpaqueHeadKeeps, DrainForwardKeeps,
     DrainKeepAliveKeeps, DrainFinallyKeeps DEF DrainStep
<1>4. CASE TcpData \/ ScheduledDrain \/ SendCallback
  BY <1>1, <1>4, TcpDataKeeps, ScheduledDrainKeeps, SendCallbackKeeps
<1>5. CASE \E p \in BOOLEAN : FlowMessage(p)
  BY <1>1, <1>5, FlowMessageKeeps
<1>6. CASE ClientHandshake \/ ClientEncryptionResponse \/ ClientInspection
  BY <1>1, <1>6, ClientKeeps
<1>7. CASE TargetCloses \/ TunnelFails \/ BrowserCloses \/ WebSocketClosed
  BY <1>1, <1>7, TeardownKeeps, BrowserClosesKeeps
<1> QED
  BY <1>2, <1>3, <1>4, <1>5, <1>6, <1>7 DEF Next, Closed

\* The invariant holds initially.
LEMMA InitIndInv == Init => IndInv
<1> SUFFICES ASSUME Init PROVE IndInv
  OBVIOUS
<1>1. TypeOK
  <2>1. /\ reading \in BOOLEAN /\ cancelled \in BOOLEAN
        /\ paused \in BOOLEAN /\ clientPaused \in BOOLEAN
        /\ hold \in BOOLEAN /\ scheduled \in BOOLEAN
        /\ drainHold \in BOOLEAN /\ drainYield \in BOOLEAN
        /\ framing \in BOOLEAN /\ encPending \in BOOLEAN
    BY Zenon DEF Init
  <2>2. Len(Stream) \in Nat /\ FrameBudget \in Nat
    OBVIOUS
  <2> QED
    BY <2>1, <2>2 DEF Init, TypeOK, Phases
<1>2. ExactlyOnceInOrder
  BY DEF Init, ExactlyOnceInOrder, Taken, Elements
<1>3. PauseHasWakeup /\ ReadGate
  <2>1. /\ ~paused /\ ~clientPaused /\ ~hold /\ reading = TRUE
        /\ Len(out) = 0 /\ flushed = 0
    BY DEF Init
  <2>2. PauseHasWakeup
    BY <2>1 DEF PauseHasWakeup
  <2>3. ReadGate
    BY <2>1 DEF ReadGate
  <2> QED
    BY <2>2, <2>3
<1>4. RunnableHasTurn /\ DrainInvariant
  BY DEF Init, RunnableHasTurn, DrainInvariant, Runnable, Idle
<1> QED
  BY <1>1, <1>2, <1>3, <1>4 DEF IndInv

\* The invariant holds in every reachable state.
LEMMA Invariance == Spec => []IndInv
BY InitIndInv, IndInvStep, PTL DEF Spec

\* No unit of the target's stream is lost, repeated or reordered on its way to
\* an open browser, whatever the interleaving of the relay's callbacks.
THEOREM InOrderDelivery == Spec => []ExactlyOnceInOrder
<1>1. IndInv => ExactlyOnceInOrder
  BY DEF IndInv
<1> QED
  BY <1>1, Invariance, PTL

\* A tunnel paused at the high-water mark has a send callback to come.
THEOREM PauseWakeup == Spec => []PauseHasWakeup
<1>1. IndInv => PauseHasWakeup
  BY DEF IndInv
<1> QED
  BY <1>1, Invariance, PTL

\* The TCP socket of an open tunnel flows exactly when nothing pauses it.
THEOREM ReadGating == Spec => []ReadGate
<1>1. IndInv => ReadGate
  BY DEF IndInv
<1> QED
  BY <1>1, Invariance, PTL

\* Retained complete frames of an unpaused tunnel have a drain turn to come.
THEOREM NoLostTurn == Spec => []RunnableHasTurn
<1>1. IndInv => RunnableHasTurn
  BY DEF IndInv
<1> QED
  BY <1>1, Invariance, PTL

\* The read hold of an open tunnel always has something to release it.
THEOREM HoldReleased == Spec => []HoldHasRelease
<1>1. IndInv => HoldHasRelease
  BY DEF IndInv, DrainInvariant, HoldHasRelease
<1> QED
  BY <1>1, Invariance, PTL

\* The socket flows unless there is a reason to pause it, and whatever a tunnel
\* waits for, a callback, a turn or a message, is to come.
THEOREM SomethingToCome == Spec => []NeverStuck
<1>1. ReadGate /\ PauseHasWakeup /\ RunnableHasTurn /\ HoldHasRelease => NeverStuck
  BY DEF NeverStuck
<1> QED
  BY <1>1, ReadGating, PauseWakeup, NoLostTurn, HoldReleased, PTL

-----------------------------------------------------------------------------
(* The refinement.                                                         *)

\* A run is the sequence OrderedRelay delivers.
LEMMA RunIsNext ==
    ASSUME NEW t \in Nat, NEW s \in Seq(Units), Run(t, s)
    PROVE  s = [i \in 1 .. Len(s) |-> t + i]
<1> DEFINE f == [i \in 1 .. Len(s) |-> t + i]
<1>1. \A i \in 1 .. Len(s) : s[i] = f[i]
  BY DEF Run
<1>2. /\ Len(s) \in Nat /\ DOMAIN s = 1 .. Len(s)
      /\ s = [i \in 1 .. Len(s) |-> s[i]]
  OBVIOUS
<1> HIDE DEF f
<1>3. [i \in 1 .. Len(s) |-> s[i]] = [i \in 1 .. Len(s) |-> f[i]]
  BY <1>1
<1> QED
  BY <1>2, <1>3 DEF f

\* Units that leave the buffer for the browser in order are delivered.
LEMMA DeliversRun ==
    ASSUME NEW s \in Seq(Units), TypeOK, TypeOK', Live, Live', Run(Taken, s),
           arrived' \in arrived .. Len(Stream), Taken \in Nat, Taken' \in Nat,
           Taken' = Taken + Len(s), Taken' <= arrived',
           out' = out \o s, proxied' = proxied
    PROVE  Relay!Deliver
<1>1. Len(s) \in Nat /\ Taken' - Taken = Len(s)
  OBVIOUS
<1>2. s = [i \in 1 .. Taken' - Taken |-> Taken + i]
  BY <1>1, RunIsNext
<1>3. Taken' \in Taken .. arrived'
  <2>1. arrived' \in Nat
    BY DEF TypeOK
  <2> QED
    BY <1>1, <2>1
<1>4. Live' = Live
  BY DEF Live
<1> HIDE DEF Live, Taken
<1> QED
  BY <1>2, <1>3, <1>4 DEF Relay!Deliver, Relay!Arrive

\* A tunnel that goes down, or is down, delivers and answers nothing.
LEMMA Abandons ==
    ASSUME TypeOK, TypeOK', ~Live', arrived' \in arrived .. Len(Stream),
           Taken \in Nat, Taken' \in Nat, Taken <= Taken', Taken' <= arrived',
           out' = out, proxied' = proxied
    PROVE  Relay!Abandon
<1>1. Taken' \in Taken .. arrived'
  BY DEF TypeOK
<1>2. Live' = FALSE
  BY DEF Live
<1> QED
  BY <1>1, <1>2 DEF Relay!Abandon, Relay!Arrive

\* A teardown drops what is retained, and what it has in hand with it.
LEMMA CloseAbandons ==
    ASSUME IndInv, TypeOK', ~Live', buf' = <<>>,
           arrived' \in arrived .. Len(Stream), out' = out, proxied' = proxied
    PROVE  Relay!Abandon
<1>1. /\ Taken \in Nat /\ Len(buf) \in Nat /\ arrived \in Nat
      /\ arrived = Taken + Len(buf)
  BY TakenNat DEF IndInv
<1>2. arrived' \in Nat /\ arrived <= arrived'
  BY <1>1 DEF TypeOK
<1>3. Taken' = arrived'
  <2>1. Taken' = arrived' - Len(<<>>)
    BY DEF Taken
  <2> QED
    BY <1>2, <2>1, MinusEmpty
<1>4. Taken <= Taken' /\ Taken' \in Nat /\ Taken' <= arrived'
  BY <1>1, <1>2, <1>3
<1>5. TypeOK
  BY DEF IndInv
<1> QED
  BY <1>1, <1>4, <1>5, Abandons

\* A step that moves no unit and leaves the tunnel up, or down, is no step of
\* the relay.
LEMMA Stutters ==
    ASSUME UNCHANGED <<arrived, buf, out, proxied, ws, cancelled>>
    PROVE  UNCHANGED Relay!vars
BY DEF Relay!vars, Taken, Live

\* One turn of the loop that sends a prefix of the buffer delivers it.
LEMMA ForwardDelivers ==
    ASSUME IndInv, TypeOK', InLoop, NEW n \in 1 .. Len(buf), NEW frames,
           ForwardPrefix(n, frames), arrived' = arrived
    PROVE  Relay!Next
<1>1. /\ Taken \in Nat /\ Len(buf) \in Nat /\ arrived = Taken + Len(buf)
      /\ buf \in Seq(Units) /\ Run(Taken, buf) /\ TypeOK
      /\ arrived \in Nat /\ Len(Stream) \in Nat /\ arrived <= Len(Stream)
  BY TakenNat, InOrderForm DEF IndInv, TypeOK
<1>2. arrived' \in arrived .. Len(Stream)
  BY <1>1
<1>3. CASE CloseBoth("failure", {})
  BY <1>2, <1>3, CloseAbandons DEF CloseBoth, Live, Relay!Next
<1>4. CASE Send(Take(buf, n)) /\ buf' = Drop(buf, n) /\ proxied' = proxied
  <2>1. Live /\ Live'
    BY <1>4 DEF IndInv, DrainInvariant, InLoop, LoopCondition, Live, Send
  <2>2. /\ Take(buf, n) \in Seq(Units) /\ Len(Take(buf, n)) = n
        /\ Run(Taken, Take(buf, n)) /\ Len(Drop(buf, n)) = Len(buf) - n
    BY <1>1, RunSplit
  <2>3. n \in Nat /\ n <= Len(buf)
    BY <1>1
  <2>4. Taken' = Taken + n /\ Taken' \in Nat /\ Taken' <= arrived'
    BY <1>1, <1>4, <2>2, <2>3 DEF Taken
  <2>5. Taken' = Taken + Len(Take(buf, n)) /\ out' = out \o Take(buf, n)
    BY <1>4, <2>2, <2>4 DEF Send
  <2>6. Relay!Deliver
    BY <1>1, <1>2, <1>4, <2>1, <2>2, <2>4, <2>5, DeliversRun
  <2> QED
    BY <2>1, <2>6 DEF Relay!Next
<1> QED
  BY <1>3, <1>4 DEF ForwardPrefix

\* The turns of the loop that forward.
LEMMA DrainForwardDelivers ==
    IndInv /\ TypeOK' /\ (DrainOpaqueChunk \/ DrainBatch \/ DrainFrame) => Relay!Next
<1> SUFFICES ASSUME IndInv, TypeOK', DrainOpaqueChunk \/ DrainBatch \/ DrainFrame
             PROVE  Relay!Next
  OBVIOUS
<1>1. CASE DrainOpaqueChunk \/ DrainFrame
  <2>1. InLoop /\ arrived' = arrived /\ \E n \in 1 .. Len(buf) : ForwardPrefix(n, 1)
    BY <1>1 DEF DrainOpaqueChunk, DrainFrame, streamVars
  <2> QED
    BY <2>1, ForwardDelivers
<1>2. CASE DrainBatch
  <2>1. PICK n \in FrameEnds(buf) :
          ForwardPrefix(n, Cardinality({j \in FrameEnds(buf) : j <= n}))
    BY <1>2 DEF DrainBatch
  <2>2. InLoop /\ arrived' = arrived /\ n \in 1 .. Len(buf)
    BY <1>2 DEF DrainBatch, streamVars, FrameEnds
  <2> QED
    BY <2>1, <2>2, ForwardDelivers
<1> QED
  BY <1>1, <1>2

\* A keepalive taken off the head of the buffer is answered.
LEMMA KeepAliveAnswers == IndInv /\ TypeOK' /\ DrainKeepAlive => Relay!Next
<1> SUFFICES ASSUME IndInv, TypeOK', DrainKeepAlive PROVE Relay!Next
  OBVIOUS
<1>1. PICK n \in 1 .. Len(buf) :
          proxied' = proxied \cup Elements(Take(buf, n)) /\ buf' = Drop(buf, n)
  BY DEF DrainKeepAlive
<1>2. UNCHANGED <<arrived, out, ws, cancelled>>
  BY DEF DrainKeepAlive, streamVars, sockVars
<1>3. /\ Taken \in Nat /\ Len(buf) \in Nat /\ arrived = Taken + Len(buf)
      /\ buf \in Seq(Units) /\ Run(Taken, buf)
  BY TakenNat, InOrderForm DEF IndInv, TypeOK
<1>4. /\ Take(buf, n) \in Seq(Units) /\ Len(Take(buf, n)) = n
      /\ Run(Taken, Take(buf, n)) /\ Len(Drop(buf, n)) = Len(buf) - n
  BY <1>3, RunSplit
<1>5. n \in Nat /\ 1 <= n /\ n <= Len(buf)
  BY <1>3
<1>6. Taken' = Taken + n
  BY <1>1, <1>2, <1>3, <1>4, <1>5 DEF Taken
<1>7. Elements(Take(buf, n)) = Taken + 1 .. Taken + n
  BY <1>3, <1>4, RunElements
<1>8. Taken' \in Taken + 1 .. arrived
  BY <1>3, <1>5, <1>6
<1>9. proxied' = proxied \cup (Taken + 1 .. Taken')
  BY <1>1, <1>6, <1>7
<1>10. Live /\ Live' = Live
  BY <1>2 DEF IndInv, DrainInvariant, DrainKeepAlive, InLoop, LoopCondition, Live
<1> HIDE DEF Live, Taken
<1>11. Relay!Answer
  BY <1>2, <1>8, <1>9, <1>10 DEF Relay!Answer
<1> QED
  BY <1>10, <1>11 DEF Relay!Next

\* A chunk is delivered as it arrives, retained, or dropped by a teardown.
LEMMA TcpDataArrives == IndInv /\ TypeOK' /\ TcpData => Relay!Next
<1> SUFFICES ASSUME IndInv, TypeOK', TcpData PROVE Relay!Next
  OBVIOUS
<1>1. PICK n \in 1 .. Len(Stream) - arrived :
          LET chunk == [i \in 1 .. n |-> arrived + i] IN
          /\ arrived' = arrived + n
          /\ cuts' = cuts \cup {arrived + n}
          /\ ForwardDirect(chunk) \/ AppendAndDrain(chunk)
  BY DEF TcpData
<1> DEFINE chunk == [i \in 1 .. n |-> arrived + i]
<1>2. /\ Taken \in Nat /\ Len(buf) \in Nat /\ arrived \in Nat /\ n \in Nat
      /\ arrived = Taken + Len(buf) /\ arrived' = arrived + n
      /\ buf \in Seq(Units) /\ TypeOK /\ Len(Stream) \in Nat
  BY <1>1, TakenNat DEF IndInv, TypeOK
<1>3. \A i \in 1 .. n : arrived + i \in Units
  BY <1>1, <1>2 DEF Units
<1>4. chunk \in Seq(Units) /\ Len(chunk) = n
  <2>1. chunk \in [1 .. n -> Units]
    BY <1>3
  <2> HIDE DEF chunk
  <2> QED
    BY <1>2, <2>1
<1>5. Run(arrived, chunk)
  BY <1>2, <1>4 DEF Run
<1>6. ForwardDirect(chunk) \/ AppendAndDrain(chunk)
  BY <1>1
<1>7. arrived' \in arrived .. Len(Stream) /\ arrived' \in Nat
  BY <1>1, <1>2
<1> HIDE DEF chunk
<1>8. CASE ForwardDirect(chunk)
  <2>1. buf = <<>> /\ Taken = arrived
    BY <1>2, <1>8 DEF ForwardDirect, DirectPath
  <2>2. CASE Live /\ Send(chunk) /\ UNCHANGED <<buf, proxied>>
    <3>1. Live' /\ out' = out \o chunk
      BY <2>2 DEF Live, Send
    <3>2. Taken' = arrived' /\ Taken' = Taken + Len(chunk)
      BY <1>2, <1>4, <2>1, <2>2 DEF Taken
    <3>3. Taken' \in Nat /\ Taken' <= arrived' /\ Run(Taken, chunk)
      BY <1>2, <1>5, <1>7, <2>1, <3>2
    <3>4. Relay!Deliver
      BY <1>2, <1>4, <1>7, <2>2, <3>1, <3>2, <3>3, DeliversRun
    <3> QED
      BY <2>2, <3>4 DEF Relay!Next
  <2>3. CASE CloseBoth("failure", Elements(chunk))
    BY <1>7, <2>3, CloseAbandons DEF CloseBoth, Live, Relay!Next
  <2>4. CASE ~Live /\ UNCHANGED <<buf, out, proxied, sockVars>>
    BY <1>7, <2>1, <2>4, CloseAbandons DEF Live, sockVars, Relay!Next
  <2> QED
    BY <1>8, <2>2, <2>3, <2>4 DEF ForwardDirect
<1>9. CASE AppendAndDrain(chunk)
  <2>1. buf' = buf \o chunk /\ UNCHANGED <<out, proxied, ws, cancelled>>
    BY <1>9 DEF AppendAndDrain, sockVars
  <2>2. Len(buf') = Len(buf) + n
    BY <1>2, <1>4, <2>1, ElementsConcat
  <2>3. Taken' = Taken /\ Live' = Live
    BY <1>2, <2>1, <2>2 DEF Taken, Live
  <2>4. Taken' \in Nat /\ Taken <= Taken' /\ Taken' <= arrived'
    BY <1>2, <2>3
  <2>5. CASE Live
    <3>1. /\ <<>> \in Seq(Units) /\ Run(Taken, <<>>)
          /\ Taken' = Taken + Len(<<>>) /\ out' = out \o <<>>
      BY <1>2, <2>1, <2>3 DEF Run, TypeOK
    <3>2. Relay!Deliver
      BY <1>2, <1>7, <2>1, <2>3, <2>4, <2>5, <3>1, DeliversRun
    <3> QED
      BY <2>5, <3>2 DEF Relay!Next
  <2>6. CASE ~Live
    BY <1>2, <1>7, <2>1, <2>3, <2>4, <2>6, Abandons DEF Relay!Next
  <2> QED
    BY <2>5, <2>6
<1> QED
  BY <1>6, <1>8, <1>9

\* Every teardown abandons the hop, and so does a browser that leaves.
LEMMA TeardownAbandons ==
    IndInv /\ TypeOK' /\ (TargetCloses \/ TunnelFails \/ WebSocketClosed \/ BrowserCloses)
        => Relay!Next
<1> SUFFICES ASSUME IndInv, TypeOK',
                    TargetCloses \/ TunnelFails \/ WebSocketClosed \/ BrowserCloses
             PROVE  Relay!Next
  OBVIOUS
<1>1. arrived' = arrived
  BY DEF TargetCloses, TunnelFails, WebSocketClosed, BrowserCloses, streamVars
<1>2. /\ Taken \in Nat /\ Len(buf) \in Nat /\ arrived = Taken + Len(buf) /\ TypeOK
      /\ arrived' \in arrived .. Len(Stream)
  BY <1>1, TakenNat DEF IndInv, TypeOK
<1>3. CASE TargetCloses \/ TunnelFails \/ WebSocketClosed
  <2>1. out' = out /\ proxied' = proxied /\ buf' = <<>> /\ cancelled' = TRUE
    BY <1>3 DEF TargetCloses, TunnelFails, WebSocketClosed, CloseBoth
  <2> QED
    BY <1>2, <2>1, CloseAbandons DEF Live, Relay!Next
<1>4. CASE BrowserCloses
  <2>1. UNCHANGED <<buf, out, proxied>> /\ ~Live'
    BY <1>4 DEF BrowserCloses, dataVars, Live
  <2>2. Taken' = Taken
    BY <1>1, <2>1 DEF Taken
  <2>3. Taken' \in Nat /\ Taken <= Taken' /\ Taken' <= arrived'
    BY <1>1, <1>2, <2>2
  <2> QED
    BY <1>2, <2>1, <2>3, Abandons DEF Relay!Next
<1> QED
  BY <1>3, <1>4

\* Every step of the tunnel is a step of the relay or leaves it as it is.
LEMMA RelayStep == IndInv /\ TypeOK' /\ [Next]_vars => [Relay!Next]_Relay!vars
<1> SUFFICES ASSUME IndInv, TypeOK', [Next]_vars
             PROVE  Relay!Next \/ UNCHANGED Relay!vars
  OBVIOUS
<1>1. CASE TcpData
  BY <1>1, TcpDataArrives
<1>2. CASE DrainOpaqueChunk \/ DrainBatch \/ DrainFrame
  BY <1>2, DrainForwardDelivers
<1>3. CASE DrainKeepAlive
  BY <1>3, KeepAliveAnswers
<1>4. CASE TargetCloses \/ TunnelFails \/ WebSocketClosed \/ BrowserCloses
  BY <1>4, TeardownAbandons
<1>5. CASE DrainLoopEnds \/ DrainOpaqueHead \/ DrainFinally \/ ScheduledDrain
  <2>1. UNCHANGED <<arrived, buf, out, proxied, ws, cancelled>>
    BY <1>5 DEF DrainLoopEnds, DrainOpaqueHead, DrainFinally, ScheduledDrain,
                streamVars, dataVars, sockVars
  <2> QED
    BY <2>1, Stutters
<1>6. CASE \/ SendCallback \/ \E p \in BOOLEAN : FlowMessage(p)
           \/ ClientHandshake \/ ClientEncryptionResponse \/ ClientInspection
  <2>1. UNCHANGED <<arrived, buf, out, proxied, ws, cancelled>>
    BY <1>6 DEF SendCallback, FlowMessage, ClientHandshake, ClientEncryptionResponse,
                ClientInspection, streamVars, dataVars, sockVars
  <2> QED
    BY <2>1, Stutters
<1>7. CASE UNCHANGED vars
  <2>1. UNCHANGED <<arrived, buf, out, proxied, ws, cancelled>>
    BY <1>7 DEF vars, streamVars, dataVars, sockVars
  <2> QED
    BY <2>1, Stutters
<1> QED
  BY <1>1, <1>2, <1>3, <1>4, <1>5, <1>6, <1>7 DEF Next, DrainStep, Closed

\* The tunnel starts as the relay does.
LEMMA RelayInit == Init => Relay!Init
<1> SUFFICES ASSUME Init PROVE Relay!Init
  OBVIOUS
<1>1. arrived = 0 /\ out = <<>> /\ proxied = {} /\ Live
  BY DEF Init, Live
<1>2. Taken = 0
  <2>1. Taken = 0 - Len(<<>>)
    BY DEF Init, Taken
  <2> QED
    BY <2>1, MinusEmpty, 0 \in Nat
<1> HIDE DEF Live, Taken
<1> QED
  BY <1>1, <1>2 DEF Relay!Init

\* The target-to-browser half of a tunnel implements the relay's promise: each
\* unit leaves the stream once and in order, to be delivered or answered, and a
\* tunnel that went down delivers and answers nothing more.
THEOREM RefinesRelay == Spec => ImplementsRelay
<1>1. IndInv' => TypeOK'
  BY DEF IndInv
<1>2. IndInv /\ IndInv' /\ [Next]_vars => [Relay!Next]_Relay!vars
  BY <1>1, RelayStep
<1> QED
  BY <1>2, RelayInit, Invariance, PTL DEF Spec, ImplementsRelay, Relay!Spec

=============================================================================
