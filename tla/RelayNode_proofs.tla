---------------------------- MODULE RelayNode_proofs ----------------------------
(* Proofs about three components of a relay and of the registry that are    *)
(* independent of each other: ClientFrameScheduler, RegistryLease and       *)
(* ResourcePackCache, each for every value of its constants.                *)
EXTENDS ClientFrameScheduler, RegistryLease, ResourcePackCache, FiniteSetTheorems,
        SequenceTheorems, WellFoundedInduction, TLAPS

-----------------------------------------------------------------------------
(* ClientFrameScheduler                                                     *)

USE BudgetAssumption, WorkLimitAssumption

-----------------------------------------------------------------------------
(* Queues without repetition.                                              *)

Elements(q) == {q[i] : i \in DOMAIN q}
Distinct(q) == \A i, j \in DOMAIN q : q[i] = q[j] => i = j

\* In a queue without repetition the position of an element is its only index.
LEMMA PositionIsIndex ==
    ASSUME NEW q \in Seq(Tunnels), Distinct(q), NEW i \in DOMAIN q
    PROVE  Position(q, q[i]) = i
BY DEF Position, Distinct

\* A new element at the end repeats nothing and moves nobody.
LEMMA AppendKeeps ==
    ASSUME NEW q \in Seq(Tunnels), Distinct(q), NEW t \in Tunnels, t \notin Elements(q)
    PROVE  /\ Append(q, t) \in Seq(Tunnels) /\ Append(q, t) # <<>>
           /\ Distinct(Append(q, t))
           /\ Elements(Append(q, t)) = Elements(q) \cup {t}
           /\ \A i \in DOMAIN q : i \in DOMAIN Append(q, t) /\ Append(q, t)[i] = q[i]
<1> DEFINE a == Append(q, t)
<1>1. /\ a \in Seq(Tunnels) /\ Len(a) = Len(q) + 1 /\ Len(q) \in Nat
      /\ \A i \in 1 .. Len(q) : a[i] = q[i]
      /\ a[Len(q) + 1] = t
  OBVIOUS
<1>2. DOMAIN a = DOMAIN q \cup {Len(q) + 1} /\ Len(q) + 1 \notin DOMAIN q
  BY <1>1
<1>3. \A i \in DOMAIN q : a[i] = q[i] /\ q[i] # t
  BY <1>1 DEF Elements
<1>4. Elements(a) = Elements(q) \cup {t}
  BY <1>1, <1>2, <1>3 DEF Elements
<1>5. Distinct(a)
  BY <1>1, <1>2, <1>3 DEF Distinct
<1> QED
  BY <1>1, <1>2, <1>3, <1>4, <1>5

\* Taking the first element leaves the others one place further ahead.
LEMMA TailKeeps ==
    ASSUME NEW q \in Seq(Tunnels), Distinct(q), q # <<>>
    PROVE  /\ Tail(q) \in Seq(Tunnels) /\ Distinct(Tail(q))
           /\ Head(q) \in Tunnels
           /\ Elements(Tail(q)) = Elements(q) \ {Head(q)}
           /\ \A i \in DOMAIN Tail(q) : i + 1 \in DOMAIN q /\ Tail(q)[i] = q[i + 1]
<1> DEFINE r == Tail(q)
<1>1. /\ r \in Seq(Tunnels) /\ Len(q) \in Nat \ {0} /\ Len(r) = Len(q) - 1
      /\ Head(q) = q[1] /\ 1 \in DOMAIN q /\ q[1] \in Tunnels
      /\ \A i \in 1 .. Len(q) - 1 : r[i] = q[i + 1]
  OBVIOUS
<1>2. \A i \in DOMAIN r : i + 1 \in DOMAIN q /\ r[i] = q[i + 1] /\ i \in Nat
  BY <1>1
<1>3. Distinct(r)
  BY <1>2 DEF Distinct
<1>4. ASSUME NEW x \in Elements(q), x # Head(q) PROVE x \in Elements(r)
  <2>1. PICK i \in DOMAIN q : x = q[i]
    BY DEF Elements
  <2>2. i \in 2 .. Len(q) /\ i - 1 \in 1 .. Len(q) - 1 /\ (i - 1) + 1 = i
    BY <1>1, <1>4, <2>1
  <2> QED
    BY <1>1, <2>1, <2>2 DEF Elements
<1>5. ASSUME NEW i \in DOMAIN r PROVE r[i] \in Elements(q) \ {Head(q)}
  <2>1. i + 1 \in DOMAIN q /\ r[i] = q[i + 1] /\ i + 1 # 1
    BY <1>2
  <2> QED
    BY <1>1, <2>1 DEF Elements, Distinct
<1> QED
  BY <1>1, <1>2, <1>3, <1>4, <1>5 DEF Elements

\* Without removes one element, wherever it is, and nobody falls back.
LEMMA WithoutKeeps ==
    ASSUME NEW q \in Seq(Tunnels), Distinct(q), NEW t \in Tunnels
    PROVE  /\ Without(q, t) \in Seq(Tunnels) /\ Distinct(Without(q, t))
           /\ Elements(Without(q, t)) = Elements(q) \ {t}
           /\ \A i \in DOMAIN Without(q, t) :
                 \/ i \in DOMAIN q /\ Without(q, t)[i] = q[i]
                 \/ i + 1 \in DOMAIN q /\ Without(q, t)[i] = q[i + 1]
<1> DEFINE w == Without(q, t)
<1>1. CASE ~\E i \in DOMAIN q : q[i] = t
  <2>1. w = q
    BY <1>1 DEF Without
  <2> QED
    BY <1>1, <2>1 DEF Elements
<1>2. CASE \E i \in DOMAIN q : q[i] = t
  <2> DEFINE k == CHOOSE i \in DOMAIN q : q[i] = t
             a == SubSeq(q, 1, k - 1)
             b == SubSeq(q, k + 1, Len(q))
  <2>1. k \in DOMAIN q /\ q[k] = t
    BY <1>2
  <2>2. w = a \o b
    BY <1>2 DEF Without
  <2> HIDE DEF k
  <2>3. k \in 1 .. Len(q) /\ Len(q) \in Nat
    BY <2>1
  <2>4. /\ a \in Seq(Tunnels) /\ Len(a) = k - 1
        /\ \A i \in 1 .. k - 1 : a[i] = q[i]
    BY <2>3
  <2>5. /\ b \in Seq(Tunnels) /\ Len(b) = Len(q) - k
        /\ \A i \in 1 .. Len(q) - k : b[i] = q[k + i]
    BY <2>3
  <2> HIDE DEF a, b
  <2>6. /\ a \o b \in Seq(Tunnels) /\ Len(a \o b) = Len(q) - 1
        /\ \A i \in 1 .. Len(q) - 1 :
              (a \o b)[i] = IF i <= k - 1 THEN a[i] ELSE b[i - (k - 1)]
    <3>1. a \o b \in Seq(Tunnels) /\ Len(a \o b) = Len(a) + Len(b)
      BY <2>4, <2>5, ConcatProperties
    <3>2. \A i \in 1 .. Len(a) + Len(b) :
             (a \o b)[i] = IF i <= Len(a) THEN a[i] ELSE b[i - Len(a)]
      BY <2>4, <2>5, ConcatProperties
    <3>3. Len(a) + Len(b) = Len(q) - 1
      BY <2>3, <2>4, <2>5
    <3> QED
      BY <2>4, <3>1, <3>2, <3>3
  <2>7. ASSUME NEW i \in 1 .. Len(q) - 1
        PROVE  (a \o b)[i] = IF i < k THEN q[i] ELSE q[i + 1]
    <3>1. CASE i < k
      BY <2>3, <2>4, <2>6, <3>1
    <3>2. CASE ~(i < k)
      <4>1. i - (k - 1) \in 1 .. Len(q) - k /\ k + (i - (k - 1)) = i + 1
        BY <2>3, <3>2
      <4>2. ~(i <= k - 1)
        BY <2>3, <3>2
      <4> QED
        BY <2>5, <2>6, <3>2, <4>1, <4>2
    <3> QED
      BY <3>1, <3>2
  <2> DEFINE From(i) == IF i < k THEN i ELSE i + 1
  <2>8. /\ w \in Seq(Tunnels) /\ DOMAIN w = 1 .. Len(q) - 1
        /\ \A i \in DOMAIN w : w[i] = q[From(i)]
    <3>1. w \in Seq(Tunnels) /\ DOMAIN w = 1 .. Len(q) - 1
      BY <2>2, <2>3, <2>6
    <3>2. ASSUME NEW i \in 1 .. Len(q) - 1 PROVE w[i] = q[From(i)]
      BY <2>2, <2>7
    <3> QED
      BY <3>1, <3>2
  <2>9. /\ \A i \in 1 .. Len(q) - 1 : From(i) \in DOMAIN q /\ From(i) # k
        /\ \A i, j \in 1 .. Len(q) - 1 : From(i) = From(j) => i = j
        /\ \A i \in 1 .. Len(q) - 1 : From(i) = i \/ From(i) = i + 1
    BY <2>3
  <2>10. ASSUME NEW n \in DOMAIN q, n # k
         PROVE  \E i \in 1 .. Len(q) - 1 : From(i) = n
    <3>1. CASE n < k
      BY <2>3, <3>1
    <3>2. CASE n > k
      <4>1. n - 1 \in 1 .. Len(q) - 1 /\ ~(n - 1 < k) /\ (n - 1) + 1 = n
        BY <2>3, <3>2
      <4> QED
        BY <4>1
    <3> QED
      BY <2>3, <2>10, <3>1, <3>2
  <2> HIDE DEF w, From
  <2>11. Distinct(w)
    BY <2>8, <2>9 DEF Distinct
  <2>12. Elements(w) = Elements(q) \ {t}
    <3>1. ASSUME NEW i \in DOMAIN w PROVE w[i] \in Elements(q) \ {t}
      BY <2>1, <2>8, <2>9 DEF Elements, Distinct
    <3>2. ASSUME NEW x \in Elements(q) \ {t} PROVE x \in Elements(w)
      <4>1. PICK n \in DOMAIN q : x = q[n]
        BY DEF Elements
      <4>2. n # k
        BY <2>1, <4>1
      <4>3. PICK i \in 1 .. Len(q) - 1 : From(i) = n
        BY <2>10, <4>2
      <4> QED
        BY <2>8, <4>1, <4>3 DEF Elements
    <3> QED
      BY <3>1, <3>2 DEF Elements
  <2>13. \A i \in DOMAIN w : \/ i \in DOMAIN q /\ w[i] = q[i]
                             \/ i + 1 \in DOMAIN q /\ w[i] = q[i + 1]
    BY <2>8, <2>9
  <2> QED
    BY <2>8, <2>11, <2>12, <2>13 DEF w
<1> QED
  BY <1>1, <1>2

-----------------------------------------------------------------------------
(* The inductive invariant.  The queue's own facts are one part; what a    *)
(* turn in progress guarantees is another.                                 *)

QueueOK ==
    /\ queue \in Seq(Tunnels) /\ ready = Elements(queue) /\ Distinct(queue)
    /\ scheduled \in BOOLEAN

TunnelsOK ==
    /\ step \in {"idle", "run", "probe", "end"} /\ current \in Tunnels
    /\ work \in [Tunnels -> 0 .. WorkLimit]
    /\ partial \subseteq Tunnels
    /\ inspecting \subseteq Tunnels /\ opaque \subseteq Tunnels
    /\ flagged \subseteq Tunnels /\ retired \subseteq Tunnels

TurnInvariant ==
    /\ step # "idle" => ~scheduled
    /\ step \in {"run", "probe"} => current \notin retired
    /\ step = "run" => current \notin ready
    /\ inspecting \cap retired = {}

IndInv ==
    /\ QueueOK /\ TunnelsOK /\ TurnInvariant
    /\ QueueHasTurn /\ RunnableIsQueued /\ FlagMeansQueued /\ RetiredNotQueued

\* What any change of the queue keeps, and that nobody who stays falls back.
QueueStep ==
    /\ QueueOK'
    /\ step \in {"run", "probe"} /\ ~scheduled => ~scheduled'
    /\ scheduled' => queue' # <<>>
    /\ \A t \in ready \cap ready' : Position(queue', t) <= Position(queue, t)

\* A step that leaves the queue alone is one.
LEMMA UnchangedQueue ==
    ASSUME QueueOK, QueueHasTurn, UNCHANGED queueVars
    PROVE  QueueStep
<1>1. queue' = queue /\ ready' = ready /\ scheduled' = scheduled
  BY DEF queueVars
<1>2. QueueOK'
  BY <1>1 DEF QueueOK, Elements, Distinct
<1>3. ASSUME NEW t \in ready PROVE Position(queue, t) \in Nat
  <2>1. PICK i \in DOMAIN queue : queue[i] = t
    BY DEF QueueOK, Elements
  <2>2. Position(queue, t) = i /\ i \in Nat
    BY <2>1, PositionIsIndex DEF QueueOK
  <2> QED
    BY <2>2
<1>4. \A t \in ready : Position(queue', t) <= Position(queue, t)
  BY <1>1, <1>3
<1> QED
  BY <1>1, <1>2, <1>4 DEF QueueStep, QueueHasTurn

\* Enqueueing puts a live tunnel in the queue, keeps the others, and schedules
\* a turn unless one is running.
LEMMA EnqueueStep ==
    ASSUME QueueOK, QueueHasTurn, TunnelsOK, NEW t \in Tunnels, Enqueue(t)
    PROVE  /\ QueueStep
           /\ ready \subseteq ready' /\ ready' \subseteq ready \cup ({t} \ retired)
           /\ t \in ready' \/ t \in retired
           /\ step = "idle" /\ queue' # <<>> => scheduled'
<1>1. CASE t \in retired \/ t \in ready
  <2>1. UNCHANGED queueVars
    BY <1>1 DEF Enqueue
  <2>2. queue' = queue /\ ready' = ready /\ scheduled' = scheduled
    BY <2>1 DEF queueVars
  <2> QED
    BY <1>1, <2>1, <2>2, UnchangedQueue DEF QueueHasTurn
<1>2. CASE t \notin retired /\ t \notin ready
  <2>1. /\ ready' = ready \cup {t} /\ queue' = Append(queue, t)
        /\ scheduled' = (scheduled \/ step = "idle")
    BY <1>2 DEF Enqueue
  <2>2. /\ queue' \in Seq(Tunnels) /\ queue' # <<>> /\ Distinct(queue')
        /\ Elements(queue') = Elements(queue) \cup {t}
        /\ \A i \in DOMAIN queue : i \in DOMAIN queue' /\ queue'[i] = queue[i]
    BY <1>2, <2>1, AppendKeeps DEF QueueOK
  <2>3. QueueOK'
    BY <2>1, <2>2 DEF QueueOK, Elements, Distinct
  <2>4. ASSUME NEW x \in ready PROVE Position(queue', x) <= Position(queue, x)
    <3>1. PICK i \in DOMAIN queue : queue[i] = x
      BY DEF QueueOK, Elements
    <3>2. Position(queue, x) = i /\ i \in Nat
      BY <3>1, PositionIsIndex DEF QueueOK
    <3>3. Position(queue', queue'[i]) = i
      BY <2>2, PositionIsIndex
    <3> QED
      BY <2>2, <3>1, <3>2, <3>3
  <2> QED
    BY <1>2, <2>1, <2>2, <2>3, <2>4 DEF QueueStep
<1> QED
  BY <1>1, <1>2

\* Removal takes one tunnel out and keeps a turn for the others.
LEMMA RemoveStep ==
    ASSUME QueueOK, QueueHasTurn, TunnelsOK, NEW t \in Tunnels, RemoveReady(t)
    PROVE  /\ QueueStep
           /\ ready' = ready \ {t}
           /\ step = "idle" /\ queue' # <<>> => scheduled'
<1>1. /\ ready' = ready \ {t} /\ queue' = Without(queue, t)
      /\ scheduled' = (scheduled /\ queue' # <<>>)
  BY DEF RemoveReady
<1>2. /\ queue' \in Seq(Tunnels) /\ Distinct(queue')
      /\ Elements(queue') = Elements(queue) \ {t}
      /\ \A i \in DOMAIN queue' :
            \/ i \in DOMAIN queue /\ queue'[i] = queue[i]
            \/ i + 1 \in DOMAIN queue /\ queue'[i] = queue[i + 1]
  BY <1>1, WithoutKeeps DEF QueueOK
<1>3. QueueOK'
  BY <1>1, <1>2 DEF QueueOK, Elements, Distinct
<1>4. ASSUME NEW x \in ready' PROVE Position(queue', x) <= Position(queue, x)
  <2>1. PICK i \in DOMAIN queue' : queue'[i] = x
    BY <1>1, <1>2 DEF QueueOK, Elements
  <2>2. Position(queue', x) = i /\ i \in Nat
    BY <1>2, <2>1, PositionIsIndex
  <2>3. PICK j \in {i, i + 1} : j \in DOMAIN queue /\ queue[j] = x
    BY <1>2, <2>1
  <2>4. Position(queue, x) = j
    BY <2>3, PositionIsIndex DEF QueueOK
  <2> QED
    BY <2>2, <2>3, <2>4
<1>5. queue' # <<>> => queue # <<>>
  <2>1. ASSUME queue = <<>> PROVE queue' = <<>>
    <3>1. ~\E i \in DOMAIN queue : queue[i] = t
      BY <2>1
    <3> QED
      BY <1>1, <2>1, <3>1 DEF Without
  <2> QED
    BY <2>1
<1> QED
  BY <1>1, <1>3, <1>4, <1>5 DEF QueueStep, QueueHasTurn

-----------------------------------------------------------------------------
(* One lemma per group of actions.                                         *)

\* Retiring a tunnel keeps every part of the invariant outside the turn.
LEMMA RetireStep ==
    ASSUME IndInv, NEW t \in Tunnels, Retire(t)
    PROVE  /\ QueueStep
           /\ step = "idle" /\ queue' # <<>> => scheduled'
           /\ ready' = ready \ {t} /\ retired' = retired \cup {t}
           /\ flagged' = flagged \ {t} /\ inspecting' = inspecting \ {t}
           /\ work' \in [Tunnels -> 0 .. WorkLimit]
           /\ \A u \in Tunnels \ {t} : work'[u] = work[u]
           /\ partial' \subseteq Tunnels /\ opaque' = opaque
<1>1. RemoveReady(t)
  BY DEF Retire
<1>2. /\ retired' = retired \cup {t}
      /\ flagged' = flagged \ {t} /\ inspecting' = inspecting \ {t}
      /\ work' = [work EXCEPT ![t] = 0] /\ partial' = partial \ {t}
      /\ opaque' = opaque
  BY DEF Retire
<1>3. /\ work' \in [Tunnels -> 0 .. WorkLimit] /\ partial' \subseteq Tunnels
      /\ \A u \in Tunnels \ {t} : work'[u] = work[u]
  BY <1>2 DEF IndInv, TunnelsOK
<1> QED
  BY <1>1, <1>2, <1>3, RemoveStep DEF IndInv

\* The calls a message makes: the buffer changes, and a turn is asked for.
LEMMA ScheduleDrainStep ==
    ASSUME IndInv, step = "idle", NEW t \in Tunnels, t \notin retired,
           ScheduleDrain(t), UNCHANGED <<step, current, opaque, retired>>,
           work' \in [Tunnels -> 0 .. WorkLimit],
           \A u \in Tunnels \ {t} : work'[u] = work[u],
           partial' \subseteq Tunnels,
           inspecting' \subseteq inspecting \cup {t}
    PROVE  IndInv' /\ QueueStep
<1>1. step' = step /\ current' = current /\ retired' = retired /\ opaque' = opaque
  OBVIOUS
<1>2. \/ UNCHANGED <<queueVars, flagged>>
      \/ flagged' = flagged \cup {t} /\ Enqueue(t)
  BY DEF ScheduleDrain
<1>3. CASE UNCHANGED <<queueVars, flagged>>
  <2>1. QueueStep /\ queue' = queue /\ ready' = ready /\ scheduled' = scheduled
        /\ flagged' = flagged
    BY <1>3, UnchangedQueue DEF IndInv, queueVars
  <2>2. t \in inspecting' /\ work'[t] > 0 => t \in flagged
    <3>1. CASE t \in flagged \/ t \notin inspecting' \/ (work'[t] = 0 /\ t \notin partial')
      BY <3>1
    <3>2. CASE ~(t \in flagged \/ t \notin inspecting' \/ (work'[t] = 0 /\ t \notin partial'))
      BY <3>2, <2>1 DEF ScheduleDrain
    <3> QED
      BY <3>1, <3>2
  <2>3. t \in flagged => t \in ready
    BY DEF IndInv, FlagMeansQueued, InTurn
  <2>4. RunnableIsQueued'
    BY <1>1, <2>1, <2>2, <2>3 DEF IndInv, RunnableIsQueued, InTurn, TunnelsOK
  <2>5. FlagMeansQueued' /\ RetiredNotQueued' /\ QueueHasTurn'
    BY <1>1, <2>1 DEF IndInv, FlagMeansQueued, RetiredNotQueued, QueueHasTurn, InTurn
  <2>6. TunnelsOK' /\ TurnInvariant'
    BY <1>1, <2>1 DEF IndInv, TunnelsOK, TurnInvariant
  <2> QED
    BY <2>1, <2>4, <2>5, <2>6 DEF IndInv, QueueStep
<1>4. CASE flagged' = flagged \cup {t} /\ Enqueue(t)
  <2>1. /\ QueueStep /\ ready \subseteq ready'
        /\ ready' \subseteq ready \cup ({t} \ retired) /\ t \in ready'
        /\ queue' # <<>> => scheduled'
    BY <1>4, EnqueueStep DEF IndInv
  <2>2. RunnableIsQueued'
    BY <1>1, <2>1 DEF IndInv, RunnableIsQueued, InTurn, TunnelsOK
  <2>3. FlagMeansQueued' /\ RetiredNotQueued' /\ QueueHasTurn'
    BY <1>1, <1>4, <2>1
    DEF IndInv, FlagMeansQueued, RetiredNotQueued, QueueHasTurn, QueueStep, InTurn
  <2>4. TunnelsOK' /\ TurnInvariant'
    BY <1>1, <1>4 DEF IndInv, TunnelsOK, TurnInvariant
  <2> QED
    BY <2>1, <2>2, <2>3, <2>4 DEF IndInv, QueueStep
<1> QED
  BY <1>2, <1>3, <1>4

\* Inspection of a tunnel ends: its buffer is empty, nothing else changes.
LEMMA StopKeepsTypes ==
    ASSUME TunnelsOK, NEW t \in Tunnels, StopInspecting(t)
    PROVE  /\ work' \in [Tunnels -> 0 .. WorkLimit]
           /\ \A u \in Tunnels \ {t} : work'[u] = work[u]
           /\ partial' \subseteq Tunnels
           /\ inspecting' = inspecting \ {t}
<1>1. 0 \in 0 .. WorkLimit
  OBVIOUS
<1> QED
  BY <1>1 DEF TunnelsOK, StopInspecting

\* The callbacks of one tunnel.
LEMMA TunnelStep ==
    ASSUME IndInv, NEW t \in Tunnels,
           ClientMessage(t) \/ RecoverInspection(t) \/ DisableInspection(t) \/ Close(t)
    PROVE  IndInv' /\ QueueStep
<1>1. CASE ClientMessage(t)
  <2>1. /\ step = "idle" /\ t \notin retired /\ t \in inspecting
        /\ UNCHANGED <<step, current, opaque, retired>>
    BY <1>1 DEF ClientMessage
  <2>2. PICK n \in 0 .. WorkLimit, split \in BOOLEAN :
          /\ \/ /\ Fits(t, n)
                /\ work' = [work EXCEPT ![t] = @ + n]
                /\ partial' = IF split THEN partial \cup {t} ELSE partial \ {t}
                /\ UNCHANGED inspecting
             \/ StopInspecting(t)
          /\ ScheduleDrain(t)
    BY <1>1 DEF ClientMessage
  <2>3. /\ work' \in [Tunnels -> 0 .. WorkLimit]
        /\ \A u \in Tunnels \ {t} : work'[u] = work[u]
        /\ partial' \subseteq Tunnels /\ inspecting' \subseteq inspecting \cup {t}
    <3>1. CASE StopInspecting(t)
      BY <3>1, StopKeepsTypes DEF IndInv
    <3>2. CASE /\ Fits(t, n)
               /\ work' = [work EXCEPT ![t] = @ + n]
               /\ partial' = IF split THEN partial \cup {t} ELSE partial \ {t}
               /\ UNCHANGED inspecting
      <4>1. work[t] + n \in 0 .. WorkLimit
        BY <3>2 DEF Fits, IndInv, TunnelsOK
      <4> QED
        BY <3>2, <4>1 DEF IndInv, TunnelsOK
    <3> QED
      BY <2>2, <3>1, <3>2
  <2> QED
    BY <2>1, <2>2, <2>3, ScheduleDrainStep
<1>2. CASE RecoverInspection(t)
  <2>1. /\ step = "idle" /\ t \notin retired
        /\ UNCHANGED <<step, current, opaque, retired>>
        /\ inspecting' = inspecting \cup {t} /\ ScheduleDrain(t)
        /\ work' = [work EXCEPT ![t] = 1] /\ partial' = partial \ {t}
    BY <1>2 DEF RecoverInspection
  <2>2. 1 \in 0 .. WorkLimit
    OBVIOUS
  <2>3. /\ work' \in [Tunnels -> 0 .. WorkLimit] /\ partial' \subseteq Tunnels
        /\ \A u \in Tunnels \ {t} : work'[u] = work[u]
    BY <2>1, <2>2 DEF IndInv, TunnelsOK
  <2> QED
    BY <2>1, <2>3, ScheduleDrainStep
<1>3. CASE DisableInspection(t)
  <2>1. /\ StopInspecting(t) /\ opaque' = opaque \cup {t}
        /\ UNCHANGED <<queueVars, step, current, flagged, retired>>
    BY <1>3 DEF DisableInspection
  <2>2. /\ work' \in [Tunnels -> 0 .. WorkLimit] /\ partial' \subseteq Tunnels
        /\ \A u \in Tunnels \ {t} : work'[u] = work[u]
        /\ inspecting' = inspecting \ {t}
    BY <2>1, StopKeepsTypes DEF IndInv
  <2>3. QueueStep /\ queue' = queue /\ ready' = ready /\ scheduled' = scheduled
    BY <2>1, UnchangedQueue DEF IndInv, queueVars
  <2>4. TunnelsOK' /\ TurnInvariant' /\ FlagMeansQueued' /\ RetiredNotQueued' /\ QueueHasTurn'
    BY <2>1, <2>2, <2>3
    DEF IndInv, TunnelsOK, TurnInvariant, FlagMeansQueued, RetiredNotQueued,
        QueueHasTurn, InTurn
  <2>5. RunnableIsQueued'
    BY <2>1, <2>2, <2>3 DEF IndInv, RunnableIsQueued, InTurn, TunnelsOK
  <2> QED
    BY <2>3, <2>4, <2>5 DEF IndInv, QueueStep
<1>4. CASE Close(t)
  <2>1. step = "idle" /\ Retire(t) /\ step' = step /\ current' = current
    BY <1>4 DEF Close
  <2>2. /\ QueueStep
        /\ queue' # <<>> => scheduled'
        /\ ready' = ready \ {t} /\ retired' = retired \cup {t}
        /\ flagged' = flagged \ {t} /\ inspecting' = inspecting \ {t}
        /\ work' \in [Tunnels -> 0 .. WorkLimit]
        /\ \A u \in Tunnels \ {t} : work'[u] = work[u]
        /\ partial' \subseteq Tunnels /\ opaque' = opaque
    BY <2>1, RetireStep
  <2>3. TunnelsOK' /\ TurnInvariant'
    BY <2>1, <2>2 DEF IndInv, TunnelsOK, TurnInvariant
  <2>4. FlagMeansQueued' /\ RetiredNotQueued' /\ QueueHasTurn'
    BY <2>1, <2>2
    DEF IndInv, FlagMeansQueued, RetiredNotQueued, QueueHasTurn, QueueStep, InTurn
  <2>5. RunnableIsQueued'
    BY <2>1, <2>2 DEF IndInv, RunnableIsQueued, InTurn, TunnelsOK
  <2> QED
    BY <2>2, <2>3, <2>4, <2>5 DEF IndInv, QueueStep
<1> QED
  BY <1>1, <1>2, <1>3, <1>4

\* The immediate fires: the first tunnel leaves the queue for its turn.
LEMMA TurnStartsStep ==
    ASSUME IndInv, TurnStarts
    PROVE  IndInv' /\ QueueStep
<1>1. step = "idle" /\ scheduled /\ scheduled' = FALSE /\ queue # <<>>
      /\ UNCHANGED tunnelVars
  BY DEF TurnStarts, IndInv, QueueHasTurn
<1>2. /\ current' = Head(queue) /\ queue' = Tail(queue) /\ ready' = ready \ {current'}
      /\ step' = IF current' \in retired THEN "end" ELSE "run"
  BY <1>1 DEF TurnStarts
<1>3. /\ queue' \in Seq(Tunnels) /\ Distinct(queue') /\ current' \in Tunnels
      /\ Elements(queue') = Elements(queue) \ {current'}
      /\ \A i \in DOMAIN queue' : i + 1 \in DOMAIN queue /\ queue'[i] = queue[i + 1]
  BY <1>1, <1>2, TailKeeps DEF IndInv, QueueOK
<1>4. QueueOK'
  BY <1>1, <1>2, <1>3 DEF IndInv, QueueOK, Elements, Distinct
<1>5. current' \in ready
  <2>1. 1 \in DOMAIN queue /\ Head(queue) = queue[1]
    BY <1>1 DEF IndInv, QueueOK
  <2> QED
    BY <1>2, <2>1 DEF IndInv, QueueOK, Elements
<1>6. step' = "run" /\ current' \notin retired
  BY <1>2, <1>5 DEF IndInv, RetiredNotQueued
<1>7. ASSUME NEW x \in ready' PROVE Position(queue', x) <= Position(queue, x)
  <2>1. PICK i \in DOMAIN queue' : queue'[i] = x
    BY <1>4 DEF QueueOK, Elements
  <2>2. Position(queue', x) = i /\ i \in Nat
    BY <1>3, <2>1, PositionIsIndex
  <2>3. i + 1 \in DOMAIN queue /\ queue[i + 1] = x
    BY <1>3, <2>1
  <2>4. Position(queue, x) = i + 1
    BY <2>3, PositionIsIndex DEF IndInv, QueueOK
  <2> QED
    BY <2>2, <2>4
<1>8. QueueStep
  BY <1>1, <1>4, <1>7 DEF QueueStep
<1>9. TunnelsOK' /\ TurnInvariant'
  BY <1>1, <1>2, <1>3, <1>6 DEF IndInv, TunnelsOK, TurnInvariant, tunnelVars
<1>10. FlagMeansQueued' /\ RetiredNotQueued' /\ QueueHasTurn'
  BY <1>1, <1>2, <1>6
  DEF IndInv, FlagMeansQueued, RetiredNotQueued, QueueHasTurn, InTurn, tunnelVars
<1>11. RunnableIsQueued'
  BY <1>1, <1>2, <1>6 DEF IndInv, RunnableIsQueued, InTurn, tunnelVars
<1> QED
  BY <1>4, <1>8, <1>9, <1>10, <1>11 DEF IndInv

\* The drain of a turn: fewer frames, or none and no inspection.
LEMMA DrainedTypes ==
    ASSUME TunnelsOK, NEW t \in Tunnels, Drained(t)
    PROVE  /\ work' \in [Tunnels -> 0 .. WorkLimit]
           /\ \A u \in Tunnels \ {t} : work'[u] = work[u]
           /\ partial' \subseteq Tunnels /\ opaque' \subseteq Tunnels
           /\ inspecting' \subseteq inspecting
<1>1. CASE t \notin inspecting /\ UNCHANGED <<work, partial, inspecting, opaque>>
  BY <1>1 DEF TunnelsOK
<1>2. CASE /\ t \in inspecting
           /\ \E k \in 0 .. Budget :
                 /\ k <= work[t] /\ (work[t] > 0 => k > 0)
                 /\ work' = [work EXCEPT ![t] = @ - k]
           /\ UNCHANGED <<partial, inspecting, opaque>>
  <2>1. PICK k \in 0 .. Budget : k <= work[t] /\ work' = [work EXCEPT ![t] = @ - k]
    BY <1>2
  <2>2. work[t] - k \in 0 .. WorkLimit
    BY <2>1 DEF TunnelsOK
  <2> QED
    BY <1>2, <2>1, <2>2 DEF TunnelsOK
<1>3. CASE t \in inspecting /\ StopInspecting(t) /\ opaque' = opaque \cup {t}
  BY <1>3, StopKeepsTypes DEF TunnelsOK
<1> QED
  BY <1>1, <1>2, <1>3 DEF Drained

\* The run of a turn: what it leaves undone is queued again.
LEMMA RunStep ==
    ASSUME IndInv, Run
    PROVE  IndInv' /\ QueueStep
<1>1. /\ step = "run" /\ step' = "probe" /\ Drained(current)
      /\ current' = current /\ retired' = retired
      /\ current \in Tunnels /\ current \notin retired /\ current \notin ready
  BY DEF Run, IndInv, TunnelsOK, TurnInvariant
<1>2. /\ work' \in [Tunnels -> 0 .. WorkLimit]
      /\ \A u \in Tunnels \ {current} : work'[u] = work[u]
      /\ partial' \subseteq Tunnels /\ opaque' \subseteq Tunnels
      /\ inspecting' \subseteq inspecting
  BY <1>1, DrainedTypes DEF IndInv
<1>3. CASE flagged' = flagged \cup {current} /\ Enqueue(current)
  <2>1. /\ QueueStep /\ ready \subseteq ready'
        /\ ready' \subseteq ready \cup ({current} \ retired) /\ current \in ready'
    BY <1>1, <1>3, EnqueueStep DEF IndInv
  <2>2. TunnelsOK' /\ TurnInvariant'
    BY <1>1, <1>2, <1>3, <2>1 DEF IndInv, TunnelsOK, TurnInvariant, QueueStep
  <2>3. FlagMeansQueued' /\ RetiredNotQueued' /\ QueueHasTurn'
    BY <1>1, <1>3, <2>1
    DEF IndInv, FlagMeansQueued, RetiredNotQueued, QueueHasTurn, QueueStep, InTurn
  <2>4. RunnableIsQueued'
    BY <1>1, <1>2, <2>1 DEF IndInv, RunnableIsQueued, InTurn, TunnelsOK
  <2> QED
    BY <2>1, <2>2, <2>3, <2>4 DEF IndInv, QueueStep
<1>4. CASE flagged' = flagged \ {current} /\ UNCHANGED queueVars
  <2>1. QueueStep /\ queue' = queue /\ ready' = ready /\ scheduled' = scheduled
    BY <1>4, UnchangedQueue DEF IndInv, queueVars
  <2>2. TunnelsOK' /\ TurnInvariant'
    BY <1>1, <1>2, <1>4, <2>1 DEF IndInv, TunnelsOK, TurnInvariant
  <2>3. FlagMeansQueued' /\ RetiredNotQueued' /\ QueueHasTurn'
    BY <1>1, <1>4, <2>1
    DEF IndInv, FlagMeansQueued, RetiredNotQueued, QueueHasTurn, InTurn
  <2>4. RunnableIsQueued'
    BY <1>1, <1>2, <2>1 DEF IndInv, RunnableIsQueued, InTurn, TunnelsOK
  <2> QED
    BY <2>1, <2>2, <2>3, <2>4 DEF IndInv, QueueStep
<1> QED
  BY <1>3, <1>4 DEF Run

\* The probe, the failure and the end of a turn.
LEMMA ProbeStep ==
    ASSUME IndInv, Probe
    PROVE  IndInv' /\ QueueStep
<1>1. /\ step = "probe" /\ step' = "end" /\ current' = current
      /\ UNCHANGED tunnelVars
      /\ current \in Tunnels /\ current \notin retired
  BY DEF Probe, IndInv, TunnelsOK, TurnInvariant
<1>2. CASE current \in inspecting /\ work[current] > 0 /\ Enqueue(current)
  <2>1. /\ QueueStep /\ ready \subseteq ready'
        /\ ready' \subseteq ready \cup ({current} \ retired) /\ current \in ready'
    BY <1>1, <1>2, EnqueueStep DEF IndInv
  <2>2. TunnelsOK' /\ TurnInvariant'
    BY <1>1, <2>1 DEF IndInv, TunnelsOK, TurnInvariant, QueueStep, tunnelVars
  <2>3. FlagMeansQueued' /\ RetiredNotQueued' /\ QueueHasTurn' /\ RunnableIsQueued'
    BY <1>1, <2>1
    DEF IndInv, FlagMeansQueued, RetiredNotQueued, QueueHasTurn, QueueStep,
        RunnableIsQueued, InTurn, tunnelVars
  <2> QED
    BY <2>1, <2>2, <2>3 DEF IndInv, QueueStep
<1>3. CASE ~(current \in inspecting /\ work[current] > 0) /\ UNCHANGED queueVars
  <2>1. QueueStep /\ queue' = queue /\ ready' = ready /\ scheduled' = scheduled
    BY <1>3, UnchangedQueue DEF IndInv, queueVars
  <2>2. TunnelsOK' /\ TurnInvariant'
    BY <1>1, <2>1 DEF IndInv, TunnelsOK, TurnInvariant, tunnelVars
  <2>3. FlagMeansQueued' /\ RetiredNotQueued' /\ QueueHasTurn' /\ RunnableIsQueued'
    BY <1>1, <1>3, <2>1
    DEF IndInv, FlagMeansQueued, RetiredNotQueued, QueueHasTurn,
        RunnableIsQueued, InTurn, tunnelVars
  <2> QED
    BY <2>1, <2>2, <2>3 DEF IndInv, QueueStep
<1> QED
  BY <1>2, <1>3 DEF Probe

\* A turn that fails closes its own tunnel and nobody else's.
LEMMA TurnFailsStep ==
    ASSUME IndInv, TurnFails
    PROVE  IndInv' /\ QueueStep
<1>1. /\ step \in {"run", "probe"} /\ step' = "end" /\ Retire(current)
      /\ current' = current /\ current \in Tunnels
  BY DEF TurnFails, IndInv, TunnelsOK
<1>2. /\ QueueStep
      /\ ready' = ready \ {current} /\ retired' = retired \cup {current}
      /\ flagged' = flagged \ {current} /\ inspecting' = inspecting \ {current}
      /\ work' \in [Tunnels -> 0 .. WorkLimit]
      /\ \A u \in Tunnels \ {current} : work'[u] = work[u]
      /\ partial' \subseteq Tunnels /\ opaque' = opaque
  BY <1>1, RetireStep
<1>3. TunnelsOK' /\ TurnInvariant'
  BY <1>1, <1>2 DEF IndInv, TunnelsOK, TurnInvariant, QueueStep
<1>4. FlagMeansQueued' /\ RetiredNotQueued' /\ QueueHasTurn'
  BY <1>1, <1>2
  DEF IndInv, FlagMeansQueued, RetiredNotQueued, QueueHasTurn, QueueStep, InTurn
<1>5. RunnableIsQueued'
  BY <1>1, <1>2 DEF IndInv, RunnableIsQueued, InTurn, TunnelsOK
<1> QED
  BY <1>2, <1>3, <1>4, <1>5 DEF IndInv, QueueStep

\* The finally block schedules whoever was queued meanwhile.
LEMMA TurnEndsStep ==
    ASSUME IndInv, TurnEnds
    PROVE  IndInv' /\ QueueStep
<1>1. /\ step = "end" /\ step' = "idle" /\ ~scheduled
      /\ scheduled' = (queue # <<>>)
      /\ queue' = queue /\ ready' = ready /\ current' = current
      /\ UNCHANGED tunnelVars
  BY DEF TurnEnds, IndInv, TurnInvariant
<1>2. ASSUME NEW t \in ready PROVE Position(queue', t) <= Position(queue, t)
  <2>1. PICK i \in DOMAIN queue : queue[i] = t
    BY DEF IndInv, QueueOK, Elements
  <2>2. Position(queue, t) = i /\ i \in Nat
    BY <2>1, PositionIsIndex DEF IndInv, QueueOK
  <2> QED
    BY <1>1, <2>2
<1>3. QueueOK'
  BY <1>1 DEF IndInv, QueueOK, Elements, Distinct
<1>4. TunnelsOK' /\ TurnInvariant'
  BY <1>1 DEF IndInv, TunnelsOK, TurnInvariant, tunnelVars
<1>5. FlagMeansQueued' /\ RetiredNotQueued' /\ QueueHasTurn' /\ RunnableIsQueued'
  BY <1>1
  DEF IndInv, FlagMeansQueued, RetiredNotQueued, QueueHasTurn, RunnableIsQueued,
      InTurn, tunnelVars
<1>6. QueueStep
  BY <1>1, <1>2, <1>3 DEF QueueStep
<1> QED
  BY <1>3, <1>4, <1>5, <1>6 DEF IndInv

\* Every step keeps the invariant and lets nobody fall back in the queue.
LEMMA NextStep ==
    ASSUME IndInv, [Next]_vars
    PROVE  IndInv' /\ QueueStep
<1>1. ASSUME NEW t \in Tunnels,
             ClientMessage(t) \/ RecoverInspection(t) \/ DisableInspection(t) \/ Close(t)
      PROVE  IndInv' /\ QueueStep
  BY <1>1, TunnelStep
<1>2. CASE Turn
  BY <1>2, TurnStartsStep, RunStep, ProbeStep, TurnFailsStep, TurnEndsStep DEF Turn
<1>3. CASE UNCHANGED vars
  <2>1. /\ queue' = queue /\ ready' = ready /\ scheduled' = scheduled
        /\ step' = step /\ current' = current /\ UNCHANGED queueVars
        /\ UNCHANGED tunnelVars
    BY <1>3 DEF vars, queueVars
  <2>2. QueueStep
    BY <2>1, UnchangedQueue DEF IndInv
  <2>3. TunnelsOK' /\ TurnInvariant' /\ FlagMeansQueued' /\ RetiredNotQueued'
        /\ QueueHasTurn' /\ RunnableIsQueued'
    BY <2>1
    DEF IndInv, TunnelsOK, TurnInvariant, FlagMeansQueued, RetiredNotQueued,
        QueueHasTurn, RunnableIsQueued, InTurn, tunnelVars
  <2> QED
    BY <2>2, <2>3 DEF IndInv, QueueStep
<1> QED
  BY <1>1, <1>2, <1>3 DEF Next

\* An empty queue satisfies the invariant.
LEMMA InitIndInv == Init => IndInv
<1> SUFFICES ASSUME Init PROVE IndInv
  OBVIOUS
<1>1. QueueOK
  <2>1. queue = <<>> /\ ready = {} /\ scheduled = FALSE /\ DOMAIN queue = {}
    BY DEF Init
  <2>2. Elements(queue) = {} /\ Distinct(queue)
    BY <2>1 DEF Elements, Distinct
  <2>3. queue \in Seq(Tunnels)
    BY <2>1
  <2> QED
    BY <2>1, <2>2, <2>3, Zenon DEF QueueOK
<1>2. TunnelsOK
  <2>1. 0 \in 0 .. WorkLimit
    OBVIOUS
  <2> QED
    BY <2>1 DEF Init, TunnelsOK
<1>3. /\ TurnInvariant /\ QueueHasTurn /\ RunnableIsQueued /\ FlagMeansQueued
      /\ RetiredNotQueued
  BY DEF Init, TurnInvariant, QueueHasTurn, RunnableIsQueued, FlagMeansQueued,
         RetiredNotQueued
<1> QED
  BY <1>1, <1>2, <1>3 DEF IndInv

\* The inductive invariant holds in every behaviour.
LEMMA Invariance == Spec => []IndInv
<1>1. IndInv /\ [Next]_vars => IndInv'
  BY NextStep
<1> QED
  BY <1>1, InitIndInv, PTL DEF Spec

-----------------------------------------------------------------------------
(* Theorems.                                                               *)

\* Every variable keeps its type: the parser's bound holds, and the queue holds
\* tunnels only.
THEOREM Typing == Spec => []TypeOK
<1>1. IndInv => TypeOK
  BY DEF IndInv, QueueOK, TunnelsOK, TypeOK, Elements
<1> QED
  BY <1>1, Invariance, PTL

\* The ready array and the ready set agree, and no tunnel is queued twice.
THEOREM QueuedOnce == Spec => []QueueMatchesSet
<1>1. IndInv => QueueMatchesSet
  BY DEF IndInv, QueueOK, QueueMatchesSet, Elements, Distinct
<1> QED
  BY <1>1, Invariance, PTL

\* A queued tunnel has a turn to come, and no immediate fires for nothing.
THEOREM TurnToCome == Spec => []QueueHasTurn
<1>1. IndInv => QueueHasTurn
  BY DEF IndInv
<1> QED
  BY <1>1, Invariance, PTL

\* Complete frames of an inspected tunnel are never left without a turn.
THEOREM WakeupKept == Spec => []NoLostWakeup
<1>1. IndInv => NoLostWakeup
  BY DEF IndInv, NoLostWakeup
<1> QED
  BY <1>1, Invariance, PTL

\* A closed tunnel never gets another turn.
THEOREM NoTurnAfterClose == Spec => []RetiredNotQueued
<1>1. IndInv => RetiredNotQueued
  BY DEF IndInv
<1> QED
  BY <1>1, Invariance, PTL

\* The array, the set, the immediate and the open tunnels agree in every state.
THEOREM QueueSoundness == Spec => []QueueIsSound
<1>1. QueueMatchesSet /\ QueueHasTurn /\ RetiredNotQueued => QueueIsSound
  BY DEF QueueIsSound
<1> QED
  BY <1>1, QueuedOnce, TurnToCome, NoTurnAfterClose, PTL

\* A waiting tunnel is never overtaken, so it is served after those before it.
THEOREM FirstComeFirstServed == Spec => NeverOvertaken
<1>1. IndInv /\ [Next]_vars =>
         [\A t \in ready \cap ready' : Position(queue', t) <= Position(queue, t)]_queue
  BY NextStep DEF QueueStep
<1> QED
  BY <1>1, Invariance, PTL DEF Spec, NeverOvertaken

-----------------------------------------------------------------------------
(* RegistryLease                                                            *)

USE NodesAssumption, MaximumNodesAssumption, BoundsAssumption

\* What every action keeps: types, the capacity, and one request at a time
\* stated without counting.
SingleRequest ==
    /\ \A r, s \in requests : r.awaited /\ s.awaited /\ r.node = s.node => r = s
    /\ \A r \in requests : r.awaited =>
          \/ relay[r.node] = "up"
          \/ relay[r.node] = "deleting" /\ r.stage = "delete"

\* A lease or a request belongs to an incarnation that has started.
Started == \A n \in Nodes : relay[n] # "down" => start[n] > 0

LeaseInv == LeaseTypeOK /\ WithinCapacity /\ SingleRequest /\ Started

\* Fewer listed nodes are within the capacity.
LEMMA FewerListed ==
    ASSUME WithinCapacity, Listed' \subseteq Listed
    PROVE  WithinCapacity'
<1>1. IsFiniteSet(Listed) /\ IsFiniteSet(Listed')
  BY FS_Subset DEF Listed
<1>2. Cardinality(Listed') <= Cardinality(Listed) /\ Cardinality(Listed') \in Nat
      /\ Cardinality(Listed) \in Nat
  BY <1>1, FS_Subset, FS_CardinalityType
<1> QED
  BY <1>2 DEF WithinCapacity

\* An accepted PUT found room.
LEMMA AcceptFits ==
    ASSUME LeaseTypeOK, WithinCapacity, NEW r \in requests, Accept(r)
    PROVE  WithinCapacity'
<1>1. r.node \in Nodes /\ HasRoom(r.node)
  BY DEF LeaseTypeOK, Request, Accept
<1>2. Listed' \subseteq Listed \cup {r.node}
  BY DEF Accept, Listed, LeaseTypeOK
<1>3. CASE leases[r.node] # NoLease
  <2>1. r.node \in Listed
    BY <1>1, <1>3 DEF Listed
  <2> QED
    BY <1>2, <2>1, FewerListed
<1>4. CASE Cardinality(Listed) < MaximumNodes
  <2>1. IsFiniteSet(Listed) /\ IsFiniteSet(Listed \cup {r.node})
    <3>1. IsFiniteSet(Listed)
      BY FS_Subset DEF Listed
    <3> QED
      BY <3>1, FS_AddElement
  <2>2. /\ Cardinality(Listed \cup {r.node}) <= Cardinality(Listed) + 1
        /\ Cardinality(Listed) \in Nat
    <3>1. Cardinality(Listed) \in Nat
      BY <2>1, FS_CardinalityType
    <3>2. \/ Cardinality(Listed \cup {r.node}) = Cardinality(Listed)
          \/ Cardinality(Listed \cup {r.node}) = Cardinality(Listed) + 1
      BY <2>1, FS_AddElement
    <3> QED
      BY <3>1, <3>2
  <2>3. /\ Cardinality(Listed') <= Cardinality(Listed \cup {r.node})
        /\ Cardinality(Listed') \in Nat /\ Cardinality(Listed \cup {r.node}) \in Nat
    BY <1>2, <2>1, FS_Subset, FS_CardinalityType
  <2> QED
    BY <1>4, <2>2, <2>3 DEF WithinCapacity
<1> QED
  BY <1>1, <1>3, <1>4 DEF HasRoom

-----------------------------------------------------------------------------
(* One lemma per kind of step.                                             *)

\* Giving up on the awaited requests leaves none awaited.
LEMMA AbortLeaves ==
    ASSUME LeaseTypeOK, SingleRequest, NEW n \in Nodes, NEW s \in Abort(n)
    PROVE  /\ s \subseteq Request
           /\ \A r \in s : r.awaited => r \in requests /\ r.node # n
<1>1. PICK kept \in SUBSET Awaited(n) :
         s = (requests \ Awaited(n)) \cup {Abandoned(r) : r \in kept}
  BY DEF Abort
<1>2. \A r \in requests : r \in Request
  BY DEF LeaseTypeOK
<1>3. ASSUME NEW r \in kept PROVE Abandoned(r) \in Request /\ ~Abandoned(r).awaited
  BY <1>2 DEF Awaited, Of, Abandoned, Request
<1>4. \A r \in requests \ Awaited(n) : r.awaited => r.node # n
  BY DEF Awaited, Of
<1> QED
  BY <1>1, <1>2, <1>3, <1>4

\* Start, Crash, Timeout: the relay changes, its lease does not.
LEMMA RelayStep ==
    ASSUME LeaseInv, NEW n \in Nodes, Start(n) \/ Timeout(n) \/ Crash(n)
    PROVE  LeaseInv'
<1>1. CASE Start(n)
  <2>1. /\ relay[n] \in {"down", "left"} /\ start[n] < MaxStarts
        /\ relay' = [relay EXCEPT ![n] = "up"] /\ start' = [start EXCEPT ![n] = @ + 1]
        /\ requests' = requests /\ leases' = leases
    BY <1>1 DEF Start
  <2>2. start[n] + 1 \in 0 .. MaxStarts /\ start[n] + 1 > 0
    BY <2>1 DEF LeaseInv, LeaseTypeOK
  <2>3. LeaseTypeOK' /\ Started'
    BY <2>1, <2>2 DEF LeaseInv, LeaseTypeOK, Started
  <2>4. SingleRequest'
    BY <2>1 DEF LeaseInv, SingleRequest, LeaseTypeOK, Request
  <2> QED
    BY <2>1, <2>3, <2>4 DEF LeaseInv, WithinCapacity, Listed
<1>2. CASE Timeout(n) \/ Crash(n)
  <2>1. /\ requests' \in Abort(n) /\ start' = start /\ leases' = leases
        /\ relay' \in {relay, [relay EXCEPT ![n] = "down"]}
    BY <1>2 DEF Timeout, Crash
  <2>2. /\ requests' \subseteq Request
        /\ \A r \in requests' : r.awaited => r \in requests /\ r.node # n
    BY <2>1, AbortLeaves DEF LeaseInv
  <2>3. LeaseTypeOK' /\ Started'
    BY <2>1, <2>2 DEF LeaseInv, LeaseTypeOK, Started
  <2>4. SingleRequest'
    BY <2>1, <2>2 DEF LeaseInv, SingleRequest, LeaseTypeOK, Request
  <2> QED
    BY <2>1, <2>3, <2>4 DEF LeaseInv, WithinCapacity, Listed
<1> QED
  BY <1>1, <1>2

\* A relay sends a request only when it waits for no other.
LEMMA SendStep ==
    ASSUME LeaseInv, NEW n \in Nodes, Register(n) \/ Stop(n)
    PROVE  LeaseInv'
<1>1. relay[n] = "up" /\ start[n] \in 1 .. MaxStarts
  BY DEF Register, Stop, LeaseInv, LeaseTypeOK, Started
<1>2. CASE Register(n)
  <2> DEFINE new == [node |-> n, start |-> start[n], stage |-> "sent", awaited |-> TRUE]
  <2>1. /\ Awaited(n) = {} /\ requests' = requests \cup {new}
        /\ relay' = relay /\ start' = start /\ leases' = leases
    BY <1>2 DEF Register
  <2>2. new \in Request /\ new.node = n
    BY <1>1 DEF Request
  <2>3. \A r \in requests : r.awaited => r.node # n
    BY <2>1 DEF Awaited, Of
  <2>4. LeaseTypeOK' /\ Started'
    BY <2>1, <2>2 DEF LeaseInv, LeaseTypeOK, Started
  <2>5. SingleRequest'
    <3> HIDE DEF new
    <3>1. \A s \in requests' : s = new \/ s \in requests
      BY <2>1
    <3>2. \A s, u \in requests' :
             s.awaited /\ u.awaited /\ s.node = u.node => s = u
      BY <2>2, <2>3, <3>1 DEF LeaseInv, SingleRequest
    <3>3. \A s \in requests' : s.awaited =>
             \/ relay[s.node] = "up"
             \/ relay[s.node] = "deleting" /\ s.stage = "delete"
      BY <1>1, <2>2, <3>1 DEF LeaseInv, SingleRequest
    <3> QED
      BY <2>1, <3>2, <3>3 DEF SingleRequest
  <2> QED
    BY <2>1, <2>4, <2>5 DEF LeaseInv, WithinCapacity, Listed
<1>3. CASE Stop(n)
  <2> DEFINE new == [node |-> n, start |-> start[n], stage |-> "delete", awaited |-> TRUE]
  <2>1. /\ relay' = [relay EXCEPT ![n] = "deleting"]
        /\ start' = start /\ leases' = leases
        /\ requests' \in AbortAnd(n, {new})
    BY <1>3 DEF Stop
  <2>2. PICK s \in Abort(n) : requests' = s \cup {new}
    BY <2>1 DEF AbortAnd
  <2>3. s \subseteq Request /\ \A r \in s : r.awaited => r \in requests /\ r.node # n
    BY AbortLeaves DEF LeaseInv
  <2>4. new \in Request /\ new.node = n /\ new.stage = "delete"
    BY <1>1 DEF Request
  <2>5. LeaseTypeOK' /\ Started'
    <3>1. requests' \subseteq Request
      BY <2>2, <2>3, <2>4
    <3>2. relay' \in [Nodes -> {"down", "up", "deleting", "left"}]
      BY <2>1 DEF LeaseInv, LeaseTypeOK
    <3>3. LeaseTypeOK'
      BY <2>1, <3>1, <3>2 DEF LeaseInv, LeaseTypeOK
    <3>4. \A m \in Nodes : relay'[m] # "down" => start'[m] > 0
      BY <1>1, <2>1 DEF LeaseInv, LeaseTypeOK, Started
    <3> QED
      BY <3>3, <3>4 DEF Started
  <2>6. SingleRequest'
    <3>1. \A r \in requests' : r.awaited => r = new \/ (r \in requests /\ r.node # n)
      BY <2>2, <2>3
    <3>2. relay'[n] = "deleting" /\ \A m \in Nodes \ {n} : relay'[m] = relay[m]
      BY <2>1 DEF LeaseInv, LeaseTypeOK
    <3>3. \A r \in requests : r.node \in Nodes
      BY DEF LeaseInv, LeaseTypeOK, Request
    <3>4. ASSUME NEW r \in requests', NEW q \in requests', r.awaited, q.awaited,
                 r.node = q.node
          PROVE  r = q
      BY <2>4, <3>1, <3>4 DEF LeaseInv, SingleRequest
    <3>5. ASSUME NEW r \in requests', r.awaited
          PROVE  relay'[r.node] = "up" \/ (relay'[r.node] = "deleting" /\ r.stage = "delete")
      <4>1. CASE r = new
        BY <2>4, <3>2, <4>1
      <4>2. CASE r \in requests /\ r.node # n
        <5>1. r.node \in Nodes \ {n}
          BY <3>3, <4>2
        <5>2. relay[r.node] = "up" \/ (relay[r.node] = "deleting" /\ r.stage = "delete")
          BY <3>5, <4>2 DEF LeaseInv, SingleRequest
        <5> HIDE DEF new
        <5>3. relay'[r.node] = relay[r.node]
          BY <3>2, <5>1
        <5> QED
          BY <5>2, <5>3
      <4> QED
        BY <3>1, <3>5, <4>1, <4>2
    <3> QED
      BY <3>4, <3>5 DEF SingleRequest
  <2> QED
    BY <2>1, <2>5, <2>6 DEF LeaseInv, WithinCapacity, Listed
<1> QED
  BY <1>2, <1>3

\* A handler of the registry ends, or moves on to what follows its probe.
LEMMA HandleStep ==
    ASSUME LeaseInv, NEW r \in requests, Handle(r)
    PROVE  LeaseInv'
<1>1. r \in Request /\ r.node \in Nodes /\ r.start \in 1 .. MaxStarts
  BY DEF LeaseInv, LeaseTypeOK, Request
<1>2. CASE Verify(r)
  <2> DEFINE p == [r EXCEPT !.stage = "probed"]
  <2>1. /\ requests' = (requests \ {r}) \cup {p} /\ r.stage = "sent"
        /\ relay' = relay /\ start' = start /\ leases' = leases
    BY <1>2 DEF Verify
  <2>2. p \in Request /\ p.node = r.node /\ p.awaited = r.awaited
    BY <1>1 DEF Request
  <2>3. LeaseTypeOK' /\ Started'
    BY <2>1, <2>2 DEF LeaseInv, LeaseTypeOK, Started
  <2>4. SingleRequest'
    <3>1. r.awaited => relay[r.node] = "up"
      BY <2>1 DEF LeaseInv, SingleRequest
    <3>2. \A s \in requests \ {r} : ~(s.awaited /\ r.awaited /\ s.node = r.node)
      BY DEF LeaseInv, SingleRequest
    <3> HIDE DEF p
    <3>3. \A s \in requests' : s = p \/ (s \in requests /\ s # r)
      BY <2>1
    <3>4. \A s, u \in requests' :
             s.awaited /\ u.awaited /\ s.node = u.node => s = u
      BY <2>2, <3>2, <3>3 DEF LeaseInv, SingleRequest
    <3>5. \A s \in requests' : s.awaited =>
             \/ relay[s.node] = "up"
             \/ relay[s.node] = "deleting" /\ s.stage = "delete"
      BY <2>2, <3>1, <3>3 DEF LeaseInv, SingleRequest
    <3> QED
      BY <2>1, <3>4, <3>5 DEF SingleRequest
  <2> QED
    BY <2>1, <2>3, <2>4 DEF LeaseInv, WithinCapacity, Listed
<1>3. CASE Accept(r)
  <2>1. /\ leases' = [leases EXCEPT ![r.node] = [start |-> r.start, expired |-> FALSE]]
        /\ requests' = requests \ {r} /\ relay' = relay /\ start' = start
    BY <1>3 DEF Accept
  <2>2. LeaseTypeOK' /\ Started' /\ SingleRequest'
    BY <1>1, <2>1 DEF LeaseInv, LeaseTypeOK, Started, SingleRequest, Lease
  <2> QED
    BY <1>3, <2>2, AcceptFits DEF LeaseInv
<1>4. CASE Reject(r)
  <2>1. requests' = requests \ {r} /\ relay' = relay /\ start' = start /\ leases' = leases
    BY <1>4 DEF Reject
  <2> QED
    BY <2>1 DEF LeaseInv, LeaseTypeOK, Started, SingleRequest, WithinCapacity, Listed
<1>5. CASE Delete(r)
  <2>1. /\ leases' = [leases EXCEPT ![r.node] = NoLease] /\ requests' = requests \ {r}
        /\ relay' = IF r.awaited THEN [relay EXCEPT ![r.node] = "left"] ELSE relay
        /\ start' = start
    BY <1>5 DEF Delete
  <2>2. r.awaited => relay[r.node] # "down"
    BY DEF LeaseInv, SingleRequest
  <2>3. LeaseTypeOK' /\ Started'
    BY <1>1, <2>1, <2>2 DEF LeaseInv, LeaseTypeOK, Started
  <2>4. SingleRequest'
    <3>1. \A s \in requests' : s.awaited /\ r.awaited => s.node # r.node
      BY <2>1 DEF LeaseInv, SingleRequest
    <3>2. \A s \in requests' : s.awaited => relay'[s.node] = relay[s.node]
      BY <1>1, <2>1, <3>1 DEF LeaseInv, LeaseTypeOK, Request
    <3> QED
      BY <2>1, <3>2 DEF LeaseInv, SingleRequest
  <2>5. Listed' \subseteq Listed
    BY <2>1 DEF Listed, LeaseInv, LeaseTypeOK
  <2> QED
    BY <2>3, <2>4, <2>5, FewerListed DEF LeaseInv
<1> QED
  BY <1>2, <1>3, <1>4, <1>5 DEF Handle

\* Time, the prune timer and a restart of the registry add no lease.
LEMMA RegistryStep ==
    ASSUME LeaseInv, Prune \/ RegistryRestarts \/ \E n \in Nodes : Expire(n)
    PROVE  LeaseInv'
<1>1. CASE Prune
  <2>1. leases' = Pruned /\ relay' = relay /\ start' = start /\ requests' = requests
    BY <1>1 DEF Prune
  <2>2. Listed' \subseteq Listed
    BY <2>1 DEF Listed, Pruned
  <2>3. LeaseTypeOK' /\ Started' /\ SingleRequest'
    BY <2>1 DEF LeaseInv, LeaseTypeOK, Started, SingleRequest, Pruned
  <2> QED
    BY <2>2, <2>3, FewerListed DEF LeaseInv
<1>2. CASE RegistryRestarts
  <2>1. /\ leases' = [n \in Nodes |-> NoLease] /\ requests' = {} /\ start' = start
        /\ relay' = [n \in Nodes |-> IF relay[n] = "deleting" THEN "down" ELSE relay[n]]
    BY <1>2 DEF RegistryRestarts
  <2>2. Listed' \subseteq Listed
    BY <2>1 DEF Listed
  <2>3. LeaseTypeOK' /\ Started' /\ SingleRequest'
    BY <2>1 DEF LeaseInv, LeaseTypeOK, Started, SingleRequest
  <2> QED
    BY <2>2, <2>3, FewerListed DEF LeaseInv
<1>3. ASSUME NEW n \in Nodes, Expire(n) PROVE LeaseInv'
  <2>1. /\ n \in Listed /\ leases' = [leases EXCEPT ![n].expired = TRUE]
        /\ relay' = relay /\ start' = start /\ requests' = requests
    BY <1>3 DEF Expire
  <2>2. leases[n] \in Lease
    BY <2>1 DEF Listed, LeaseInv, LeaseTypeOK
  <2>3. [leases[n] EXCEPT !.expired = TRUE] \in Lease
    BY <2>2 DEF Lease
  <2>4. leases' = [leases EXCEPT ![n] = [leases[n] EXCEPT !.expired = TRUE]]
    BY <2>1
  <2>5. LeaseTypeOK' /\ Started' /\ SingleRequest'
    BY <2>1, <2>3, <2>4 DEF LeaseInv, LeaseTypeOK, Started, SingleRequest
  <2>6. Listed' \subseteq Listed
    BY <2>1, <2>4 DEF Listed, LeaseInv, LeaseTypeOK
  <2> QED
    BY <2>5, <2>6, FewerListed DEF LeaseInv
<1> QED
  BY <1>1, <1>2, <1>3

\* Every step keeps the invariant.
LEMMA LeaseInvStep == LeaseInv /\ [LeaseNext]_leaseVars => LeaseInv'
<1> SUFFICES ASSUME LeaseInv, [LeaseNext]_leaseVars PROVE LeaseInv'
  OBVIOUS
<1>1. ASSUME NEW n \in Nodes, Start(n) \/ Register(n) \/ Timeout(n) \/ Stop(n)
                               \/ Crash(n) \/ Expire(n)
      PROVE  LeaseInv'
  BY <1>1, RelayStep, SendStep, RegistryStep
<1>2. ASSUME NEW r \in requests, Handle(r) PROVE LeaseInv'
  BY <1>2, HandleStep
<1>3. CASE Prune \/ RegistryRestarts
  BY <1>3, RegistryStep
<1>4. CASE UNCHANGED leaseVars
  BY <1>4 DEF leaseVars, LeaseInv, LeaseTypeOK, Started, SingleRequest, WithinCapacity, Listed
<1> QED
  BY <1>1, <1>2, <1>3, <1>4 DEF LeaseNext

\* An empty registry satisfies it.
LEMMA LeaseInitInv == LeaseInit => LeaseInv
<1> SUFFICES ASSUME LeaseInit PROVE LeaseInv
  OBVIOUS
<1>1. LeaseTypeOK /\ SingleRequest /\ Started
  BY DEF LeaseInit, LeaseTypeOK, SingleRequest, Started
<1>2. Listed = {}
  BY DEF LeaseInit, Listed
<1>3. WithinCapacity
  BY <1>2, FS_EmptySet DEF WithinCapacity
<1> QED
  BY <1>1, <1>3 DEF LeaseInv

\* The inductive invariant holds in every behaviour.
LEMMA LeaseInvariance == LeaseSpec => []LeaseInv
BY LeaseInitInv, LeaseInvStep, PTL DEF LeaseSpec

-----------------------------------------------------------------------------
(* Theorems.                                                               *)

\* Every variable of the registry and its relays keeps its type.
THEOREM LeaseTyping == LeaseSpec => []LeaseTypeOK
<1>1. LeaseInv => LeaseTypeOK
  BY DEF LeaseInv
<1> QED
  BY <1>1, LeaseInvariance, PTL

\* However many verifications are in progress, the registry never holds more
\* leases than configured.
THEOREM Capacity == LeaseSpec => []WithinCapacity
<1>1. LeaseInv => WithinCapacity
  BY DEF LeaseInv
<1> QED
  BY <1>1, LeaseInvariance, PTL

\* A relay never waits for two requests, and a relay that leaves waits only for
\* its DELETE.
THEOREM OneAtATime == LeaseSpec => []OneRequestAtATime
<1>1. LeaseInv => OneRequestAtATime
  <2> SUFFICES ASSUME LeaseInv, NEW n \in Nodes
               PROVE  /\ Cardinality(Awaited(n)) <= 1
                      /\ relay[n] = "deleting" => \A r \in Awaited(n) : r.stage = "delete"
                      /\ relay[n] \in {"down", "left"} => Awaited(n) = {}
    BY DEF OneRequestAtATime
  <2>1. \A r \in Awaited(n) : r \in requests /\ r.awaited /\ r.node = n
    BY DEF Awaited, Of
  <2>2. Cardinality(Awaited(n)) <= 1
    <3>1. CASE Awaited(n) = {}
      BY <3>1, FS_EmptySet
    <3>2. CASE Awaited(n) # {}
      <4>1. PICK r \in Awaited(n) : TRUE
        BY <3>2
      <4>2. Awaited(n) = {r}
        BY <2>1, <4>1 DEF LeaseInv, SingleRequest
      <4> QED
        BY <4>2, FS_Singleton
    <3> QED
      BY <3>1, <3>2
  <2>3. \A r \in Awaited(n) :
           relay[n] = "up" \/ (relay[n] = "deleting" /\ r.stage = "delete")
    BY <2>1 DEF LeaseInv, SingleRequest
  <2> QED
    BY <2>2, <2>3
<1> QED
  BY <1>1, LeaseInvariance, PTL

-----------------------------------------------------------------------------
(* The inductive invariant of ResourcePackCache.  Its parts are about a     *)
(* cache c, requests q, downloads w and inflight i, so that a handler can   *)
(* be taken apart into a pruning and what it does afterwards.               *)

Writers == {"none", "opening", "writing", "failing", "failed", "done"}
Records ==
    [stage : Stages, key : Keys \cup {None}, attempt : 1 .. MaxAttempts,
     waits : Requests \cup {None}, reads : Requests \cup {None}, aborted : BOOLEAN]
Caches ==
    [order : Seq(Requests), bytes : Nat, size : [Requests -> 0 .. MaxBytes],
     readers : [Requests -> Nat],
     file : [Requests -> {"none", "there", "evicted", "removing"}]]

\* Which stage a request r is in while its download is in x, what it reads, and
\* that it has a key.
Stands(r, s, x) ==
    /\ s \in Records /\ x \in Writers
    /\ x = "none" => s.stage \in {"new", "wait", "fetch", "backoff", "serve", "done"}
    /\ x \in {"opening", "writing", "failing"} =>
          IF r \in Streaming THEN s.stage \in {"serve", "settle"}
          ELSE s.stage = "download"
    /\ x = "failed" => r \in Streaming /\ s.stage \in {"serve", "settle", "done"}
    /\ x = "done" => s.stage \in {"serve", "release", "done"}
    /\ s.stage = "settle" => s.aborted /\ x # "opening"
    /\ s.reads # None => s.stage = "serve" /\ (x = "none" \/ s.reads = r)
    /\ x = "none" /\ s.stage = "serve" => s.reads # None
    /\ s.stage # "new" => s.key \in Keys

Downloading(s, x) ==
    s.stage \in {"fetch", "backoff", "download"} \/ x \in {"opening", "writing", "failing"}

\* A file that is used once, by its own request.
UsedOnce(s, x) == x = "done" /\ s.reads = None /\ s.stage \in {"serve", "settle"}

RequestsOK(q, w) ==
    /\ q \in [Requests -> Records] /\ w \in [Requests -> Writers]
    /\ \A r \in Requests : Stands(r, q[r], w[r])
    /\ \A r \in Requests : q[r].reads # None => w[q[r].reads] = "done"

\* A key is taken by the one download of it.
InflightOK(q, w, i) ==
    /\ i \in [Keys -> Requests \cup {None}]
    /\ \A r \in Requests : Downloading(q[r], w[r]) => i[q[r].key] = r
    /\ \A k \in Keys : i[k] # None =>
          Downloading(q[i[k]], w[i[k]]) /\ q[i[k]].key = k

ReadBy(q, e) == {r \in Requests : q[r].reads = e}

CountsOK(c, q) ==
    /\ c \in Caches /\ c.bytes = Total(c, ToSet(c.order))
    /\ \A e \in Requests :
          IsFiniteSet(ReadBy(q, e)) /\ c.readers[e] = Cardinality(ReadBy(q, e))

\* FilesAreOwned of one file f, which is an entry's or not.
FileOK(f, isEntry, isRead, s, x) ==
    /\ f = "there" <=> isEntry \/ x = "writing" \/ UsedOnce(s, x)
    /\ f = "evicted" <=> ~isEntry /\ isRead

\* An entry is the file of a download that is over, and not used once.
EntriesOK(c, q, w) ==
    \A e \in Requests :
      LET isEntry == e \in ToSet(c.order)
      IN  /\ FileOK(c.file[e], isEntry, ReadBy(q, e) # {}, q[e], w[e])
          /\ isEntry => w[e] = "done" /\ ~UsedOnce(q[e], w[e])

\* No entry has the key of a download.
Apart(c, q, w) ==
    \A r \in Requests : Downloading(q[r], w[r]) =>
      \A e \in ToSet(c.order) : q[e].key # q[r].key

PackFine(c, q, w, i) ==
    /\ RequestsOK(q, w) /\ InflightOK(q, w, i)
    /\ CountsOK(c, q) /\ EntriesOK(c, q, w) /\ Apart(c, q, w)

Limits(c) == Len(c.order) <= MaxEntries /\ c.bytes <= MaxBytes

PackInv == PackFine(cache, req, writer, inflight) /\ Limits(cache)

-----------------------------------------------------------------------------
(* The order of the entries.                                                *)

\* A non-empty set of numbers has a least element.
LEMMA NatLeast ==
  ASSUME NEW T, T \subseteq Nat, T # {}
  PROVE  \E n \in T : \A m \in T : n <= m
<1> DEFINE R == OpToRel(<, Nat)
<1>1. IsWellFoundedOn(R, Nat)
  BY NatLessThanWellFounded, Zenon
<1>2. \A x, y \in Nat : (<<x, y>> \in R) <=> x < y
  BY DEF OpToRel
<1> HIDE DEF R
<1>3. PICK n \in T : \A m \in T : ~ (<<m, n>> \in R)
  BY <1>1, WFMin, Zenon
<1>4. \A m \in T : ~ (m < n)
  BY <1>2, <1>3
<1> QED
  BY <1>4

\* A set that contains zero and the successor of each of its members contains
\* every number.
LEMMA NatAll ==
  ASSUME NEW T, 0 \in T, \A k \in Nat : k \in T => k + 1 \in T
  PROVE  Nat \subseteq T
<1> SUFFICES ASSUME Nat \ T # {} PROVE FALSE
  OBVIOUS
<1>1. PICK n \in Nat \ T : \A m \in Nat \ T : n <= m
  BY NatLeast
<1>2. n # 0 /\ n - 1 \in Nat /\ n - 1 \in T
  BY <1>1
<1> QED
  BY <1>1, <1>2

\* The elements of a sequence that grows.
LEMMA SetAppend ==
  ASSUME NEW S, NEW s \in Seq(S), NEW e \in S
  PROVE  /\ Append(s, e) \in Seq(S) /\ Len(Append(s, e)) = Len(s) + 1
         /\ ToSet(Append(s, e)) = ToSet(s) \cup {e}
<1>1. Append(s, e) \in Seq(S) /\ Len(Append(s, e)) = Len(s) + 1 /\ Len(s) \in Nat
  OBVIOUS
<1>2. \A i \in 1 .. Len(s) : Append(s, e)[i] = s[i]
  OBVIOUS
<1>3. Append(s, e)[Len(s) + 1] = e
  OBVIOUS
<1>4. DOMAIN Append(s, e) = 1 .. (Len(s) + 1) /\ DOMAIN s = 1 .. Len(s)
  OBVIOUS
<1> QED
  BY <1>1, <1>2, <1>3, <1>4 DEF ToSet

\* What OrderWithout has kept after n of the entries of o, of which those after the
\* first a and up to b are all to go.
Kept(S, o, gone, a, b, n, s) ==
  /\ s \in Seq(S) /\ ToSet(s) = {o[j] : j \in 1 .. n} \ gone
  /\ Len(s) <= n /\ Len(s) <= (IF n <= b THEN a ELSE n - (b - a))

\* One more entry is kept or left out.
LEMMA KeptGrows ==
  ASSUME NEW S, NEW o \in Seq(S), NEW gone, NEW a \in Nat, NEW b \in a .. Len(o),
         \A j \in (a + 1) .. b : o[j] \in gone,
         NEW n \in Nat, n < Len(o), NEW s, Kept(S, o, gone, a, b, n, s)
  PROVE  Kept(S, o, gone, a, b, n + 1, IF o[n + 1] \in gone THEN s ELSE Append(s, o[n + 1]))
<1>1. o[n + 1] \in S /\ Len(o) \in Nat /\ s \in Seq(S) /\ Len(s) \in Nat
  BY DEF Kept
<1>2. {o[j] : j \in 1 .. (n + 1)} = {o[j] : j \in 1 .. n} \cup {o[n + 1]}
  <2>1. 1 .. (n + 1) = (1 .. n) \cup {n + 1}
    OBVIOUS
  <2> QED
    BY <2>1
<1>3. Len(s) <= n /\ (IF n <= b THEN Len(s) <= a ELSE Len(s) <= n - (b - a))
  BY DEF Kept
<1>4. CASE o[n + 1] \in gone
  <2>1. ToSet(s) = {o[j] : j \in 1 .. (n + 1)} \ gone
    BY <1>2, <1>4 DEF Kept
  <2> QED
    BY <1>1, <1>3, <1>4, <2>1 DEF Kept
<1>5. CASE o[n + 1] \notin gone
  <2>1. n + 1 <= a \/ n + 1 > b
    BY <1>1, <1>5
  <2>2. /\ Append(s, o[n + 1]) \in Seq(S) /\ Len(Append(s, o[n + 1])) = Len(s) + 1
        /\ ToSet(Append(s, o[n + 1])) = ToSet(s) \cup {o[n + 1]}
    BY <1>1, SetAppend
  <2>3. ToSet(Append(s, o[n + 1])) = {o[j] : j \in 1 .. (n + 1)} \ gone
    BY <1>2, <1>5, <2>2 DEF Kept
  <2> QED
    BY <1>1, <1>3, <1>5, <2>1, <2>2, <2>3 DEF Kept
<1> QED
  BY <1>4, <1>5

\* OrderWithout leaves exactly the other entries, and is shorter by the first ones if
\* they all go.
LEMMA WithoutFacts ==
  ASSUME NEW S, NEW o \in Seq(S), NEW gone, NEW a \in Nat, NEW b \in a .. Len(o),
         \A j \in (a + 1) .. b : o[j] \in gone
  PROVE  /\ OrderWithout(o, gone) \in Seq(S)
         /\ ToSet(OrderWithout(o, gone)) = ToSet(o) \ gone
         /\ Len(OrderWithout(o, gone)) <= Len(o) - (b - a)
<1> DEFINE n == Len(o)
           Grow(s, k) == IF o[k] \in gone THEN s ELSE Append(s, o[k])
           Goes(m, f) == /\ f[0] = <<>> /\ \A k \in 1 .. m : f[k] = Grow(f[k - 1], k)
                         /\ \A k \in 0 .. m : Kept(S, o, gone, a, b, k, f[k])
           T == {m \in Nat : m <= n => \E f \in [0 .. m -> Seq(S)] : Goes(m, f)}
<1>1. n \in Nat /\ a \in Nat /\ b \in Nat /\ a <= b /\ b <= n
  OBVIOUS
<1> HIDE DEF Goes
<1>2. 0 \in T
  <2> DEFINE f == [k \in 0 .. 0 |-> <<>>]
  <2>1. f \in [0 .. 0 -> Seq(S)] /\ f[0] = <<>>
    OBVIOUS
  <2>2. Kept(S, o, gone, a, b, 0, <<>>)
    BY <1>1 DEF Kept, ToSet
  <2>3. Goes(0, f)
    BY <2>1, <2>2 DEF Goes
  <2> QED
    BY <2>1, <2>3
<1>3. ASSUME NEW m \in Nat, m \in T PROVE m + 1 \in T
  <2> SUFFICES ASSUME m + 1 <= n PROVE \E f \in [0 .. (m + 1) -> Seq(S)] : Goes(m + 1, f)
    OBVIOUS
  <2>1. PICK f \in [0 .. m -> Seq(S)] : Goes(m, f)
    BY <1>3, <1>1
  <2> DEFINE last == Grow(f[m], m + 1)
             g == [k \in 0 .. (m + 1) |-> IF k <= m THEN f[k] ELSE last]
  <2>2. Kept(S, o, gone, a, b, m, f[m])
    BY <2>1 DEF Goes
  <2>3. Kept(S, o, gone, a, b, m + 1, last)
    BY <1>1, <2>2, KeptGrows
  <2>4. last \in Seq(S)
    BY <2>3 DEF Kept
  <2> HIDE DEF last
  <2>5. g \in [0 .. (m + 1) -> Seq(S)]
    BY <2>4
  <2>6. g[m + 1] = last /\ g[0] = f[0] /\ \A k \in 0 .. m : g[k] = f[k]
    OBVIOUS
  <2> HIDE DEF g
  <2>7. ASSUME NEW k \in 1 .. (m + 1) PROVE g[k] = Grow(g[k - 1], k)
    <3> HIDE DEF Grow
    <3>1. CASE k = m + 1
      BY <3>1, <2>6 DEF last
    <3>2. CASE k <= m
      <4>1. k \in 1 .. m /\ k \in 0 .. m /\ k - 1 \in 0 .. m
        BY <3>2
      <4>2. g[k] = f[k] /\ g[k - 1] = f[k - 1]
        BY <4>1, <2>6
      <4>3. f[k] = Grow(f[k - 1], k)
        BY <4>1, <2>1 DEF Goes
      <4> QED
        BY <4>2, <4>3
    <3> QED
      BY <3>1, <3>2
  <2>8. ASSUME NEW k \in 0 .. (m + 1) PROVE Kept(S, o, gone, a, b, k, g[k])
    <3>1. CASE k = m + 1
      BY <3>1, <2>3, <2>6
    <3>2. CASE k <= m
      BY <3>2, <2>1, <2>6 DEF Goes
    <3> QED
      BY <3>1, <3>2
  <2> QED
    BY <2>1, <2>5, <2>6, <2>7, <2>8 DEF Goes
<1> HIDE DEF T
<1>4. n \in T
  BY <1>1, <1>2, <1>3, NatAll
<1>5. PICK f \in [0 .. n -> Seq(S)] : Goes(n, f)
  BY <1>1, <1>4 DEF T
<1> DEFINE kept[k \in 0 .. n] ==
             IF k = 0 THEN <<>>
             ELSE IF o[k] \in gone THEN kept[k - 1] ELSE Append(kept[k - 1], o[k])
<1>6. OrderWithout(o, gone) = kept[n]
  BY DEF OrderWithout
<1>7. f = [k \in 0 .. n |-> IF k = 0 THEN <<>>
                            ELSE IF o[k] \in gone THEN f[k - 1] ELSE Append(f[k - 1], o[k])]
  <2> DEFINE Value(k) == IF k = 0 THEN <<>>
                         ELSE IF o[k] \in gone THEN f[k - 1] ELSE Append(f[k - 1], o[k])
  <2>1. ASSUME NEW k \in 0 .. n PROVE f[k] = Value(k)
    <3>1. CASE k = 0
      BY <3>1, <1>5 DEF Goes
    <3>2. CASE k \in 1 .. n
      BY <3>2, <1>1, <1>5 DEF Goes
    <3> QED
      BY <1>1, <3>1, <3>2
  <2> HIDE DEF Value
  <2>2. f = [k \in 0 .. n |-> Value(k)]
    BY <1>5, <2>1
  <2> QED
    BY <2>2 DEF Value
<1>8. kept = CHOOSE g : g = [k \in 0 .. n |-> IF k = 0 THEN <<>>
                ELSE IF o[k] \in gone THEN g[k - 1] ELSE Append(g[k - 1], o[k])]
  BY Zenon DEF kept
<1>9. kept = [k \in 0 .. n |-> IF k = 0 THEN <<>>
                ELSE IF o[k] \in gone THEN kept[k - 1] ELSE Append(kept[k - 1], o[k])]
  BY <1>7, <1>8, Zenon
<1> HIDE DEF kept
<1> DEFINE U == {k \in Nat : k <= n => kept[k] = f[k]}
<1>10. 0 \in U
  BY <1>1, <1>5, <1>9 DEF Goes
<1>11. ASSUME NEW k \in Nat, k \in U PROVE k + 1 \in U
  <2> SUFFICES ASSUME k + 1 <= n PROVE kept[k + 1] = f[k + 1]
    OBVIOUS
  <2>1. kept[k] = f[k]
    BY <1>11, <1>1
  <2>2. k + 1 \in 0 .. n /\ k + 1 # 0 /\ (k + 1) - 1 = k
    BY <1>1
  <2>3. kept[k + 1] = Grow(kept[k], k + 1)
    BY <1>9, <2>2
  <2>4. f[k + 1] = Grow(f[k], k + 1)
    BY <1>7, <2>2
  <2> QED
    BY <2>1, <2>3, <2>4
<1> HIDE DEF U
<1>12. kept[n] = f[n]
  <2>1. n \in U
    BY <1>1, <1>10, <1>11, NatAll
  <2> QED
    BY <1>1, <2>1 DEF U
<1>13. Kept(S, o, gone, a, b, n, OrderWithout(o, gone))
  BY <1>1, <1>5, <1>6, <1>12 DEF Goes
<1>14. ToSet(o) = {o[j] : j \in 1 .. n}
  BY DEF ToSet
<1> QED
  BY <1>1, <1>13, <1>14 DEF Kept


\* An order without one of its entries is shorter.
LEMMA WithoutOne ==
  ASSUME NEW S, NEW o \in Seq(S), NEW m \in 1 .. Len(o)
  PROVE  /\ OrderWithout(o, {o[m]}) \in Seq(S)
         /\ ToSet(OrderWithout(o, {o[m]})) = ToSet(o) \ {o[m]}
         /\ Len(OrderWithout(o, {o[m]})) <= Len(o) - 1
<1> DEFINE gone == {o[m]}
           a == m - 1
<1>1. Len(o) \in Nat /\ a \in Nat /\ m \in a .. Len(o) /\ m - a = 1
  OBVIOUS
<1>2. \A j \in (a + 1) .. m : o[j] \in gone
  OBVIOUS
<1> HIDE DEF a, gone
<1>3. /\ OrderWithout(o, gone) \in Seq(S) /\ ToSet(OrderWithout(o, gone)) = ToSet(o) \ gone
      /\ Len(OrderWithout(o, gone)) <= Len(o) - (m - a)
  BY <1>1, <1>2, WithoutFacts
<1> QED
  BY <1>1, <1>3 DEF gone
-----------------------------------------------------------------------------
(* The bytes of entries, and what eviction and pruning do to the cache.     *)

\* The constants that are numbers.
LEMMA PackNumbers ==
  /\ MaxEntries \in Nat \ {0} /\ MaxBytes \in Nat \ {0} /\ MaxAttempts \in Nat \ {0}
  /\ None \notin Requests /\ None \notin Keys
  BY ResourcePackCacheAssumption

\* The entries of an order are finitely many.
LEMMA EntriesFinite ==
  ASSUME NEW S, NEW o \in Seq(S)
  PROVE  IsFiniteSet(ToSet(o)) /\ ToSet(o) \subseteq S
<1>1. Len(o) \in Nat /\ DOMAIN o = 1 .. Len(o) /\ \A i \in 1 .. Len(o) : o[i] \in S
  OBVIOUS
<1>2. o \in Surjection(1 .. Len(o), ToSet(o))
  BY <1>1 DEF Surjection, ToSet
<1>3. IsFiniteSet(1 .. Len(o))
  BY <1>1, FS_Interval
<1> QED
  BY <1>1, <1>2, <1>3, FS_Surjection DEF ToSet

Bytes(size, A) == {u \in A \X (1 .. MaxBytes + 1) : u[2] <= size[u[1]]}

\* Total counts those bytes.
LEMMA TotalBytes ==
  ASSUME NEW c, NEW A
  PROVE  Total(c, A) = Cardinality(Bytes(c.size, A))
  BY DEF Total, Bytes

\* The bytes of finitely many entries are finitely many.
LEMMA BytesFinite ==
  ASSUME NEW size, NEW A, IsFiniteSet(A)
  PROVE  IsFiniteSet(Bytes(size, A)) /\ Cardinality(Bytes(size, A)) \in Nat
<1>1. IsFiniteSet(1 .. MaxBytes + 1)
  BY PackNumbers, FS_Interval
<1>2. IsFiniteSet(A \X (1 .. MaxBytes + 1))
  BY <1>1, FS_Product
<1>3. Bytes(size, A) \subseteq A \X (1 .. MaxBytes + 1)
  BY DEF Bytes
<1> QED
  BY <1>2, <1>3, FS_Subset, FS_CardinalityType

\* The bytes of entries of two kinds add up.
LEMMA TotalSplit ==
  ASSUME NEW c, NEW A, NEW B, IsFiniteSet(A), IsFiniteSet(B), A \cap B = {}
  PROVE  /\ Total(c, A \cup B) = Total(c, A) + Total(c, B)
         /\ Total(c, A) \in Nat /\ Total(c, B) \in Nat
<1>1. Bytes(c.size, A \cup B) = Bytes(c.size, A) \cup Bytes(c.size, B)
  BY DEF Bytes
<1>2. Bytes(c.size, A) \cap Bytes(c.size, B) = {}
  BY DEF Bytes
<1>3. /\ IsFiniteSet(Bytes(c.size, A)) /\ IsFiniteSet(Bytes(c.size, B))
      /\ Cardinality(Bytes(c.size, A)) \in Nat /\ Cardinality(Bytes(c.size, B)) \in Nat
  BY BytesFinite
<1>4. Cardinality(Bytes(c.size, A) \cup Bytes(c.size, B))
        = Cardinality(Bytes(c.size, A)) + Cardinality(Bytes(c.size, B)) - Cardinality({})
  BY <1>2, <1>3, FS_Union
<1>5. Cardinality({}) = 0
  BY FS_EmptySet
<1>6. Total(c, A) = Cardinality(Bytes(c.size, A)) /\ Total(c, B) = Cardinality(Bytes(c.size, B))
  BY TotalBytes
<1>7. Total(c, A \cup B) = Cardinality(Bytes(c.size, A) \cup Bytes(c.size, B))
  BY <1>1, TotalBytes
<1> HIDE DEF Bytes
<1>8. Total(c, A \cup B) = Total(c, A) + Total(c, B) - 0
  BY <1>4, <1>5, <1>6, <1>7
<1>9. Total(c, A) \in Nat /\ Total(c, B) \in Nat
  BY <1>3, <1>6
<1> QED
  BY <1>8, <1>9

\* No entries have no bytes, and one has its size.
LEMMA TotalOne ==
  ASSUME NEW c, NEW e, c.size[e] \in 0 .. MaxBytes
  PROVE  Total(c, {e}) = c.size[e]
<1>1. Bytes(c.size, {e}) = {<<e, n>> : n \in 1 .. c.size[e]}
  BY PackNumbers DEF Bytes
<1> DEFINE n == c.size[e]
           f == [k \in 1 .. n |-> <<e, k>>]
<1>2. n \in Nat
  OBVIOUS
<1> DEFINE I == 1 .. n
           J == {<<e, k>> : k \in I}
<1>3. f \in Bijection(1 .. n, {<<e, k>> : k \in 1 .. n})
  <2>1. f = [k \in I |-> <<e, k>>]
    OBVIOUS
  <2> HIDE DEF I, f
  <2>2. f \in [I -> J] /\ \A k \in I : f[k] = <<e, k>>
    BY <2>1
  <2>3. f \in Injection(I, J)
    BY <2>2 DEF Injection, IsInjective
  <2>4. f \in Surjection(I, J)
    BY <2>2 DEF Surjection
  <2> QED
    BY <2>3, <2>4 DEF Bijection, I
<1>4. ExistsBijection(1 .. n, {<<e, k>> : k \in 1 .. n})
  BY <1>3 DEF ExistsBijection
<1>5. Cardinality({<<e, k>> : k \in 1 .. n}) = n
  BY <1>2, <1>4, FS_CountingElements
<1> QED
  BY <1>1, <1>5, TotalBytes

\* Nothing has no size.
LEMMA TotalNone == ASSUME NEW c PROVE Total(c, {}) = 0
<1>1. Bytes(c.size, {}) = {}
  BY DEF Bytes
<1> QED
  BY <1>1, TotalBytes, FS_EmptySet

\* Only the sizes of the entries count.
LEMMA TotalSame ==
  ASSUME NEW c, NEW d, NEW A, \A e \in A : c.size[e] = d.size[e]
  PROVE  Total(c, A) = Total(d, A)
<1>1. Bytes(c.size, A) = Bytes(d.size, A)
  BY DEF Bytes
<1> QED
  BY <1>1, TotalBytes

\* A cache whose bytes are those of its entries.
Counted(c) == c \in Caches /\ c.bytes = Total(c, ToSet(c.order))

\* d is c without the entries E.
Evicts(c, d, E) ==
  /\ Counted(d) /\ E \subseteq ToSet(c.order)
  /\ ToSet(d.order) = ToSet(c.order) \ E
  /\ d.size = c.size /\ d.readers = c.readers
  /\ d.bytes <= c.bytes /\ Len(d.order) <= Len(c.order)
  /\ \A e \in Requests :
        d.file[e] = IF e \notin E THEN c.file[e]
                    ELSE IF c.readers[e] = 0 THEN "removing" ELSE "evicted"

\* The entries that are taken may be the oldest.
LEMMA WithoutPrefix ==
  ASSUME NEW S, NEW o \in Seq(S), NEW gone, NEW n \in 0 .. Len(o),
         \A j \in 1 .. n : o[j] \in gone
  PROVE  /\ OrderWithout(o, gone) \in Seq(S)
         /\ ToSet(OrderWithout(o, gone)) = ToSet(o) \ gone
         /\ Len(OrderWithout(o, gone)) <= Len(o) - n
<1>1. \A j \in (0 + 1) .. n : o[j] \in gone
  OBVIOUS
<1>2. 0 \in Nat /\ n \in 0 .. Len(o) /\ n - 0 = n
  OBVIOUS
<1> QED
  BY <1>1, <1>2, WithoutFacts

\* evictResourcePackCacheEntry takes entries with their bytes.
LEMMA EvictedFacts ==
  ASSUME NEW c, Counted(c), NEW E, E \subseteq ToSet(c.order), NEW cut \in 0 .. Len(c.order),
         \A j \in 1 .. cut : c.order[j] \in E
  PROVE  /\ Evicts(c, Evicted(c, E), E)
         /\ Len(Evicted(c, E).order) <= Len(c.order) - cut
         /\ Evicted(c, E).bytes = Less(c.bytes, Total(c, E))
<1> DEFINE d == Evicted(c, E)
           O == ToSet(c.order)
<1>1. c.order \in Seq(Requests) /\ c.bytes \in Nat /\ Len(c.order) \in Nat
  BY DEF Counted, Caches
<1>2. /\ OrderWithout(c.order, E) \in Seq(Requests)
      /\ ToSet(OrderWithout(c.order, E)) = O \ E
      /\ Len(OrderWithout(c.order, E)) <= Len(c.order) - cut
  BY <1>1, WithoutPrefix
<1>3. /\ d.order = OrderWithout(c.order, E) /\ d.bytes = Less(c.bytes, Total(c, E))
      /\ d.size = c.size /\ d.readers = c.readers
      /\ d.file = [e \in Requests |-> IF e \notin E THEN c.file[e]
                     ELSE IF c.readers[e] = 0 THEN "removing" ELSE "evicted"]
      /\ d = [order |-> d.order, bytes |-> d.bytes, size |-> d.size,
              readers |-> d.readers, file |-> d.file]
  <2>1. c = [order |-> c.order, bytes |-> c.bytes, size |-> c.size,
             readers |-> c.readers, file |-> c.file]
    BY DEF Counted, Caches
  <2>2. c.file \in [Requests -> {"none", "there", "evicted", "removing"}]
    BY DEF Counted, Caches
  <2> DEFINE files == [e \in Requests |-> IF e \notin E THEN c.file[e]
                          ELSE IF c.readers[e] = 0 THEN "removing" ELSE "evicted"]
             rest == OrderWithout(c.order, E)
             left == Less(c.bytes, Total(c, E))
  <2>3. d = [c EXCEPT !.order = rest, !.bytes = left, !.file = files]
    BY <2>1, <2>2 DEF Evicted
  <2> HIDE DEF files, rest, left, d
  <2>4. d = [order |-> rest, bytes |-> left, size |-> c.size,
             readers |-> c.readers, file |-> files]
    BY <2>1, <2>3
  <2> QED
    BY <2>4 DEF files, rest, left
<1>4. IsFiniteSet(O) /\ IsFiniteSet(E) /\ IsFiniteSet(O \ E)
  BY <1>1, EntriesFinite, FS_Subset
<1>5. /\ Total(c, E \cup (O \ E)) = Total(c, E) + Total(c, O \ E)
      /\ Total(c, E) \in Nat /\ Total(c, O \ E) \in Nat
  <2>1. E \cap (O \ E) = {}
    OBVIOUS
  <2> QED
    BY <1>4, <2>1, TotalSplit
<1>6. E \cup (O \ E) = O
  OBVIOUS
<1>7. c.bytes = Total(c, E) + Total(c, O \ E)
  BY <1>5, <1>6 DEF Counted
<1>8. d.bytes = Total(c, O \ E) /\ d.bytes \in Nat /\ d.bytes <= c.bytes
  BY <1>3, <1>5, <1>7, <1>1 DEF Less
<1>9. Total(d, O \ E) = Total(c, O \ E)
  BY <1>3, TotalSame
<1>10. d.file \in [Requests -> {"none", "there", "evicted", "removing"}]
  BY <1>3 DEF Counted, Caches
<1>11. c.size \in [Requests -> 0 .. MaxBytes] /\ c.readers \in [Requests -> Nat]
  BY DEF Counted, Caches
<1> HIDE DEF d, O
<1>12. d \in Caches
  BY <1>2, <1>3, <1>8, <1>10, <1>11 DEF Caches
<1>13. Counted(d)
  BY <1>2, <1>3, <1>8, <1>9, <1>12 DEF Counted
<1>14. Len(d.order) <= Len(c.order)
  <2>1. Len(OrderWithout(c.order, E)) \in Nat /\ cut \in Nat
    BY <1>1, <1>2
  <2> QED
    BY <1>1, <1>2, <1>3, <2>1
<1> QED
  BY <1>2, <1>3, <1>8, <1>13, <1>14 DEF Evicts, d, O

\* A pruning evicts in two steps.
LEMMA EvictsTwice ==
  ASSUME NEW c, NEW d, NEW f, NEW E, NEW F, Counted(c), Evicts(c, d, E), Evicts(d, f, F)
  PROVE  Evicts(c, f, E \cup F)
<1>1. c.bytes \in Nat /\ d.bytes \in Nat /\ f.bytes \in Nat
      /\ Len(c.order) \in Nat /\ Len(d.order) \in Nat /\ Len(f.order) \in Nat
  BY DEF Evicts, Counted, Caches
<1>2. f.bytes <= c.bytes /\ Len(f.order) <= Len(c.order)
  BY <1>1 DEF Evicts
<1>3. E \cap F = {} /\ E \cup F \subseteq ToSet(c.order)
      /\ ToSet(f.order) = ToSet(c.order) \ (E \cup F)
  BY DEF Evicts
<1>4. ASSUME NEW e \in Requests
      PROVE  f.file[e] = IF e \notin E \cup F THEN c.file[e]
                         ELSE IF c.readers[e] = 0 THEN "removing" ELSE "evicted"
  BY <1>3 DEF Evicts
<1> QED
  BY <1>2, <1>3, <1>4 DEF Evicts

\* Evicting nothing changes nothing.
LEMMA EvictsNone == ASSUME NEW c, Counted(c) PROVE Evicts(c, c, {})
<1>1. c.bytes \in Nat /\ Len(c.order) \in Nat
  BY DEF Counted, Caches
<1> QED
  BY <1>1 DEF Evicts

\* pruneResourcePackCache finds a number of oldest entries without which the rest
\* keeps the limits.
LEMMA TrimmedFacts ==
  ASSUME NEW c, Counted(c)
  PROVE  Limits(Trimmed(c)) /\ \E E : Evicts(c, Trimmed(c), E)
<1>1. c.order \in Seq(Requests) /\ c.bytes \in Nat /\ Len(c.order) \in Nat
  BY DEF Counted, Caches
<1> DEFINE n == Len(c.order)
<1>2. \A k \in 0 .. n : Oldest(c, k) = {c.order[j] : j \in 1 .. k}
  <2> TAKE k \in 0 .. n
  <2>1. SubSeq(c.order, 1, k) \in Seq(Requests) /\ Len(SubSeq(c.order, 1, k)) = k
        /\ \A j \in 1 .. k : SubSeq(c.order, 1, k)[j] = c.order[j]
    BY <1>1
  <2>2. DOMAIN SubSeq(c.order, 1, k) = 1 .. k
    BY <1>1, <2>1
  <2> QED
    BY <2>1, <2>2 DEF Oldest, ToSet
<1>3. ToSet(c.order) = Oldest(c, n)
  BY <1>1, <1>2 DEF ToSet
<1>4. CASE CacheFits(c, 0)
  <2>1. Trimmed(c) = c
    BY <1>4 DEF Trimmed
  <2>2. Oldest(c, 0) = {}
    BY <1>1, <1>2
  <2>3. Total(c, {}) = 0
    BY TotalNone
  <2>4. Total(c, Oldest(c, 0)) = 0
    BY <2>2, <2>3
  <2>5. Len(c.order) - 0 <= MaxEntries /\ Less(c.bytes, 0) <= MaxBytes
    BY <1>4, <2>4 DEF CacheFits
  <2>6. Limits(c)
    BY <1>1, <2>5, PackNumbers DEF Limits, Less
  <2> QED
    BY <2>1, <2>6, EvictsNone
<1>5. CASE ~CacheFits(c, 0)
  <2> DEFINE Fitting == {k \in 1 .. n : CacheFits(c, k)}
  <2>1. n # 0
    <3> SUFFICES ASSUME n = 0 PROVE CacheFits(c, 0)
      BY <1>5
    <3>1. c.bytes = Total(c, Oldest(c, 0))
      BY <1>3 DEF Counted
    <3> QED
      BY <1>1, <3>1, PackNumbers DEF CacheFits, Less
  <2>2. CacheFits(c, n)
    <3>1. c.bytes = Total(c, Oldest(c, n))
      BY <1>3 DEF Counted
    <3> QED
      BY <1>1, <3>1, PackNumbers DEF CacheFits, Less
  <2>3. \E k \in Fitting : \A m \in Fitting : k <= m
    <3>1. Fitting \subseteq Nat /\ n \in Fitting
      BY <1>1, <2>1, <2>2
    <3> QED
      BY <3>1, NatLeast
  <2> DEFINE cut == CHOOSE k \in 1 .. n :
                      CacheFits(c, k) /\ \A m \in 1 .. (k - 1) : ~CacheFits(c, m)
  <2>4. \E k \in 1 .. n : CacheFits(c, k) /\ \A m \in 1 .. (k - 1) : ~CacheFits(c, m)
    BY <1>1, <2>3
  <2>5. /\ cut \in 1 .. n /\ CacheFits(c, cut)
        /\ \A m \in 1 .. (cut - 1) : ~CacheFits(c, m)
    BY <2>4, Zenon
  <2>6. Trimmed(c) = Evicted(c, Oldest(c, cut))
    BY <1>5 DEF Trimmed
  <2> HIDE DEF cut
  <2>7. /\ Oldest(c, cut) \subseteq ToSet(c.order)
        /\ \A j \in 1 .. cut : c.order[j] \in Oldest(c, cut)
    BY <1>1, <1>2, <1>3, <2>5
  <2>8. /\ Evicts(c, Trimmed(c), Oldest(c, cut))
        /\ Len(Trimmed(c).order) <= n - cut
        /\ Trimmed(c).bytes = Less(c.bytes, Total(c, Oldest(c, cut)))
    <3>1. cut \in 0 .. Len(c.order)
      BY <1>1, <2>5
    <3> QED
      BY <3>1, <2>6, <2>7, EvictedFacts
  <2>9. Limits(Trimmed(c))
    <3>1. Len(Trimmed(c).order) \in Nat /\ cut \in Nat
      BY <1>1, <2>5, <2>8 DEF Evicts, Counted, Caches
    <3> QED
      BY <1>1, <2>5, <2>8, <3>1, PackNumbers DEF CacheFits, Limits
  <2> QED
    BY <2>8, <2>9
<1> QED
  BY <1>4, <1>5

\* Pruning evicts, and keeps the limits.
LEMMA PruningFacts ==
  ASSUME NEW c, Counted(c), NEW d \in Prunings(c)
  PROVE  Limits(d) /\ \E E : Evicts(c, d, E)
<1>1. PICK old \in SUBSET ToSet(c.order) : d = Trimmed(Evicted(c, old))
  BY DEF Prunings
<1>2. Evicts(c, Evicted(c, old), old)
  <2>1. 0 \in 0 .. Len(c.order) /\ \A j \in 1 .. 0 : c.order[j] \in old
    BY DEF Counted, Caches
  <2> QED
    BY <2>1, EvictedFacts
<1>3. Counted(Evicted(c, old))
  BY <1>2 DEF Evicts
<1>4. PICK E : Evicts(Evicted(c, old), d, E) /\ Limits(d)
  BY <1>1, <1>3, TrimmedFacts
<1> QED
  BY <1>2, <1>4, EvictsTwice


-----------------------------------------------------------------------------
(* What the handlers do to the invariant.                                   *)

\* An eviction keeps it.
LEMMA EvictFine ==
  ASSUME NEW c, NEW q, NEW w, NEW i, PackFine(c, q, w, i), NEW d, NEW E, Evicts(c, d, E)
  PROVE  PackFine(d, q, w, i)
<1>1. CountsOK(d, q)
  BY DEF PackFine, CountsOK, Evicts, Counted
<1>2. ASSUME NEW e \in Requests
      PROVE  /\ FileOK(d.file[e], e \in ToSet(d.order), ReadBy(q, e) # {}, q[e], w[e])
             /\ e \in ToSet(d.order) => w[e] = "done" /\ ~UsedOnce(q[e], w[e])
  <2>1. /\ FileOK(c.file[e], e \in ToSet(c.order), ReadBy(q, e) # {}, q[e], w[e])
        /\ e \in ToSet(c.order) => w[e] = "done" /\ ~UsedOnce(q[e], w[e])
    BY DEF PackFine, EntriesOK
  <2>2. CASE e \notin E
    <3>1. d.file[e] = c.file[e] /\ (e \in ToSet(d.order) <=> e \in ToSet(c.order))
      BY <2>2 DEF Evicts
    <3> QED
      BY <2>1, <3>1 DEF FileOK
  <2>3. CASE e \in E
    <3>1. e \in ToSet(c.order) /\ e \notin ToSet(d.order)
      BY <2>3 DEF Evicts
    <3>2. c.readers[e] = 0 <=> ReadBy(q, e) = {}
      BY FS_EmptySet DEF PackFine, CountsOK
    <3>3. d.file[e] = IF c.readers[e] = 0 THEN "removing" ELSE "evicted"
      BY <2>3 DEF Evicts
    <3> QED
      BY <2>1, <3>1, <3>2, <3>3 DEF FileOK
  <2> QED
    BY <2>2, <2>3
<1>3. Apart(d, q, w)
  BY DEF PackFine, Apart, Evicts
<1> QED
  BY <1>1, <1>2, <1>3 DEF PackFine, EntriesOK

\* A request moves on to s and its download to x, while the cache becomes d.
LEMMA Moved ==
  ASSUME NEW c, NEW q, NEW w, NEW i, PackFine(c, q, w, i),
         NEW r \in Requests, NEW s, NEW x, NEW j, NEW d,
         NEW p, p = [q EXCEPT ![r] = s], NEW v, v = [w EXCEPT ![r] = x],
         Stands(r, s, x), s.reads # None => v[s.reads] = "done",
         w[r] = "done" => x = "done" /\ s.key = q[r].key,
         InflightOK(p, v, j), CountsOK(d, p),
         \A e \in Requests \ {r} :
            /\ e \in ToSet(d.order) <=> e \in ToSet(c.order)
            /\ FileOK(d.file[e], e \in ToSet(c.order), ReadBy(p, e) # {}, q[e], w[e]),
         FileOK(d.file[r], r \in ToSet(d.order), ReadBy(p, r) # {}, s, x),
         r \in ToSet(d.order) => x = "done" /\ ~UsedOnce(s, x),
         Downloading(s, x) => \A e \in ToSet(c.order) : q[e].key # s.key,
         r \in ToSet(d.order) => 
            \/ r \in ToSet(c.order)
            \/ \A e \in Requests \ {r} : Downloading(q[e], w[e]) => q[e].key # s.key
  PROVE  PackFine(d, p, v, j)
<1>1. /\ q \in [Requests -> Records] /\ w \in [Requests -> Writers]
      /\ s \in Records /\ x \in Writers
  BY DEF PackFine, RequestsOK, Stands
<1>2. /\ p \in [Requests -> Records] /\ v \in [Requests -> Writers]
      /\ p[r] = s /\ v[r] = x /\ \A e \in Requests \ {r} : p[e] = q[e] /\ v[e] = w[e]
  BY <1>1
<1>3. RequestsOK(p, v)
  <2>1. \A e \in Requests : Stands(e, p[e], v[e])
    BY <1>2 DEF PackFine, RequestsOK
  <2>2. ASSUME NEW e \in Requests, p[e].reads # None PROVE v[p[e].reads] = "done"
    <3>1. CASE e = r
      BY <1>2, <2>2, <3>1
    <3>2. CASE e # r
      <4>1. w[q[e].reads] = "done" /\ q[e].reads \in Requests
        BY <1>1, <1>2, <2>2, <3>2 DEF PackFine, RequestsOK, Records
      <4> QED
        BY <1>2, <3>2, <4>1
    <3> QED
      BY <3>1, <3>2
  <2> QED
    BY <1>2, <2>1, <2>2 DEF RequestsOK
<1>4. EntriesOK(d, p, v)
  <2>1. ASSUME NEW e \in Requests
        PROVE  /\ FileOK(d.file[e], e \in ToSet(d.order), ReadBy(p, e) # {}, p[e], v[e])
               /\ e \in ToSet(d.order) => v[e] = "done" /\ ~UsedOnce(p[e], v[e])
    <3>1. CASE e = r
      BY <1>2, <3>1
    <3>2. CASE e # r
      <4>1. e \in ToSet(c.order) => w[e] = "done" /\ ~UsedOnce(q[e], w[e])
        BY DEF PackFine, EntriesOK
      <4> QED
        BY <1>2, <3>2, <4>1 DEF FileOK
    <3> QED
      BY <3>1, <3>2
  <2> QED
    BY <2>1 DEF EntriesOK
<1>5. Apart(d, p, v)
  <2> SUFFICES ASSUME NEW a \in Requests, Downloading(p[a], v[a]), NEW e \in ToSet(d.order)
               PROVE  p[e].key # p[a].key
    BY DEF Apart
  <2>1. e \in Requests
    BY EntriesFinite DEF CountsOK, Caches
  <2>2. CASE a = r
    <3>1. e # r
      BY <1>2, <2>2 DEF Stands, Downloading
    <3> QED
      BY <1>2, <2>1, <2>2, <3>1
  <2>3. CASE a # r /\ e # r
    BY <1>2, <2>1, <2>3 DEF PackFine, Apart
  <2>4. CASE a # r /\ e = r
    <3>1. CASE r \in ToSet(c.order)
      <4>1. w[r] = "done" /\ q[r].key # q[a].key
        BY <1>2, <2>4, <3>1 DEF PackFine, EntriesOK, Apart
      <4> QED
        BY <1>2, <2>4, <4>1
    <3>2. CASE r \notin ToSet(c.order)
      BY <1>2, <2>4, <3>2
    <3> QED
      BY <3>1, <3>2
  <2> QED
    BY <2>2, <2>3, <2>4
<1> QED
  BY <1>3, <1>4, <1>5 DEF PackFine

\* The download of a request keeps its key, if it has one.
LEMMA InflightKept ==
  ASSUME NEW q, NEW w, NEW i, RequestsOK(q, w), InflightOK(q, w, i),
         NEW r \in Requests, NEW s, NEW x, s \in Records, x \in Writers,
         Downloading(s, x) <=> Downloading(q[r], w[r]),
         Downloading(s, x) => s.key = q[r].key
  PROVE  InflightOK([q EXCEPT ![r] = s], [w EXCEPT ![r] = x], i)
<1>1. q \in [Requests -> Records] /\ w \in [Requests -> Writers]
  BY DEF RequestsOK
<1> DEFINE p == [q EXCEPT ![r] = s]
           v == [w EXCEPT ![r] = x]
<1>2. p[r] = s /\ v[r] = x /\ \A e \in Requests \ {r} : p[e] = q[e] /\ v[e] = w[e]
  BY <1>1
<1> HIDE DEF p, v
<1>3. ASSUME NEW a \in Requests
      PROVE  /\ Downloading(p[a], v[a]) <=> Downloading(q[a], w[a])
             /\ Downloading(p[a], v[a]) => p[a].key = q[a].key
  BY <1>2
<1>4. ASSUME NEW a \in Requests, Downloading(p[a], v[a]) PROVE i[p[a].key] = a
  BY <1>3, <1>4 DEF InflightOK
<1>5. ASSUME NEW k \in Keys, i[k] # None
      PROVE  Downloading(p[i[k]], v[i[k]]) /\ p[i[k]].key = k
  <2>1. i[k] \in Requests /\ Downloading(q[i[k]], w[i[k]]) /\ q[i[k]].key = k
    BY <1>5 DEF InflightOK
  <2> QED
    BY <1>3, <2>1
<1>6. i \in [Keys -> Requests \cup {None}]
  BY DEF InflightOK
<1>7. InflightOK(p, v, i)
  BY <1>4, <1>5, <1>6 DEF InflightOK
<1> QED
  BY <1>7 DEF p, v

Settled(i, k, r) == [i EXCEPT ![k] = IF @ = r THEN None ELSE @]

\* The key of a download that is over is free.
LEMMA InflightSettled ==
  ASSUME NEW q, NEW w, NEW i, RequestsOK(q, w), InflightOK(q, w, i),
         NEW r \in Requests, NEW s, NEW x, s \in Records, x \in Writers,
         ~Downloading(s, x)
  PROVE  InflightOK([q EXCEPT ![r] = s], [w EXCEPT ![r] = x], Settled(i, q[r].key, r))
<1>1. q \in [Requests -> Records] /\ w \in [Requests -> Writers]
      /\ i \in [Keys -> Requests \cup {None}]
  BY DEF RequestsOK, InflightOK
<1> DEFINE p == [q EXCEPT ![r] = s]
           v == [w EXCEPT ![r] = x]
           j == Settled(i, q[r].key, r)
<1>2. p[r] = s /\ v[r] = x /\ \A e \in Requests \ {r} : p[e] = q[e] /\ v[e] = w[e]
  BY <1>1
<1>3. /\ j \in [Keys -> Requests \cup {None}]
      /\ \A k \in Keys : j[k] = IF k = q[r].key /\ i[k] = r THEN None ELSE i[k]
  BY <1>1 DEF Settled
<1> HIDE DEF p, v, j
<1>4. ASSUME NEW a \in Requests, Downloading(p[a], v[a]) PROVE j[p[a].key] = a
  <2>1. a # r /\ p[a] = q[a] /\ v[a] = w[a]
    BY <1>2, <1>4
  <2>2. i[q[a].key] = a
    BY <1>4, <2>1 DEF InflightOK
  <2>3. q[a].key \in Keys
    <3>1. Stands(a, q[a], w[a])
      BY DEF RequestsOK
    <3> QED
      BY <1>4, <2>1, <3>1 DEF Stands, Downloading
  <2> QED
    BY <1>3, <2>1, <2>2, <2>3
<1>5. ASSUME NEW k \in Keys, j[k] # None
      PROVE  Downloading(p[j[k]], v[j[k]]) /\ p[j[k]].key = k
  <2>1. j[k] = i[k] /\ i[k] \in Requests
    BY <1>1, <1>3, <1>5
  <2>2. Downloading(q[i[k]], w[i[k]]) /\ q[i[k]].key = k
    BY <1>5, <2>1 DEF InflightOK
  <2>3. i[k] # r
    BY <1>3, <1>5, <2>2, PackNumbers
  <2> QED
    BY <1>2, <2>1, <2>2, <2>3
<1>6. InflightOK(p, v, j)
  BY <1>3, <1>4, <1>5 DEF InflightOK
<1> QED
  BY <1>6 DEF p, v, j

\* A free key is taken.
LEMMA InflightTaken ==
  ASSUME NEW q, NEW w, NEW i, RequestsOK(q, w), InflightOK(q, w, i),
         NEW r \in Requests, NEW s, NEW x, s \in Records, x \in Writers,
         ~Downloading(q[r], w[r]), Downloading(s, x), s.key \in Keys, i[s.key] = None
  PROVE  InflightOK([q EXCEPT ![r] = s], [w EXCEPT ![r] = x], [i EXCEPT ![s.key] = r])
<1>1. q \in [Requests -> Records] /\ w \in [Requests -> Writers]
      /\ i \in [Keys -> Requests \cup {None}]
  BY DEF RequestsOK, InflightOK
<1> DEFINE p == [q EXCEPT ![r] = s]
           v == [w EXCEPT ![r] = x]
           j == [i EXCEPT ![s.key] = r]
<1>2. p[r] = s /\ v[r] = x /\ \A e \in Requests \ {r} : p[e] = q[e] /\ v[e] = w[e]
  BY <1>1
<1>3. /\ j \in [Keys -> Requests \cup {None}]
      /\ \A k \in Keys : j[k] = IF k = s.key THEN r ELSE i[k]
  BY <1>1
<1> HIDE DEF p, v, j
<1>4. ASSUME NEW a \in Requests, Downloading(p[a], v[a]) PROVE j[p[a].key] = a
  <2>1. CASE a = r
    BY <1>2, <1>3, <2>1
  <2>2. CASE a # r
    <3>1. Downloading(q[a], w[a]) /\ p[a] = q[a]
      BY <1>2, <1>4, <2>2
    <3>2. i[q[a].key] = a
      BY <3>1 DEF InflightOK
    <3>3. q[a].key \in Keys
      <4>1. Stands(a, q[a], w[a])
        BY DEF RequestsOK
      <4> QED
        BY <3>1, <4>1 DEF Stands, Downloading
    <3> QED
      BY <1>3, <3>1, <3>2, <3>3, PackNumbers
  <2> QED
    BY <2>1, <2>2
<1>5. ASSUME NEW k \in Keys, j[k] # None
      PROVE  Downloading(p[j[k]], v[j[k]]) /\ p[j[k]].key = k
  <2>1. CASE k = s.key
    BY <1>2, <1>3, <2>1
  <2>2. CASE k # s.key
    <3>1. j[k] = i[k] /\ i[k] \in Requests
      BY <1>1, <1>3, <1>5, <2>2
    <3>2. Downloading(q[i[k]], w[i[k]]) /\ q[i[k]].key = k
      BY <1>5, <3>1 DEF InflightOK
    <3>3. i[k] # r
      BY <3>2
    <3> QED
      BY <1>2, <3>1, <3>2, <3>3
  <2> QED
    BY <2>1, <2>2
<1>6. InflightOK(p, v, j)
  BY <1>3, <1>4, <1>5 DEF InflightOK
<1> QED
  BY <1>6 DEF p, v, j

\* A request moves on and the file of its download becomes f; what it reads
\* stays the same.
LEMMA MovedFile ==
  ASSUME NEW c, NEW q, NEW w, NEW i, PackFine(c, q, w, i),
         NEW r \in Requests, NEW s, NEW x, NEW j,
         NEW f \in {"none", "there", "evicted", "removing"},
         Stands(r, s, x), s.reads = q[r].reads,
         w[r] = "done" => x = "done" /\ s.key = q[r].key,
         InflightOK([q EXCEPT ![r] = s], [w EXCEPT ![r] = x], j),
         FileOK(f, r \in ToSet(c.order), ReadBy(q, r) # {}, s, x),
         r \in ToSet(c.order) => ~UsedOnce(s, x),
         Downloading(s, x) => \A e \in ToSet(c.order) : q[e].key # s.key
  PROVE  PackFine([c EXCEPT !.file[r] = f], [q EXCEPT ![r] = s], [w EXCEPT ![r] = x], j)
<1> DEFINE p == [q EXCEPT ![r] = s]
           v == [w EXCEPT ![r] = x]
           d == [c EXCEPT !.file[r] = f]
<1>1. q \in [Requests -> Records] /\ w \in [Requests -> Writers] /\ c \in Caches
  BY DEF PackFine, RequestsOK, CountsOK
<1>2. \A e \in Requests : ReadBy(p, e) = ReadBy(q, e)
  BY <1>1 DEF ReadBy
<1>3. /\ d \in Caches /\ d.order = c.order /\ d.bytes = c.bytes /\ d.size = c.size
      /\ d.readers = c.readers /\ d.file[r] = f
      /\ \A e \in Requests \ {r} : d.file[e] = c.file[e]
  BY <1>1 DEF Caches
<1>4. v[r] = x /\ \A e \in Requests \ {r} : v[e] = w[e]
  BY <1>1
<1> HIDE DEF p, v, d
<1>5. Total(d, ToSet(d.order)) = Total(c, ToSet(c.order))
  <2>1. \A e \in ToSet(c.order) : d.size[e] = c.size[e]
    BY <1>3
  <2>2. Total(d, ToSet(c.order)) = Total(c, ToSet(c.order))
    BY <2>1, TotalSame
  <2> QED
    BY <1>3, <2>2
<1>6. CountsOK(d, p)
  BY <1>2, <1>3, <1>5 DEF PackFine, CountsOK
<1>7. s.reads # None => v[s.reads] = "done"
  <2> SUFFICES ASSUME s.reads # None PROVE v[s.reads] = "done"
    OBVIOUS
  <2>1. s.reads \in Requests /\ w[s.reads] = "done"
    BY <1>1 DEF PackFine, RequestsOK, Records
  <2> QED
    BY <1>4, <2>1
<1>8. ASSUME NEW e \in Requests \ {r}
      PROVE  FileOK(d.file[e], e \in ToSet(c.order), ReadBy(p, e) # {}, q[e], w[e])
  BY <1>2, <1>3 DEF PackFine, EntriesOK
<1>9. FileOK(d.file[r], r \in ToSet(d.order), ReadBy(p, r) # {}, s, x)
  BY <1>2, <1>3
<1>10. r \in ToSet(c.order) => x = "done"
  BY DEF PackFine, EntriesOK
<1>11. InflightOK(p, v, j)
  BY DEF p, v
<1>12. PackFine(d, p, v, j)
  <2>1. p = [q EXCEPT ![r] = s] /\ v = [w EXCEPT ![r] = x]
    BY DEF p, v
  <2>2. r \in ToSet(d.order) => x = "done" /\ ~UsedOnce(s, x)
    BY <1>3, <1>10
  <2>3. r \in ToSet(d.order) => r \in ToSet(c.order)
    BY <1>3
  <2>4. \A e \in Requests \ {r} : e \in ToSet(d.order) <=> e \in ToSet(c.order)
    BY <1>3
  <2> HIDE DEF Stands, Downloading, UsedOnce, FileOK
  <2> QED
    BY <1>6, <1>7, <1>8, <1>9, <1>11, <2>1, <2>2, <2>3, <2>4, Moved
<1> QED
  BY <1>12 DEF p, v, d

\* The same, while the download goes on, or none begins or ends.
LEMMA Stays ==
  ASSUME NEW c, NEW q, NEW w, NEW i, PackFine(c, q, w, i),
         NEW r \in Requests, NEW s, NEW x,
         NEW f \in {"none", "there", "evicted", "removing"},
         Stands(r, s, x), s.reads = q[r].reads, s.key = q[r].key,
         w[r] = "done" => x = "done",
         Downloading(s, x) <=> Downloading(q[r], w[r]),
         FileOK(f, r \in ToSet(c.order), ReadBy(q, r) # {}, s, x),
         r \in ToSet(c.order) => ~UsedOnce(s, x)
  PROVE  PackFine([c EXCEPT !.file[r] = f], [q EXCEPT ![r] = s], [w EXCEPT ![r] = x], i)
<1>1. s \in Records /\ x \in Writers
  BY DEF Stands
<1>2. InflightOK([q EXCEPT ![r] = s], [w EXCEPT ![r] = x], i)
  BY <1>1, InflightKept DEF PackFine
<1>3. Downloading(s, x) => \A e \in ToSet(c.order) : q[e].key # s.key
  BY DEF PackFine, Apart
<1> QED
  BY <1>2, <1>3, MovedFile

\* The same, at the end of a download.
LEMMA Settles ==
  ASSUME NEW c, NEW q, NEW w, NEW i, PackFine(c, q, w, i),
         NEW r \in Requests, NEW s, NEW x,
         NEW f \in {"none", "there", "evicted", "removing"},
         Stands(r, s, x), s.reads = q[r].reads, s.key = q[r].key,
         w[r] = "done" => x = "done", ~Downloading(s, x),
         FileOK(f, r \in ToSet(c.order), ReadBy(q, r) # {}, s, x),
         r \in ToSet(c.order) => ~UsedOnce(s, x)
  PROVE  PackFine([c EXCEPT !.file[r] = f], [q EXCEPT ![r] = s], [w EXCEPT ![r] = x],
                  Settled(i, q[r].key, r))
<1>1. s \in Records /\ x \in Writers
  BY DEF Stands
<1>2. InflightOK([q EXCEPT ![r] = s], [w EXCEPT ![r] = x], Settled(i, q[r].key, r))
  BY <1>1, InflightSettled DEF PackFine
<1> QED
  BY <1>2, MovedFile

\* A request that has found an entry of its key reads it.
LEMMA ReaderAdded ==
  ASSUME NEW c, NEW q, NEW w, NEW i, PackFine(c, q, w, i), Limits(c),
         NEW r \in Requests, NEW s, w[r] = "none", q[r].reads = None,
         ~Downloading(q[r], w[r]),
         NEW e \in ToSet(c.order), s.reads = e, Stands(r, s, "none"),
         ~Downloading(s, "none")
  PROVE  /\ PackFine(acquireCached(c, e), [q EXCEPT ![r] = s], w, i)
         /\ Limits(acquireCached(c, e))
<1> DEFINE d == acquireCached(c, e)
           p == [q EXCEPT ![r] = s]
           rest == OrderWithout(c.order, {e})
<1>1. q \in [Requests -> Records] /\ w \in [Requests -> Writers] /\ c \in Caches /\ s \in Records
  BY DEF PackFine, RequestsOK, CountsOK, Stands
<1>2. e \in Requests /\ e # r /\ w[e] = "done"
  BY <1>1, EntriesFinite DEF PackFine, EntriesOK, Caches
<1>3. c.order \in Seq(Requests) /\ Len(c.order) \in Nat /\ c.readers \in [Requests -> Nat]
  BY <1>1 DEF Caches
<1>4. PICK m \in 1 .. Len(c.order) : c.order[m] = e
  BY <1>3 DEF ToSet
<1>5. /\ rest \in Seq(Requests) /\ ToSet(rest) = ToSet(c.order) \ {e}
      /\ Len(rest) <= Len(c.order) - 1
  <2>1. /\ OrderWithout(c.order, {c.order[m]}) \in Seq(Requests)
        /\ ToSet(OrderWithout(c.order, {c.order[m]})) = ToSet(c.order) \ {c.order[m]}
        /\ Len(OrderWithout(c.order, {c.order[m]})) <= Len(c.order) - 1
    BY <1>3, WithoutOne
  <2> QED
    BY <1>4, <2>1
<1>6. /\ Append(rest, e) \in Seq(Requests) /\ ToSet(Append(rest, e)) = ToSet(c.order)
      /\ Len(Append(rest, e)) <= Len(c.order)
  <2>1. /\ Append(rest, e) \in Seq(Requests) /\ Len(Append(rest, e)) = Len(rest) + 1
        /\ ToSet(Append(rest, e)) = ToSet(rest) \cup {e}
    <3> HIDE DEF rest
    <3> QED
      BY <1>2, <1>5, SetAppend
  <2>2. Len(rest) \in Nat
    BY <1>5
  <2>3. Len(Append(rest, e)) <= Len(c.order)
    <3> HIDE DEF rest
    <3> QED
      BY <1>3, <1>5, <2>1, <2>2
  <2>4. ToSet(rest) \cup {e} = ToSet(c.order)
    BY <1>5
  <2> QED
    BY <2>1, <2>3, <2>4
<1>7. /\ d \in Caches /\ d.order = Append(rest, e) /\ d.bytes = c.bytes /\ d.size = c.size
      /\ d.readers[e] = c.readers[e] + 1 /\ d.file = c.file
      /\ \A a \in Requests \ {e} : d.readers[a] = c.readers[a]
  <2> DEFINE order == Append(rest, e)
  <2>1. d = [c EXCEPT !.order = order, !.readers[e] = @ + 1]
    BY DEF acquireCached
  <2>2. order \in Seq(Requests)
    BY <1>6
  <2> DEFINE readers == [c.readers EXCEPT ![e] = @ + 1]
  <2>3. readers \in [Requests -> Nat] /\ readers[e] = c.readers[e] + 1
        /\ \A a \in Requests \ {e} : readers[a] = c.readers[a]
    BY <1>2, <1>3
  <2>4. c = [order |-> c.order, bytes |-> c.bytes, size |-> c.size,
             readers |-> c.readers, file |-> c.file]
    BY <1>1 DEF Caches
  <2> HIDE DEF order, d, rest
  <2>5. d = [order |-> order, bytes |-> c.bytes, size |-> c.size,
             readers |-> readers, file |-> c.file]
    BY <2>1, <2>4
  <2> HIDE DEF readers
  <2> QED
    BY <1>1, <2>2, <2>3, <2>5 DEF Caches, order
<1>8. p[r] = s /\ \A a \in Requests \ {r} : p[a] = q[a]
  BY <1>1
<1> HIDE DEF d, p, rest
<1>9. /\ ReadBy(p, e) = ReadBy(q, e) \cup {r} /\ r \notin ReadBy(q, e)
      /\ \A a \in Requests \ {e} : ReadBy(p, a) = ReadBy(q, a)
  BY <1>2, <1>8, PackNumbers DEF ReadBy
<1>10. CountsOK(d, p)
  <2>1. Total(d, ToSet(d.order)) = Total(c, ToSet(c.order))
    <3>1. \A a \in ToSet(c.order) : d.size[a] = c.size[a]
      BY <1>7
    <3>2. Total(d, ToSet(c.order)) = Total(c, ToSet(c.order))
      BY <3>1, TotalSame
    <3> QED
      BY <1>6, <1>7, <3>2
  <2>2. IsFiniteSet(ReadBy(q, e)) /\ c.readers[e] = Cardinality(ReadBy(q, e))
    BY <1>2 DEF PackFine, CountsOK
  <2>3. IsFiniteSet(ReadBy(p, e)) /\ Cardinality(ReadBy(p, e)) = Cardinality(ReadBy(q, e)) + 1
    BY <1>9, <2>2, FS_AddElement
  <2>4. ASSUME NEW a \in Requests
        PROVE  IsFiniteSet(ReadBy(p, a)) /\ d.readers[a] = Cardinality(ReadBy(p, a))
    <3>1. CASE a = e
      BY <1>7, <2>2, <2>3, <3>1
    <3>2. CASE a # e
      BY <1>7, <1>9, <3>2 DEF PackFine, CountsOK
    <3> QED
      BY <3>1, <3>2
  <2> QED
    BY <1>7, <2>1, <2>4 DEF PackFine, CountsOK
<1>11. InflightOK(p, [w EXCEPT ![r] = "none"], i)
  BY <1>1, InflightKept DEF PackFine, p, Stands
<1>12. w = [w EXCEPT ![r] = "none"]
  BY <1>1
<1>13. ASSUME NEW a \in Requests \ {r}
       PROVE  /\ a \in ToSet(d.order) <=> a \in ToSet(c.order)
              /\ FileOK(d.file[a], a \in ToSet(c.order), ReadBy(p, a) # {}, q[a], w[a])
  <2>1. /\ FileOK(c.file[a], a \in ToSet(c.order), ReadBy(q, a) # {}, q[a], w[a])
    BY DEF PackFine, EntriesOK
  <2> QED
    BY <1>6, <1>7, <1>9, <2>1 DEF FileOK
<1>14. r \notin ToSet(c.order)
  BY DEF PackFine, EntriesOK
<1>15. FileOK(d.file[r], r \in ToSet(d.order), ReadBy(p, r) # {}, s, "none")
  <2>1. FileOK(c.file[r], r \in ToSet(c.order), ReadBy(q, r) # {}, q[r], w[r])
    BY DEF PackFine, EntriesOK
  <2> QED
    BY <1>2, <1>6, <1>7, <1>9, <2>1 DEF FileOK, UsedOnce
<1>16. PackFine(d, p, w, i)
  <2> DEFINE v == [w EXCEPT ![r] = "none"]
  <2>1. p = [q EXCEPT ![r] = s] /\ v = [w EXCEPT ![r] = "none"]
    BY DEF p
  <2>2. v = w
    BY <1>12
  <2>3. InflightOK(p, v, i)
    BY <1>11
  <2> HIDE DEF v
  <2>4. r \notin ToSet(d.order)
    BY <1>6, <1>7, <1>14
  <2>5. v[s.reads] = "done"
    BY <1>2, <2>2
  <2>6. PackFine(d, p, v, i)
    BY <1>10, <1>13, <1>15, <2>1, <2>3, <2>4, <2>5, Moved
  <2> QED
    BY <2>2, <2>6
<1>17. Limits(d)
  <2>1. Len(d.order) <= Len(c.order) /\ Len(d.order) \in Nat
    BY <1>6, <1>7
  <2> QED
    BY <1>3, <1>7, <2>1, PackNumbers DEF Limits
<1> QED
  BY <1>16, <1>17 DEF d, p

\* A download that is whole becomes an entry, with its request as reader.
LEMMA RetainedFine ==
  ASSUME NEW c, NEW q, NEW w, NEW i, PackFine(c, q, w, i),
         NEW r \in Requests, NEW s, w[r] = "writing", s.reads = r, s.key = q[r].key,
         Stands(r, s, "done"), ~Downloading(s, "done"), NEW bytes \in 1 .. MaxBytes
  PROVE  /\ PackFine(Retained(c, r, bytes), [q EXCEPT ![r] = s], [w EXCEPT ![r] = "done"],
                     Settled(i, q[r].key, r))
         /\ Limits(Retained(c, r, bytes))
<1> DEFINE d == [c EXCEPT !.order = Append(@, r), !.bytes = @ + bytes,
                          !.size[r] = bytes, !.readers[r] = 1]
           p == [q EXCEPT ![r] = s]
           v == [w EXCEPT ![r] = "done"]
           j == Settled(i, q[r].key, r)
<1>1. q \in [Requests -> Records] /\ w \in [Requests -> Writers] /\ c \in Caches /\ s \in Records
  BY DEF PackFine, RequestsOK, CountsOK, Stands
<1>2. c.order \in Seq(Requests) /\ c.readers \in [Requests -> Nat]
      /\ c.size \in [Requests -> 0 .. MaxBytes] /\ c.bytes \in Nat
  BY <1>1 DEF Caches
<1>3. /\ Append(c.order, r) \in Seq(Requests)
      /\ ToSet(Append(c.order, r)) = ToSet(c.order) \cup {r}
  BY <1>2, SetAppend
<1>4. bytes \in Nat /\ bytes \in 0 .. MaxBytes
  BY PackNumbers
<1>5. /\ d \in Caches /\ d.order = Append(c.order, r) /\ d.bytes = c.bytes + bytes
      /\ d.size[r] = bytes /\ d.readers[r] = 1 /\ d.file = c.file
      /\ \A a \in Requests \ {r} : d.readers[a] = c.readers[a] /\ d.size[a] = c.size[a]
  <2> DEFINE order == Append(c.order, r)
             total == c.bytes + bytes
             readers == [c.readers EXCEPT ![r] = 1]
             size == [c.size EXCEPT ![r] = bytes]
  <2>1. c = [order |-> c.order, bytes |-> c.bytes, size |-> c.size,
             readers |-> c.readers, file |-> c.file]
    BY <1>1 DEF Caches
  <2>2. d = [order |-> order, bytes |-> total, size |-> size,
             readers |-> readers, file |-> c.file]
    <3>1. d = [c EXCEPT !.order = order, !.bytes = total, !.size = size, !.readers = readers]
      OBVIOUS
    <3> HIDE DEF order, total, readers, size, d
    <3> QED
      BY <2>1, <3>1
  <2>3. readers \in [Requests -> Nat] /\ readers[r] = 1
        /\ \A a \in Requests \ {r} : readers[a] = c.readers[a]
    BY <1>2
  <2>4. size \in [Requests -> 0 .. MaxBytes] /\ size[r] = bytes
        /\ \A a \in Requests \ {r} : size[a] = c.size[a]
    BY <1>2, <1>4
  <2>5. total \in Nat /\ order \in Seq(Requests)
    BY <1>2, <1>3, <1>4
  <2>6. c.file \in [Requests -> {"none", "there", "evicted", "removing"}]
    BY <1>1 DEF Caches
  <2> HIDE DEF order, total, readers, size, d
  <2>7. /\ d.order = order /\ d.bytes = total /\ d.size = size
        /\ d.readers = readers /\ d.file = c.file
    BY <2>2
  <2>8. d \in Caches
    BY <2>2, <2>3, <2>4, <2>5, <2>6 DEF Caches
  <2> QED
    BY <2>3, <2>4, <2>7, <2>8 DEF order, total
<1>6. p[r] = s /\ \A a \in Requests \ {r} : p[a] = q[a]
  BY <1>1
<1>7. v[r] = "done"
  BY <1>1
<1>8. Retained(c, r, bytes) = Trimmed(d)
  BY DEF Retained
<1>9. InflightOK(p, v, j)
  BY <1>1, InflightSettled DEF PackFine, Writers
<1>10. p = [q EXCEPT ![r] = s] /\ v = [w EXCEPT ![r] = "done"]
  OBVIOUS
<1>11. j = Settled(i, q[r].key, r)
  OBVIOUS
<1> HIDE DEF d, p, v, j
<1>12. r \notin ToSet(c.order) /\ c.file[r] = "there"
  BY DEF PackFine, EntriesOK, FileOK
<1>13. \A a \in Requests : q[a].reads # r
  BY PackNumbers DEF PackFine, RequestsOK
<1>14. q[r].reads = None /\ Downloading(q[r], w[r])
  BY <1>13 DEF PackFine, RequestsOK, Stands, Downloading
<1>15. ReadBy(q, r) = {} /\ ReadBy(p, r) = {r}
       /\ \A a \in Requests \ {r} : ReadBy(p, a) = ReadBy(q, a)
  BY <1>6, <1>13, <1>14, PackNumbers DEF ReadBy
<1>16. Total(d, ToSet(d.order)) = d.bytes
  <2>1. IsFiniteSet(ToSet(c.order)) /\ IsFiniteSet({r}) /\ ToSet(c.order) \cap {r} = {}
        /\ ToSet(c.order) \subseteq Requests
    <3>1. IsFiniteSet(ToSet(c.order)) /\ ToSet(c.order) \subseteq Requests
      BY <1>2, EntriesFinite
    <3> QED
      BY <1>12, <3>1, FS_Singleton
  <2>2. /\ Total(d, ToSet(c.order) \cup {r}) = Total(d, ToSet(c.order)) + Total(d, {r})
    BY <2>1, TotalSplit
  <2>3. Total(d, {r}) = bytes
    <3>1. d.size[r] \in 0 .. MaxBytes
      BY <1>4, <1>5
    <3>2. Total(d, {r}) = d.size[r]
      BY <3>1, TotalOne
    <3> QED
      BY <1>5, <3>2
  <2>4. Total(d, ToSet(c.order)) = c.bytes
    <3>1. \A a \in ToSet(c.order) : d.size[a] = c.size[a]
      BY <1>5, <1>12, <2>1
    <3>2. Total(d, ToSet(c.order)) = Total(c, ToSet(c.order))
      BY <3>1, TotalSame
    <3> QED
      BY <3>2 DEF PackFine, CountsOK
  <2> QED
    BY <1>3, <1>5, <2>2, <2>3, <2>4
<1>17. CountsOK(d, p)
  <2>1. ASSUME NEW a \in Requests
        PROVE  IsFiniteSet(ReadBy(p, a)) /\ d.readers[a] = Cardinality(ReadBy(p, a))
    <3>1. CASE a = r
      <4>1. IsFiniteSet({r}) /\ Cardinality({r}) = 1
        BY FS_Singleton
      <4>2. d.readers[a] = 1 /\ ReadBy(p, a) = {r}
        BY <1>5, <1>15, <3>1
      <4> QED
        BY <4>1, <4>2
    <3>2. CASE a # r
      BY <1>5, <1>15, <3>2 DEF PackFine, CountsOK
    <3> QED
      BY <3>1, <3>2
  <2> QED
    BY <1>5, <1>16, <2>1 DEF CountsOK
<1>18. ASSUME NEW a \in Requests \ {r}
       PROVE  /\ a \in ToSet(d.order) <=> a \in ToSet(c.order)
              /\ FileOK(d.file[a], a \in ToSet(c.order), ReadBy(p, a) # {}, q[a], w[a])
  <2>1. FileOK(c.file[a], a \in ToSet(c.order), ReadBy(q, a) # {}, q[a], w[a])
    BY DEF PackFine, EntriesOK
  <2>2. ToSet(d.order) = ToSet(c.order) \cup {r}
    BY <1>3, <1>5
  <2> QED
    BY <1>5, <1>15, <2>1, <2>2
<1>19. r \in ToSet(d.order)
  BY <1>3, <1>5
<1>20. ~UsedOnce(s, "done")
  BY PackNumbers DEF UsedOnce
<1>21. FileOK(d.file[r], r \in ToSet(d.order), ReadBy(p, r) # {}, s, "done")
  BY <1>5, <1>12, <1>19 DEF FileOK
<1>22. ASSUME NEW a \in Requests \ {r}, Downloading(q[a], w[a]) PROVE q[a].key # s.key
  BY <1>14, <1>22 DEF PackFine, InflightOK
<1>23. PackFine(d, p, v, j)
  <2>1. v[s.reads] = "done"
    BY <1>7
  <2> QED
    BY <1>9, <1>10, <1>17, <1>18, <1>19, <1>20, <1>21, <1>22, <2>1, Moved
<1>24. Counted(d)
  BY <1>23 DEF PackFine, CountsOK, Counted
<1>25. PackFine(Trimmed(d), p, v, j) /\ Limits(Trimmed(d))
  BY <1>23, <1>24, TrimmedFacts, EvictFine
<1> QED
  BY <1>8, <1>25 DEF p, v, j

\* A reader is done with its entry.
LEMMA ReaderRemoved ==
  ASSUME NEW c, NEW q, NEW w, NEW i, PackFine(c, q, w, i),
         NEW r \in Requests, NEW e, e = q[r].reads, e # None,
         NEW s, s.reads = None, s.key = q[r].key, s.stage = "done", Stands(r, s, w[r])
  PROVE  PackFine(Unread([c EXCEPT !.readers[e] = Less(@, 1)], e), [q EXCEPT ![r] = s], w,
                  Settled(i, q[r].key, r))
<1> DEFINE b == [c EXCEPT !.readers[e] = Less(@, 1)]
           d == Unread(b, e)
           p == [q EXCEPT ![r] = s]
           v == [w EXCEPT ![r] = w[r]]
           j == Settled(i, q[r].key, r)
<1>1. q \in [Requests -> Records] /\ w \in [Requests -> Writers] /\ c \in Caches /\ s \in Records
  BY DEF PackFine, RequestsOK, CountsOK, Stands
<1>2. /\ c.readers \in [Requests -> Nat]
      /\ c.file \in [Requests -> {"none", "there", "evicted", "removing"}]
  BY <1>1 DEF Caches
<1>3. e \in Requests /\ w[e] = "done"
  BY <1>1 DEF PackFine, RequestsOK, Records
<1>4. Stands(r, q[r], w[r])
  BY DEF PackFine, RequestsOK
<1>5. ~Downloading(s, w[r]) /\ ~Downloading(q[r], w[r])
  BY <1>3, <1>4 DEF Stands, Downloading
<1>6. p[r] = s /\ \A a \in Requests \ {r} : p[a] = q[a]
  BY <1>1
<1>7. v = w
  BY <1>1
<1>8. InflightOK(p, v, j)
  BY <1>1, <1>5, InflightSettled DEF PackFine
<1>9. p = [q EXCEPT ![r] = s] /\ v = [w EXCEPT ![r] = w[r]]
  OBVIOUS
<1>10. ReadBy(p, e) = ReadBy(q, e) \ {r} /\ r \in ReadBy(q, e)
       /\ \A a \in Requests \ {e} : ReadBy(p, a) = ReadBy(q, a)
  BY <1>3, <1>6, PackNumbers DEF ReadBy
<1>11. /\ IsFiniteSet(ReadBy(p, e)) /\ Cardinality(ReadBy(p, e)) \in Nat
       /\ c.readers[e] = Cardinality(ReadBy(p, e)) + 1
  <2>1. IsFiniteSet(ReadBy(q, e)) /\ c.readers[e] = Cardinality(ReadBy(q, e))
    BY <1>3 DEF PackFine, CountsOK
  <2>2. IsFiniteSet(ReadBy(p, e)) /\ Cardinality(ReadBy(p, e)) = Cardinality(ReadBy(q, e)) - 1
    <3>1. r \in ReadBy(q, e)
      BY <1>10
    <3>2. IsFiniteSet(ReadBy(q, e) \ {r})
          /\ Cardinality(ReadBy(q, e) \ {r}) = Cardinality(ReadBy(q, e)) - 1
      BY <2>1, <3>1, FS_RemoveElement
    <3>3. ReadBy(p, e) = ReadBy(q, e) \ {r}
      BY <1>10
    <3> QED
      BY <3>2, <3>3
  <2>3. Cardinality(ReadBy(p, e)) \in Nat /\ Cardinality(ReadBy(q, e)) \in Nat
    BY <2>1, <2>2, FS_CardinalityType
  <2> QED
    BY <2>1, <2>2, <2>3
<1>12. /\ b \in Caches /\ b.order = c.order /\ b.bytes = c.bytes /\ b.size = c.size
       /\ b.file = c.file /\ b.readers[e] = Cardinality(ReadBy(p, e))
       /\ \A a \in Requests \ {e} : b.readers[a] = c.readers[a]
  <2> DEFINE n == Less(c.readers[e], 1)
             readers == [c.readers EXCEPT ![e] = n]
  <2>1. n = Cardinality(ReadBy(p, e)) /\ n \in Nat
    <3> DEFINE m == Cardinality(ReadBy(p, e))
    <3>1. m \in Nat /\ c.readers[e] = m + 1
      BY <1>11
    <3> HIDE DEF m, p
    <3>2. n = m
      BY <3>1 DEF Less
    <3> QED
      BY <3>1, <3>2 DEF m
  <2>2. readers \in [Requests -> Nat] /\ readers[e] = n
        /\ \A a \in Requests \ {e} : readers[a] = c.readers[a]
    BY <1>2, <1>3, <2>1
  <2>3. c = [order |-> c.order, bytes |-> c.bytes, size |-> c.size,
             readers |-> c.readers, file |-> c.file]
    BY <1>1 DEF Caches
  <2>4. b = [order |-> c.order, bytes |-> c.bytes, size |-> c.size,
             readers |-> readers, file |-> c.file]
    BY <2>3
  <2> HIDE DEF b, n, readers, p
  <2>5. b \in Caches
    BY <1>1, <2>2, <2>4 DEF Caches
  <2> QED
    BY <2>1, <2>2, <2>4, <2>5
<1>13. /\ d \in Caches /\ d.order = c.order /\ d.bytes = c.bytes /\ d.size = c.size
       /\ d.readers = b.readers
       /\ d.file[e] = (IF c.file[e] = "evicted" /\ b.readers[e] = 0 THEN "removing" ELSE c.file[e])
       /\ \A a \in Requests \ {e} : d.file[a] = c.file[a]
  <2> HIDE DEF b
  <2>1. CASE b.file[e] = "evicted" /\ b.readers[e] = 0
    <3> DEFINE file == [b.file EXCEPT ![e] = "removing"]
    <3>1. /\ file \in [Requests -> {"none", "there", "evicted", "removing"}]
          /\ file[e] = "removing" /\ \A a \in Requests \ {e} : file[a] = b.file[a]
      BY <1>2, <1>3, <1>12
    <3>2. b = [order |-> b.order, bytes |-> b.bytes, size |-> b.size,
               readers |-> b.readers, file |-> b.file]
      BY <1>12 DEF Caches
    <3>3. d = [order |-> b.order, bytes |-> b.bytes, size |-> b.size,
               readers |-> b.readers, file |-> file]
      BY <2>1, <3>2 DEF Unread
    <3> HIDE DEF d, file
    <3>4. d \in Caches
      BY <1>12, <3>1, <3>3 DEF Caches
    <3> QED
      BY <1>12, <2>1, <3>1, <3>3, <3>4
  <2>2. CASE ~(b.file[e] = "evicted" /\ b.readers[e] = 0)
    <3>1. d = b
      BY <2>2 DEF Unread
    <3> QED
      BY <1>12, <2>2, <3>1
  <2> QED
    BY <2>1, <2>2
<1> HIDE DEF b, d, p, v, j
<1>14. CountsOK(d, p)
  <2>1. Total(d, ToSet(d.order)) = d.bytes
    <3>1. \A a \in ToSet(c.order) : d.size[a] = c.size[a]
      BY <1>13
    <3>2. Total(d, ToSet(c.order)) = Total(c, ToSet(c.order))
      BY <3>1, TotalSame
    <3> QED
      BY <1>13, <3>2 DEF PackFine, CountsOK
  <2>2. ASSUME NEW a \in Requests
        PROVE  IsFiniteSet(ReadBy(p, a)) /\ d.readers[a] = Cardinality(ReadBy(p, a))
    <3>1. CASE a = e
      BY <1>11, <1>12, <1>13, <3>1
    <3>2. CASE a # e
      BY <1>10, <1>12, <1>13, <3>2 DEF PackFine, CountsOK
    <3> QED
      BY <3>1, <3>2
  <2> QED
    BY <1>13, <2>1, <2>2 DEF CountsOK
<1>15. ASSUME NEW a \in Requests
       PROVE  FileOK(d.file[a], a \in ToSet(c.order), ReadBy(p, a) # {}, q[a], w[a])
  <2>1. FileOK(c.file[a], a \in ToSet(c.order), ReadBy(q, a) # {}, q[a], w[a])
    BY DEF PackFine, EntriesOK
  <2>2. CASE a # e
    BY <1>10, <1>13, <2>1, <2>2
  <2>3. CASE a = e
    <3>1. d.readers[e] = 0 <=> ReadBy(p, e) = {}
      BY <1>11, <1>12, <1>13, FS_EmptySet
    <3> QED
      BY <1>10, <1>13, <2>1, <2>3, <3>1 DEF FileOK
  <2> QED
    BY <2>2, <2>3
<1>16. ~UsedOnce(q[r], w[r]) /\ ~UsedOnce(s, w[r])
  BY DEF UsedOnce
<1>17. FileOK(d.file[r], r \in ToSet(d.order), ReadBy(p, r) # {}, s, w[r])
  BY <1>13, <1>15, <1>16 DEF FileOK
<1>18. r \in ToSet(d.order) => w[r] = "done" /\ ~UsedOnce(s, w[r]) /\ r \in ToSet(c.order)
  BY <1>13, <1>16 DEF PackFine, EntriesOK
<1>19. \A a \in Requests \ {r} : a \in ToSet(d.order) <=> a \in ToSet(c.order)
  BY <1>13
<1>20. PackFine(d, p, v, j)
  BY <1>5, <1>8, <1>9, <1>14, <1>15, <1>17, <1>18, <1>19, Moved
<1> QED
  BY <1>7, <1>20 DEF b, d, p, j

\* It makes no difference whether the cache is pruned before or after the file
\* of an evicted entry that nobody reads any more is removed.
LEMMA UnreadPruned ==
  ASSUME NEW c, NEW d, NEW E, c \in Caches, Evicts(c, d, E), NEW e \in Requests,
         c.file[e] = "evicted" => e \notin ToSet(c.order)
  PROVE  Evicts(Unread(c, e), Unread(d, e), E) /\ (Limits(d) => Limits(Unread(d, e)))
<1>1. d \in Caches
  BY DEF Evicts, Counted
<1>2. ASSUME NEW a \in Caches
      PROVE  /\ Unread(a, e) \in Caches
             /\ Unread(a, e).order = a.order /\ Unread(a, e).bytes = a.bytes
             /\ Unread(a, e).size = a.size /\ Unread(a, e).readers = a.readers
             /\ Unread(a, e).file[e]
                  = (IF a.file[e] = "evicted" /\ a.readers[e] = 0 THEN "removing" ELSE a.file[e])
             /\ \A b \in Requests \ {e} : Unread(a, e).file[b] = a.file[b]
  <2>1. a.file \in [Requests -> {"none", "there", "evicted", "removing"}]
    BY DEF Caches
  <2>2. CASE a.file[e] = "evicted" /\ a.readers[e] = 0
    <3> DEFINE file == [a.file EXCEPT ![e] = "removing"]
    <3>1. /\ file \in [Requests -> {"none", "there", "evicted", "removing"}]
          /\ file[e] = "removing" /\ \A b \in Requests \ {e} : file[b] = a.file[b]
      BY <2>1
    <3>2. a = [order |-> a.order, bytes |-> a.bytes, size |-> a.size,
               readers |-> a.readers, file |-> a.file]
      BY DEF Caches
    <3>3. Unread(a, e) = [order |-> a.order, bytes |-> a.bytes, size |-> a.size,
                          readers |-> a.readers, file |-> file]
      BY <2>2, <3>2 DEF Unread
    <3> HIDE DEF file
    <3>4. Unread(a, e) \in Caches
      BY <3>1, <3>3 DEF Caches
    <3> QED
      BY <2>2, <3>1, <3>3, <3>4
  <2>3. CASE ~(a.file[e] = "evicted" /\ a.readers[e] = 0)
    BY <2>3 DEF Unread
  <2> QED
    BY <2>2, <2>3
<1> DEFINE c1 == Unread(c, e)
           d1 == Unread(d, e)
<1>3. /\ c1.order = c.order /\ c1.bytes = c.bytes /\ c1.size = c.size /\ c1.readers = c.readers
      /\ c1.file[e] = (IF c.file[e] = "evicted" /\ c.readers[e] = 0 THEN "removing" ELSE c.file[e])
      /\ \A b \in Requests \ {e} : c1.file[b] = c.file[b]
  BY <1>2
<1>4. /\ d1 \in Caches
      /\ d1.order = d.order /\ d1.bytes = d.bytes /\ d1.size = d.size /\ d1.readers = d.readers
      /\ d1.file[e] = (IF d.file[e] = "evicted" /\ d.readers[e] = 0 THEN "removing" ELSE d.file[e])
      /\ \A b \in Requests \ {e} : d1.file[b] = d.file[b]
  BY <1>1, <1>2
<1> HIDE DEF c1, d1
<1>5. Counted(d1)
  <2>1. \A a \in ToSet(d.order) : d1.size[a] = d.size[a]
    BY <1>4
  <2>2. Total(d1, ToSet(d.order)) = Total(d, ToSet(d.order))
    BY <2>1, TotalSame
  <2> QED
    BY <1>4, <2>2 DEF Evicts, Counted
<1>6. ASSUME NEW a \in Requests
      PROVE  d1.file[a] = IF a \notin E THEN c1.file[a]
                          ELSE IF c1.readers[a] = 0 THEN "removing" ELSE "evicted"
  <2>1. /\ d.file[a] = IF a \notin E THEN c.file[a]
                       ELSE IF c.readers[a] = 0 THEN "removing" ELSE "evicted"
        /\ d.readers = c.readers /\ (a \in E => a \in ToSet(c.order))
    BY DEF Evicts
  <2>2. CASE a # e
    BY <1>3, <1>4, <2>1, <2>2
  <2>3. CASE a = e
    BY <1>3, <1>4, <2>1, <2>3
  <2> QED
    BY <2>2, <2>3
<1>7. Evicts(c1, d1, E)
  BY <1>3, <1>4, <1>5, <1>6 DEF Evicts
<1>8. Limits(d) => Limits(d1)
  BY <1>4 DEF Limits
<1> QED
  BY <1>7, <1>8 DEF c1, d1

-----------------------------------------------------------------------------
(* The invariant is inductive.                                              *)

\* What the invariant says of one request.
LEMMA OneRequest ==
  ASSUME PackInv, NEW r \in Requests
  PROVE  /\ req \in [Requests -> Records] /\ writer \in [Requests -> Writers]
         /\ inflight \in [Keys -> Requests \cup {None}]
         /\ cache \in Caches /\ Counted(cache)
         /\ req[r] \in Records /\ Stands(r, req[r], writer[r])
         /\ writer = [writer EXCEPT ![r] = writer[r]]
         /\ req = [req EXCEPT ![r] = req[r]]
<1>1. req \in [Requests -> Records] /\ writer \in [Requests -> Writers]
      /\ inflight \in [Keys -> Requests \cup {None}]
      /\ cache \in Caches /\ Counted(cache) /\ Stands(r, req[r], writer[r])
  BY DEF PackInv, PackFine, RequestsOK, InflightOK, CountsOK, Counted
<1> QED
  BY <1>1

\* A pruning keeps the invariant's part about the cache.
LEMMA PruningFine ==
  ASSUME NEW c, NEW q, NEW w, NEW i, PackFine(c, q, w, i), NEW d \in Prunings(c)
  PROVE  PackFine(d, q, w, i) /\ Limits(d)
<1>1. Counted(c)
  BY DEF PackFine, CountsOK, Counted
<1> QED
  BY <1>1, PruningFacts, EvictFine

\* What the invariant says of the files and the entry of one request.
LEMMA OneFile ==
  ASSUME NEW c, NEW q, NEW w, NEW i, PackFine(c, q, w, i), NEW r \in Requests
  PROVE  /\ c \in Caches /\ c.file[r] \in {"none", "there", "evicted", "removing"}
         /\ c = [c EXCEPT !.file[r] = c.file[r]]
         /\ FileOK(c.file[r], r \in ToSet(c.order), ReadBy(q, r) # {}, q[r], w[r])
         /\ r \in ToSet(c.order) => w[r] = "done" /\ ~UsedOnce(q[r], w[r])
         /\ ReadBy(q, r) # {} => w[r] = "done"
<1>1. c \in Caches /\ c.file \in [Requests -> {"none", "there", "evicted", "removing"}]
  BY DEF PackFine, CountsOK, Caches
<1>2. c.file = [c.file EXCEPT ![r] = c.file[r]]
  BY <1>1
<1>3. c = [c EXCEPT !.file[r] = c.file[r]]
  <2>1. c = [order |-> c.order, bytes |-> c.bytes, size |-> c.size,
             readers |-> c.readers, file |-> c.file]
    BY <1>1 DEF Caches
  <2> QED
    BY <1>2, <2>1
<1>4. ReadBy(q, r) # {} => w[r] = "done"
  BY PackNumbers DEF PackFine, RequestsOK, ReadBy
<1> QED
  BY <1>1, <1>3, <1>4 DEF PackFine, EntriesOK

\* A request moves on, and nothing else changes.
LEMMA OnlyRequest ==
  ASSUME NEW c, NEW q, NEW w, NEW i, PackFine(c, q, w, i),
         NEW r \in Requests, NEW s, NEW x,
         Stands(r, s, x), s.reads = q[r].reads, s.key = q[r].key,
         x = w[r] \/ {x, w[r]} \subseteq {"none", "opening"},
         Downloading(s, x) <=> Downloading(q[r], w[r]),
         UsedOnce(s, x) <=> UsedOnce(q[r], w[r])
  PROVE  PackFine(c, [q EXCEPT ![r] = s], [w EXCEPT ![r] = x], i)
<1>1. /\ c.file[r] \in {"none", "there", "evicted", "removing"}
      /\ c = [c EXCEPT !.file[r] = c.file[r]]
      /\ FileOK(c.file[r], r \in ToSet(c.order), ReadBy(q, r) # {}, q[r], w[r])
      /\ r \in ToSet(c.order) => ~UsedOnce(q[r], w[r])
  BY OneFile
<1>2. FileOK(c.file[r], r \in ToSet(c.order), ReadBy(q, r) # {}, s, x)
  BY <1>1 DEF FileOK
<1>3. w[r] = "done" => x = "done"
  OBVIOUS
<1>4. PackFine([c EXCEPT !.file[r] = c.file[r]], [q EXCEPT ![r] = s], [w EXCEPT ![r] = x], i)
  BY <1>1, <1>2, <1>3, Stays
<1> QED
  BY <1>1, <1>4

\* The same, when its download ends without a file.
LEMMA OnlySettles ==
  ASSUME NEW c, NEW q, NEW w, NEW i, PackFine(c, q, w, i),
         NEW r \in Requests, NEW s, NEW x,
         Stands(r, s, x), s.reads = q[r].reads, s.key = q[r].key,
         x = w[r] \/ {x, w[r]} \subseteq {"none", "opening"},
         ~Downloading(s, x), UsedOnce(s, x) <=> UsedOnce(q[r], w[r])
  PROVE  PackFine(c, [q EXCEPT ![r] = s], [w EXCEPT ![r] = x], Settled(i, q[r].key, r))
<1>1. /\ c.file[r] \in {"none", "there", "evicted", "removing"}
      /\ c = [c EXCEPT !.file[r] = c.file[r]]
      /\ FileOK(c.file[r], r \in ToSet(c.order), ReadBy(q, r) # {}, q[r], w[r])
      /\ r \in ToSet(c.order) => ~UsedOnce(q[r], w[r])
  BY OneFile
<1>2. FileOK(c.file[r], r \in ToSet(c.order), ReadBy(q, r) # {}, s, x)
  BY <1>1 DEF FileOK
<1>3. w[r] = "done" => x = "done"
  OBVIOUS
<1>4. PackFine([c EXCEPT !.file[r] = c.file[r]], [q EXCEPT ![r] = s], [w EXCEPT ![r] = x],
               Settled(i, q[r].key, r))
  BY <1>1, <1>2, <1>3, Settles
<1> QED
  BY <1>1, <1>4

\* The record of a request that is over.
LEMMA OverRecord ==
  ASSUME NEW s, s \in Records
  PROVE  LET o == [Fresh EXCEPT !.stage = "done", !.key = s.key]
         IN  /\ o \in Records /\ o.stage = "done" /\ o.key = s.key
             /\ o.reads = None /\ o.waits = None /\ o.aborted = FALSE
<1>1. 1 \in 1 .. MaxAttempts
  BY PackNumbers
<1>2. s.key \in Keys \cup {None} /\ "done" \in Stages
  BY DEF Records, Stages
<1> DEFINE k == s.key
<1> HIDE DEF k
<1>3. LET o == [Fresh EXCEPT !.stage = "done", !.key = k]
      IN  /\ o \in [stage : Stages, key : Keys \cup {None}, attempt : 1 .. MaxAttempts,
                    waits : Requests \cup {None}, reads : Requests \cup {None},
                    aborted : BOOLEAN]
          /\ o.stage = "done" /\ o.key = k
          /\ o.reads = None /\ o.waits = None /\ o.aborted = FALSE
  BY <1>1, <1>2 DEF Fresh, k
<1> QED
  BY <1>3 DEF Records, k

\* The record of a request in another stage.
LEMMA StageRecord ==
  ASSUME NEW s, s \in Records, NEW stage \in Stages
  PROVE  LET o == [s EXCEPT !.stage = stage]
         IN  /\ o \in Records /\ o.stage = stage /\ o.key = s.key
             /\ o.reads = s.reads /\ o.aborted = s.aborted
<1> QED
  BY DEF Records

\* The request's client has left, or its stream is aborted.
LEMMA AbortedRecord ==
  ASSUME NEW s, s \in Records
  PROVE  LET o == [s EXCEPT !.aborted = TRUE]
         IN  /\ o \in Records /\ o.stage = s.stage /\ o.key = s.key
             /\ o.reads = s.reads /\ o.aborted = TRUE
<1> QED
  BY DEF Records

\* A request tries again.
LEMMA RetryRecord ==
  ASSUME NEW s, s \in Records, s.attempt < MaxAttempts
  PROVE  LET o == [s EXCEPT !.stage = "backoff", !.attempt = @ + 1]
         IN  /\ o \in Records /\ o.stage = "backoff" /\ o.key = s.key
             /\ o.reads = s.reads /\ o.aborted = s.aborted
<1> DEFINE n == s.attempt + 1
<1>1. n \in 1 .. MaxAttempts
  <2>1. s.attempt \in 1 .. MaxAttempts
    BY DEF Records
  <2> QED
    BY <2>1, PackNumbers
<1>2. "backoff" \in Stages
  BY DEF Stages
<1>3. [s EXCEPT !.stage = "backoff", !.attempt = @ + 1] = [s EXCEPT !.stage = "backoff", !.attempt = n]
  BY DEF Records
<1> HIDE DEF n
<1> QED
  BY <1>1, <1>2, <1>3 DEF Records

\* A request fails, or tries again; its download has no file any more.
LEMMA AttemptFailsStep ==
  ASSUME PackInv, NEW r \in Requests, NEW f \in {"none", cache.file[r]},
         writer[r] \in {"none", "opening", "failing"},
         req[r].stage \in {"fetch", "backoff", "download", "serve"},
         req[r].reads = None, Downloading(req[r], writer[r]),
         r \in Streaming \/ req[r].stage # "serve",
         Fails(r) \/ (AttemptFails(r) /\ req[r].stage # "serve")
  PROVE  PackFine([cache EXCEPT !.file[r] = f], req', [writer EXCEPT ![r] = "none"], inflight')
<1>1. PackFine(cache, req, writer, inflight)
  BY DEF PackInv
<1>2. /\ req \in [Requests -> Records] /\ req[r] \in Records
      /\ Stands(r, req[r], writer[r]) /\ cache \in Caches
      /\ inflight \in [Keys -> Requests \cup {None}]
  BY OneRequest
<1>3. /\ cache.file[r] \in {"none", "there", "evicted", "removing"}
      /\ FileOK(cache.file[r], r \in ToSet(cache.order), ReadBy(req, r) # {}, req[r], writer[r])
      /\ r \notin ToSet(cache.order) /\ ReadBy(req, r) = {}
  BY <1>1, OneFile
<1>4. ASSUME NEW s PROVE FileOK(f, r \in ToSet(cache.order), ReadBy(req, r) # {}, s, "none")
  BY <1>3 DEF FileOK, UsedOnce
<1>5. CASE Fails(r)
  <2> DEFINE s == [Fresh EXCEPT !.stage = "done", !.key = req[r].key]
  <2>1. /\ req' = [req EXCEPT ![r] = s]
        /\ inflight' = Settled(inflight, req[r].key, r)
    BY <1>5 DEF Fails, Over, settle, Settled
  <2>2. s \in Records /\ s.stage = "done" /\ s.key = req[r].key /\ s.reads = None
    BY <1>2, OverRecord
  <2> HIDE DEF s
  <2>3. Stands(r, s, "none") /\ ~Downloading(s, "none")
    BY <1>2, <2>2 DEF Stands, Downloading, Writers
  <2>4. f \in {"none", "there", "evicted", "removing"}
    BY <1>3
  <2>5. writer[r] # "done"
    OBVIOUS
  <2> QED
    BY <1>1, <1>3, <1>4, <2>1, <2>2, <2>3, <2>4, <2>5, Settles
<1>6. CASE ~Fails(r)
  <2> DEFINE s == [req[r] EXCEPT !.stage = "backoff", !.attempt = @ + 1]
  <2>1. /\ req[r].attempt < MaxAttempts /\ req' = [req EXCEPT ![r] = s]
        /\ inflight' = inflight /\ req[r].stage # "serve"
    BY <1>2, <1>6 DEF AttemptFails
  <2>2. /\ s \in Records /\ s.stage = "backoff" /\ s.key = req[r].key
        /\ s.reads = req[r].reads
    BY <1>2, <2>1, RetryRecord
  <2> HIDE DEF s
  <2>3. Stands(r, s, "none") /\ Downloading(s, "none")
    BY <1>2, <2>2 DEF Stands, Downloading, Writers
  <2>4. f \in {"none", "there", "evicted", "removing"}
    BY <1>3
  <2>5. writer[r] # "done"
    OBVIOUS
  <2> QED
    BY <1>1, <1>3, <1>4, <2>1, <2>2, <2>3, <2>4, <2>5, Stays
<1> QED
  BY <1>5, <1>6

\* A request that has no download waits for one of the key it asks for.
LEMMA MovedKey ==
  ASSUME NEW c, NEW q, NEW w, NEW i, PackFine(c, q, w, i),
         NEW r \in Requests, NEW s, w[r] = "none", q[r].reads = None,
         Stands(r, s, "none"), s.reads = None,
         ~Downloading(q[r], w[r]), ~Downloading(s, "none")
  PROVE  PackFine(c, [q EXCEPT ![r] = s], [w EXCEPT ![r] = w[r]], i)
<1>1. /\ c.file[r] \in {"none", "there", "evicted", "removing"}
      /\ c = [c EXCEPT !.file[r] = c.file[r]]
      /\ FileOK(c.file[r], r \in ToSet(c.order), ReadBy(q, r) # {}, q[r], w[r])
      /\ r \notin ToSet(c.order)
  BY OneFile
<1>2. FileOK(c.file[r], r \in ToSet(c.order), ReadBy(q, r) # {}, s, w[r])
  BY <1>1 DEF FileOK, UsedOnce
<1>3. s \in Records /\ w[r] \in Writers
  BY DEF Stands, Writers
<1>4. InflightOK([q EXCEPT ![r] = s], [w EXCEPT ![r] = w[r]], i)
  BY <1>3, InflightKept DEF PackFine
<1>5. PackFine([c EXCEPT !.file[r] = c.file[r]], [q EXCEPT ![r] = s], [w EXCEPT ![r] = w[r]], i)
  BY <1>1, <1>2, <1>4, MovedFile
<1> QED
  BY <1>1, <1>5

\* A request takes the free key it asks for.
LEMMA MovedTakes ==
  ASSUME NEW c, NEW q, NEW w, NEW i, PackFine(c, q, w, i),
         NEW r \in Requests, NEW s, w[r] = "none", q[r].reads = None,
         Stands(r, s, w[r]), s.reads = None, s.key \in Keys,
         ~Downloading(q[r], w[r]), Downloading(s, w[r]), i[s.key] = None,
         {e \in ToSet(c.order) : q[e].key = s.key} = {}
  PROVE  PackFine(c, [q EXCEPT ![r] = s], [w EXCEPT ![r] = w[r]], [i EXCEPT ![s.key] = r])
<1>1. /\ c.file[r] \in {"none", "there", "evicted", "removing"}
      /\ c = [c EXCEPT !.file[r] = c.file[r]]
      /\ FileOK(c.file[r], r \in ToSet(c.order), ReadBy(q, r) # {}, q[r], w[r])
      /\ r \notin ToSet(c.order)
  BY OneFile
<1>2. FileOK(c.file[r], r \in ToSet(c.order), ReadBy(q, r) # {}, s, w[r])
  BY <1>1 DEF FileOK, UsedOnce
<1>3. s \in Records /\ w[r] \in Writers
  BY DEF Stands, Writers
<1>4. InflightOK([q EXCEPT ![r] = s], [w EXCEPT ![r] = w[r]], [i EXCEPT ![s.key] = r])
  BY <1>3, InflightTaken DEF PackFine
<1>5. \A e \in ToSet(c.order) : q[e].key # s.key
  OBVIOUS
<1>6. PackFine([c EXCEPT !.file[r] = c.file[r]], [q EXCEPT ![r] = s], [w EXCEPT ![r] = w[r]],
               [i EXCEPT ![s.key] = r])
  BY <1>1, <1>2, <1>4, <1>5, MovedFile
<1> QED
  BY <1>1, <1>6

\* acquireResourcePackDownload: an entry to read, a download to wait for, or one
\* of its own.
LEMMA AcquireStep ==
  ASSUME PackInv, NEW r \in Requests, NEW k \in Keys,
         req[r].stage \in {"new", "wait"}, Acquire(r, k)
  PROVE  PackInv'
<1> DEFINE now == [req[r] EXCEPT !.key = k, !.waits = None]
<1>1. /\ req \in [Requests -> Records] /\ req[r] \in Records
      /\ Stands(r, req[r], writer[r]) /\ writer = [writer EXCEPT ![r] = writer[r]]
      /\ inflight \in [Keys -> Requests \cup {None}]
  BY OneRequest
<1>2. writer[r] = "none" /\ req[r].reads = None /\ ~Downloading(req[r], writer[r])
  BY <1>1 DEF Stands, Downloading, Writers
<1>3. now \in Records /\ now.key = k /\ now.reads = None /\ now.stage = req[r].stage
  BY <1>1, <1>2 DEF Records
<1> HIDE DEF now
<1>4. PICK c \in Prunings(cache) :
        LET hits == {e \in ToSet(c.order) : req[e].key = k}
        IN  \/ /\ \E e \in hits :
                    /\ cache' = acquireCached(c, e)
                    /\ req' = [req EXCEPT ![r] = [now EXCEPT !.stage = "serve", !.reads = e]]
               /\ UNCHANGED <<writer, inflight>>
            \/ /\ hits = {} /\ inflight[k] # None
               /\ cache' = c
               /\ req' = [req EXCEPT ![r] = [now EXCEPT !.stage = "wait", !.waits = inflight[k]]]
               /\ UNCHANGED <<writer, inflight>>
            \/ /\ hits = {} /\ inflight[k] = None
               /\ cache' = c
               /\ req' = [req EXCEPT ![r] = [now EXCEPT !.stage = "fetch"]]
               /\ inflight' = [inflight EXCEPT ![k] = r]
               /\ UNCHANGED writer
  BY DEF Acquire, now
<1>5. PackFine(c, req, writer, inflight) /\ Limits(c)
  BY PruningFine DEF PackInv
<1>6. c \in Caches /\ ToSet(c.order) \subseteq Requests
  <2>1. c \in Caches
    BY <1>5 DEF PackFine, CountsOK
  <2> QED
    BY <2>1, EntriesFinite DEF Caches
<1>7. ASSUME NEW e \in ToSet(c.order), cache' = acquireCached(c, e),
             req' = [req EXCEPT ![r] = [now EXCEPT !.stage = "serve", !.reads = e]],
             UNCHANGED <<writer, inflight>>
      PROVE  PackInv'
  <2> DEFINE s == [now EXCEPT !.stage = "serve", !.reads = e]
  <2>1. s \in Records /\ s.stage = "serve" /\ s.reads = e /\ s.key = k
    BY <1>3, <1>6 DEF Records, Stages
  <2>2. req' = [req EXCEPT ![r] = s]
    BY <1>7
  <2> HIDE DEF s
  <2>3. Stands(r, s, "none") /\ ~Downloading(s, "none")
    BY <1>6, <2>1, PackNumbers DEF Stands, Downloading, Writers
  <2>4. /\ PackFine(acquireCached(c, e), [req EXCEPT ![r] = s], writer, inflight)
        /\ Limits(acquireCached(c, e))
    BY <1>2, <1>5, <2>1, <2>3, ReaderAdded
  <2> QED
    BY <1>7, <2>2, <2>4 DEF PackInv
<1>8. ASSUME inflight[k] # None, cache' = c,
             req' = [req EXCEPT ![r] = [now EXCEPT !.stage = "wait", !.waits = inflight[k]]],
             UNCHANGED <<writer, inflight>>
      PROVE  PackInv'
  <2> DEFINE s == [now EXCEPT !.stage = "wait", !.waits = inflight[k]]
  <2>1. s \in Records /\ s.stage = "wait" /\ s.reads = None /\ s.key = k
    <3>1. inflight[k] \in Requests \cup {None}
      BY <1>1
    <3> QED
      BY <1>3, <3>1 DEF Records, Stages
  <2>2. req' = [req EXCEPT ![r] = s]
    BY <1>8
  <2> HIDE DEF s
  <2>3. Stands(r, s, writer[r]) /\ ~Downloading(s, writer[r])
    BY <1>2, <2>1 DEF Stands, Downloading, Writers
  <2>4. PackFine(c, req', [writer EXCEPT ![r] = writer[r]], inflight)
    BY <1>2, <1>5, <2>1, <2>2, <2>3, MovedKey
  <2> QED
    BY <1>1, <1>5, <1>8, <2>4 DEF PackInv
<1>9. ASSUME {e \in ToSet(c.order) : req[e].key = k} = {}, inflight[k] = None, cache' = c,
             req' = [req EXCEPT ![r] = [now EXCEPT !.stage = "fetch"]],
             inflight' = [inflight EXCEPT ![k] = r], UNCHANGED writer
      PROVE  PackInv'
  <2> DEFINE s == [now EXCEPT !.stage = "fetch"]
  <2>1. s \in Records /\ s.stage = "fetch" /\ s.reads = None /\ s.key = k
    BY <1>3 DEF Records, Stages
  <2>2. req' = [req EXCEPT ![r] = s]
    BY <1>9
  <2> HIDE DEF s
  <2>3. Stands(r, s, writer[r]) /\ Downloading(s, writer[r])
    BY <1>2, <2>1 DEF Stands, Downloading, Writers
  <2>4. {e \in ToSet(c.order) : req[e].key = s.key} = {} /\ inflight[s.key] = None
    BY <1>9, <2>1
  <2>5. PackFine(c, [req EXCEPT ![r] = s], [writer EXCEPT ![r] = writer[r]],
                 [inflight EXCEPT ![s.key] = r])
    BY <1>2, <1>5, <2>1, <2>3, <2>4, MovedTakes
  <2> QED
    BY <1>1, <1>5, <1>9, <2>1, <2>2, <2>5 DEF PackInv
<1> QED
  BY <1>4, <1>7, <1>8, <1>9

\* A request arrives.
LEMMA ArrivesStep ==
  ASSUME PackInv, NEW r \in Requests, Arrives(r) PROVE PackInv'
<1>1. PICK k \in Wanted[r] : Acquire(r, k)
  BY DEF Arrives
<1>2. k \in Keys
  BY ResourcePackCacheAssumption
<1>3. req[r].stage = "new"
  BY DEF Arrives, Is
<1> QED
  BY <1>1, <1>2, <1>3, AcquireStep

\* A request that waits gives up, or goes on when the download has ended.
LEMMA WaitEndsStep ==
  ASSUME PackInv, NEW r \in Requests, WaitEnds(r) PROVE PackInv'
<1>1. /\ req \in [Requests -> Records] /\ req[r] \in Records
      /\ Stands(r, req[r], writer[r]) /\ writer = [writer EXCEPT ![r] = writer[r]]
  BY OneRequest
<1>2. req[r].stage = "wait" /\ req[r].key \in Keys /\ req[r].reads = None
  BY <1>1 DEF WaitEnds, Is, Stands
<1>3. writer[r] \in {"none"} /\ ~Downloading(req[r], writer[r])
  BY <1>1, <1>2 DEF Stands, Downloading, Writers
<1>4. CASE Acquire(r, req[r].key)
  BY <1>2, <1>4, AcquireStep
<1>5. CASE Over(r) /\ UNCHANGED <<writer, cache, inflight>>
  <2> DEFINE s == [Fresh EXCEPT !.stage = "done", !.key = req[r].key]
  <2>1. req' = [req EXCEPT ![r] = s]
    BY <1>5 DEF Over
  <2>2. s \in Records /\ s.stage = "done" /\ s.key = req[r].key /\ s.reads = None
    BY <1>1, OverRecord
  <2> HIDE DEF s
  <2>3. Stands(r, s, writer[r]) /\ ~Downloading(s, writer[r])
        /\ (UsedOnce(s, writer[r]) <=> UsedOnce(req[r], writer[r]))
    BY <1>2, <1>3, <2>2 DEF Stands, Downloading, Writers, UsedOnce
  <2>4. PackFine(cache, [req EXCEPT ![r] = s], [writer EXCEPT ![r] = writer[r]], inflight)
    BY <1>2, <1>3, <2>2, <2>3, OnlyRequest DEF PackInv
  <2> QED
    BY <1>1, <1>5, <2>1, <2>4 DEF PackInv
<1> QED
  BY <1>4, <1>5 DEF WaitEnds

\* A request whose download has no file fails or tries again.
LEMMA AttemptEnds ==
  ASSUME PackInv, NEW r \in Requests, UNCHANGED cache,
         writer' = [writer EXCEPT ![r] = "none"], writer[r] \in {"none", "opening"},
         req[r].stage \in {"fetch", "backoff", "download", "serve"},
         Downloading(req[r], writer[r]),
         r \in Streaming \/ req[r].stage # "serve",
         Fails(r) \/ (AttemptFails(r) /\ req[r].stage # "serve")
  PROVE  PackInv'
<1>1. /\ Stands(r, req[r], writer[r]) /\ req \in [Requests -> Records]
  BY OneRequest
<1>2. req[r].reads = None
  <2> SUFFICES ASSUME req[r].reads # None PROVE FALSE
    OBVIOUS
  <2>1. req[r].stage = "serve" /\ (writer[r] = "none" \/ req[r].reads = r)
    BY <1>1 DEF Stands
  <2>2. writer[r] # "none" /\ writer[r] # "done"
    BY <2>1 DEF Downloading
  <2>3. writer[req[r].reads] = "done"
    BY DEF PackInv, PackFine, RequestsOK
  <2> QED
    BY <2>1, <2>2, <2>3
<1>3. cache = [cache EXCEPT !.file[r] = cache.file[r]]
  BY OneFile DEF PackInv
<1>4. PackFine([cache EXCEPT !.file[r] = cache.file[r]], req', [writer EXCEPT ![r] = "none"],
               inflight')
  <2> DEFINE f == cache.file[r]
  <2>1. f \in {"none", cache.file[r]}
    OBVIOUS
  <2> HIDE DEF f
  <2>2. PackFine([cache EXCEPT !.file[r] = f], req', [writer EXCEPT ![r] = "none"], inflight')
    BY <1>2, <2>1, AttemptFailsStep
  <2> QED
    BY <2>2 DEF f
<1> QED
  BY <1>3, <1>4 DEF PackInv

\* A pause before the next attempt ends.
LEMMA BackoffEndsStep ==
  ASSUME PackInv, NEW r \in Requests, BackoffEnds(r) PROVE PackInv'
<1>1. /\ req \in [Requests -> Records] /\ req[r] \in Records
      /\ Stands(r, req[r], writer[r]) /\ writer = [writer EXCEPT ![r] = writer[r]]
  BY OneRequest
<1>2. req[r].stage = "backoff" /\ UNCHANGED <<writer, cache>>
  BY DEF BackoffEnds, Is
<1>3. writer[r] = "none" /\ req[r].reads = None
  BY <1>1, <1>2 DEF Stands, Writers
<1>4. CASE Fails(r)
  <2>1. Downloading(req[r], writer[r])
    BY <1>2 DEF Downloading
  <2> QED
    BY <1>1, <1>2, <1>3, <1>4, <2>1, AttemptEnds
<1>5. CASE Set(r, "fetch") /\ UNCHANGED inflight
  <2> DEFINE s == [req[r] EXCEPT !.stage = "fetch"]
  <2>1. req' = [req EXCEPT ![r] = s]
    BY <1>5 DEF Set
  <2>2. s \in Records /\ s.stage = "fetch" /\ s.key = req[r].key /\ s.reads = None
    <3>1. "fetch" \in Stages
      BY DEF Stages
    <3> QED
      BY <1>1, <1>3, <3>1, StageRecord
  <2> HIDE DEF s
  <2>3. Stands(r, s, writer[r])
        /\ (Downloading(s, writer[r]) <=> Downloading(req[r], writer[r]))
        /\ (UsedOnce(s, writer[r]) <=> UsedOnce(req[r], writer[r]))
    BY <1>1, <1>2, <1>3, <2>2 DEF Stands, Downloading, Writers, UsedOnce
  <2>4. PackFine(cache, [req EXCEPT ![r] = s], [writer EXCEPT ![r] = writer[r]], inflight)
    BY <1>3, <2>2, <2>3, OnlyRequest DEF PackInv
  <2> QED
    BY <1>1, <1>2, <1>5, <2>1, <2>4 DEF PackInv
<1> QED
  BY <1>4, <1>5 DEF BackoffEnds

\* The headers arrive or do not.
LEMMA FetchEndsStep ==
  ASSUME PackInv, NEW r \in Requests, FetchEnds(r) PROVE PackInv'
<1>1. /\ req \in [Requests -> Records] /\ req[r] \in Records
      /\ Stands(r, req[r], writer[r]) /\ writer = [writer EXCEPT ![r] = writer[r]]
  BY OneRequest
<1>2. req[r].stage = "fetch" /\ UNCHANGED cache
  BY DEF FetchEnds, Is
<1>3. writer[r] = "none" /\ req[r].reads = None
  BY <1>1, <1>2 DEF Stands, Writers
<1>4. CASE (IF r \in Streaming THEN Fails(r) ELSE AttemptFails(r)) /\ UNCHANGED writer
  <2>1. Downloading(req[r], writer[r])
    BY <1>2 DEF Downloading
  <2> QED
    BY <1>1, <1>2, <1>3, <1>4, <2>1, AttemptEnds
<1>5. CASE /\ Set(r, IF r \in Streaming THEN "serve" ELSE "download")
           /\ writer' = [writer EXCEPT ![r] = "opening"] /\ UNCHANGED inflight
  <2> DEFINE stage == IF r \in Streaming THEN "serve" ELSE "download"
             s == [req[r] EXCEPT !.stage = stage]
  <2>1. req' = [req EXCEPT ![r] = s]
    BY <1>5 DEF Set
  <2>2. stage \in Stages
    BY DEF Stages
  <2>3. s \in Records /\ s.stage = stage /\ s.key = req[r].key /\ s.reads = None
    <3> HIDE DEF stage
    <3> QED
      BY <1>1, <1>3, <2>2, StageRecord
  <2> HIDE DEF s
  <2>4. Stands(r, s, "opening")
        /\ (Downloading(s, "opening") <=> Downloading(req[r], writer[r]))
        /\ (UsedOnce(s, "opening") <=> UsedOnce(req[r], writer[r]))
    BY <1>1, <1>2, <1>3, <2>3 DEF Stands, Downloading, Writers, UsedOnce
  <2>5. PackFine(cache, [req EXCEPT ![r] = s], [writer EXCEPT ![r] = "opening"], inflight)
    BY <1>3, <2>3, <2>4, OnlyRequest DEF PackInv
  <2> QED
    BY <1>2, <1>5, <2>1, <2>5 DEF PackInv
<1> QED
  BY <1>4, <1>5 DEF FetchEnds

\* The temporary file is opened or cannot be.
LEMMA SpoolOpensStep ==
  ASSUME PackInv, NEW r \in Requests, SpoolOpens(r) PROVE PackInv'
<1>1. /\ req \in [Requests -> Records] /\ req[r] \in Records
      /\ Stands(r, req[r], writer[r]) /\ req = [req EXCEPT ![r] = req[r]]
  BY OneRequest
<1>2. writer[r] = "opening"
  BY DEF SpoolOpens
<1>3. IF r \in Streaming THEN req[r].stage = "serve" ELSE req[r].stage = "download"
  BY <1>1, <1>2 DEF Stands
<1>4. Downloading(req[r], writer[r])
  BY <1>2 DEF Downloading
<1>5. CASE /\ writer' = [writer EXCEPT ![r] = "none"] /\ UNCHANGED cache
           /\ IF r \in Streaming THEN Fails(r) ELSE AttemptFails(r)
  BY <1>2, <1>3, <1>4, <1>5, AttemptEnds
<1>6. CASE /\ writer' = [writer EXCEPT ![r] = "writing"]
           /\ cache' = [cache EXCEPT !.file[r] = "there"]
           /\ UNCHANGED <<req, inflight>>
  <2>1. r \notin ToSet(cache.order) /\ ReadBy(req, r) = {}
    BY <1>2, OneFile DEF PackInv
  <2>2. FileOK("there", r \in ToSet(cache.order), ReadBy(req, r) # {}, req[r], "writing")
    BY <2>1 DEF FileOK
  <2>3. Stands(r, req[r], "writing") /\ Downloading(req[r], "writing")
    BY <1>1, <1>2, <1>3 DEF Stands, Downloading, Writers
  <2>4. PackFine([cache EXCEPT !.file[r] = "there"], [req EXCEPT ![r] = req[r]],
                 [writer EXCEPT ![r] = "writing"], inflight)
    BY <1>2, <1>4, <2>1, <2>2, <2>3, Stays DEF PackInv
  <2>5. Limits(cache')
    BY <1>1, <1>6 DEF PackInv, Limits, PackFine, CountsOK, Caches
  <2> QED
    BY <1>1, <1>6, <2>4, <2>5 DEF PackInv
<1> QED
  BY <1>5, <1>6 DEF SpoolOpens

\* The file of a download changes, and nothing that the limits are about.
LEMMA LimitsFile ==
  ASSUME NEW c, c \in Caches, NEW r \in Requests, NEW f, Limits(c)
  PROVE  Limits([c EXCEPT !.file[r] = f])
  BY DEF Limits, Caches

\* retainCompletedResourcePack: the file is an entry, or used once.
LEMMA RetainStep ==
  ASSUME PackInv, NEW r \in Requests, writer[r] = "writing", ~req[r].aborted,
         writer' = [writer EXCEPT ![r] = "done"], Retain(r)
  PROVE  PackInv'
<1>1. /\ req \in [Requests -> Records] /\ req[r] \in Records
      /\ Stands(r, req[r], writer[r])
  BY OneRequest
<1>2. req[r].stage \in {"serve", "download"} /\ req[r].reads = None /\ req[r].key \in Keys
  <2>1. req[r].reads = None
    <3>1. req[r].reads = r => writer[r] = "done"
      BY PackNumbers DEF PackInv, PackFine, RequestsOK
    <3> QED
      BY <1>1, <3>1 DEF Stands
  <2> QED
    BY <1>1, <2>1 DEF Stands
<1>3. PICK c \in Prunings(cache) :
        \/ /\ \E bytes \in 1 .. MaxBytes : cache' = Retained(c, r, bytes)
           /\ req' = [req EXCEPT ![r].stage = "serve", ![r].reads = r]
        \/ /\ cache' = c
           /\ Set(r, "serve")
  BY DEF Retain
<1>4. PackFine(c, req, writer, inflight) /\ Limits(c)
  BY PruningFine DEF PackInv
<1>5. inflight' = Settled(inflight, req[r].key, r)
  BY DEF Retain, settle, Settled
<1>6. ASSUME NEW bytes \in 1 .. MaxBytes, cache' = Retained(c, r, bytes),
             req' = [req EXCEPT ![r].stage = "serve", ![r].reads = r]
      PROVE  PackInv'
  <2> DEFINE s == [req[r] EXCEPT !.stage = "serve", !.reads = r]
  <2>1. req' = [req EXCEPT ![r] = s]
    BY <1>1, <1>6
  <2>2. s \in Records /\ s.stage = "serve" /\ s.reads = r /\ s.key = req[r].key
    BY <1>1 DEF Records, Stages
  <2> HIDE DEF s
  <2>3. Stands(r, s, "done") /\ ~Downloading(s, "done")
    BY <1>2, <2>2, PackNumbers DEF Stands, Downloading, Writers
  <2>4. /\ PackFine(Retained(c, r, bytes), [req EXCEPT ![r] = s], [writer EXCEPT ![r] = "done"],
                    Settled(inflight, req[r].key, r))
        /\ Limits(Retained(c, r, bytes))
    BY <1>4, <2>2, <2>3, RetainedFine
  <2> QED
    BY <1>5, <1>6, <2>1, <2>4 DEF PackInv
<1>7. ASSUME cache' = c, Set(r, "serve") PROVE PackInv'
  <2> DEFINE s == [req[r] EXCEPT !.stage = "serve"]
  <2>1. req' = [req EXCEPT ![r] = s]
    BY <1>7 DEF Set
  <2>2. s \in Records /\ s.stage = "serve" /\ s.reads = None /\ s.key = req[r].key
    <3>1. "serve" \in Stages
      BY DEF Stages
    <3> QED
      BY <1>1, <1>2, <3>1, StageRecord
  <2> HIDE DEF s
  <2>3. Stands(r, s, "done") /\ ~Downloading(s, "done") /\ UsedOnce(s, "done")
    BY <1>2, <2>2 DEF Stands, Downloading, Writers, UsedOnce
  <2>4. /\ c.file[r] \in {"none", "there", "evicted", "removing"} /\ c.file[r] = "there"
        /\ c = [c EXCEPT !.file[r] = c.file[r]]
        /\ r \notin ToSet(c.order) /\ ReadBy(req, r) = {}
    BY <1>4, OneFile DEF FileOK
  <2>5. FileOK(c.file[r], r \in ToSet(c.order), ReadBy(req, r) # {}, s, "done")
    BY <2>3, <2>4 DEF FileOK
  <2>6. PackFine([c EXCEPT !.file[r] = c.file[r]], [req EXCEPT ![r] = s],
                 [writer EXCEPT ![r] = "done"], Settled(inflight, req[r].key, r))
    BY <1>2, <1>4, <2>2, <2>3, <2>4, <2>5, Settles
  <2> QED
    BY <1>4, <1>5, <1>7, <2>1, <2>4, <2>6 DEF PackInv
<1> QED
  BY <1>3, <1>6, <1>7

\* The body ends, whole or not.
LEMMA BodyEndsStep ==
  ASSUME PackInv, NEW r \in Requests, BodyEnds(r) PROVE PackInv'
<1>1. /\ req \in [Requests -> Records] /\ req[r] \in Records /\ cache \in Caches
      /\ Stands(r, req[r], writer[r]) /\ req = [req EXCEPT ![r] = req[r]]
  BY OneRequest
<1>2. writer[r] = "writing"
  BY DEF BodyEnds
<1>3. CASE ~req[r].aborted /\ writer' = [writer EXCEPT ![r] = "done"] /\ Retain(r)
  BY <1>2, <1>3, RetainStep
<1>4. CASE /\ writer' = [writer EXCEPT ![r] = "failing"]
           /\ cache' = [cache EXCEPT !.file[r] = "removing"]
           /\ UNCHANGED <<req, inflight>>
  <2>1. r \notin ToSet(cache.order) /\ ReadBy(req, r) = {}
    BY <1>2, OneFile DEF PackInv
  <2>2. FileOK("removing", r \in ToSet(cache.order), ReadBy(req, r) # {}, req[r], "failing")
    BY <2>1 DEF FileOK, UsedOnce
  <2>3. Stands(r, req[r], "failing") /\ Downloading(req[r], "failing")
        /\ Downloading(req[r], writer[r])
    BY <1>1, <1>2 DEF Stands, Downloading, Writers
  <2>4. PackFine([cache EXCEPT !.file[r] = "removing"], [req EXCEPT ![r] = req[r]],
                 [writer EXCEPT ![r] = "failing"], inflight)
    BY <1>2, <2>1, <2>2, <2>3, Stays DEF PackInv
  <2>5. Limits(cache')
    BY <1>1, <1>4, LimitsFile DEF PackInv
  <2> QED
    BY <1>1, <1>4, <2>4, <2>5 DEF PackInv
<1> QED
  BY <1>3, <1>4 DEF BodyEnds

\* A failed body has removed its file.
LEMMA SpoolRemovedStep ==
  ASSUME PackInv, NEW r \in Requests, SpoolRemoved(r) PROVE PackInv'
<1>1. /\ req \in [Requests -> Records] /\ req[r] \in Records /\ cache \in Caches
      /\ Stands(r, req[r], writer[r]) /\ req = [req EXCEPT ![r] = req[r]]
  BY OneRequest
<1>2. writer[r] = "failing" /\ cache' = [cache EXCEPT !.file[r] = "none"]
  BY DEF SpoolRemoved
<1>3. Limits(cache')
  BY <1>1, <1>2, LimitsFile DEF PackInv
<1>4. req[r].reads = None
  <2>1. req[r].reads = r => writer[r] = "done"
    BY PackNumbers DEF PackInv, PackFine, RequestsOK
  <2> QED
    BY <1>1, <1>2, <2>1 DEF Stands
<1>5. r \notin ToSet(cache.order) /\ ReadBy(req, r) = {}
  BY <1>2, OneFile DEF PackInv
<1>6. CASE /\ r \in Streaming /\ writer' = [writer EXCEPT ![r] = "failed"]
           /\ settle(r) /\ UNCHANGED req
  <2>1. FileOK("none", r \in ToSet(cache.order), ReadBy(req, r) # {}, req[r], "failed")
    BY <1>5 DEF FileOK, UsedOnce
  <2>2. Stands(r, req[r], "failed") /\ ~Downloading(req[r], "failed")
    BY <1>1, <1>2, <1>6 DEF Stands, Downloading, Writers
  <2>3. PackFine([cache EXCEPT !.file[r] = "none"], [req EXCEPT ![r] = req[r]],
                 [writer EXCEPT ![r] = "failed"], Settled(inflight, req[r].key, r))
    BY <1>2, <1>5, <2>1, <2>2, Settles DEF PackInv
  <2>4. inflight' = Settled(inflight, req[r].key, r)
    BY <1>6 DEF settle, Settled
  <2> QED
    BY <1>1, <1>2, <1>3, <1>6, <2>3, <2>4 DEF PackInv
<1>7. CASE r \notin Streaming /\ writer' = [writer EXCEPT ![r] = "none"] /\ AttemptFails(r)
  <2>1. req[r].stage = "download" /\ Downloading(req[r], writer[r])
    BY <1>1, <1>2, <1>7 DEF Stands, Downloading
  <2> DEFINE f == "none"
  <2>2. f \in {"none", cache.file[r]}
    OBVIOUS
  <2> HIDE DEF f
  <2>3. PackFine([cache EXCEPT !.file[r] = f], req', [writer EXCEPT ![r] = "none"], inflight')
    BY <1>2, <1>4, <1>7, <2>1, <2>2, AttemptFailsStep
  <2> QED
    BY <1>2, <1>3, <1>7, <2>3 DEF PackInv, f
<1> QED
  BY <1>6, <1>7 DEF SpoolRemoved

\* releaseResourcePackDownload: a reader is done, a file that is used once is
\* removed, or there is nothing to release.
LEMMA ReleaseStep ==
  ASSUME PackInv, NEW r \in Requests, Release(r), req[r].stage \in {"serve", "settle"},
         writer[r] \in {"none", "failed", "done"}
  PROVE  PackInv'
<1>1. /\ req \in [Requests -> Records] /\ req[r] \in Records /\ cache \in Caches
      /\ Stands(r, req[r], writer[r]) /\ req = [req EXCEPT ![r] = req[r]]
      /\ writer = [writer EXCEPT ![r] = writer[r]] /\ Counted(cache)
  BY OneRequest
<1>2. inflight' = Settled(inflight, req[r].key, r) /\ UNCHANGED writer
  BY DEF Release, settle, Settled
<1> DEFINE o == [Fresh EXCEPT !.stage = "done", !.key = req[r].key]
<1>3. o \in Records /\ o.stage = "done" /\ o.key = req[r].key /\ o.reads = None
  BY <1>1, OverRecord
<1>4. req[r].key \in Keys
  BY <1>1 DEF Stands
<1>5. Over(r) => req' = [req EXCEPT ![r] = o]
  BY DEF Over
<1> HIDE DEF o
<1>6. Stands(r, o, writer[r]) /\ ~Downloading(o, writer[r]) /\ ~UsedOnce(o, writer[r])
  BY <1>1, <1>3, <1>4 DEF Stands, Downloading, Writers, UsedOnce
<1>7. ASSUME NEW e, e = req[r].reads, e # None, Over(r),
             NEW c \in Prunings([cache EXCEPT !.readers[e] = Less(@, 1)]),
             cache' = Unread(c, e)
      PROVE  PackInv'
  <2> DEFINE b == [cache EXCEPT !.readers[e] = Less(@, 1)]
  <2>1. e \in Requests
    BY <1>1, <1>7 DEF Records
  <2>2. PackFine(Unread(b, e), [req EXCEPT ![r] = o], writer,
                 Settled(inflight, req[r].key, r))
    BY <1>3, <1>6, <1>7, ReaderRemoved DEF PackInv
  <2>3. /\ b \in Caches /\ b.order = cache.order /\ b.bytes = cache.bytes
        /\ b.size = cache.size /\ b.file = cache.file
    <3> DEFINE n == Less(cache.readers[e], 1)
               readers == [cache.readers EXCEPT ![e] = n]
    <3>1. cache.readers \in [Requests -> Nat]
      BY <1>1 DEF Caches
    <3>2. n \in Nat
      BY <2>1, <3>1 DEF Less
    <3>3. readers \in [Requests -> Nat]
      BY <3>1, <3>2
    <3>4. cache = [order |-> cache.order, bytes |-> cache.bytes, size |-> cache.size,
                   readers |-> cache.readers, file |-> cache.file]
      BY <1>1 DEF Caches
    <3>5. b = [order |-> cache.order, bytes |-> cache.bytes, size |-> cache.size,
               readers |-> readers, file |-> cache.file]
      BY <3>4
    <3> HIDE DEF b, n, readers
    <3> QED
      BY <1>1, <3>3, <3>5 DEF Caches
  <2> HIDE DEF b
  <2>4. Counted(b)
    <3>1. \A a \in ToSet(cache.order) : b.size[a] = cache.size[a]
      BY <2>3
    <3>2. Total(b, ToSet(cache.order)) = Total(cache, ToSet(cache.order))
      BY <3>1, TotalSame
    <3> QED
      BY <1>1, <2>3, <3>2 DEF Counted
  <2>5. c \in Prunings(b)
    BY <1>7 DEF b
  <2>6. PICK E : Evicts(b, c, E)
    BY <2>4, <2>5, PruningFacts
  <2>7. Limits(c)
    BY <2>4, <2>5, PruningFacts
  <2>8. b.file[e] = "evicted" => e \notin ToSet(b.order)
    BY <2>1, <2>3, OneFile DEF PackInv, FileOK
  <2>9. Evicts(Unread(b, e), cache', E) /\ Limits(cache')
    BY <1>7, <2>1, <2>3, <2>6, <2>7, <2>8, UnreadPruned
  <2>10. PackFine(cache', [req EXCEPT ![r] = o], writer, Settled(inflight, req[r].key, r))
    BY <2>2, <2>9, EvictFine
  <2> QED
    BY <1>2, <1>5, <1>7, <2>9, <2>10 DEF PackInv
<1>8. ASSUME req[r].reads = None, writer[r] = "done",
             cache' = [cache EXCEPT !.file[r] = "removing"], Set(r, "release")
      PROVE  PackInv'
  <2> DEFINE s == [req[r] EXCEPT !.stage = "release"]
  <2>1. req' = [req EXCEPT ![r] = s]
    BY <1>8 DEF Set
  <2>2. s \in Records /\ s.stage = "release" /\ s.reads = None /\ s.key = req[r].key
    <3>1. "release" \in Stages
      BY DEF Stages
    <3> QED
      BY <1>1, <1>8, <3>1, StageRecord
  <2> HIDE DEF s
  <2>3. Stands(r, s, writer[r]) /\ ~Downloading(s, writer[r]) /\ ~UsedOnce(s, writer[r])
    BY <1>4, <1>8, <2>2 DEF Stands, Downloading, Writers, UsedOnce
  <2>4. UsedOnce(req[r], writer[r])
    BY <1>8 DEF UsedOnce
  <2>5. r \notin ToSet(cache.order) /\ cache.file[r] = "there" /\ ReadBy(req, r) = {}
    <3>1. r \notin ToSet(cache.order) /\ cache.file[r] = "there"
      BY <2>4, OneFile DEF PackInv, FileOK
    <3>2. ~(r \notin ToSet(cache.order) /\ ReadBy(req, r) # {})
      BY <3>1, OneFile DEF PackInv, FileOK
    <3> QED
      BY <3>1, <3>2
  <2>6. FileOK("removing", r \in ToSet(cache.order), ReadBy(req, r) # {}, s, writer[r])
    BY <1>8, <2>3, <2>5 DEF FileOK
  <2>7. PackFine([cache EXCEPT !.file[r] = "removing"], [req EXCEPT ![r] = s],
                 [writer EXCEPT ![r] = writer[r]], Settled(inflight, req[r].key, r))
    BY <1>8, <2>2, <2>3, <2>5, <2>6, Settles DEF PackInv
  <2>8. Limits(cache')
    BY <1>1, <1>8, LimitsFile DEF PackInv
  <2> QED
    BY <1>1, <1>2, <1>8, <2>1, <2>7, <2>8 DEF PackInv
<1>9. ASSUME req[r].reads = None, writer[r] # "done", Over(r), UNCHANGED cache
      PROVE  PackInv'
  <2>1. UsedOnce(o, writer[r]) <=> UsedOnce(req[r], writer[r])
    BY <1>9 DEF UsedOnce
  <2>2. PackFine(cache, [req EXCEPT ![r] = o], [writer EXCEPT ![r] = writer[r]],
                 Settled(inflight, req[r].key, r))
    BY <1>3, <1>6, <1>9, <2>1, OnlySettles DEF PackInv
  <2> QED
    BY <1>1, <1>2, <1>5, <1>9, <2>2 DEF PackInv
<1> QED
  BY <1>7, <1>8, <1>9 DEF Release

\* The client has read everything.
LEMMA ServeEndsStep ==
  ASSUME PackInv, NEW r \in Requests, ServeEnds(r) PROVE PackInv'
<1>1. Stands(r, req[r], writer[r])
  BY OneRequest
<1>2. req[r].stage = "serve" /\ (Streams(r) => writer[r] = "done") /\ Release(r)
  BY DEF ServeEnds, Is
<1>3. writer[r] \in {"none", "failed", "done"}
  BY <1>1, <1>2 DEF Stands, Streams, Writers
<1> QED
  BY <1>2, <1>3, ReleaseStep

\* A request of which one part changes that the cache does not depend on.
LEMMA AbortStep ==
  ASSUME PackInv, NEW r \in Requests, NEW s, s \in Records, Stands(r, s, writer[r]),
         req' = [req EXCEPT ![r] = s], s.reads = req[r].reads, s.key = req[r].key,
         s.stage = req[r].stage \/ writer[r] \in {"writing", "failing"},
         {s.stage, req[r].stage} \cap {"fetch", "backoff", "download"} = {}
            \/ s.stage = req[r].stage,
         UNCHANGED <<writer, cache, inflight>>
  PROVE  PackInv'
<1>1. writer = [writer EXCEPT ![r] = writer[r]]
  BY OneRequest
<1>2. Downloading(s, writer[r]) <=> Downloading(req[r], writer[r])
  BY DEF Downloading
<1>3. UsedOnce(s, writer[r]) <=> UsedOnce(req[r], writer[r])
  BY DEF UsedOnce
<1>4. PackFine(cache, [req EXCEPT ![r] = s], [writer EXCEPT ![r] = writer[r]], inflight)
  BY <1>2, <1>3, OnlyRequest DEF PackInv
<1> QED
  BY <1>1, <1>4 DEF PackInv

\* A response fails, and a stream's download with it.
LEMMA ServeFailsStep ==
  ASSUME PackInv, NEW r \in Requests, ServeFails(r) PROVE PackInv'
<1>1. Stands(r, req[r], writer[r]) /\ req[r] \in Records /\ req \in [Requests -> Records]
  BY OneRequest
<1>2. req[r].stage = "serve"
  BY DEF ServeFails, Is
<1>3. CASE Streams(r) /\ writer[r] \notin {"done", "failed"}
  <2> DEFINE s == [req[r] EXCEPT !.stage = "settle", !.aborted = TRUE]
  <2>1. /\ writer[r] # "opening" /\ req' = [req EXCEPT ![r] = s]
        /\ UNCHANGED <<writer, cache, inflight>>
    BY <1>1, <1>3 DEF ServeFails
  <2>2. s \in Records /\ s.stage = "settle" /\ s.aborted = TRUE /\ s.reads = req[r].reads
        /\ s.key = req[r].key
    BY <1>1 DEF Records, Stages
  <2> HIDE DEF s
  <2>3. writer[r] \in {"writing", "failing"} /\ r \in Streaming
    BY <1>1, <1>3, <2>1 DEF Stands, Streams, Writers
  <2>4. req[r].reads = None
    <3>1. req[r].reads = r => writer[r] = "done"
      BY PackNumbers DEF PackInv, PackFine, RequestsOK
    <3> QED
      BY <1>1, <2>3, <3>1 DEF Stands
  <2>5. Stands(r, s, writer[r])
    BY <1>1, <1>2, <2>2, <2>3, <2>4 DEF Stands
  <2>6. {s.stage, req[r].stage} \cap {"fetch", "backoff", "download"} = {}
    BY <1>2, <2>2
  <2> QED
    BY <2>1, <2>2, <2>3, <2>5, <2>6, AbortStep
<1>4. CASE ~(Streams(r) /\ writer[r] \notin {"done", "failed"})
  <2>1. Release(r)
    BY <1>4 DEF ServeFails
  <2>2. writer[r] \in {"none", "failed", "done"}
    BY <1>1, <1>2, <1>4 DEF Stands, Streams, Writers
  <2> QED
    BY <1>2, <2>1, <2>2, ReleaseStep
<1> QED
  BY <1>3, <1>4

\* A stream that was aborted has settled.
LEMMA SettleEndsStep ==
  ASSUME PackInv, NEW r \in Requests, SettleEnds(r) PROVE PackInv'
  BY ReleaseStep DEF SettleEnds, Is

\* The file that nobody needs any more is removed.
LEMMA FileRemovedStep ==
  ASSUME PackInv, NEW r \in Requests, FileRemoved(r) PROVE PackInv'
<1>1. /\ req \in [Requests -> Records] /\ req[r] \in Records /\ cache \in Caches
      /\ Stands(r, req[r], writer[r]) /\ req = [req EXCEPT ![r] = req[r]]
      /\ writer = [writer EXCEPT ![r] = writer[r]]
  BY OneRequest
<1>2. /\ cache.file[r] = "removing" /\ writer[r] = "done"
      /\ cache' = [cache EXCEPT !.file[r] = "none"] /\ UNCHANGED <<writer, inflight>>
  BY DEF FileRemoved
<1>3. FileOK(cache.file[r], r \in ToSet(cache.order), ReadBy(req, r) # {}, req[r], writer[r])
  BY OneFile DEF PackInv
<1>4. ASSUME NEW s, Stands(r, s, writer[r]), s.reads = req[r].reads, s.key = req[r].key,
             s.stage = req[r].stage \/ s.stage = "done", req' = [req EXCEPT ![r] = s]
      PROVE  PackInv'
  <2>1. ~Downloading(s, writer[r]) /\ ~Downloading(req[r], writer[r])
    BY <1>1, <1>2, <1>4 DEF Stands, Downloading
  <2>2. UsedOnce(s, writer[r]) => UsedOnce(req[r], writer[r])
    BY <1>4 DEF UsedOnce
  <2>3. FileOK("none", r \in ToSet(cache.order), ReadBy(req, r) # {}, s, writer[r])
        /\ r \notin ToSet(cache.order)
    BY <1>2, <1>3, <2>2 DEF FileOK
  <2>4. PackFine([cache EXCEPT !.file[r] = "none"], [req EXCEPT ![r] = s],
                 [writer EXCEPT ![r] = writer[r]], inflight)
    BY <1>4, <2>1, <2>3, Stays DEF PackInv
  <2>5. Limits(cache')
    BY <1>1, <1>2, LimitsFile DEF PackInv
  <2> QED
    BY <1>1, <1>2, <1>4, <2>4, <2>5 DEF PackInv
<1>5. CASE Is(r, {"release"}) /\ Over(r)
  <2> DEFINE s == [Fresh EXCEPT !.stage = "done", !.key = req[r].key]
  <2>1. req' = [req EXCEPT ![r] = s]
    BY <1>5 DEF Over
  <2>2. s \in Records /\ s.stage = "done" /\ s.key = req[r].key /\ s.reads = None
    BY <1>1, OverRecord
  <2> HIDE DEF s
  <2>3. req[r].stage = "release"
    BY <1>5 DEF Is
  <2>4. req[r].reads = None /\ req[r].key \in Keys
    BY <1>1, <2>3 DEF Stands
  <2>5. Stands(r, s, writer[r])
    BY <1>2, <2>2, <2>4 DEF Stands, Writers
  <2> QED
    BY <1>4, <2>1, <2>2, <2>4, <2>5
<1>6. CASE UNCHANGED req
  <2>1. req' = [req EXCEPT ![r] = req[r]]
    BY <1>1, <1>6
  <2> QED
    BY <1>1, <1>4, <2>1
<1> QED
  BY <1>5, <1>6 DEF FileRemoved

\* A client leaves, or a deadline aborts a stream.
LEMMA LeavesStep ==
  ASSUME PackInv, NEW r \in Requests, ClientLeaves(r) \/ Deadline(r) PROVE PackInv'
<1>1. req[r] \in Records /\ req \in [Requests -> Records] /\ Stands(r, req[r], writer[r])
  BY OneRequest
<1> DEFINE s == [req[r] EXCEPT !.aborted = TRUE]
<1>2. req' = [req EXCEPT ![r] = s] /\ UNCHANGED <<writer, cache, inflight>>
  BY <1>1 DEF ClientLeaves, Deadline
<1>3. s \in Records /\ s.stage = req[r].stage /\ s.key = req[r].key
      /\ s.reads = req[r].reads /\ s.aborted = TRUE
  BY <1>1, AbortedRecord
<1> HIDE DEF s
<1>4. Stands(r, s, writer[r])
  BY <1>1, <1>3 DEF Stands
<1> QED
  BY <1>2, <1>3, <1>4, AbortStep

\* No request has arrived yet.
LEMMA PackInitInv == PackInit => PackInv
<1> SUFFICES ASSUME PackInit PROVE PackInv
  OBVIOUS
<1>1. Fresh \in Records
  <2>1. 1 \in 1 .. MaxAttempts
    BY PackNumbers
  <2> QED
    BY <2>1 DEF Fresh, Records, Stages
<1>2. \A r \in Requests : Stands(r, req[r], writer[r])
  BY <1>1 DEF PackInit, Fresh, Stands, Writers
<1>3. RequestsOK(req, writer)
  BY <1>1, <1>2 DEF PackInit, RequestsOK, Writers, Fresh
<1>4. \A r \in Requests : ~Downloading(req[r], writer[r])
  BY DEF PackInit, Fresh, Downloading
<1>5. InflightOK(req, writer, inflight)
  BY <1>4 DEF PackInit, InflightOK
<1>6. /\ cache \in Caches /\ cache.order = <<>> /\ cache.bytes = 0
      /\ \A r \in Requests : cache.readers[r] = 0 /\ cache.file[r] = "none"
  BY PackNumbers DEF PackInit, Caches
<1>7. ToSet(cache.order) = {}
  BY <1>6 DEF ToSet
<1>8. \A r \in Requests : ReadBy(req, r) = {}
  BY PackNumbers DEF PackInit, Fresh, ReadBy
<1>9. CountsOK(cache, req)
  BY <1>6, <1>7, <1>8, TotalNone, FS_EmptySet DEF CountsOK
<1>10. EntriesOK(cache, req, writer)
  BY <1>6, <1>7, <1>8 DEF PackInit, EntriesOK, FileOK, UsedOnce
<1>11. Apart(cache, req, writer)
  BY <1>4 DEF Apart
<1>12. Limits(cache)
  BY <1>6, PackNumbers DEF Limits
<1> QED
  BY <1>3, <1>5, <1>9, <1>10, <1>11, <1>12 DEF PackInv, PackFine

\* No step leaves the invariant.
LEMMA PackInvStep == PackInv /\ [PackNext]_packVars => PackInv'
<1> SUFFICES ASSUME PackInv, [PackNext]_packVars PROVE PackInv'
  OBVIOUS
<1>1. CASE UNCHANGED packVars
  BY <1>1 DEF packVars, PackInv
<1>2. CASE Manifest
  <2>1. cache' \in Prunings(cache) /\ UNCHANGED <<req, writer, inflight>>
    BY <1>2 DEF Manifest
  <2> QED
    BY <2>1, PruningFine DEF PackInv
<1>3. CASE \E r \in Requests : Arrives(r) \/ Step(r) \/ ServeEnds(r) \/ ClientLeaves(r)
  <2>1. PICK r \in Requests : Arrives(r) \/ Step(r) \/ ServeEnds(r) \/ ClientLeaves(r)
    BY <1>3
  <2>2. CASE Arrives(r)
    BY <2>2, ArrivesStep
  <2>3. CASE WaitEnds(r)
    BY <2>3, WaitEndsStep
  <2>4. CASE BackoffEnds(r)
    BY <2>4, BackoffEndsStep
  <2>5. CASE FetchEnds(r)
    BY <2>5, FetchEndsStep
  <2>6. CASE SpoolOpens(r)
    BY <2>6, SpoolOpensStep
  <2>7. CASE BodyEnds(r)
    BY <2>7, BodyEndsStep
  <2>8. CASE SpoolRemoved(r)
    BY <2>8, SpoolRemovedStep
  <2>9. CASE SettleEnds(r)
    BY <2>9, SettleEndsStep
  <2>10. CASE FileRemoved(r)
    BY <2>10, FileRemovedStep
  <2>11. CASE ServeFails(r)
    BY <2>11, ServeFailsStep
  <2>12. CASE ClientLeaves(r) \/ Deadline(r)
    BY <2>12, LeavesStep
  <2>13. CASE ServeEnds(r)
    BY <2>13, ServeEndsStep
  <2> QED
    BY <2>1, <2>2, <2>3, <2>4, <2>5, <2>6, <2>7, <2>8, <2>9, <2>10, <2>11, <2>12, <2>13
    DEF Step, Continue
<1> QED
  BY <1>1, <1>2, <1>3 DEF PackNext

\* The cache is sound when the invariant holds.
LEMMA PackInvSound == PackInv => CacheIsSound
<1> SUFFICES ASSUME PackInv PROVE CacheIsSound
  OBVIOUS
<1>1. /\ req \in [Requests -> Records] /\ writer \in [Requests -> Writers]
      /\ inflight \in [Keys -> Requests \cup {None}] /\ cache \in Caches
      /\ cache.bytes = Total(cache, ToSet(cache.order)) /\ Limits(cache)
  BY DEF PackInv, PackFine, RequestsOK, InflightOK, CountsOK
<1>2. PackTypeOK
  <2>1. cache.bytes \in 0 .. MaxBytes /\ Len(cache.order) <= MaxEntries
    <3>1. cache.bytes \in Nat
      BY <1>1 DEF Caches
    <3> QED
      BY <1>1, <3>1, PackNumbers DEF Limits
  <2> QED
    BY <1>1, <2>1 DEF PackTypeOK, Records, Writers
<1>3. \A e \in Requests : Readers(e) = ReadBy(req, e)
  BY DEF Readers, ReadBy
<1>4. CountsAgree
  BY <1>1, <1>3 DEF CountsAgree, PackInv, PackFine, CountsOK
<1>5. ASSUME NEW e \in Requests
      PROVE  /\ cache.file[e] = "there" <=>
                  \/ e \in ToSet(cache.order)
                  \/ writer[e] = "writing"
                  \/ /\ writer[e] = "done" /\ req[e].reads = None
                     /\ Is(e, {"serve", "settle"})
             /\ cache.file[e] = "evicted" <=> e \notin ToSet(cache.order) /\ Readers(e) # {}
  <2>1. FileOK(cache.file[e], e \in ToSet(cache.order), ReadBy(req, e) # {}, req[e], writer[e])
    BY OneFile DEF PackInv
  <2> QED
    BY <1>3, <2>1 DEF FileOK, UsedOnce, Is
<1>6. FilesAreOwned
  BY <1>5 DEF FilesAreOwned
<1> QED
  BY <1>2, <1>4, <1>6 DEF CacheIsSound

\* So are the downloads.
LEMMA PackInvShared == PackInv => SharedDownload
<1> SUFFICES ASSUME PackInv PROVE SharedDownload
  OBVIOUS
<1>1. ASSUME NEW r \in Requests PROVE Downloads(r) <=> Downloading(req[r], writer[r])
  BY DEF Downloads, Downloading, Is
<1>2. ASSUME NEW r \in Requests, Downloads(r)
      PROVE  /\ req[r].key \in Keys /\ inflight[req[r].key] = r
             /\ \A e \in ToSet(cache.order) : req[e].key # req[r].key
  <2>1. Downloading(req[r], writer[r]) /\ Stands(r, req[r], writer[r])
    BY <1>1, <1>2, OneRequest
  <2>2. req[r].key \in Keys
    BY <2>1 DEF Stands, Downloading
  <2> QED
    BY <2>1, <2>2 DEF PackInv, PackFine, InflightOK, Apart
<1>3. ASSUME NEW r \in Requests, NEW k \in Keys, inflight[k] = r PROVE Downloads(r)
  BY <1>1, <1>3, PackNumbers DEF PackInv, PackFine, InflightOK
<1> QED
  BY <1>2, <1>3 DEF SharedDownload

\* The invariant holds always.
THEOREM PackInvariance == PackSpec => []PackInv
<1> QED
  BY PackInitInv, PackInvStep, PTL DEF PackSpec

\* However responses end (by their client, their body, a deadline or an error),
\* the cache's bytes and readers agree with what they count, it keeps both limits,
\* and a file is there as long as an entry or a response needs it, no longer.
THEOREM CacheSoundness == PackSpec => []CacheIsSound
<1> QED
  BY PackInvariance, PackInvSound, PTL

\* A key has one download at a time, none while an entry has it, and is taken
\* exactly as long as that download runs, however it ends.
THEOREM DownloadSharing == PackSpec => []SharedDownload
<1> QED
  BY PackInvariance, PackInvShared, PTL

=============================================================================
