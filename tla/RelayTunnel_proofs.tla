--------------------------- MODULE RelayTunnel_proofs ---------------------------
(***************************************************************************)
(* Proofs about TunnelPhase and RelayTunnel, for every limit of the parser *)
(* and every number of targets and other tunnels.                          *)
(*                                                                         *)
(* The argument about the phase: the bytes in the parser are the last ones *)
(* the client sent, so they lead from a phase the relay may be in to the   *)
(* phase the client has reached, whatever was dropped before them.  The    *)
(* argument about the end: the route is held exactly while the socket is   *)
(* there, and no socket is there once the tunnel has been closed.          *)
(***************************************************************************)
EXTENDS RelayTunnel, SequenceTheorems, TLAPS

USE ParserLimitAssumption, RelayTunnelAssumption

-----------------------------------------------------------------------------
(* What the steps keep.                                                    *)

\* The two ends: what client c may still acknowledge, by the server's state s,
\* and whether the server has an acknowledgement to read (un).
Agree(c, s, un) ==
    /\ s \in {"login", "configuration", "play"} => c.phase = s /\ c.may = "none"
    /\ s = "encrypting" =>
          c.phase = "login" /\ c.may \in {"none", "encryptionResponse"}
    /\ s = "cipher" => c.phase = "login" /\ c.may = "none"
    /\ s = "loggedIn" => \/ c.phase = "login" /\ c.may = "loginAck"
                         \/ c.phase = "configuration" /\ c.may = "none"
    /\ s = "finishing" => \/ c.phase = "configuration" /\ c.may = "finish"
                          \/ c.phase = "play" /\ c.may = "none"
    /\ s = "switching" => \/ c.phase = "play" /\ c.may = "confAck"
                          \/ c.phase = "configuration" /\ c.may = "none"
    /\ un => /\ c.may = "none"
             /\ s \in {"encrypting", "loggedIn", "finishing", "switching"}

EndsAgree == Agree(cl, server, unread)

\* Inspection ends before the first encrypted byte is kept.
EncryptionIsKnown ==
    /\ cl.may = "encryptionResponse" => encPending \/ ~framing
    /\ cl.cipher => ~framing

PhaseAcks == {"loginAck", "finish", "confAck"}

\* Nobody leaves the login before the client does.
LoginIsShared ==
    cl.phase = "login" =>
        phase = "login" /\ \A i \in 1 .. Len(cbuf) : cbuf[i].kind \notin PhaseAcks

\* The parser holds whole packets of one unit, or of two that are plain.
Aligned(b) ==
    \A i \in 1 .. Len(b) : ~b[i].last =>
        b[i].kind = "plain" /\ (i < Len(b) => b[i + 1] = Whole("plain"))

\* The client is inside a packet exactly when the parser ends inside one.
EndsInside(b) == b # <<>> /\ ~b[Len(b)].last

\* The relay may be in phase p when the client was in q where buffer b begins.
Compatible(p, q, b) ==
    \/ p = q
    \/ p \in {"configuration", "reconfiguring"} /\ q = "play"
    \/ p = "login" /\ q = "configuration" /\ b # <<>> /\ b[1].kind = "finish"

\* Unit u takes the client from phase q to phase r.
Takes(q, u, r) ==
    /\ r = PhaseAfter(u.kind, q)
    /\ u.kind = "loginAck" => q = "login"
    /\ u.kind = "finish" => q = "configuration"
    /\ u.kind \in {"confAck", "tick"} => q = "play"

\* Buffer b leads from a phase that p is compatible with to phase r.
Leads(p, b, r) ==
    \E f \in [0 .. Len(b) -> Phases] :
        /\ Compatible(p, f[0], b) /\ f[Len(b)] = r
        /\ \A i \in 1 .. Len(b) : Takes(f[i - 1], b[i], f[i])

\* Buffer b is what client c has sent since the relay's phase was p.
Follows(p, b, c) ==
    Aligned(b) /\ Leads(p, b, c.phase) /\ (c.mid <=> EndsInside(b))

Tracked == framing /\ ~inspectOff /\ ~closed

\* What is known of a parser at work, and that one that is not is empty.
ParserFollows ==
    /\ Tracked => Follows(phase, cbuf, cl)
    /\ ~Tracked => cbuf = <<>>
    /\ cbuf # <<>> => lag
    /\ framing /\ inspectOff /\ ~closed => lag
    /\ closed => inspectOff

IndInv ==
    /\ TypeOK /\ EndsAgree /\ EncryptionIsKnown /\ LoginIsShared /\ ParserFollows
    /\ NeverParsesCiphertext /\ NeverStuck
    /\ KeepAlivesFit /\ TicksFitWhenSettled

-----------------------------------------------------------------------------
(* Units and buffers.                                                      *)

Clients == [phase : Phases, mid : BOOLEAN, cipher : BOOLEAN,
            may : Acks \cup {"none"}]
States == Phases \cup {"encrypting", "loggedIn", "finishing", "switching", "cipher"}

Half == [kind |-> "plain", last |-> FALSE]

\* The units, spelled out.
LEMMA UnitFacts ==
    /\ \A k \in Acks \cup {"tick", "plain", "cipher"} :
          Whole(k) \in Units /\ Whole(k).kind = k /\ Whole(k).last
    /\ Half \in Units /\ Half.kind = "plain" /\ ~Half.last
BY DEF Whole, Half, Units

\* What a client sends, spelled out.
LEMMA SentUnit ==
    ASSUME NEW c \in Clients, NEW u \in Sends(c)
    PROVE  /\ u \in Units
           /\ \/ c.cipher /\ u = Whole("cipher")
              \/ ~c.cipher /\ u = Whole("plain")
              \/ ~c.cipher /\ ~c.mid /\ u = Half
              \/ ~c.cipher /\ ~c.mid /\ c.may # "none" /\ u = Whole(c.may)
              \/ ~c.cipher /\ ~c.mid /\ c.phase = "play" /\ u = Whole("tick")
<1>1. c.may \in Acks \cup {"none"} /\ c.cipher \in BOOLEAN /\ c.mid \in BOOLEAN
  BY DEF Clients
<1>2. CASE c.cipher
  <2>1. u = Whole("cipher")
    BY <1>2 DEF Sends
  <2> QED
    BY <1>2, <2>1, UnitFacts
<1>3. CASE ~c.cipher /\ c.mid
  <2>1. u = Whole("plain")
    BY <1>3 DEF Sends
  <2> QED
    BY <1>3, <2>1, UnitFacts
<1>4. CASE ~c.cipher /\ ~c.mid
  <2>1. \/ u = Whole("plain") \/ u = Half
        \/ \E k \in {c.may} \ {"none"} : u = Whole(k)
        \/ \E p \in {c.phase} \cap {"play"} : u = Whole("tick")
    BY <1>4 DEF Sends, Half
  <2>2. \/ u = Whole("plain") \/ u = Half
        \/ c.may # "none" /\ u = Whole(c.may)
        \/ c.phase = "play" /\ u = Whole("tick")
    BY <2>1
  <2> QED
    BY <1>1, <1>4, <2>2, UnitFacts
<1> QED
  BY <1>1, <1>2, <1>3, <1>4

\* A unit keeps the two ends in agreement and takes the client to its phase.
LEMMA ClientStep ==
    ASSUME NEW c \in Clients, NEW u \in Sends(c), NEW s \in States,
           NEW un \in BOOLEAN, Agree(c, s, un)
    PROVE  /\ After(c, u) \in Clients
           /\ Agree(After(c, u), s, un \/ u.kind \in Acks)
           /\ Takes(c.phase, u, After(c, u).phase)
           /\ After(c, u).phase = "login" =>
                 c.phase = "login" /\ u.kind \notin PhaseAcks
           /\ After(c, u).may \in {c.may, "none"}
           /\ u.kind \in {"encryptionResponse", "cipher"} =>
                 c.cipher \/ c.may = "encryptionResponse"
           /\ After(c, u).cipher => c.cipher \/ c.may = "encryptionResponse"
           /\ After(c, u).mid <=> ~u.last
<1>1. /\ u \in Units
      /\ \/ c.cipher /\ u = Whole("cipher")
         \/ ~c.cipher /\ u = Whole("plain")
         \/ ~c.cipher /\ ~c.mid /\ u = Half
         \/ ~c.cipher /\ ~c.mid /\ c.may # "none" /\ u = Whole(c.may)
         \/ ~c.cipher /\ ~c.mid /\ c.phase = "play" /\ u = Whole("tick")
  BY SentUnit
<1>2. /\ After(c, u).phase = PhaseAfter(u.kind, c.phase)
      /\ After(c, u).mid = ~u.last
      /\ After(c, u).cipher = (c.cipher \/ u.kind = "encryptionResponse")
      /\ After(c, u).may = IF u.kind = c.may THEN "none" ELSE c.may
  BY DEF After
<1>3. /\ u.kind \in {"plain", "cipher", "tick", "encryptionResponse"} =>
            PhaseAfter(u.kind, c.phase) = c.phase
      /\ u.kind \in {"loginAck", "confAck"} =>
            PhaseAfter(u.kind, c.phase) = "configuration"
      /\ u.kind = "finish" => PhaseAfter(u.kind, c.phase) = "play"
  BY DEF PhaseAfter
<1>4. c.may \in Acks \cup {"none"} /\ c.phase \in Phases
  BY DEF Clients
<1>5. \/ u.kind \in {"plain", "cipher"}
      \/ u.kind = "tick" /\ c.phase = "play"
      \/ c.may # "none" /\ u.kind = c.may
  BY <1>1, <1>4, UnitFacts
<1>6. After(c, u) \in Clients
  <2>1. After(c, u).phase \in Phases
    BY <1>2, <1>3, <1>4, <1>5 DEF Phases, Acks
  <2> QED
    BY <2>1, <1>1, <1>4 DEF Clients, After, Units
<1>7. CASE u.kind \in {"plain", "cipher", "tick"}
  <2>1. After(c, u).phase = c.phase /\ After(c, u).may = c.may
    BY <1>2, <1>3, <1>4, <1>7 DEF Acks
  <2>2. u.kind \notin Acks /\ (u.kind = "cipher" => c.cipher)
    BY <1>1, <1>4, <1>7, UnitFacts DEF Acks
  <2>3. Agree(After(c, u), s, un \/ u.kind \in Acks)
    BY <2>1, <2>2 DEF Agree
  <2>4. Takes(c.phase, u, After(c, u).phase)
    BY <1>2, <1>5, <1>7, <2>1, <2>2 DEF Takes, Acks
  <2> QED
    BY <1>2, <1>6, <2>1, <2>2, <2>3, <2>4 DEF PhaseAcks, Acks
<1>8. CASE c.may # "none" /\ u.kind = c.may
  <2>1. /\ After(c, u).may = "none"
        /\ c.may = "encryptionResponse" => c.phase = "login" /\ s = "encrypting"
        /\ c.may = "loginAck" => c.phase = "login" /\ s = "loggedIn"
        /\ c.may = "finish" => c.phase = "configuration" /\ s = "finishing"
        /\ c.may = "confAck" => c.phase = "play" /\ s = "switching"
        /\ ~un
    BY <1>2, <1>4, <1>8 DEF Agree, States, Phases, Acks
  <2>2. Agree(After(c, u), s, un \/ u.kind \in Acks)
    BY <1>2, <1>3, <1>4, <1>8, <2>1 DEF Agree, Acks
  <2> QED
    BY <1>1, <1>2, <1>3, <1>4, <1>6, <1>8, <2>1, <2>2
       DEF Takes, PhaseAcks, Acks
<1> QED
  BY <1>5, <1>7, <1>8

\* A unit the client sends in plain follows the buffer.
LEMMA AppendFollows ==
    ASSUME NEW p \in Phases \cup {"reconfiguring"}, NEW b \in Seq(Units),
           NEW c \in Clients, NEW u \in Sends(c), ~c.cipher,
           Follows(p, b, c), Takes(c.phase, u, After(c, u).phase),
           After(c, u).phase \in Phases, After(c, u).mid <=> ~u.last
    PROVE  Follows(p, Append(b, u), After(c, u))
<1> DEFINE d == After(c, u)
           n == Len(b)
           a == Append(b, u)
<1>1. /\ u \in Units
      /\ ~u.last => u.kind = "plain" /\ ~c.mid
      /\ c.mid => u = Whole("plain")
  <2>1. c.may \in Acks \cup {"none"}
    BY DEF Clients
  <2> QED
    BY <2>1, SentUnit, UnitFacts
<1>2. /\ n \in Nat /\ Len(a) = n + 1 /\ a \in Seq(Units) /\ a # <<>>
      /\ \A i \in 1 .. n : a[i] = b[i]
      /\ a[n + 1] = u
  BY <1>1
<1>3. Aligned(a)
  <2> SUFFICES ASSUME NEW i \in 1 .. n + 1, ~a[i].last
               PROVE  a[i].kind = "plain" /\ (i < n + 1 => a[i + 1] = Whole("plain"))
    BY <1>2 DEF Aligned
  <2>1. CASE i = n + 1
    BY <2>1, <1>1, <1>2
  <2>2. CASE i = n
    <3>1. b # <<>> /\ ~b[n].last
      BY <2>2, <1>2
    <3>2. c.mid
      BY <3>1 DEF Follows, EndsInside
    <3> QED
      BY <2>2, <3>1, <3>2, <1>1, <1>2 DEF Follows, Aligned
  <2>3. CASE i < n
    BY <2>3, <1>2 DEF Follows, Aligned
  <2> QED
    BY <1>2, <2>1, <2>2, <2>3
<1>4. Leads(p, a, d.phase)
  <2>1. PICK f \in [0 .. n -> Phases] :
           /\ Compatible(p, f[0], b) /\ f[n] = c.phase
           /\ \A i \in 1 .. n : Takes(f[i - 1], b[i], f[i])
    BY DEF Follows, Leads
  <2> DEFINE g == [i \in 0 .. n + 1 |-> IF i <= n THEN f[i] ELSE d.phase]
  <2>2. /\ g \in [0 .. n + 1 -> Phases]
        /\ \A i \in 0 .. n : g[i] = f[i]
        /\ g[n + 1] = d.phase
    BY <1>2
  <2>3. Compatible(p, g[0], a)
    <3>1. b # <<>> => a[1] = b[1]
      BY <1>2
    <3> QED
      BY <1>2, <2>1, <2>2, <3>1 DEF Compatible
  <2>4. ASSUME NEW i \in 1 .. n + 1
        PROVE  Takes(g[i - 1], a[i], g[i])
    <3>1. CASE i = n + 1
      BY <3>1, <1>2, <2>1, <2>2
    <3>2. CASE i \in 1 .. n
      BY <3>2, <1>2, <2>1, <2>2
    <3> QED
      BY <1>2, <3>1, <3>2
  <2> HIDE DEF g
  <2> QED
    BY <1>2, <2>2, <2>3, <2>4 DEF Leads
<1>5. d.mid <=> EndsInside(a)
  BY <1>2 DEF EndsInside
<1> QED
  BY <1>3, <1>4, <1>5 DEF Follows

\* A message of one or two units is appended unit by unit.
LEMMA AppendUnits ==
    ASSUME NEW S, NEW b \in Seq(S), NEW u \in S, NEW w \in S
    PROVE  /\ b \o <<u>> = Append(b, u)
           /\ b \o <<u, w>> = Append(Append(b, u), w)
<1>1. b \o <<u>> = Append(b, u)
  BY AppendIsConcat
<1>2. /\ b \o <<u, w>> \in Seq(S) /\ Append(Append(b, u), w) \in Seq(S)
      /\ Len(b \o <<u, w>>) = Len(Append(Append(b, u), w))
  OBVIOUS
<1>3. \A i \in 1 .. Len(b \o <<u, w>>) :
         (b \o <<u, w>>)[i] = Append(Append(b, u), w)[i]
  <2> SUFFICES ASSUME NEW i \in 1 .. Len(b) + 2
               PROVE  (b \o <<u, w>>)[i] = Append(Append(b, u), w)[i]
    OBVIOUS
  <2>1. CASE i \in 1 .. Len(b)
    BY <2>1
  <2>2. CASE i = Len(b) + 1
    BY <2>2
  <2>3. CASE i = Len(b) + 2
    BY <2>3
  <2> QED
    BY <2>1, <2>2, <2>3
<1> QED
  BY <1>1, <1>2, <1>3, SeqEqual

\* A sequence of length one, spelled out.
LEMMA Single ==
    ASSUME NEW S, NEW s \in Seq(S), Len(s) = 1
    PROVE  s[1] \in S /\ s = <<s[1]>>
<1>1. /\ <<s[1]>> \in Seq(S) /\ Len(<<s[1]>>) = 1
      /\ \A i \in 1 .. Len(s) : s[i] = <<s[1]>>[i]
  OBVIOUS
<1> QED
  BY <1>1, SeqEqual

\* Two messages of one unit in a row.
LEMMA PairOfUnits ==
    ASSUME NEW S, NEW u \in S, NEW w \in S
    PROVE  <<u>> \o <<w>> = <<u, w>>
<1> DEFINE a == <<u>> \o <<w>>
           b == <<u, w>>
<1>1. a \in Seq(S) /\ b \in Seq(S) /\ Len(a) = 2 /\ Len(b) = 2
  OBVIOUS
<1>2. a[1] = u /\ a[2] = w /\ b[1] = u /\ b[2] = w
  OBVIOUS
<1> HIDE DEF a, b
<1>3. \A i \in 1 .. Len(a) : a[i] = b[i]
  BY <1>1, <1>2
<1>4. a = b
  BY <1>1, <1>3, SeqEqual
<1> QED
  BY <1>4 DEF a, b

\* A message of unit u and what may follow it, and the client after it.
Message(c, u, v) == <<u>> \o v
MessageAfter(c, u, v) == IF v = <<>> THEN After(c, u) ELSE After(After(c, u), v[1])
Second(c, u) == {<<>>} \cup {<<w>> : w \in Sends(After(c, u))}

\* What a message does to the client and to the buffer it is appended to.
LEMMA MessageStep ==
    ASSUME NEW c \in Clients, NEW s \in States, NEW un \in BOOLEAN, Agree(c, s, un),
           NEW u \in Sends(c), NEW v \in Second(c, u)
    PROVE  LET m == Message(c, u, v)
               d == MessageAfter(c, u, v)
           IN  /\ d \in Clients /\ m \in Seq(Units) /\ Len(m) \in {1, 2}
               /\ Agree(d, s, un \/ \E i \in 1 .. Len(m) : m[i].kind \in Acks)
               /\ d.phase = "login" =>
                     /\ c.phase = "login"
                     /\ \A i \in 1 .. Len(m) : m[i].kind \notin PhaseAcks
               /\ d.may \in {c.may, "none"}
               /\ d.cipher => c.cipher \/ c.may = "encryptionResponse"
               /\ \A i \in 1 .. Len(m) : m[i].kind = "cipher" =>
                     c.cipher \/ c.may = "encryptionResponse"
               /\ Len(m) = 1 =>
                     Takes(c.phase, m[1], d.phase) /\ (d.mid <=> ~m[1].last)
               /\ ~c.cipher /\ c.may # "encryptionResponse" =>
                     \A p \in Phases \cup {"reconfiguring"}, b \in Seq(Units) :
                        Follows(p, b, c) => Follows(p, b \o m, d)
<1> DEFINE m == Message(c, u, v)
           d == MessageAfter(c, u, v)
           e == After(c, u)
           un1 == un \/ u.kind \in Acks
<1>1. u \in Units
  BY SentUnit
<1>2. /\ e \in Clients /\ Agree(e, s, un1)
      /\ Takes(c.phase, u, e.phase)
      /\ e.phase = "login" => c.phase = "login" /\ u.kind \notin PhaseAcks
      /\ e.may \in {c.may, "none"}
      /\ u.kind \in {"encryptionResponse", "cipher"} =>
            c.cipher \/ c.may = "encryptionResponse"
      /\ e.cipher => c.cipher \/ c.may = "encryptionResponse"
      /\ e.mid <=> ~u.last
  BY ClientStep
<1>3. ASSUME ~c.cipher, NEW p \in Phases \cup {"reconfiguring"},
             NEW b \in Seq(Units), Follows(p, b, c)
      PROVE  Follows(p, Append(b, u), e)
  <2>1. e.phase \in Phases
    BY <1>2 DEF Clients
  <2> QED
    BY <1>2, <1>3, <2>1, AppendFollows
<1>4. CASE v = <<>>
  <2>1. m = <<u>> /\ d = e /\ Len(m) = 1 /\ m[1] = u /\ m \in Seq(Units)
    BY <1>1, <1>4 DEF Message, MessageAfter
  <2>2. \A i \in 1 .. Len(m) : i = 1 /\ m[i] = u
    BY <2>1
  <2>3. un1 = (un \/ \E i \in 1 .. Len(m) : m[i].kind \in Acks)
    BY <2>1
  <2>4. \A b \in Seq(Units) : b \o m = Append(b, u)
    BY <1>1, <2>1, AppendUnits
  <2> HIDE DEF m, d, e
  <2>5. ~c.cipher =>
           \A p \in Phases \cup {"reconfiguring"}, b \in Seq(Units) :
              Follows(p, b, c) => Follows(p, b \o m, d)
    BY <1>3, <2>1, <2>4
  <2> QED
    BY <1>2, <2>1, <2>2, <2>3, <2>5 DEF m, d
<1>5. ASSUME NEW w \in Sends(e), v = <<w>>
      PROVE  LET un2 == un1 \/ w.kind \in Acks IN
             /\ m = <<u, w>> /\ d = After(e, w) /\ w \in Units
             /\ d \in Clients /\ Agree(d, s, un2)
             /\ Takes(e.phase, w, d.phase)
             /\ d.phase = "login" => e.phase = "login" /\ w.kind \notin PhaseAcks
             /\ d.may \in {e.may, "none"}
             /\ w.kind \in {"encryptionResponse", "cipher"} =>
                   e.cipher \/ e.may = "encryptionResponse"
             /\ d.cipher => e.cipher \/ e.may = "encryptionResponse"
             /\ d.mid <=> ~w.last
  <2>1. m = <<u, w>> /\ d = After(e, w)
    <3>1. v = <<w>> /\ v # <<>> /\ v[1] = w
      BY <1>5
    <3>2. w \in Units
      BY <1>2, SentUnit
    <3>3. <<u>> \o <<w>> = <<u, w>>
      BY <1>1, <3>2, PairOfUnits
    <3> QED
      BY <3>1, <3>3 DEF Message, MessageAfter
  <2>2. w \in Units
    BY <1>2, SentUnit
  <2>3. un1 \in BOOLEAN
    OBVIOUS
  <2> HIDE DEF m, d, e, un1
  <2> QED
    BY <1>2, <2>1, <2>2, <2>3, ClientStep
<1>6. ASSUME NEW w \in Sends(e), v = <<w>>
      PROVE  ~c.cipher /\ c.may # "encryptionResponse" =>
                \A p \in Phases \cup {"reconfiguring"}, b \in Seq(Units) :
                   Follows(p, b, c) => Follows(p, b \o m, d)
  <2> SUFFICES ASSUME ~c.cipher, c.may # "encryptionResponse",
                      NEW p \in Phases \cup {"reconfiguring"}, NEW b \in Seq(Units),
                      Follows(p, b, c)
               PROVE  Follows(p, b \o m, d)
    OBVIOUS
  <2>1. ~e.cipher
    BY <1>2
  <2>2. Follows(p, Append(b, u), e) /\ Append(b, u) \in Seq(Units)
    BY <1>1, <1>3
  <2>3. d = After(e, w) /\ d.phase \in Phases
    BY <1>5, <1>6 DEF Clients
  <2>4. Takes(e.phase, w, d.phase) /\ (d.mid <=> ~w.last) /\ w \in Units /\ m = <<u, w>>
    BY <1>5, <1>6
  <2>5. b \o m = Append(Append(b, u), w)
    BY <1>1, <2>4, AppendUnits
  <2> HIDE DEF m, d, e
  <2>6. Follows(p, Append(Append(b, u), w), After(e, w))
    BY <1>2, <1>6, <2>1, <2>2, <2>3, <2>4, AppendFollows
  <2> QED
    BY <2>3, <2>5, <2>6
<1>7. ASSUME NEW w \in Sends(e), v = <<w>>
      PROVE  /\ Len(m) = 2 /\ m \in Seq(Units) /\ m[1] = u /\ m[2] = w
             /\ (un1 \/ w.kind \in Acks) =
                   (un \/ \E i \in 1 .. Len(m) : m[i].kind \in Acks)
  <2>1. m = <<u, w>> /\ w \in Units
    BY <1>5, <1>7
  <2>2. Len(m) = 2 /\ m \in Seq(Units) /\ m[1] = u /\ m[2] = w
    BY <1>1, <2>1
  <2> HIDE DEF m
  <2> QED
    BY <2>2
<1>8. CASE \E w \in Sends(e) : v = <<w>>
  <2>1. PICK w \in Sends(e) : v = <<w>>
    BY <1>8
  <2>2. \A i \in 1 .. Len(m) : (i = 1 /\ m[i] = u) \/ (i = 2 /\ m[i] = w)
    BY <1>7, <2>1
  <2>3. Len(m) = 2 /\ m \in Seq(Units)
    BY <1>7, <2>1
  <2>4. Agree(d, s, un \/ \E i \in 1 .. Len(m) : m[i].kind \in Acks)
    BY <1>5, <1>7, <2>1
  <2>5. /\ d \in Clients /\ d.may \in {e.may, "none"}
        /\ d.phase = "login" => e.phase = "login" /\ w.kind \notin PhaseAcks
        /\ w.kind = "cipher" => e.cipher \/ e.may = "encryptionResponse"
        /\ d.cipher => e.cipher \/ e.may = "encryptionResponse"
    BY <1>5, <2>1
  <2>6. ~c.cipher /\ c.may # "encryptionResponse" =>
           \A p \in Phases \cup {"reconfiguring"}, b \in Seq(Units) :
              Follows(p, b, c) => Follows(p, b \o m, d)
    BY <1>6, <2>1
  <2>7. \A i \in 1 .. Len(m) : m[i].kind = "cipher" =>
           c.cipher \/ c.may = "encryptionResponse"
    <3> HIDE DEF m, d, e
    <3> QED
      BY <1>2, <2>2, <2>5
  <2>8. d.phase = "login" => /\ c.phase = "login"
                            /\ \A i \in 1 .. Len(m) : m[i].kind \notin PhaseAcks
    <3> HIDE DEF m, d, e
    <3> QED
      BY <1>2, <2>2, <2>5
  <2>9. /\ d.may \in {c.may, "none"}
        /\ d.cipher => c.cipher \/ c.may = "encryptionResponse"
    <3> HIDE DEF m, d, e
    <3> QED
      BY <1>2, <2>5
  <2> HIDE DEF m, d, e
  <2> QED
    BY <2>3, <2>4, <2>5, <2>6, <2>7, <2>8, <2>9 DEF m, d
<1> QED
  BY <1>4, <1>8 DEF Second

\* A standalone control message starts a tracked buffer again.
LEMMA RestartFollows ==
    ASSUME NEW p \in Phases \cup {"reconfiguring"}, NEW c \in Clients,
           NEW u \in Units, NEW d \in Clients, u.last,
           Takes(c.phase, u, d.phase), d.mid <=> ~u.last,
           c.phase = "login" => p = "login",
           \/ EndsPhase(u.kind, p)
           \/ p \in {"play", "reconfiguring"} /\ u.kind = "tick"
    PROVE  Follows(p, <<u>>, d)
<1>1. Len(<<u>>) = 1 /\ <<u>>[1] = u /\ <<u>> # <<>>
  OBVIOUS
<1>2. Aligned(<<u>>) /\ (d.mid <=> EndsInside(<<u>>))
  BY <1>1 DEF Aligned, EndsInside
<1>3. Leads(p, <<u>>, d.phase)
  <2> DEFINE f == [i \in 0 .. 1 |-> IF i = 0 THEN c.phase ELSE d.phase]
  <2>1. f \in [0 .. 1 -> Phases] /\ f[0] = c.phase /\ f[1] = d.phase
    BY DEF Clients
  <2>2. Compatible(p, c.phase, <<u>>)
    BY <1>1 DEF Compatible, Takes, EndsPhase, Phases
  <2>3. \A i \in 1 .. 1 : Takes(f[i - 1], <<u>>[i], f[i])
    BY <2>1, <1>1
  <2> HIDE DEF f
  <2> QED
    BY <1>1, <2>1, <2>2, <2>3 DEF Leads
<1> QED
  BY <1>2, <1>3 DEF Follows

\* The phase after a frame whose first unit is of kind k, and the first frame.
NextPhase(k, p) ==
    IF ~EndsPhase(k, p) THEN p
    ELSE IF p = "configuration" THEN "play" ELSE "configuration"

\* The first frame ends with the first unit, or with the second of two plain ones.
LEMMA FirstFrame ==
    ASSUME NEW b \in Seq(Units), Aligned(b), HasFrame(b)
    PROVE  /\ Len(b) >= FrameEnd(b) /\ FrameEnd(b) \in {1, 2}
           /\ b[FrameEnd(b)].last
           /\ FrameEnd(b) = 2 =>
                 b[1].kind = "plain" /\ b[2] = Whole("plain")
<1>1. PICK i \in 1 .. Len(b) : b[i].last
  BY DEF HasFrame
<1>2. CASE b[1].last
  <2>1. FrameEnd(b) = 1
    BY <1>1, <1>2 DEF FrameEnd
  <2> QED
    BY <1>1, <1>2, <2>1
<1>3. CASE ~b[1].last
  <2>1. i # 1 /\ 1 < Len(b) /\ 1 \in 1 .. Len(b) /\ 2 \in 1 .. Len(b)
    BY <1>1, <1>3
  <2>2. b[1].kind = "plain" /\ b[2] = Whole("plain")
    BY <1>3, <2>1 DEF Aligned
  <2>3. b[2].last
    BY <2>2, UnitFacts
  <2>4. FrameEnd(b) = 2
    BY <1>3, <2>1, <2>3 DEF FrameEnd
  <2> QED
    BY <2>1, <2>2, <2>3, <2>4
<1> QED
  BY <1>2, <1>3

\* What is left of the buffer follows the phase the frame led to.
LEMMA FrameFollows ==
    ASSUME NEW p \in Phases \cup {"reconfiguring"}, NEW b \in Seq(Units),
           NEW c \in Clients, Follows(p, b, c), HasFrame(b)
    PROVE  LET n == FrameEnd(b)
               k == IF n = 1 THEN b[1].kind ELSE "plain"
           IN  Follows(NextPhase(k, p), SubSeq(b, n + 1, Len(b)), c)
<1> DEFINE n == FrameEnd(b)
           k == IF n = 1 THEN b[1].kind ELSE "plain"
           a == SubSeq(b, n + 1, Len(b))
           m == Len(b) - n
<1>1. /\ n \in {1, 2} /\ n <= Len(b) /\ Len(b) \in Nat /\ k = b[1].kind
      /\ n = 2 => b[1].kind = "plain" /\ b[2].kind = "plain"
  BY FirstFrame, UnitFacts DEF Follows
<1> HIDE DEF n, k
<1>2. /\ m \in Nat /\ a \in Seq(Units) /\ Len(a) = m
      /\ \A i \in 1 .. m : a[i] = b[i + n]
  BY <1>1
<1> HIDE DEF a
<1>3. Aligned(a)
  <2> SUFFICES ASSUME NEW i \in 1 .. m, ~a[i].last
               PROVE  a[i].kind = "plain" /\ (i < m => a[i + 1] = Whole("plain"))
    BY <1>2 DEF Aligned
  <2>1. /\ i + n \in 1 .. Len(b) /\ a[i] = b[i + n]
        /\ i < m => i + n < Len(b) /\ a[i + 1] = b[(i + n) + 1]
    BY <1>1, <1>2
  <2> QED
    BY <2>1 DEF Follows, Aligned
<1>4. c.mid <=> EndsInside(a)
  <2>1. CASE m = 0
    <3>1. n = Len(b) /\ a = <<>> /\ b # <<>>
      BY <1>1, <1>2, <2>1
    <3>2. b[n].last
      BY FirstFrame DEF n, Follows
    <3> QED
      BY <3>1, <3>2 DEF Follows, EndsInside
  <2>2. CASE m > 0
    <3>1. a # <<>> /\ b # <<>> /\ a[m] = b[Len(b)]
      BY <1>1, <1>2, <2>2
    <3> QED
      BY <1>2, <3>1 DEF Follows, EndsInside
  <2> QED
    BY <1>2, <2>1, <2>2
<1>5. Leads(NextPhase(k, p), a, c.phase)
  <2>1. PICK f \in [0 .. Len(b) -> Phases] :
           /\ Compatible(p, f[0], b) /\ f[Len(b)] = c.phase
           /\ \A i \in 1 .. Len(b) : Takes(f[i - 1], b[i], f[i])
    BY DEF Follows, Leads
  <2> DEFINE g == [i \in 0 .. m |-> f[i + n]]
  <2>2. g \in [0 .. m -> Phases] /\ g[0] = f[n] /\ g[m] = c.phase
    BY <1>1, <1>2, <2>1
  <2>3. ASSUME NEW i \in 1 .. m
        PROVE  Takes(g[i - 1], a[i], g[i])
    <3>1. i + n \in 1 .. Len(b) /\ g[i] = f[i + n] /\ g[i - 1] = f[(i + n) - 1]
      BY <1>1, <1>2
    <3> QED
      BY <1>2, <2>1, <3>1
  <2>4. Compatible(NextPhase(k, p), f[n], a)
    <3>1. /\ b # <<>> /\ f[0] \in Phases /\ b[1].kind = k
          /\ Compatible(p, f[0], b)
      BY <1>1, <2>1
    <3>2. Takes(f[0], b[1], f[1])
      BY <1>1, <2>1
    <3>3. n = 2 => f[2] = f[1]
      <4>1. n = 2 => Takes(f[1], b[2], f[2])
        BY <1>1, <2>1
      <4> QED
        BY <1>1, <4>1 DEF Takes, PhaseAfter
    <3>4. f[n] = f[1]
      BY <1>1, <3>3
    <3>5. k \in Acks \cup {"tick", "plain", "cipher"}
      BY <1>1 DEF Units
    <3> HIDE DEF n, k, a
    <3> QED
      BY <3>1, <3>2, <3>4, <3>5
         DEF Compatible, Takes, PhaseAfter, NextPhase, EndsPhase, Phases, Acks
  <2> HIDE DEF g
  <2> QED
    BY <1>2, <2>2, <2>3, <2>4 DEF Leads
<1> QED
  BY <1>3, <1>4, <1>5 DEF Follows, n, k, a

-----------------------------------------------------------------------------
(* The invariant, action by action.                                        *)

\* The invariant holds at the start.
LEMMA IndInit ==
    Init => IndInv
<1> SUFFICES ASSUME Init
             PROVE  IndInv
  OBVIOUS
<1>1. TypeOK
  <2>1. cbuf \in Seq(Units) /\ Len(cbuf) <= ParserLimit
    BY DEF Init
  <2>2. cl \in [phase : Phases, mid : BOOLEAN, cipher : BOOLEAN,
               may : Acks \cup {"none"}]
    BY DEF Init, Phases
  <2> QED
    BY <2>1, <2>2 DEF Init, TypeOK, Phases
<1>2. Follows(phase, cbuf, cl)
  <2>1. Aligned(cbuf) /\ (cl.mid <=> EndsInside(cbuf))
    BY DEF Init, Aligned, EndsInside
  <2> DEFINE f == [i \in 0 .. 0 |-> "login"]
  <2>2. f \in [0 .. Len(cbuf) -> Phases] /\ f[0] = "login" /\ Len(cbuf) = 0
    BY DEF Init, Phases
  <2>3. Compatible(phase, f[0], cbuf) /\ f[Len(cbuf)] = cl.phase
    BY <2>2 DEF Init, Compatible
  <2> HIDE DEF f
  <2>4. Leads(phase, cbuf, cl.phase)
    BY <2>2, <2>3 DEF Leads
  <2> QED
    BY <2>1, <2>4 DEF Follows
<1>3. EndsAgree /\ EncryptionIsKnown /\ LoginIsShared
  BY DEF Init, EndsAgree, Agree, EncryptionIsKnown, LoginIsShared
<1>4. ParserFollows
  BY <1>2 DEF Init, ParserFollows
<1>5. /\ NeverParsesCiphertext /\ NeverStuck
      /\ KeepAlivesFit /\ TicksFitWhenSettled
  BY DEF Init, NeverParsesCiphertext, NeverStuck, BackpressureHasDrain,
         BacklogHasTurn, HasFrame, KeepAlivesFit, TicksFitWhenSettled
<1> QED
  BY <1>1, <1>3, <1>4, <1>5 DEF IndInv

\* The parts of the invariant about which a step that leaves the parser, the
\* phase and the two ends alone has nothing to say.
LEMMA SameParser ==
    ASSUME IndInv, UNCHANGED <<endVars, cbuf, lag, framing, inspectOff, phase>>,
           UNCHANGED <<encPending, closed>>
    PROVE  /\ EndsAgree' /\ EncryptionIsKnown' /\ LoginIsShared'
           /\ ParserFollows' /\ NeverParsesCiphertext'
BY DEF IndInv, endVars, EndsAgree, EncryptionIsKnown, LoginIsShared,
       ParserFollows, Tracked, NeverParsesCiphertext

\* What is known where the parser is settled.
LEMMA SettledFacts ==
    ASSUME IndInv, framing, ~lag, ~closed
    PROVE  /\ ~inspectOff /\ cbuf = <<>> /\ AtBoundary
           /\ Compatible(phase, cl.phase, <<>>)
<1>1. ~inspectOff /\ cbuf = <<>>
  BY DEF IndInv, ParserFollows
<1>2. Follows(phase, cbuf, cl)
  BY <1>1 DEF IndInv, ParserFollows, Tracked
<1>3. ~cl.mid /\ ~cl.cipher
  BY <1>1, <1>2 DEF IndInv, Follows, EndsInside, EncryptionIsKnown
<1>4. PICK f \in [0 .. Len(cbuf) -> Phases] :
         Compatible(phase, f[0], cbuf) /\ f[Len(cbuf)] = cl.phase
  BY <1>2 DEF Follows, Leads
<1>5. Len(cbuf) = 0
  BY <1>1
<1> QED
  BY <1>1, <1>3, <1>4, <1>5 DEF AtBoundary

\* Steps that write nothing to the target.
LEMMA NothingInserted ==
    ASSUME injected' = "none"
    PROVE  KeepAlivesFit' /\ TicksFitWhenSettled'
BY DEF KeepAlivesFit, TicksFitWhenSettled

\* Reading the acknowledgement moves the server to the client's phase.
LEMMA IndServerReads ==
    IndInv /\ ServerReads => IndInv'
<1> SUFFICES ASSUME IndInv, ServerReads
             PROVE  IndInv'
  OBVIOUS
<1>1. /\ unread /\ unread' = FALSE /\ injected' = "none"
      /\ UNCHANGED <<cl, parseVars, tickVars, tcpVars, closed>>
      /\ cl \in Clients /\ Agree(cl, server, TRUE)
  BY DEF ServerReads, IndInv, TypeOK, EndsAgree, Clients
<1>2. /\ server = "encrypting" => server' = "cipher"
      /\ server \in {"loggedIn", "switching"} => server' = "configuration"
      /\ server = "finishing" => server' = "play"
  BY DEF ServerReads
<1>3. server' \in States /\ Agree(cl, server', FALSE)
  BY <1>1, <1>2 DEF Agree, States, Phases
<1>4. TypeOK'
  BY <1>1, <1>3 DEF IndInv, TypeOK, States, parseVars, tickVars, tcpVars
<1>5. EndsAgree'
  BY <1>1, <1>3 DEF EndsAgree
<1>6. /\ EncryptionIsKnown' /\ LoginIsShared' /\ ParserFollows'
      /\ NeverParsesCiphertext' /\ NeverStuck'
  BY <1>1 DEF IndInv, EncryptionIsKnown, LoginIsShared, ParserFollows, Tracked,
     NeverParsesCiphertext, NeverStuck, BackpressureHasDrain, BacklogHasTurn,
     parseVars, tickVars, tcpVars
<1> QED
  BY <1>1, <1>4, <1>5, <1>6, NothingInserted DEF IndInv

\* The clock disturbs nothing.
LEMMA IndGraceExpires ==
    IndInv /\ GraceExpires => IndInv'
<1> SUFFICES ASSUME IndInv, GraceExpires
             PROVE  IndInv'
  OBVIOUS
<1>1. TypeOK' /\ NeverStuck'
  BY DEF GraceExpires, IndInv, TypeOK, endVars, parseVars, tcpVars,
     NeverStuck, BackpressureHasDrain, BacklogHasTurn
<1>2. /\ EndsAgree' /\ EncryptionIsKnown' /\ LoginIsShared'
      /\ ParserFollows' /\ NeverParsesCiphertext'
  BY SameParser DEF GraceExpires, endVars, parseVars
<1> QED
  BY <1>1, <1>2, NothingInserted DEF GraceExpires, IndInv

\* A tick is written in PLAY only.
LEMMA TickFits ==
    ASSUME IndInv, phase = "play", injected' = "tick",
           UNCHANGED <<endVars, parseVars, closed>>
    PROVE  KeepAlivesFit' /\ TicksFitWhenSettled'
<1>1. Settled' => framing /\ ~lag /\ ~closed
  BY DEF Settled, parseVars
<1>2. Settled' => cl.phase = "play" /\ AtBoundary
  BY <1>1, SettledFacts DEF Compatible
<1> QED
  BY <1>2 DEF KeepAlivesFit, TicksFitWhenSettled, AtBoundary, endVars

\* A tick of the interval, written or kept pending.
LEMMA IndStallTick ==
    IndInv /\ StallTick => IndInv'
<1> SUFFICES ASSUME IndInv, StallTick
             PROVE  IndInv'
  OBVIOUS
<1>1. TypeOK' /\ NeverStuck'
  <2>1. /\ UNCHANGED <<endVars, parseVars, tickFrame, stallTimer, wsPaused, closed>>
        /\ \/ /\ tickPending \/ needDrain
              /\ tickPending' = TRUE /\ injected' = "none"
              /\ needDrain' = needDrain /\ quiet' = quiet
           \/ /\ ~tickPending /\ injected' = "tick" /\ quiet' = FALSE
              /\ needDrain' \in BOOLEAN /\ tickPending' = needDrain'
              /\ ~needDrain
    BY DEF StallTick, WriteTick
  <2>2. {tickPending', quiet', needDrain'} \subseteq BOOLEAN
    BY <2>1 DEF IndInv, TypeOK
  <2>3. TypeOK'
    BY <2>1, <2>2 DEF IndInv, TypeOK, endVars, parseVars
  <2>4. NeverStuck'
    BY <2>1 DEF IndInv, NeverStuck, BackpressureHasDrain, BacklogHasTurn, parseVars
  <2> QED
    BY <2>3, <2>4
<1>2. /\ EndsAgree' /\ EncryptionIsKnown' /\ LoginIsShared'
      /\ ParserFollows' /\ NeverParsesCiphertext'
  BY SameParser DEF StallTick, endVars, parseVars
<1>3. KeepAlivesFit' /\ TicksFitWhenSettled'
  BY TickFits, NothingInserted DEF StallTick, WriteTick, TickWanted
<1> QED
  BY <1>1, <1>2, <1>3 DEF IndInv

\* The target's "drain" event.
LEMMA IndTcpDrain ==
    IndInv /\ TcpDrain => IndInv'
<1> SUFFICES ASSUME IndInv, TcpDrain
             PROVE  IndInv'
  OBVIOUS
<1>1. TypeOK' /\ NeverStuck'
  BY DEF TcpDrain, IndInv, TypeOK, endVars, parseVars,
     NeverStuck, BackpressureHasDrain, BacklogHasTurn
<1>2. /\ EndsAgree' /\ EncryptionIsKnown' /\ LoginIsShared'
      /\ ParserFollows' /\ NeverParsesCiphertext'
  BY SameParser DEF TcpDrain, endVars, parseVars
<1>3. KeepAlivesFit' /\ TicksFitWhenSettled'
  BY TickFits, NothingInserted DEF TcpDrain, TickWanted
<1> QED
  BY <1>1, <1>2, <1>3 DEF IndInv

\* closeBoth empties the parser for good.
LEMMA IndClose ==
    IndInv /\ Close => IndInv'
<1> SUFFICES ASSUME IndInv, Close
             PROVE  IndInv'
  OBVIOUS
<1>1. /\ UNCHANGED <<endVars, framing, phase, encPending, tickFrame, quiet, needDrain>>
      /\ cbuf' = <<>> /\ lag' = FALSE /\ inspectOff' = TRUE /\ queued' = FALSE
      /\ stallTimer' = FALSE /\ tickPending' = FALSE /\ wsPaused' = FALSE
      /\ injected' = "none" /\ closed' = TRUE
  BY DEF Close
<1>2. cbuf' \in Seq(Units) /\ Len(cbuf') = 0 /\ Len(cbuf') <= ParserLimit
  BY <1>1
<1>3. TypeOK'
  <2>1. /\ {lag', framing', inspectOff', queued', encPending'} \subseteq BOOLEAN
        /\ {tickFrame', stallTimer', tickPending', quiet'} \subseteq BOOLEAN
        /\ {needDrain', wsPaused', closed'} \subseteq BOOLEAN
    BY <1>1 DEF IndInv, TypeOK
  <2> QED
    BY <1>1, <1>2, <2>1 DEF IndInv, TypeOK, endVars
<1>4. EndsAgree' /\ EncryptionIsKnown' /\ LoginIsShared'
  BY <1>1, <1>2 DEF IndInv, EndsAgree, EncryptionIsKnown, LoginIsShared, endVars
<1>5. ParserFollows' /\ NeverParsesCiphertext' /\ NeverStuck'
  BY <1>1, <1>2 DEF ParserFollows, Tracked, NeverParsesCiphertext, NeverStuck,
     BackpressureHasDrain, BacklogHasTurn
<1> QED
  BY <1>1, <1>3, <1>4, <1>5, NothingInserted DEF IndInv

\* A message of a closed tunnel is only written.
LEMMA IndLateMessage ==
    IndInv /\ LateMessage => IndInv'
<1> SUFFICES ASSUME IndInv, LateMessage
             PROVE  IndInv'
  OBVIOUS
<1>1. /\ closed /\ framing' = (framing /\ ~encPending) /\ encPending' = FALSE
      /\ quiet' = FALSE /\ injected' = "none"
      /\ UNCHANGED <<endVars, cbuf, lag, inspectOff, queued, phase, tickFrame>>
      /\ UNCHANGED <<stallTimer, tickPending, tcpVars, closed>>
  BY DEF LateMessage
<1>2. TypeOK' /\ NeverStuck'
  BY <1>1 DEF IndInv, TypeOK, endVars, tcpVars, NeverStuck, BackpressureHasDrain,
     BacklogHasTurn
<1>3. EndsAgree' /\ EncryptionIsKnown' /\ LoginIsShared'
  BY <1>1 DEF IndInv, EndsAgree, EncryptionIsKnown, LoginIsShared, endVars
<1>4. ParserFollows' /\ NeverParsesCiphertext'
  BY <1>1 DEF IndInv, ParserFollows, Tracked, NeverParsesCiphertext, endVars
<1> QED
  BY <1>1, <1>2, <1>3, <1>4, NothingInserted DEF IndInv

\* A packet of the server, answered where the parser is settled or forwarded.
LEMMA IndServerFrame ==
    IndInv /\ ServerFrame => IndInv'
<1> SUFFICES ASSUME IndInv, ServerFrame
             PROVE  IndInv'
  OBVIOUS
<1>1. /\ ~closed /\ ~unread
      /\ UNCHANGED <<unread, cbuf, lag, framing, inspectOff, queued, tickFrame>>
      /\ UNCHANGED <<quiet, wsPaused, closed>>
  BY DEF ServerFrame
<1>2. PICK p \in ServerPackets :
         /\ p.at = server /\ server' = p.to
         /\ \/ /\ framing /\ WatermarkSettled /\ IsProxiedKeepAlive(p.kind)
               /\ injected' = p.kind
               /\ needDrain' \in {needDrain, TRUE}
               /\ UNCHANGED <<cl, phase, encPending, stallTimer, tickPending>>
            \/ /\ ~(framing /\ WatermarkSettled /\ IsProxiedKeepAlive(p.kind))
               /\ cl' = IF p.allows = "none" THEN cl ELSE [cl EXCEPT !.may = p.allows]
               /\ IF framing /\ phase = "play" /\ p.kind = "startConfiguration"
                  THEN /\ phase' = "reconfiguring"
                       /\ stallTimer' = FALSE /\ tickPending' = FALSE
                  ELSE UNCHANGED <<phase, stallTimer, tickPending>>
               /\ encPending' = \/ encPending
                                \/ /\ framing /\ phase = "login"
                                   /\ p.kind = "encryptionRequest"
               /\ injected' = "none" /\ needDrain' = needDrain
  BY DEF ServerFrame
<1>3. /\ cl \in Clients /\ server \in States /\ Agree(cl, server, unread)
      /\ cl.phase \in Phases /\ unread \in BOOLEAN
  BY DEF IndInv, TypeOK, Clients, States, EndsAgree
\* Where the server is, with the packet.
<1>4. /\ p.at \in Phases => cl.phase = p.at /\ cl.may = "none"
      /\ p.at \in Phases
      /\ p.kind = "configKeepAlive" => p.at = "configuration"
      /\ p.kind = "playKeepAlive" => p.at = "play"
      /\ p.kind = "startConfiguration" => p.at = "play"
      /\ p.kind = "encryptionRequest" => p.at = "login"
      /\ p.kind \in {"configKeepAlive", "playKeepAlive"} => p.to = p.at
      /\ p.allows = "encryptionResponse" => p.kind = "encryptionRequest"
  BY <1>2, <1>3 DEF ServerPackets, Agree, Phases
<1>5. /\ cl' \in Clients /\ server' \in States
      /\ cl'.phase = cl.phase /\ cl'.mid = cl.mid /\ cl'.cipher = cl.cipher
      /\ Agree(cl', server', FALSE)
  <2>1. CASE framing /\ WatermarkSettled /\ IsProxiedKeepAlive(p.kind)
    <3>1. server' = server /\ cl' = cl
      BY <1>2, <1>4, <2>1 DEF IsProxiedKeepAlive
    <3> QED
      BY <1>1, <1>3, <3>1 DEF Agree
  <2>2. CASE ~(framing /\ WatermarkSettled /\ IsProxiedKeepAlive(p.kind))
    <3>1. cl' = IF p.allows = "none" THEN cl ELSE [cl EXCEPT !.may = p.allows]
      BY <1>2, <2>2
    <3>2. /\ p.allows \in Acks \cup {"none"}
          /\ p.to \in States
      BY DEF ServerPackets, Acks, States, Phases
    <3>3. /\ cl' \in Clients
          /\ cl'.phase = cl.phase /\ cl'.mid = cl.mid /\ cl'.cipher = cl.cipher
          /\ cl'.may = IF p.allows = "none" THEN cl.may ELSE p.allows
      BY <1>3, <3>1, <3>2 DEF Clients
    <3>4. /\ cl.phase = p.at /\ cl.may = "none" /\ server' = p.to
      BY <1>2, <1>4
    <3>5. Agree(cl', server', FALSE)
      BY <3>3, <3>4 DEF Agree, ServerPackets
    <3> QED
      BY <1>2, <3>2, <3>3, <3>5
  <2> QED
    BY <2>1, <2>2
<1>6. TypeOK'
  <2>1. phase' \in Phases \cup {"reconfiguring"}
    BY <1>2 DEF IndInv, TypeOK
  <2>2. {encPending', stallTimer', tickPending', needDrain'} \subseteq BOOLEAN
    BY <1>2 DEF IndInv, TypeOK
  <2>3. injected' \in {"none", "tick", "configKeepAlive", "playKeepAlive"}
    BY <1>2 DEF IsProxiedKeepAlive
  <2> QED
    BY <1>1, <1>5, <2>1, <2>2, <2>3 DEF IndInv, TypeOK, Clients, States
<1>7. EndsAgree'
  BY <1>1, <1>5 DEF EndsAgree, Agree
<1>8. EncryptionIsKnown'
  <2>1. CASE cl'.may = cl.may /\ (encPending => encPending')
    BY <1>1, <1>5, <2>1 DEF IndInv, EncryptionIsKnown
  <2>2. CASE cl'.may # cl.may
    <3>1. cl'.may = p.allows /\ (encPending' <=> \/ encPending
                                \/ /\ framing /\ phase = "login"
                                   /\ p.kind = "encryptionRequest")
      BY <1>2, <1>3, <2>2 DEF Clients
    <3>2. p.allows = "encryptionResponse" => phase = "login"
      BY <1>4 DEF IndInv, LoginIsShared, Phases
    <3> QED
      BY <1>1, <1>4, <1>5, <3>1, <3>2 DEF IndInv, EncryptionIsKnown
  <2>3. encPending => encPending'
    BY <1>2
  <2> QED
    BY <2>1, <2>2, <2>3
<1>9. LoginIsShared'
  <2>1. cl.phase = "login" => phase' = phase
    BY <1>2 DEF IndInv, LoginIsShared
  <2> QED
    BY <1>1, <1>5, <2>1 DEF IndInv, LoginIsShared
<1>10. ParserFollows'
  <2>1. ASSUME Tracked
        PROVE  Follows(phase', cbuf, cl')
    <3>1. Follows(phase, cbuf, cl) /\ cbuf \in Seq(Units)
      BY <2>1 DEF IndInv, ParserFollows, TypeOK
    <3>2. CASE phase' = phase
      BY <1>5, <3>1, <3>2 DEF Follows
    <3>3. CASE phase = "play" /\ phase' = "reconfiguring"
      <4>1. PICK f \in [0 .. Len(cbuf) -> Phases] :
               /\ Compatible(phase, f[0], cbuf) /\ f[Len(cbuf)] = cl.phase
               /\ \A i \in 1 .. Len(cbuf) : Takes(f[i - 1], cbuf[i], f[i])
        BY <3>1 DEF Follows, Leads
      <4>2. Compatible(phase', f[0], cbuf)
        BY <3>3, <4>1 DEF Compatible
      <4>3. Leads(phase', cbuf, cl'.phase)
        BY <1>5, <4>1, <4>2 DEF Leads
      <4> QED
        BY <1>5, <3>1, <4>3 DEF Follows
    <3> QED
      BY <1>2, <3>2, <3>3
  <2> QED
    BY <1>1, <2>1 DEF IndInv, ParserFollows, Tracked
<1>11. NeverParsesCiphertext' /\ NeverStuck'
  <2>1. tickPending' => tickPending
    BY <1>2
  <2>2. needDrain => needDrain'
    BY <1>2
  <2> QED
    BY <1>1, <2>1, <2>2 DEF IndInv, NeverParsesCiphertext, NeverStuck,
       BackpressureHasDrain, BacklogHasTurn
<1>12. KeepAlivesFit' /\ TicksFitWhenSettled'
  <2>1. CASE framing /\ WatermarkSettled /\ IsProxiedKeepAlive(p.kind)
    <3>1. AtBoundary
      BY <1>1, <2>1, SettledFacts DEF WatermarkSettled
    <3>2. cl' = cl /\ injected' = p.kind /\ cl.phase = p.at
      BY <1>2, <1>4, <2>1
    <3>3. p.kind \in {"configKeepAlive", "playKeepAlive"}
      BY <2>1 DEF IsProxiedKeepAlive
    <3> QED
      BY <1>4, <3>1, <3>2, <3>3 DEF KeepAlivesFit, TicksFitWhenSettled, AtBoundary
  <2>2. CASE ~(framing /\ WatermarkSettled /\ IsProxiedKeepAlive(p.kind))
    BY <1>2, <2>2, NothingInserted
  <2> QED
    BY <2>1, <2>2
<1> QED
  BY <1>6, <1>7, <1>8, <1>9, <1>10, <1>11, <1>12 DEF IndInv

\* What is left of a buffer.
LEMMA Dropped ==
    ASSUME NEW b \in Seq(Units), NEW n \in {1, 2}, n <= Len(b)
    PROVE  LET a == SubSeq(b, n + 1, Len(b)) IN
           /\ a \in Seq(Units) /\ Len(a) <= Len(b) /\ Len(a) \in Nat
           /\ \A i \in 1 .. Len(a) : i + n \in 1 .. Len(b) /\ a[i] = b[i + n]
OBVIOUS

\* The frame the turn reads leaves the parser following the client.
LEMMA IndReadsFrame ==
    ASSUME IndInv, framing, ~inspectOff, HasFrame(cbuf),
           cbuf' = SubSeq(cbuf, FrameEnd(cbuf) + 1, Len(cbuf)),
           ProcessFrame(IF FrameEnd(cbuf) = 1 THEN cbuf[1].kind ELSE "plain"),
           lag' = (cbuf' # <<>>), queued' \in QueuedAfterTurn(cbuf'),
           UNCHANGED <<endVars, framing, inspectOff, encPending, tcpVars, closed>>,
           injected' = "none"
    PROVE  IndInv'
<1> DEFINE n == FrameEnd(cbuf)
           k == IF n = 1 THEN cbuf[1].kind ELSE "plain"
<1>1. /\ cbuf \in Seq(Units) /\ Len(cbuf) <= ParserLimit /\ phase \in Phases \cup {"reconfiguring"}
      /\ cl \in Clients /\ ~closed /\ Tracked /\ Follows(phase, cbuf, cl)
  BY DEF IndInv, TypeOK, Clients, ParserFollows, Tracked
<1>2. /\ n \in {1, 2} /\ n <= Len(cbuf)
  BY <1>1, FirstFrame DEF Follows
<1> HIDE DEF n
<1>3. /\ cbuf' \in Seq(Units) /\ Len(cbuf') <= Len(cbuf)
      /\ Len(cbuf') \in Nat /\ Len(cbuf) \in Nat
      /\ \A i \in 1 .. Len(cbuf') :
            i + n \in 1 .. Len(cbuf) /\ cbuf'[i] = cbuf[i + n]
  <2> DEFINE a == SubSeq(cbuf, n + 1, Len(cbuf))
  <2>1. cbuf' = a /\ Len(cbuf) \in Nat
    BY <1>1 DEF n
  <2>2. /\ a \in Seq(Units) /\ Len(a) <= Len(cbuf) /\ Len(a) \in Nat
        /\ \A i \in 1 .. Len(a) : i + n \in 1 .. Len(cbuf) /\ a[i] = cbuf[i + n]
    BY <1>1, <1>2, Dropped
  <2> HIDE DEF a
  <2> QED
    BY <2>1, <2>2
<1>4. phase' = NextPhase(k, phase)
  <2>1. ProcessFrame(k)
    BY DEF n
  <2> QED
    BY <1>1, <2>1 DEF ProcessFrame, NextPhase, Phases
<1>5. Follows(phase', cbuf', cl')
  <2>1. Follows(NextPhase(k, phase), cbuf', cl)
    BY <1>1, FrameFollows DEF n
  <2> QED
    BY <1>4, <2>1 DEF endVars
<1>6. TypeOK'
  <2>1. phase' \in Phases \cup {"reconfiguring"}
    BY <1>1, <1>4 DEF NextPhase, Phases
  <2>2. {tickFrame', stallTimer', tickPending', quiet'} \subseteq BOOLEAN
    BY DEF ProcessFrame, tickVars, IndInv, TypeOK
  <2>3. {lag', queued'} \subseteq BOOLEAN
    BY DEF QueuedAfterTurn
  <2>4. Len(cbuf') <= ParserLimit
    BY <1>1, <1>3
  <2> QED
    BY <1>3, <2>1, <2>2, <2>3, <2>4 DEF IndInv, TypeOK, endVars, tcpVars
<1>7. EndsAgree' /\ EncryptionIsKnown'
  BY DEF IndInv, EndsAgree, EncryptionIsKnown, endVars
<1>8. LoginIsShared' /\ NeverParsesCiphertext'
  <2>1. NeverParsesCiphertext'
    BY <1>3 DEF IndInv, NeverParsesCiphertext
  <2>2. cl.phase = "login" => phase' = "login"
    <3>1. SUFFICES ASSUME cl.phase = "login"
                   PROVE  phase' = "login"
      OBVIOUS
    <3>2. phase = "login" /\ cbuf[1].kind \notin PhaseAcks
      BY <1>1, <1>2, <3>1 DEF IndInv, LoginIsShared
    <3>3. ~EndsPhase(k, "login")
      BY <3>2 DEF EndsPhase, PhaseAcks
    <3> QED
      BY <1>4, <3>2, <3>3 DEF NextPhase
  <2> QED
    BY <1>3, <2>1, <2>2 DEF IndInv, LoginIsShared, endVars
<1>9. ParserFollows'
  BY <1>1, <1>5 DEF ParserFollows, Tracked
<1>10. NeverStuck'
  <2>1. tickPending' => tickPending
    BY DEF ProcessFrame, tickVars
  <2> QED
    BY <2>1 DEF IndInv, NeverStuck, BackpressureHasDrain, BacklogHasTurn,
       QueuedAfterTurn, tcpVars
<1> QED
  BY <1>6, <1>7, <1>8, <1>9, <1>10, NothingInserted DEF IndInv

\* A turn of the ready queue: nothing to do, the end of inspection, or a frame.
LEMMA IndInspectionTurn ==
    IndInv /\ InspectionTurn => IndInv'
<1> SUFFICES ASSUME IndInv, InspectionTurn
             PROVE  IndInv'
  OBVIOUS
<1>1. /\ injected' = "none"
      /\ UNCHANGED <<endVars, tcpVars, closed>>
  BY DEF InspectionTurn
<1>2. CASE /\ queued' = FALSE /\ (framing /\ ~inspectOff => ~HasFrame(cbuf))
           /\ UNCHANGED <<cbuf, lag, framing, inspectOff, phase, encPending, tickVars>>
  <2>1. TypeOK' /\ NeverStuck'
    BY <1>1, <1>2 DEF IndInv, TypeOK, endVars, tickVars, tcpVars, NeverStuck,
       BackpressureHasDrain, BacklogHasTurn
  <2>2. /\ EndsAgree' /\ EncryptionIsKnown' /\ LoginIsShared'
        /\ ParserFollows' /\ NeverParsesCiphertext'
    BY <1>1, <1>2, SameParser
  <2> QED
    BY <1>1, <2>1, <2>2, NothingInserted DEF IndInv
<1>3. CASE /\ framing /\ ~inspectOff /\ DisableInspection /\ queued' = FALSE
           /\ UNCHANGED <<phase, tickFrame, quiet>>
  <2>1. /\ framing' = FALSE /\ inspectOff' = TRUE /\ encPending' = FALSE
        /\ cbuf' = <<>> /\ lag' = FALSE /\ stallTimer' = FALSE /\ tickPending' = FALSE
    BY <1>3 DEF DisableInspection
  <2>2. cbuf' \in Seq(Units) /\ Len(cbuf') = 0 /\ Len(cbuf') <= ParserLimit
    BY <2>1
  <2>3. {lag', framing', inspectOff', queued', encPending', stallTimer',
         tickPending'} \subseteq BOOLEAN
    BY <1>3, <2>1
  <2>4. TypeOK'
    BY <1>1, <1>3, <2>2, <2>3 DEF IndInv, TypeOK, endVars, tcpVars
  <2>5. EndsAgree' /\ EncryptionIsKnown' /\ LoginIsShared'
    BY <1>1, <1>3, <2>1, <2>2 DEF IndInv, EndsAgree, EncryptionIsKnown,
       LoginIsShared, endVars
  <2>6. ParserFollows' /\ NeverParsesCiphertext' /\ NeverStuck'
    <3>1. closed' => inspectOff'
      BY <2>1
    <3> QED
      BY <1>1, <2>1, <2>2, <3>1 DEF IndInv, ParserFollows, Tracked,
         NeverParsesCiphertext, NeverStuck, BackpressureHasDrain, BacklogHasTurn,
         tcpVars
  <2> QED
    BY <1>1, <2>4, <2>5, <2>6, NothingInserted DEF IndInv
<1>4. CASE /\ framing /\ ~inspectOff /\ ~encPending /\ HasFrame(cbuf)
           /\ LET n == FrameEnd(cbuf) IN
              /\ cbuf' = SubSeq(cbuf, n + 1, Len(cbuf))
              /\ ProcessFrame(IF n = 1 THEN cbuf[1].kind ELSE "plain")
           /\ lag' = (cbuf' # <<>>)
           /\ queued' \in QueuedAfterTurn(cbuf')
           /\ UNCHANGED <<framing, inspectOff, encPending>>
  <2>1. UNCHANGED <<endVars, framing, inspectOff, encPending, tcpVars, closed>>
    BY <1>1, <1>4
  <2> QED
    BY <1>1, <1>4, <2>1, IndReadsFrame
<1> QED
  <2>1. cbuf = <<>> => ~HasFrame(cbuf)
    BY DEF HasFrame
  <2> QED
    BY <1>2, <1>3, <1>4, <2>1 DEF InspectionTurn

\* A message of the client: kept, not looked at, or the end of inspection.
LEMMA IndClientMessage ==
    IndInv /\ ClientMessage => IndInv'
<1> SUFFICES ASSUME IndInv, ClientMessage
             PROVE  IndInv'
  OBVIOUS
<1>0. PICK u \in Sends(cl) : \E v \in Second(cl, u) :
         LET m == Message(cl, u, v) IN
         /\ cl' = MessageAfter(cl, u, v)
         /\ unread' = (unread \/ \E i \in 1 .. Len(m) : m[i].kind \in Acks)
         /\ InspectLater(m)
  BY DEF ClientMessage, Second, Message, MessageAfter
<1>1. PICK v \in Second(cl, u) :
         LET m == Message(cl, u, v) IN
         /\ cl' = MessageAfter(cl, u, v)
         /\ unread' = (unread \/ \E i \in 1 .. Len(m) : m[i].kind \in Acks)
         /\ InspectLater(m)
  BY <1>0
<1> DEFINE m == Message(cl, u, v)
<1>2. /\ ~closed /\ quiet' = FALSE /\ injected' = "none"
      /\ needDrain' \in {needDrain, TRUE} /\ wsPaused' = needDrain'
      /\ UNCHANGED <<server, phase, tickFrame, closed>>
  BY DEF ClientMessage
<1>3. /\ cl \in Clients /\ server \in States /\ unread \in BOOLEAN
      /\ Agree(cl, server, unread)
      /\ cbuf \in Seq(Units) /\ Len(cbuf) <= ParserLimit
      /\ phase \in Phases \cup {"reconfiguring"}
  BY DEF IndInv, TypeOK, Clients, States, EndsAgree
<1>4. /\ cl' \in Clients /\ m \in Seq(Units) /\ Len(m) \in {1, 2}
      /\ Agree(cl', server, unread')
      /\ cl'.phase = "login" =>
            /\ cl.phase = "login"
            /\ \A i \in 1 .. Len(m) : m[i].kind \notin PhaseAcks
      /\ cl'.may \in {cl.may, "none"}
      /\ cl'.cipher => cl.cipher \/ cl.may = "encryptionResponse"
      /\ \A i \in 1 .. Len(m) : m[i].kind = "cipher" =>
            cl.cipher \/ cl.may = "encryptionResponse"
      /\ Len(m) = 1 => Takes(cl.phase, m[1], cl'.phase) /\ (cl'.mid <=> ~m[1].last)
      /\ ~cl.cipher /\ cl.may # "encryptionResponse" =>
            \A p \in Phases \cup {"reconfiguring"}, b \in Seq(Units) :
               Follows(p, b, cl) => Follows(p, b \o m, cl')
  BY <1>1, <1>3, MessageStep
<1>5. InspectLater(m)
  BY <1>1
<1>6. unread' \in BOOLEAN
  BY <1>1
<1> HIDE DEF m
<1>7. EndsAgree'
  BY <1>2, <1>4 DEF EndsAgree
\* What the three outcomes for the parser have in common.
<1>8. ASSUME cbuf' \in Seq(Units), Len(cbuf') <= ParserLimit,
             {lag', framing', inspectOff', queued', encPending', stallTimer',
              tickPending'} \subseteq BOOLEAN,
             tickPending' => tickPending,
             EncryptionIsKnown', LoginIsShared', ParserFollows',
             NeverParsesCiphertext', BacklogHasTurn'
      PROVE  IndInv'
  <2>1. TypeOK'
    <3>1. {quiet', needDrain', wsPaused', tickFrame', closed'} \subseteq BOOLEAN
      BY <1>2 DEF IndInv, TypeOK
    <3> QED
      BY <1>2, <1>4, <1>6, <1>8, <3>1 DEF IndInv, TypeOK, Clients
  <2>2. NeverStuck'
    <3>1. {needDrain, needDrain', wsPaused'} \subseteq BOOLEAN
      BY <1>2 DEF IndInv, TypeOK
    <3>2. (needDrain => needDrain') /\ (wsPaused' => needDrain')
      <4>1. (needDrain' = needDrain \/ needDrain') /\ wsPaused' = needDrain'
        BY <1>2
      <4> QED
        BY <3>1, <4>1
    <3>3. tickPending' => needDrain'
      BY <1>8, <3>2 DEF IndInv, NeverStuck, BackpressureHasDrain
    <3> QED
      BY <1>8, <3>2, <3>3 DEF NeverStuck, BackpressureHasDrain
  <2> QED
    BY <1>2, <1>7, <1>8, <2>1, <2>2, NothingInserted DEF IndInv
\* Whatever is kept, no login is left unseen and no ciphertext is kept.
<1>9. ASSUME \/ cbuf' = cbuf
             \/ cbuf' = <<>>
             \/ cbuf' = cbuf \o m /\ framing /\ ~encPending
      PROVE  LoginIsShared' /\ NeverParsesCiphertext'
  <2>1. CASE cbuf' = cbuf
    BY <1>2, <1>4, <2>1 DEF IndInv, LoginIsShared, NeverParsesCiphertext
  <2>2. CASE cbuf' = <<>>
    <3>1. Len(cbuf') = 0
      BY <2>2
    <3> QED
      BY <1>2, <1>4, <3>1 DEF IndInv, LoginIsShared, NeverParsesCiphertext
  <2>3. CASE cbuf' = cbuf \o m /\ framing /\ ~encPending
    <3>1. \A i \in 1 .. Len(cbuf') :
             \/ i \in 1 .. Len(cbuf) /\ cbuf'[i] = cbuf[i]
             \/ i - Len(cbuf) \in 1 .. Len(m) /\ cbuf'[i] = m[i - Len(cbuf)]
      BY <1>3, <1>4, <2>3
    <3>2. ~cl.cipher /\ cl.may # "encryptionResponse"
      BY <2>3 DEF IndInv, EncryptionIsKnown
    <3>3. NeverParsesCiphertext'
      BY <1>4, <3>1, <3>2 DEF IndInv, NeverParsesCiphertext
    <3>4. LoginIsShared'
      BY <1>2, <1>4, <3>1 DEF IndInv, LoginIsShared
    <3> QED
      BY <3>3, <3>4
  <2> QED
    BY <1>9, <2>1, <2>2, <2>3
<1> DEFINE inspects == framing /\ (~inspectOff \/ IsStandaloneControl(m))
           fits == Len(cbuf) + Len(m) <= ParserLimit
<1>10. /\ queued' \in BOOLEAN /\ (queued => queued')
       /\ inspects /\ fits => queued'
  BY <1>5 DEF InspectLater
<1>11. CASE ~encPending /\ inspects
  <2>1. /\ AppendClient(m)
        /\ UNCHANGED <<framing, encPending, stallTimer, tickPending>>
    BY <1>5, <1>11 DEF InspectLater
  <2>2. ~cl.cipher /\ cl.may # "encryptionResponse"
    BY <1>11 DEF IndInv, EncryptionIsKnown
  <2>3. EncryptionIsKnown'
    BY <1>4, <2>1, <2>2 DEF EncryptionIsKnown
  <2>4. CASE fits
    <3>1. cbuf' = cbuf \o m /\ inspectOff' = FALSE /\ lag' = TRUE
      BY <2>1, <2>4 DEF AppendClient
    <3>2. queued'
      BY <1>10, <1>11, <2>4
    <3>3. cbuf' \in Seq(Units) /\ Len(cbuf') <= ParserLimit
      BY <1>3, <1>4, <2>4, <3>1
    <3>4. Follows(phase, cbuf \o m, cl')
      <4>1. CASE ~inspectOff
        <5>1. Follows(phase, cbuf, cl)
          BY <1>2, <1>11, <4>1 DEF IndInv, ParserFollows, Tracked
        <5> QED
          BY <1>3, <1>4, <2>2, <5>1
      <4>2. CASE inspectOff /\ IsStandaloneControl(m)
        <5>1. cbuf = <<>>
          BY <4>2 DEF IndInv, ParserFollows, Tracked
        <5>2. Len(m) = 1
          BY <4>2 DEF IsStandaloneControl
        <5>3. cbuf \o m = m
          BY <1>4, <5>1
        <5>4. m = <<m[1]>> /\ m[1] \in Units
          BY <1>4, <5>2, Single
        <5>5. /\ m[1].last
              /\ \/ EndsPhase(m[1].kind, phase)
                 \/ phase \in {"play", "reconfiguring"} /\ m[1].kind = "tick"
          BY <4>2 DEF IsStandaloneControl
        <5>6. Follows(phase, <<m[1]>>, cl')
          BY <1>3, <1>4, <5>2, <5>3, <5>4, <5>5, RestartFollows DEF IndInv, LoginIsShared
        <5> QED
          BY <5>3, <5>4, <5>6
      <4> QED
        BY <1>11, <4>1, <4>2
    <3>5. ParserFollows'
      BY <1>2, <2>1, <3>1, <3>4, <1>11 DEF ParserFollows, Tracked
    <3>6. BacklogHasTurn'
      BY <3>2 DEF BacklogHasTurn
    <3>7. {lag', framing', inspectOff', queued', encPending', stallTimer',
           tickPending'} \subseteq BOOLEAN
      BY <1>10, <2>1, <3>1 DEF IndInv, TypeOK
    <3> QED
      BY <1>8, <1>9, <1>11, <2>1, <2>3, <3>1, <3>3, <3>5, <3>6, <3>7
  <2>5. CASE ~fits
    <3>1. cbuf' = <<>> /\ inspectOff' = TRUE /\ lag' = TRUE
      BY <2>1, <2>5 DEF AppendClient
    <3>2. cbuf' \in Seq(Units) /\ Len(cbuf') <= ParserLimit
      BY <3>1
    <3>3. ParserFollows' /\ BacklogHasTurn'
      BY <1>2, <3>1 DEF ParserFollows, Tracked, BacklogHasTurn
    <3>4. {lag', framing', inspectOff', queued', encPending', stallTimer',
           tickPending'} \subseteq BOOLEAN
      BY <1>10, <2>1, <3>1 DEF IndInv, TypeOK
    <3> QED
      BY <1>8, <1>9, <2>1, <2>3, <3>1, <3>2, <3>3, <3>4
  <2> QED
    BY <2>4, <2>5
<1>12. CASE ~encPending /\ ~inspects
  <2>1. UNCHANGED <<cbuf, lag, framing, inspectOff, encPending, stallTimer, tickPending>>
    BY <1>5, <1>12 DEF InspectLater
  <2>2. EncryptionIsKnown'
    BY <1>4, <1>12, <2>1 DEF IndInv, EncryptionIsKnown
  <2>3. ParserFollows'
    BY <1>2, <1>12, <2>1 DEF IndInv, ParserFollows, Tracked
  <2>4. BacklogHasTurn'
    BY <1>10, <2>1 DEF IndInv, NeverStuck, BacklogHasTurn
  <2>5. {lag', framing', inspectOff', queued', encPending', stallTimer',
         tickPending'} \subseteq BOOLEAN
    BY <1>10, <2>1 DEF IndInv, TypeOK
  <2> QED
    BY <1>3, <1>8, <1>9, <2>1, <2>2, <2>3, <2>4, <2>5
<1>13. CASE encPending
  <2>1. /\ framing' = FALSE /\ inspectOff' = TRUE /\ encPending' = FALSE
        /\ cbuf' = <<>> /\ lag' = FALSE
        /\ stallTimer' = FALSE /\ tickPending' = FALSE
    BY <1>5, <1>13 DEF InspectLater, DisableInspection
  <2>2. cbuf' \in Seq(Units) /\ Len(cbuf') <= ParserLimit
    BY <2>1
  <2>3. EncryptionIsKnown' /\ BacklogHasTurn'
    BY <2>1 DEF EncryptionIsKnown, BacklogHasTurn
  <2>4. ParserFollows'
    BY <2>1 DEF ParserFollows, Tracked
  <2>5. {lag', framing', inspectOff', queued', encPending', stallTimer',
         tickPending'} \subseteq BOOLEAN
    BY <1>10, <2>1 DEF IndInv, TypeOK
  <2> QED
    BY <1>8, <1>9, <2>1, <2>2, <2>3, <2>4, <2>5
<1> QED
  BY <1>11, <1>12, <1>13

-----------------------------------------------------------------------------
(* The theorems.                                                           *)

\* Every step keeps the invariant.
LEMMA IndNext ==
    IndInv /\ [Next]_vars => IndInv'
<1> SUFFICES ASSUME IndInv, [Next]_vars
             PROVE  IndInv'
  OBVIOUS
<1>1. CASE UNCHANGED vars
  BY <1>1 DEF vars, endVars, parseVars, tickVars, tcpVars, IndInv, TypeOK, EndsAgree,
     EncryptionIsKnown, LoginIsShared, ParserFollows, Tracked, NeverParsesCiphertext,
     NeverStuck, BackpressureHasDrain, BacklogHasTurn, KeepAlivesFit,
     TicksFitWhenSettled, Settled, AtBoundary
<1>2. CASE Next
  BY <1>2, IndServerReads, IndClientMessage, IndInspectionTurn, IndServerFrame,
     IndStallTick, IndTcpDrain, IndGraceExpires, IndClose, IndLateMessage DEF Next
<1> QED
  BY <1>1, <1>2

\* The steps of a whole connection, from its upgrade to its last event, are steps
\* of the tunnel or leave it alone: closeBoth and the "close" handler, which run
\* once or often, are one Close.
THEOREM RelayRefinesTunnel ==
    RelaySpec => Spec
<1>1. RelayInit => Init
  BY DEF RelayInit
<1>2. Cleanup => [Next]_vars
  BY DEF Cleanup, Next
<1>3. [RelayNext]_allVars => [Next]_vars
  <2>1. UNCHANGED allVars => UNCHANGED vars
    BY DEF allVars
  <2>2. (\/ CloseBoth \/ WebSocketError \/ WebSocketClose \/ Refused) => Cleanup
    BY DEF CloseBoth, WebSocketError, WebSocketClose, Refused
  <2>3. (\/ IdleTimeout \/ TargetEnds) => CloseBoth
    BY DEF IdleTimeout, TargetEnds
  <2>4. (\/ BrowserCloses \/ TargetClose \/ ConnectMessage \/ Resolved
         \/ DialSucceeds) => UNCHANGED vars
    BY DEF BrowserCloses, TargetClose, ConnectMessage, Resolved, DialSucceeds
  <2>5. DialFails => UNCHANGED vars \/ CloseBoth
    BY DEF DialFails
  <2>6. TunnelStep \/ Drain \/ MessageAfterClose => Next
    BY DEF TunnelStep, Drain, MessageAfterClose, Next
  <2> QED
    BY <1>2, <2>1, <2>2, <2>3, <2>4, <2>5, <2>6 DEF RelayNext
<1> QED
  BY <1>1, <1>3, PTL DEF RelaySpec, Spec

\* The invariant of the tunnel.
LEMMA TunnelInvariant ==
    Spec => []IndInv
<1>1. IndInv /\ [Next]_vars => IndInv'
  BY IndNext
<1> QED
  BY <1>1, IndInit, PTL DEF Spec

\* The parser never holds ciphertext or outgrows its limit, and every answered
\* keepalive and settled synthetic tick is written where the target decodes it as
\* the packet it is, whatever is sent, dropped, read late or closed.
THEOREM InsertedAlwaysFits ==
    RelaySpec => []InsertedFits
<1>1. IndInv => InsertedFits
  BY DEF IndInv, InsertedFits
<1> QED
  BY <1>1, RelayRefinesTunnel, TunnelInvariant, PTL

\* A parser that has caught up knows the client's phase, also after it overflowed
\* and began again with a standalone control message.
THEOREM PhaseAlwaysCatchesUp ==
    RelaySpec => []PhaseCatchesUp
<1>1. IndInv => PhaseCatchesUp
  <2> SUFFICES ASSUME IndInv, Settled
               PROVE  Compatible(phase, cl.phase, <<>>)
    BY DEF PhaseCatchesUp, Compatible
  <2> QED
    BY SettledFacts DEF Settled
<1> QED
  BY <1>1, RelayRefinesTunnel, TunnelInvariant, PTL

\* Whatever waits for "drain" or for a turn of the ready queue has one to come.
THEOREM TunnelNeverStuck ==
    RelaySpec => []NeverStuck
<1>1. IndInv => NeverStuck
  BY DEF IndInv
<1> QED
  BY <1>1, RelayRefinesTunnel, TunnelInvariant, PTL

-----------------------------------------------------------------------------
(* What a tunnel holds.                                                    *)

Ended == closed =>
    /\ ~lease /\ ~idle /\ tcp \notin {"dialled", "joined"}
    /\ ~queued /\ cbuf = <<>> /\ ~stallTimer /\ ~tickPending /\ ~wsPaused

\* The socket is there as the setup says, and the route is held as long as it is.
Holding ==
    /\ route.mine = "held" <=> tcp = "joined"
    /\ ~asked => setup = "none"
    /\ setup \in {"none", "resolving"} => tcp = "none"
    /\ route.active = Others + (IF tcp = "joined" THEN 1 ELSE 0)

Alive == ~closed => lease /\ idle /\ ws \in {"open", "leaving"}

LifeInv == LifeTypeOK /\ Ended /\ Holding /\ Alive

\* What NothingLeft needs of it.
LEMMA LifeNothingLeft ==
    LifeInv => NothingLeft
BY DEF LifeInv, Ended, Holding, Alive, NothingLeft

\* Releasing the route gives back what the tunnel held.
LEMMA ReleasedRoute ==
    ASSUME LifeInv
    PROVE  /\ Released.active = Others /\ Released.active \in Nat
           /\ Released.mine \in {"none", "held", "released"} /\ Released.mine # "held"
BY DEF LifeInv, LifeTypeOK, Holding, Released

\* closeBoth, whenever it runs.
LEMMA CleanupEnds ==
    ASSUME LifeInv, Cleanup
    PROVE  /\ closed' = TRUE /\ Ended' /\ tcp' \in {"none", "destroyed"}
           /\ {lease', idle'} \subseteq BOOLEAN
           /\ setup' \in {"none", "resolving", "dialling", "settled"}
           /\ setup' = setup \/ setup' = "settled"
           /\ route'.active = Others /\ route'.active \in Nat
           /\ route'.mine \in {"none", "released"}
           /\ setup' \in {"none", "resolving"} => tcp' = "none"
<1>1. /\ IF closed THEN UNCHANGED vars ELSE Close
      /\ lease' = FALSE /\ idle' = FALSE /\ route' = Released
      /\ tcp' = CASE tcp = "dialled" -> "none" [] tcp = "joined" -> "destroyed"
                  [] OTHER -> tcp
      /\ setup' = IF setup = "dialling" THEN "settled" ELSE setup
  BY DEF Cleanup
<1>2. tcp \in {"none", "dialled", "joined", "destroyed"}
  BY DEF LifeInv, LifeTypeOK
<1>3. tcp' \in {"none", "destroyed"} /\ (tcp = "none" => tcp' = "none")
  BY <1>1, <1>2
<1>4. setup \in {"none", "resolving", "dialling", "settled"}
  BY DEF LifeInv, LifeTypeOK
<1>5. /\ closed' /\ ~queued' /\ cbuf' = <<>> /\ ~stallTimer' /\ ~tickPending'
      /\ ~wsPaused'
  <2>1. CASE closed
    BY <1>1, <2>1 DEF LifeInv, Ended, vars, parseVars, tickVars, tcpVars
  <2>2. CASE ~closed
    BY <1>1, <2>2 DEF Close
  <2> QED
    BY <2>1, <2>2
<1>6. closed' = TRUE
  BY <1>1 DEF Close, vars, LifeInv
<1>7. /\ route'.active = Others /\ route'.active \in Nat
      /\ route'.mine \in {"none", "released"}
  BY <1>1, ReleasedRoute
<1> QED
  BY <1>1, <1>3, <1>4, <1>5, <1>6, <1>7 DEF Ended, LifeInv, Holding

\* Every step of the connection keeps it.
LEMMA LifeNext ==
    LifeInv /\ [RelayNext]_allVars => LifeInv'
<1> SUFFICES ASSUME LifeInv, [RelayNext]_allVars
             PROVE  LifeInv'
  OBVIOUS
<1> USE DEF LifeInv
\* A step that ends the tunnel, whatever it is called.
<1>1. ASSUME Cleanup, ws' \in {"open", "closing", "leaving", "closed"},
             UNCHANGED <<paused, targets>>, asked' = asked \/ asked' = TRUE
      PROVE  LifeInv'
  <2>1. LifeTypeOK'
    BY <1>1, CleanupEnds DEF LifeTypeOK
  <2>2. Holding'
    <3>1. ~asked' => setup' = "none"
      BY <1>1, CleanupEnds DEF Holding, Cleanup
    <3>2. /\ tcp' # "joined" /\ route'.mine # "held" /\ route'.active = Others
          /\ setup' \in {"none", "resolving"} => tcp' = "none"
      BY <1>1, CleanupEnds
    <3> QED
      BY <3>1, <3>2 DEF Holding
  <2> QED
    BY <1>1, <2>1, <2>2, CleanupEnds DEF Alive
<1>2. CloseBoth => LifeInv'
  <2>1. CloseBoth => ws' \in {"open", "closing", "leaving", "closed"}
    BY DEF CloseBoth, LifeTypeOK
  <2> QED
    BY <1>1, <2>1 DEF CloseBoth
<1>3. (\/ WebSocketError \/ WebSocketClose \/ Refused) => LifeInv'
  BY <1>1 DEF WebSocketError, WebSocketClose, Refused
<1>4. (\/ IdleTimeout \/ TargetEnds) => LifeInv'
  BY <1>2 DEF IdleTimeout, TargetEnds
\* The others leave the tunnel's state alone, or its resources.
<1>5. ASSUME UNCHANGED vars
      PROVE  /\ UNCHANGED closed
             /\ UNCHANGED <<queued, cbuf, stallTimer, tickPending, wsPaused>>
  BY <1>5 DEF vars, parseVars, tickVars, tcpVars
<1>6. CASE BrowserCloses
  <2>1. /\ UNCHANGED vars /\ ws' = "leaving"
        /\ UNCHANGED <<paused, asked, setup, targets, tcp, route, lease, idle>>
    BY <1>6 DEF BrowserCloses, setupVars, heldVars
  <2> QED
    BY <1>5, <2>1 DEF LifeTypeOK, Ended, Holding, Alive
<1>7. CASE TargetClose
  <2>1. /\ UNCHANGED vars /\ tcp = "destroyed" /\ tcp' = "none" /\ route' = Released
        /\ UNCHANGED <<ws, paused, asked, setup, targets, lease, idle>>
    BY <1>7 DEF TargetClose, setupVars
  <2> QED
    BY <1>5, <2>1, ReleasedRoute DEF LifeTypeOK, Ended, Holding, Alive
<1>8. CASE ConnectMessage
  <2>1. /\ UNCHANGED vars /\ asked' = TRUE /\ setup' = "resolving" /\ ~asked
        /\ UNCHANGED <<ws, paused, targets, tcp, route, lease, idle>>
    BY <1>8 DEF ConnectMessage, heldVars
  <2> QED
    BY <1>5, <2>1 DEF LifeTypeOK, Ended, Holding, Alive
<1>9. CASE Resolved
  <2>1. /\ UNCHANGED vars /\ setup = "resolving"
        /\ UNCHANGED <<ws, paused, asked, route, lease, idle>>
        /\ \/ setup' = "settled" /\ targets' = targets /\ tcp' = tcp
           \/ /\ ~closed /\ setup' = "dialling" /\ tcp' = "dialled"
              /\ targets' \in 0 .. MaxTargets
    BY <1>9 DEF Resolved, heldVars
  <2> QED
    BY <1>5, <2>1 DEF LifeTypeOK, Ended, Holding, Alive
<1>10. CASE DialSucceeds
  <2>1. /\ UNCHANGED vars /\ tcp = "dialled" /\ setup' = "settled" /\ ~closed
        /\ UNCHANGED <<ws, paused, asked, targets, lease, idle>>
        /\ \/ tcp' = "none" /\ route' = route
           \/ /\ tcp' = "joined"
              /\ route' = [active |-> route.active + 1, mine |-> "held"]
    BY <1>10 DEF DialSucceeds, Ended
  <2>2. route.active = Others
    BY <2>1 DEF Holding
  <2> QED
    BY <1>5, <2>1, <2>2 DEF LifeTypeOK, Ended, Holding, Alive
<1>11. CASE DialFails
  <2>1. CASE CloseBoth
    BY <1>2, <2>1
  <2>2. CASE /\ targets > 0 /\ targets' = targets - 1 /\ UNCHANGED vars
             /\ UNCHANGED <<ws, paused, asked, setup, tcp, heldVars>>
    <3>1. targets' \in 0 .. MaxTargets
      BY <2>2 DEF LifeTypeOK
    <3> QED
      BY <1>5, <2>2, <3>1 DEF LifeTypeOK, Ended, Holding, Alive, heldVars
  <2> QED
    BY <1>11, <2>1, <2>2 DEF DialFails
\* The tunnel itself: its socket is there, so it has not ended, and its own steps
\* do not end it.
<1>12. CASE TunnelStep \/ Drain
  <2>1. tcp = "joined" /\ ~closed
    BY <1>12 DEF TunnelStep, Drain, Ended
  <2>2. UNCHANGED <<ws, asked, setup, targets, tcp, route, lease, idle>>
    BY <1>12 DEF TunnelStep, Drain, setupVars, heldVars
  <2>3. closed' = closed
    BY <1>12 DEF TunnelStep, Drain, ClientMessage, ServerFrame, ServerReads,
       InspectionTurn, StallTick, GraceExpires, TcpDrain
  <2>4. paused' \in BOOLEAN
    BY <1>12 DEF TunnelStep, Drain
  <2> QED
    BY <2>1, <2>2, <2>3, <2>4 DEF LifeTypeOK, Ended, Holding, Alive
<1>13. CASE MessageAfterClose
  <2>1. /\ closed /\ UNCHANGED <<cbuf, queued, stallTimer, tickPending, wsPaused, closed>>
        /\ UNCHANGED <<ws, paused, asked, setup, targets, tcp, lease, idle>>
        /\ route' = Released
    BY <1>13 DEF MessageAfterClose, LateMessage, setupVars, tcpVars
  <2>2. tcp # "joined"
    BY <2>1 DEF Ended
  <2> QED
    BY <2>1, <2>2, ReleasedRoute DEF LifeTypeOK, Ended, Holding, Alive
<1>14. CASE UNCHANGED allVars
  BY <1>5, <1>14
     DEF allVars, lifeVars, setupVars, heldVars, LifeTypeOK, Ended, Holding, Alive
<1> QED
  BY <1>2, <1>3, <1>4, <1>6, <1>7, <1>8, <1>9, <1>10, <1>11, <1>12, <1>13, <1>14
     DEF RelayNext

\* A tunnel that has ended holds nothing and the target's connections are counted
\* once each, however many handlers end it and however late a lookup, a target's
\* answer or a message comes; with any number of targets and of other tunnels.
THEOREM NothingIsLeft ==
    RelaySpec => []NothingLeft
<1>1. RelayInit => LifeInv
  <2> SUFFICES ASSUME RelayInit
               PROVE  LifeInv
    OBVIOUS
  <2>1. /\ ws = "open" /\ paused = FALSE /\ asked = FALSE
        /\ setup = "none" /\ targets = 0 /\ tcp = "none"
        /\ route = [active |-> Others, mine |-> "none"]
        /\ lease = TRUE /\ idle = TRUE /\ closed = FALSE
    BY DEF RelayInit, Init
  <2>2. route.active = Others /\ route.mine = "none"
    BY <2>1
  <2>3. LifeTypeOK
    <3>1. targets \in 0 .. MaxTargets /\ route.active \in Nat
      BY <2>1, <2>2
    <3>2. {paused, asked, lease, idle} \subseteq BOOLEAN
      BY <2>1
    <3> QED
      BY <2>1, <2>2, <3>1, <3>2 DEF LifeTypeOK
  <2>4. Holding
    BY <2>1, <2>2 DEF Holding
  <2>5. Ended /\ Alive
    BY <2>1 DEF Ended, Alive
  <2> QED
    BY <2>3, <2>4, <2>5 DEF LifeInv
<1>2. LifeInv /\ [RelayNext]_allVars => LifeInv'
  BY LifeNext
<1> QED
  BY <1>1, <1>2, LifeNothingLeft, PTL DEF RelaySpec

================================================================================
