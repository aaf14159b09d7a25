------------------------- MODULE BrowserConnect_proofs -------------------------
(***************************************************************************)
(* Theorems about BrowserConnect, for every set of relays, every queue and *)
(* every number of frames: a channel leaves nothing behind, carries Java's *)
(* frames through one tunnel in order, and gives up last.                  *)
(*                                                                         *)
(* The inductive invariant is Inv.  Its parts are about an entry e, what   *)
(* the endpoints got (g) and said (t), so that a callback can be taken     *)
(* apart into the entries it goes through.  What openRemoteCandidate needs *)
(* is that the page has done with the socket of the last attempt           *)
(* (DoneWith), also when it only comes to its next candidate after a wait. *)
(***************************************************************************)
EXTENDS BrowserConnect, FiniteSetTheorems, SequenceTheorems, TLAPS

-----------------------------------------------------------------------------
(* The inductive invariant.                                                *)

Choices == Candidates \cup {None}
Entries ==
    [refused : SUBSET Refusable, status : {"new", "connecting", "connected", "closed"},
     error : {"none", "exhausted", "transport"},
     known : SUBSET Candidates, tried : SUBSET Candidates,
     attempt : Choices, ws : Choices,
     sock : [Candidates -> {"none", "connecting", "open", "closing", "closed"}],
     timeout : Choices, negotiating : BOOLEAN,
     stage : {"none", "timer", "discovering", "probing", "ready"},
     selection : {"none", "timer", "ready"},
     waits : SUBSET {"selection", "exhaustion"}, lease : Choices, control : Choices,
     outbound : Seq(Nat), flush : {"none", "microtask", "task", "timer"},
     astray : SUBSET Candidates]

EntryTyped(e) ==
    /\ e \in Entries
    /\ e.tried \subseteq e.known /\ e.astray \subseteq e.tried
    /\ Len(e.outbound) <= MaxQueue

\* The page has no use for c, and has closed it or is one of the exceptions of
\* SocketsAreClosed.
DoneWith(e, t, c) ==
    \/ c = None
    \/ e.sock[c] \notin {"connecting", "open"}
    \/ t[c] = "wrong" \/ c \in e.astray

\* The entry waits for relays before it goes on.
Waiting(e) ==
    /\ e.status = "connecting"
    /\ "exhaustion" \in e.waits \/ ("selection" \in e.waits /\ e.selection # "ready")

\* Only the last socket that was dialled may be in use, and it is not while the
\* entry waits or once it is closed.
SocketsOK(e, t) ==
    /\ e.attempt # None => e.attempt = e.ws
    /\ \A c \in Candidates :
          /\ c \notin e.tried => e.sock[c] = "none"
          /\ c # e.ws \/ e.status = "closed" => DoneWith(e, t, c)
    /\ Waiting(e) => DoneWith(e, t, e.ws)

\* The relays are prepared once; the exhaustion is waited for after that.
StagesOK(e) ==
    /\ e.selection # "none" => e.stage \in {"discovering", "probing", "ready"}
    /\ "exhaustion" \in e.waits => e.selection = "ready"
    /\ e.status = "connected" => e.stage # "timer"
    /\ e.status = "new" => e = NewEntry(e.refused)

\* LeaseFollowsTunnel of an entry, which fails only by its end.
LeaseOK(e) ==
    /\ e.lease = IF e.status = "connected" /\ e.ws \in Relays THEN e.ws ELSE None
    /\ e.status \in {"connected", "closed"} => e.timeout = None
    /\ e.status # "closed" => e.error = "none"
    /\ e.status = "closed" =>
          /\ e.flush = "none" /\ e.outbound = <<>>
          /\ e.stage # "timer"
          /\ e.error # "none" => e.selection # "timer"

\* A socket carries nothing before it is open, an endpoint answers no sooner than
\* it has its connect message, and that is sent once.
Up(e) == e.status \in {"connected", "closed"}
TunnelOK(e, g, t) ==
    /\ \A c \in Candidates :
          /\ e.sock[c] \in {"none", "connecting"} => g[c] = <<>>
          /\ g[c] = <<>> => t[c] = "nothing"
          /\ t[c] = "tunnel" /\ c = e.attempt => Up(e)
          /\ Len(g[c]) > 1 => c = e.ws /\ Up(e) /\ t[c] = "tunnel"
    /\ e.control # None =>
          e.sock[e.control] \notin {"none", "connecting"} /\ g[e.control] = <<>>
    /\ e.status = "connected" => e.attempt # None /\ t[e.ws] = "tunnel"

\* Whoever was heard said another target, or is the tunnel.
HeardOK(e, t, h) ==
    \A c \in h : t[c] = "wrong" \/ (t[c] = "tunnel" /\ c = e.ws /\ Up(e))

\* The frames that wait are those after the ones the tunnel has.
QueueOK(e, g, n) ==
    /\ e.status \in {"new", "connecting"} => e.outbound = Numbers(1, n)
    /\ e.status = "connected" => e.outbound = Numbers(Len(g[e.ws]), n)

GotOK(g, n) ==
    \A c \in Candidates : g[c] = Numbers(0, Len(g[c]) - 1) /\ Len(g[c]) <= n + 1

Told == {"nothing", "connecting", "tunnel", "wrong"}
NetTyped ==
    /\ written \in 0 .. MaxWrites /\ buffered \in BOOLEAN
    /\ got \in [Candidates -> Seq(Nat)]
    /\ told \in [Candidates -> Told] /\ heard \subseteq Candidates

\* What an entry is like, given what the endpoints got and said, who was heard
\* and how many frames Java has written.
Fine(e, g, t, h, n) ==
    /\ EntryTyped(e) /\ SocketsOK(e, t) /\ StagesOK(e) /\ LeaseOK(e)
    /\ TunnelOK(e, g, t) /\ HeardOK(e, t, h) /\ QueueOK(e, g, n)

\* The plugin has its turn before anything else.
DirectTried(e) == Direct \in e.known => Direct \in e.tried

Inv ==
    /\ DirectTried(entry)
    /\ Fine(entry, got, told, heard, written)
    /\ NetTyped /\ GotOK(got, written)

-----------------------------------------------------------------------------
(* openRemoteCandidate takes an entry through others that keep its sockets  *)
(* and its queue, and ends with one of them, with a dial or with a failure. *)

\* None names no candidate, and neither does Direct a relay.
LEMMA Named == /\ None \notin Candidates /\ None \in Choices
               /\ Candidates \subseteq Choices /\ Direct \in Candidates
               /\ Direct \notin Relays /\ Relays \subseteq Candidates
  BY CandidateAssumption DEF Candidates, Choices

\* The search goes on beside the sockets and the queue.
Keeps(e, n) ==
    /\ EntryTyped(n)
    /\ n.refused = e.refused /\ n.status = e.status /\ n.error = e.error
    /\ n.ws = e.ws /\ n.sock = e.sock /\ n.timeout = e.timeout
    /\ n.lease = e.lease /\ n.control = e.control
    /\ n.outbound = e.outbound /\ n.flush = e.flush /\ n.astray = e.astray
    /\ n.attempt \in {e.attempt, None}
    /\ e.tried \subseteq n.tried /\ n.known \subseteq e.known \cup Relays

\* The entry before it goes on.
Searching(e, g, t, h, n) ==
    /\ Fine(e, g, t, h, n)
    /\ e.status = "connecting" /\ DoneWith(e, t, e.ws)

\* The search can go on from what it keeps.
LEMMA KeepsSearching ==
  ASSUME NEW e, NEW f, NEW g, NEW t, NEW h, NEW n,
         Searching(e, g, t, h, n), Keeps(e, f), StagesOK(f)
  PROVE  Searching(f, g, t, h, n)
<1>1. SocketsOK(f, t) /\ DoneWith(f, t, f.ws)
  BY DEF Searching, Fine, SocketsOK, Keeps, DoneWith
<1>2. LeaseOK(f)
  BY DEF Searching, Fine, LeaseOK, Keeps
<1>3. TunnelOK(f, g, t)
  BY Named DEF Searching, Fine, TunnelOK, Keeps, Up, EntryTyped
<1>4. HeardOK(f, t, h) /\ QueueOK(f, g, n)
  BY DEF Searching, Fine, HeardOK, QueueOK, Keeps, Up
<1> QED
  BY <1>1, <1>2, <1>3, <1>4 DEF Searching, Fine, Keeps

\* ensureRelayCandidates
LEMMA PreparedKeeps ==
  ASSUME NEW e, EntryTyped(e), StagesOK(e), e.status = "connecting",
         NEW p \in Prepared(e)
  PROVE  \/ p = e /\ e.stage \notin {"none", "timer"}
         \/ /\ Keeps(e, p) /\ StagesOK(p) /\ p.selection = "timer"
            /\ p.attempt = e.attempt /\ p.tried = e.tried /\ p.stage = "discovering"
            /\ p.known \subseteq e.known \cup Relays
            /\ "selection" \notin p.waits /\ p.waits \subseteq e.waits
            /\ e.stage \in {"none", "timer"}
<1>1. e \in Entries
  BY DEF EntryTyped
<1>2. CASE e.stage \notin {"none", "timer"}
  BY <1>2 DEF Prepared
<1>3. CASE e.stage \in {"none", "timer"}
  <2>1. PICK named \in SUBSET Relays :
          p = [e EXCEPT !.stage = "discovering", !.selection = "timer",
                        !.known = e.known \cup named, !.waits = e.waits \ {"selection"}]
    BY <1>3 DEF Prepared
  <2>2. e.known \cup named \in SUBSET Candidates
    BY <1>1, Named DEF Entries
  <2>3. PICK k \in SUBSET Candidates : k = e.known \cup named
    BY <2>2
  <2>4. PICK w \in SUBSET {"selection", "exhaustion"} : w = e.waits \ {"selection"}
    BY <1>1 DEF Entries
  <2>5. p = [e EXCEPT !.stage = "discovering", !.selection = "timer",
                        !.known = k, !.waits = w]
    BY <2>1, <2>3, <2>4
  <2>6. p \in Entries
    BY <1>1, <2>5, ZenonT(60) DEF Entries
  <2>7. Keeps(e, p)
    BY <1>1, <2>3, <2>5, <2>6 DEF Keeps, EntryTyped, Entries
  <2>8. /\ p.selection = "timer" /\ p.stage = "discovering" /\ p.status = e.status
        /\ p.attempt = e.attempt /\ p.tried = e.tried /\ p.waits = w /\ p.known = k
    BY <1>1, <2>5 DEF Entries
  <2>9. StagesOK(p)
    BY <1>1, <1>3, <2>4, <2>8 DEF StagesOK
  <2> QED
    BY <1>3, <2>3, <2>4, <2>7, <2>8, <2>9
<1> QED
  BY <1>2, <1>3

\* A wait for the selection.
LEMMA SelectionWait ==
  ASSUME NEW e, NEW g, NEW t, NEW h, NEW n, Searching(e, g, t, h, n)
  PROVE  LET f == [e EXCEPT !.waits = @ \cup {"selection"}]
         IN  Keeps(e, f) /\ StagesOK(f)
<1>1. EntryTyped(e) /\ StagesOK(e) /\ e.status = "connecting" /\ e \in Entries
  BY DEF Searching, Fine, EntryTyped
<1>2. PICK w \in SUBSET {"selection", "exhaustion"} : w = e.waits \cup {"selection"}
  BY <1>1 DEF Entries
<1>3. PICK f : f = [e EXCEPT !.waits = w]
  OBVIOUS
<1>4. f \in Entries
  BY <1>1, <1>3, ZenonT(60) DEF Entries
<1>5. /\ f.selection = e.selection /\ f.stage = e.stage /\ f.status = e.status /\ f.waits = w
      /\ f.refused = e.refused /\ f.error = e.error
      /\ f.known = e.known /\ f.tried = e.tried /\ f.attempt = e.attempt
      /\ f.ws = e.ws /\ f.sock = e.sock /\ f.timeout = e.timeout
      /\ f.lease = e.lease /\ f.control = e.control /\ f.flush = e.flush
      /\ f.outbound = e.outbound /\ f.astray = e.astray
  BY <1>1, <1>3 DEF Entries
<1>6. Keeps(e, f)
  BY <1>1, <1>4, <1>5 DEF Keeps, EntryTyped
<1>7. StagesOK(f)
  BY <1>1, <1>2, <1>5 DEF StagesOK
<1> QED
  BY <1>2, <1>3, <1>6, <1>7

\* Candidates the browser refuses are passed over.
LEMMA PassedKeeps ==
  ASSUME NEW e, NEW g, NEW t, NEW h, NEW n, Searching(e, g, t, h, n),
         NEW over, over \subseteq e.known
  PROVE  Keeps(e, Passed(e, over)) /\ StagesOK(Passed(e, over))
         /\ Passed(e, over).known = e.known /\ Passed(e, over).tried = e.tried \cup over
         /\ Passed(e, over).stage = e.stage /\ Passed(e, over).waits = e.waits
<1>1. EntryTyped(e) /\ StagesOK(e) /\ e.status = "connecting" /\ e \in Entries
  BY DEF Searching, Fine, EntryTyped
<1>2. PICK k \in SUBSET Candidates : k = e.tried \cup over
  BY <1>1 DEF Entries
<1>3. PICK a \in Choices : a = IF over = {} THEN e.attempt ELSE None
  BY <1>1, Named DEF Entries
<1>4. Passed(e, over) = [e EXCEPT !.tried = k, !.attempt = a]
  BY <1>2, <1>3 DEF Passed
<1>5. PICK f : f = Passed(e, over)
  OBVIOUS
<1>6. f \in Entries
  BY <1>1, <1>4, <1>5, ZenonT(60) DEF Entries
<1>7. /\ f.tried = k /\ f.known = e.known /\ f.waits = e.waits /\ f.attempt = a
      /\ f.stage = e.stage /\ f.selection = e.selection /\ f.status = e.status
      /\ f.refused = e.refused /\ f.error = e.error
      /\ f.ws = e.ws /\ f.sock = e.sock /\ f.timeout = e.timeout
      /\ f.lease = e.lease /\ f.control = e.control /\ f.flush = e.flush
      /\ f.outbound = e.outbound /\ f.astray = e.astray
  BY <1>1, <1>4, <1>5 DEF Entries
<1>8. Keeps(e, f)
  BY <1>1, <1>2, <1>3, <1>6, <1>7 DEF Keeps, EntryTyped
<1>9. StagesOK(f)
  BY <1>1, <1>7 DEF StagesOK
<1> QED
  BY <1>2, <1>5, <1>7, <1>8, <1>9

\* A dial uses a socket for the first time.
LEMMA DialledFine ==
  ASSUME NEW e, NEW g \in [Candidates -> Seq(Nat)], NEW t \in [Candidates -> Told],
         NEW h \in SUBSET Candidates, NEW n,
         Searching(e, g, t, h, n), NEW c \in e.known \ e.tried,
         c \in Relays => e.selection = "ready",
         c = Direct => e.waits = {}
  PROVE  Fine(Dialled(e, c), g, t, h, n)
<1>1. EntryTyped(e) /\ StagesOK(e) /\ e.status = "connecting" /\ e \in Entries
  BY DEF Searching, Fine, EntryTyped
<1>2. c \in Candidates /\ c \in Choices /\ c # None
  BY <1>1, Named DEF EntryTyped, Entries
<1>3. PICK tried \in SUBSET Candidates : tried = e.tried \cup {c}
  <2>1. e.tried \subseteq Candidates
    BY <1>1 DEF Entries
  <2> QED
    BY <1>2, <2>1
<1>4. PICK sock \in [Candidates -> {"none", "connecting", "open", "closing", "closed"}] :
        sock = [e.sock EXCEPT ![c] = "connecting"]
  BY <1>1, <1>2 DEF Entries
<1>5. PICK astray \in SUBSET Candidates :
        astray = IF "exhaustion" \in e.waits THEN e.astray \cup {c} ELSE e.astray
  <2>1. e.astray \subseteq Candidates
    BY <1>1 DEF Entries
  <2> QED
    BY <1>2, <2>1
<1>6. PICK f : f = Dialled(e, c)
  OBVIOUS
<1>7. PICK f1 : f1 = [e EXCEPT !.tried = tried, !.sock = sock, !.astray = astray]
  OBVIOUS
<1>8. f1 \in Entries
  BY <1>1, <1>7, ZenonT(60) DEF Entries
<1>9. f = [f1 EXCEPT !.attempt = c, !.ws = c, !.timeout = c]
  BY <1>1, <1>3, <1>4, <1>5, <1>6, <1>7 DEF Dialled, Entries
<1>10. f \in Entries
  BY <1>2, <1>8, <1>9, ZenonT(60) DEF Entries
<1>11. /\ f.tried = tried /\ f.sock = sock /\ f.astray = astray
       /\ f.attempt = c /\ f.ws = c /\ f.timeout = c
       /\ f.refused = e.refused /\ f.status = e.status /\ f.error = e.error
       /\ f.known = e.known /\ f.stage = e.stage /\ f.selection = e.selection
       /\ f.waits = e.waits /\ f.lease = e.lease /\ f.control = e.control
       /\ f.outbound = e.outbound /\ f.flush = e.flush
  BY <1>7, <1>8, <1>9, <1>1 DEF Entries
<1> HIDE <1>6, <1>7, <1>9
<1>12. EntryTyped(f)
  BY <1>1, <1>3, <1>5, <1>10, <1>11 DEF EntryTyped
<1>13. e.sock[c] = "none" /\ sock[c] = "connecting"
       /\ \A d \in Candidates : d # c => sock[d] = e.sock[d]
  BY <1>2, <1>4, <1>1 DEF Searching, Fine, SocketsOK, Entries
<1>14. SocketsOK(f, t)
  <2>1. \A d \in Candidates : DoneWith(e, t, d)
    BY DEF Searching, Fine, SocketsOK
  <2>2. \A d \in Candidates : d # c => DoneWith(f, t, d)
    BY <2>1, <1>11, <1>13, <1>5 DEF DoneWith
  <2>3. \A d \in Candidates : d \notin f.tried => f.sock[d] = "none"
    BY <1>3, <1>11, <1>13 DEF Searching, Fine, SocketsOK
  <2>4. Waiting(f) => "exhaustion" \in e.waits
    BY <1>11, <1>1, <1>2, Named DEF Waiting, Candidates, StagesOK
  <2>5. Waiting(f) => DoneWith(f, t, f.ws)
    BY <2>4, <1>5, <1>11 DEF DoneWith
  <2> QED
    BY <2>2, <2>3, <2>5, <1>1, <1>11 DEF SocketsOK
<1>15. StagesOK(f) /\ LeaseOK(f)
  BY <1>1, <1>11 DEF StagesOK, LeaseOK, Searching, Fine
<1>16. g[c] = <<>> /\ t[c] = "nothing"
  BY <1>2, <1>13 DEF Searching, Fine, TunnelOK
<1>17. TunnelOK(f, g, t)
  <2>1. e.control # c /\ e.control \in Choices
    BY <1>1, <1>2, <1>13 DEF Searching, Fine, TunnelOK, Entries
  <2>2. e.control # None => e.control \in Candidates
    BY <2>1 DEF Choices
  <2> QED
    BY <1>1, <1>2, <1>11, <1>13, <1>16, <2>1, <2>2 DEF Searching, Fine, TunnelOK, Up
<1>18. HeardOK(f, t, h) /\ QueueOK(f, g, n)
  BY <1>1, <1>11 DEF Searching, Fine, HeardOK, QueueOK, Up
<1> QED
  BY <1>6, <1>12, <1>14, <1>15, <1>17, <1>18 DEF Fine
-----------------------------------------------------------------------------
(* The ends of an entry and of its sockets.                                 *)

\* ws.close() changes the state of one socket that is in use.
LEMMA ShutFields ==
  ASSUME NEW e \in Entries, NEW c \in Choices
  PROVE  LET f == Shut(e, c)
         IN  /\ f \in Entries
             /\ f.refused = e.refused /\ f.status = e.status /\ f.error = e.error
             /\ f.known = e.known /\ f.tried = e.tried /\ f.attempt = e.attempt
             /\ f.ws = e.ws /\ f.timeout = e.timeout /\ f.stage = e.stage
             /\ f.selection = e.selection /\ f.waits = e.waits /\ f.lease = e.lease
             /\ f.control = e.control /\ f.outbound = e.outbound /\ f.flush = e.flush
             /\ f.astray = e.astray
             /\ \A d \in Candidates \ {c} : f.sock[d] = e.sock[d]
             /\ c # None => \/ f.sock[c] = e.sock[c]
                            \/ e.sock[c] # "none" /\ f.sock[c] = "closing"
             /\ c # None => f.sock[c] \notin {"connecting", "open"}
<1>1. CASE c # None /\ e.sock[c] \in {"connecting", "open"}
  <2>1. c \in Candidates
    BY <1>1 DEF Choices
  <2>2. PICK sock \in [Candidates -> {"none", "connecting", "open", "closing", "closed"}] :
          sock = [e.sock EXCEPT ![c] = "closing"]
    BY <2>1 DEF Entries
  <2>3. PICK f : f = Shut(e, c)
    OBVIOUS
  <2>4. f = [e EXCEPT !.sock = sock]
    BY <1>1, <2>2, <2>3 DEF Shut
  <2>5. f \in Entries
    BY <2>4, ZenonT(60) DEF Entries
  <2>6. /\ \A d \in Candidates \ {c} : sock[d] = e.sock[d]
        /\ sock[c] = "closing"
    BY <2>1, <2>2 DEF Entries
  <2>7. /\ f.refused = e.refused /\ f.status = e.status /\ f.error = e.error
        /\ f.known = e.known /\ f.tried = e.tried /\ f.attempt = e.attempt
        /\ f.ws = e.ws /\ f.timeout = e.timeout /\ f.stage = e.stage
        /\ f.selection = e.selection /\ f.waits = e.waits /\ f.lease = e.lease
        /\ f.control = e.control /\ f.outbound = e.outbound /\ f.flush = e.flush
        /\ f.astray = e.astray /\ f.sock = sock
    BY <2>4 DEF Entries
  <2> QED
    BY <1>1, <2>3, <2>5, <2>6, <2>7
<1>2. CASE ~(c # None /\ e.sock[c] \in {"connecting", "open"})
  BY <1>2 DEF Shut
<1> QED
  BY <1>1, <1>2

\* What a lost tunnel leaves.
LEMMA LostFields ==
  ASSUME NEW e \in Entries
  PROVE  LET f == Lost(e)
         IN  /\ f \in Entries
             /\ f.status = "closed" /\ f.lease = None /\ f.timeout = None
             /\ f.control = None /\ f.outbound = <<>> /\ f.flush = "none"
             /\ f.refused = e.refused /\ f.error = e.error
             /\ f.known = e.known /\ f.tried = e.tried /\ f.attempt = e.attempt
             /\ f.ws = e.ws /\ f.sock = e.sock /\ f.stage = e.stage
             /\ f.selection = e.selection /\ f.waits = e.waits /\ f.astray = e.astray
<1> <<>> \in Seq(Nat)
  OBVIOUS
<1>1. PICK nil \in Seq(Nat) : nil = <<>>
  BY Zenon
<1>2. PICK f1 : f1 = [e EXCEPT !.status = "closed", !.lease = None, !.timeout = None]
  OBVIOUS
<1>3. f1 \in Entries
  BY <1>2, Named, ZenonT(60) DEF Entries
<1>4. PICK f : f = [f1 EXCEPT !.control = None, !.outbound = nil, !.flush = "none"]
  OBVIOUS
<1>5. f \in Entries
  BY <1>3, <1>4, Named, ZenonT(60) DEF Entries
<1>6. f = Lost(e)
  BY <1>1, <1>2, <1>4 DEF Lost, Entries
<1>7. /\ f.status = "closed" /\ f.lease = None /\ f.timeout = None
      /\ f.control = None /\ f.outbound = <<>> /\ f.flush = "none"
      /\ f.refused = e.refused /\ f.error = e.error
      /\ f.known = e.known /\ f.tried = e.tried /\ f.attempt = e.attempt
      /\ f.ws = e.ws /\ f.sock = e.sock /\ f.stage = e.stage
      /\ f.selection = e.selection /\ f.waits = e.waits /\ f.astray = e.astray
  BY <1>1, <1>2, <1>4, <1>3 DEF Entries
<1> QED
  BY <1>5, <1>6, <1>7

\* What fail and close leave, before the socket is closed.
ClosedAs(e, f, why) ==
    /\ f \in Entries /\ f.error = why
    /\ f.status = "closed" /\ f.lease = None /\ f.timeout = None
    /\ f.control = None /\ f.outbound = <<>> /\ f.flush = "none"
    /\ f.refused = e.refused
    /\ f.known = e.known /\ f.tried = e.tried /\ f.attempt = e.attempt
    /\ f.ws = e.ws /\ f.sock = e.sock
    /\ f.stage = IF e.stage = "timer" THEN "none" ELSE e.stage
    /\ f.selection = IF e.selection = "timer" THEN "none" ELSE e.selection
    /\ f.waits = e.waits /\ f.astray = e.astray

\* The error is noted beside everything else.
LEMMA ClosedFields ==
  ASSUME NEW e \in Entries, NEW why \in {"none", "exhausted", "transport"}
  PROVE  /\ ClosedAs(e, [Closed(e) EXCEPT !.error = why], why)
         /\ Closed(e) \in Entries /\ Closed(e).error = e.error
<1>1. PICK l \in Entries : l = Lost(e)
  BY LostFields
<1>2. PICK stage \in {"none", "timer", "discovering", "probing", "ready"} :
        stage = IF l.stage = "timer" THEN "none" ELSE l.stage
  BY DEF Entries
<1>3. PICK selection \in {"none", "timer", "ready"} :
        selection = IF l.selection = "timer" THEN "none" ELSE l.selection
  BY DEF Entries
<1>4. PICK k : k = [l EXCEPT !.stage = stage, !.selection = selection]
  OBVIOUS
<1>5. k \in Entries
  BY <1>4, ZenonT(60) DEF Entries
<1>6. k = Closed(e)
  BY <1>1, <1>2, <1>3, <1>4 DEF Closed, Entries
<1>7. PICK f : f = [k EXCEPT !.error = why]
  OBVIOUS
<1>8. f \in Entries
  BY <1>5, <1>7, ZenonT(60) DEF Entries
<1>9. /\ f.error = why /\ k.error = l.error
      /\ f.status = l.status /\ f.lease = l.lease /\ f.timeout = l.timeout
      /\ f.control = l.control /\ f.outbound = l.outbound /\ f.flush = l.flush
      /\ f.refused = l.refused
      /\ f.known = l.known /\ f.tried = l.tried /\ f.attempt = l.attempt
      /\ f.ws = l.ws /\ f.sock = l.sock /\ f.stage = stage
      /\ f.selection = selection
      /\ f.waits = l.waits /\ f.astray = l.astray
  BY <1>4, <1>7, <1>5 DEF Entries
<1>10. ClosedAs(e, f, why)
  BY <1>1, <1>2, <1>3, <1>8, <1>9, LostFields DEF ClosedAs
<1>11. k.error = e.error
  BY <1>1, <1>9, LostFields
<1> QED
  BY <1>5, <1>6, <1>7, <1>10, <1>11

\* The entry is closed, and its socket.
Ends(e, f) ==
    /\ f \in Entries
    /\ f.status = "closed" /\ f.lease = None /\ f.timeout = None
    /\ f.control = None /\ f.outbound = <<>> /\ f.flush = "none"
    /\ f.tried = e.tried /\ f.known = e.known /\ f.attempt = e.attempt
    /\ f.ws = e.ws /\ f.waits = e.waits /\ f.astray = e.astray
    /\ f.stage # "timer" /\ (f.error # "none" => f.selection # "timer")
    /\ StagesOK(f)
    /\ \A d \in Candidates \ {e.ws} : f.sock[d] = e.sock[d]
    /\ e.ws # None => \/ f.sock[e.ws] = e.sock[e.ws]
                      \/ e.sock[e.ws] # "none" /\ f.sock[e.ws] \in {"closing", "closed"}
    /\ e.ws # None => f.sock[e.ws] \notin {"connecting", "open"}

\* An entry that has ended is fine.
LEMMA EndsFine ==
  ASSUME NEW e, NEW f, NEW g, NEW t, NEW h, NEW n, Fine(e, g, t, h, n), Ends(e, f)
  PROVE  Fine(f, g, t, h, n)
<1>1. EntryTyped(f)
  BY CandidateAssumption DEF Ends, Fine, EntryTyped
<1>2. SocketsOK(f, t)
  <2>1. \A c \in Candidates : DoneWith(f, t, c)
    BY DEF Fine, SocketsOK, DoneWith, Ends
  <2>2. \A c \in Candidates : c \notin e.tried => f.sock[c] = "none"
    BY Named DEF Fine, SocketsOK, Ends
  <2> QED
    BY <2>1, <2>2 DEF Fine, SocketsOK, Ends, Waiting
<1>3. LeaseOK(f)
  BY DEF LeaseOK, Ends
<1>4. TunnelOK(f, g, t)
  <2>1. \A c \in Candidates : f.sock[c] \in {"none", "connecting"} => f.sock[c] = e.sock[c]
    BY Named DEF Ends
  <2> QED
    BY <2>1 DEF Fine, TunnelOK, Ends, Up
<1>5. HeardOK(f, t, h) /\ QueueOK(f, g, n)
  BY DEF Fine, HeardOK, QueueOK, Ends, Up
<1> QED
  BY <1>1, <1>2, <1>3, <1>4, <1>5 DEF Fine, Ends

\* fail and close end the entry.
LEMMA FailEnds ==
  ASSUME NEW e, NEW g, NEW t, NEW h, NEW n, Fine(e, g, t, h, n),
         NEW why \in {"none", "exhausted", "transport"}
  PROVE  /\ Ends(e, Fail(e, why)) /\ Fail(e, why).error = why
         /\ e.stage # "timer" => Fail(e, why).stage = e.stage
<1>1. e \in Entries /\ StagesOK(e) /\ e.ws \in Choices
  BY DEF Fine, EntryTyped, Entries
<1>2. PICK k : k = [Closed(e) EXCEPT !.error = why]
  OBVIOUS
<1>3. PICK f : f = Shut(k, e.ws)
  OBVIOUS
<1>4. f = Fail(e, why)
  BY <1>2, <1>3 DEF Fail
<1>5. ClosedAs(e, k, why)
  BY <1>1, <1>2, ClosedFields, Zenon
<1>6. /\ f \in Entries
      /\ f.status = k.status /\ f.error = k.error
      /\ f.known = k.known /\ f.tried = k.tried /\ f.attempt = k.attempt
      /\ f.ws = k.ws /\ f.timeout = k.timeout /\ f.stage = k.stage
      /\ f.selection = k.selection /\ f.waits = k.waits /\ f.lease = k.lease
      /\ f.control = k.control /\ f.outbound = k.outbound /\ f.flush = k.flush
      /\ f.astray = k.astray
      /\ \A d \in Candidates \ {e.ws} : f.sock[d] = k.sock[d]
      /\ e.ws # None => \/ f.sock[e.ws] = k.sock[e.ws]
                        \/ k.sock[e.ws] # "none" /\ f.sock[e.ws] = "closing"
      /\ e.ws # None => f.sock[e.ws] \notin {"connecting", "open"}
  BY <1>1, <1>3, <1>5, ShutFields DEF ClosedAs
<1>7. StagesOK(f)
  BY <1>1, <1>5, <1>6 DEF StagesOK, ClosedAs
<1> QED
  BY <1>4, <1>5, <1>6, <1>7 DEF Ends, ClosedAs

\* state.close
LEMMA CloseEnds ==
  ASSUME NEW e, NEW g, NEW t, NEW h, NEW n, Fine(e, g, t, h, n)
  PROVE  Ends(e, Shut(Closed(e), e.ws)) /\ Shut(Closed(e), e.ws).error = e.error
<1>1. e \in Entries /\ e.error \in {"none", "exhausted", "transport"}
  BY DEF Fine, EntryTyped, Entries
<1>2. Closed(e) \in Entries /\ Closed(e).error = e.error
  BY <1>1, ClosedFields
<1>3. [Closed(e) EXCEPT !.error = e.error] = Closed(e)
  BY <1>2 DEF Entries
<1>4. Shut(Closed(e), e.ws) = Fail(e, e.error)
  BY <1>3 DEF Fail
<1> QED
  BY <1>1, <1>4, FailEnds

-----------------------------------------------------------------------------
(* openRemoteCandidate as a whole.                                          *)

\* GivesUpLast of a step from e to f.
GaveUp(e, f) ==
    e.error = "none" /\ f.error = "exhausted" =>
        f.known = f.tried /\ (f.stage = "ready" \/ "exhaustion" \in e.waits)

\* No candidate is left.
LEMMA ExhaustedFine ==
  ASSUME NEW e, NEW g, NEW t, NEW h, NEW n, Searching(e, g, t, h, n),
         e.selection = "ready", NEW f \in Exhausted(e)
  PROVE  /\ Fine(f, g, t, h, n) /\ (DirectTried(e) => DirectTried(f))
         /\ f.known = e.known /\ f.tried = e.tried
         /\ f.error = "exhausted" => f.stage = "ready" \/ "exhaustion" \in e.waits
<1>1. EntryTyped(e) /\ StagesOK(e) /\ e.status = "connecting" /\ e \in Entries
      /\ Fine(e, g, t, h, n) /\ e.stage # "timer" /\ e.error = "none"
  BY DEF Searching, Fine, EntryTyped, StagesOK, LeaseOK
<1>2. CASE e.stage # "ready" /\ "exhaustion" \notin e.waits
  <2>1. PICK w \in SUBSET {"selection", "exhaustion"} : w = e.waits \cup {"exhaustion"}
    BY <1>1 DEF Entries
  <2>2. f = [e EXCEPT !.waits = w]
    BY <1>2, <2>1 DEF Exhausted
  <2>3. f \in Entries
    BY <1>1, <2>2, ZenonT(60) DEF Entries
  <2>4. /\ f.refused = e.refused /\ f.status = e.status /\ f.error = e.error
        /\ f.known = e.known /\ f.tried = e.tried /\ f.attempt = e.attempt
        /\ f.ws = e.ws /\ f.sock = e.sock /\ f.timeout = e.timeout
        /\ f.stage = e.stage /\ f.selection = e.selection
        /\ f.lease = e.lease /\ f.control = e.control /\ f.flush = e.flush
        /\ f.outbound = e.outbound /\ f.astray = e.astray
    BY <1>1, <2>2 DEF Entries
  <2>5. Keeps(e, f)
    BY <1>1, <2>3, <2>4 DEF Keeps, EntryTyped
  <2>6. StagesOK(f)
    BY <1>1, <2>4 DEF StagesOK
  <2> QED
    BY <1>1, <2>4, <2>5, <2>6, KeepsSearching DEF Searching, DirectTried, Keeps
<1>3. CASE ~(e.stage # "ready" /\ "exhaustion" \notin e.waits)
  <2>1. f = Fail(e, "exhausted")
    BY <1>3 DEF Exhausted
  <2> QED
    BY <1>1, <1>3, <2>1, FailEnds, EndsFine DEF Ends, DirectTried
<1> QED
  BY <1>2, <1>3

\* The next relay, the wait for one, or the end.
LEMMA OpenRelayFine ==
  ASSUME NEW e, NEW g \in [Candidates -> Seq(Nat)], NEW t \in [Candidates -> Told],
         NEW h \in SUBSET Candidates, NEW n,
         Searching(e, g, t, h, n), Direct \notin e.known \ e.tried,
         NEW f \in OpenRelay(e)
  PROVE  Fine(f, g, t, h, n) /\ DirectTried(f) /\ GaveUp(e, f)
<1>0. DirectTried(e) /\ e.tried \subseteq e.known
  BY DEF DirectTried, Searching, Fine, EntryTyped
<1>1. CASE e.selection # "ready"
  <2>1. PICK p \in Prepared(e) : f = [p EXCEPT !.waits = @ \cup {"selection"}]
    BY <1>1 DEF OpenRelay
  <2>2. Searching(p, g, t, h, n)
    BY PreparedKeeps, KeepsSearching DEF Searching, Fine
  <2>3. Keeps(p, f) /\ StagesOK(f)
    BY <2>1, <2>2, SelectionWait
  <2> QED
    <3>1. DirectTried(p)
      BY <1>0, Named, PreparedKeeps DEF Searching, Fine, Keeps, DirectTried
    <3>2. DirectTried(f)
      BY <2>3, <3>1, Named DEF Keeps, DirectTried
    <3>3. p.error = e.error /\ f.error = p.error
      BY <2>3, PreparedKeeps DEF Searching, Fine, Keeps
    <3> QED
      BY <2>2, <2>3, <3>2, <3>3, KeepsSearching DEF Searching, GaveUp
<1>2. CASE e.selection = "ready"
  <2> DEFINE left == e.known \ e.tried
  <2>1. PICK over \in SUBSET (left \cap e.refused) :
          f \in IF over = left THEN Exhausted(Passed(e, over))
                ELSE {Dialled(Passed(e, over), c) : c \in left \ e.refused}
    BY <1>2 DEF OpenRelay
  <2>2. over \subseteq e.known
    OBVIOUS
  <2>3. PICK p : p = Passed(e, over)
    OBVIOUS
  <2>4. Keeps(e, p) /\ StagesOK(p) /\ p.known = e.known /\ p.tried = e.tried \cup over
       /\ p.waits = e.waits
    BY <2>2, <2>3, PassedKeeps
  <2>5. Searching(p, g, t, h, n)
    BY <2>4, KeepsSearching
  <2>6. p.selection = "ready"
    BY <1>2, <2>3 DEF Passed, Searching, Fine, EntryTyped, Entries
  <2> DirectTried(p)
    BY <1>0, <2>4 DEF DirectTried
  <2>7. CASE over = left
    <3>1. /\ Fine(f, g, t, h, n) /\ DirectTried(f)
          /\ f.known = p.known /\ f.tried = p.tried
          /\ f.error = "exhausted" => f.stage = "ready" \/ "exhaustion" \in p.waits
      BY <2>1, <2>3, <2>5, <2>6, <2>7, ExhaustedFine
    <3>2. p.known = p.tried
      BY <1>0, <2>4, <2>7
    <3> QED
      BY <2>4, <3>1, <3>2 DEF GaveUp
  <2>8. CASE over # left
    <3>1. PICK c \in left \ e.refused : f = Dialled(p, c)
      BY <2>1, <2>3, <2>8
    <3>2. c \in p.known \ p.tried /\ c # Direct
      BY <2>4, <3>1
    <3>3. p \in Entries
      BY <2>4 DEF Keeps, EntryTyped
    <3>4. f.known = p.known /\ f.tried = p.tried \cup {c} /\ f.error = p.error
          /\ p.error = e.error
      BY <2>4, <3>1, <3>3 DEF Dialled, Entries, Keeps
    <3>5. DirectTried(f)
      BY <3>4 DEF DirectTried
    <3> QED
      BY <2>5, <2>6, <3>1, <3>2, <3>4, <3>5, DialledFine DEF GaveUp
  <2> QED
    BY <2>7, <2>8
<1> QED
  BY <1>1, <1>2 DEF Searching, Fine, EntryTyped, Entries

\* The plugin's turn comes at most once.
LEMMA GoesOnFine ==
  ASSUME NEW e, NEW g \in [Candidates -> Seq(Nat)], NEW t \in [Candidates -> Told],
         NEW h \in SUBSET Candidates, NEW n,
         Fine(e, g, t, h, n), e.status = "connecting" => DoneWith(e, t, e.ws),
         Direct \in e.known \ e.tried => e.waits = {},
         NEW f \in OpenRemoteCandidate(e)
  PROVE  /\ Fine(f, g, t, h, n) /\ GaveUp(e, f)
         /\ e.status = "connecting" \/ DirectTried(e) => DirectTried(f)
<1>1. CASE e.status # "connecting"
  BY <1>1 DEF OpenRemoteCandidate, GaveUp
<1>2. CASE e.status = "connecting"
  <2>1. Searching(e, g, t, h, n) /\ e \in Entries /\ EntryTyped(e) /\ StagesOK(e)
    BY <1>2 DEF Searching, Fine, EntryTyped
  <2>2. CASE Direct \notin e.known \ e.tried
    BY <1>2, <2>1, <2>2, OpenRelayFine DEF OpenRemoteCandidate
  <2>3. CASE Direct \in e.known \ e.tried
    <3>1. CASE f \in OpenRelay([e EXCEPT !.tried = @ \cup {Direct}])
      <4>1. PICK tried \in SUBSET Candidates : tried = e.tried \cup {Direct}
        <5>1. e.tried \subseteq Candidates
          BY <2>1 DEF Entries
        <5> QED
          BY <5>1, Named
      <4>2. PICK p : p = [e EXCEPT !.tried = tried]
        OBVIOUS
      <4>3. p \in Entries
        BY <2>1, <4>2, ZenonT(60) DEF Entries
      <4>4. Keeps(e, p)
        <5>1. /\ p.refused = e.refused /\ p.status = e.status /\ p.error = e.error
              /\ p.ws = e.ws /\ p.sock = e.sock /\ p.timeout = e.timeout
              /\ p.lease = e.lease /\ p.control = e.control
              /\ p.outbound = e.outbound /\ p.flush = e.flush /\ p.astray = e.astray
              /\ p.attempt = e.attempt /\ p.tried = tried /\ p.known = e.known
          BY <2>1, <4>2 DEF Entries
        <5> QED
          BY <2>1, <2>3, <4>1, <4>3, <5>1 DEF Keeps, EntryTyped
      <4>5. p.selection = e.selection /\ p.stage = e.stage /\ p.status = e.status
            /\ p.waits = e.waits /\ p.tried = tried /\ p.error = e.error
        BY <2>1, <4>2 DEF Entries
      <4>6. StagesOK(p)
        BY <1>2, <2>1, <4>5 DEF StagesOK
      <4>7. Searching(p, g, t, h, n)
        BY <2>1, <4>4, <4>6, KeepsSearching
      <4>8. f \in OpenRelay(p)
        BY <3>1, <4>1, <4>2
      <4>9. Fine(f, g, t, h, n) /\ DirectTried(f) /\ GaveUp(p, f)
        BY <4>1, <4>5, <4>7, <4>8, OpenRelayFine
      <4> QED
        BY <4>5, <4>9 DEF GaveUp
    <3>2. CASE f \in OpenRelay(Passed(e, {Direct}))
      <4>1. {Direct} \subseteq e.known
        BY <2>3
      <4>2. PICK p : p = Passed(e, {Direct})
        OBVIOUS
      <4>3. Keeps(e, p) /\ StagesOK(p) /\ p.tried = e.tried \cup {Direct}
            /\ p.waits = e.waits
        BY <2>1, <4>1, <4>2, PassedKeeps
      <4>4. Searching(p, g, t, h, n)
        BY <2>1, <4>3, KeepsSearching
      <4>5. Fine(f, g, t, h, n) /\ DirectTried(f) /\ GaveUp(p, f)
        BY <3>2, <4>2, <4>3, <4>4, OpenRelayFine
      <4> QED
        BY <4>3, <4>5 DEF GaveUp, Keeps
    <3>3. CASE f = Dialled(e, Direct)
      <4>1. f.known = e.known /\ f.tried = e.tried \cup {Direct} /\ f.error = e.error
        BY <2>1, <3>3 DEF Dialled, Entries
      <4> QED
        BY <2>1, <2>3, <3>3, <4>1, Named, DialledFine DEF DirectTried, GaveUp
    <3> QED
      BY <1>2, <2>3, <3>1, <3>2, <3>3 DEF OpenRemoteCandidate
  <2> QED
    BY <2>2, <2>3
<1> QED
  BY <1>1, <1>2
-----------------------------------------------------------------------------
(* Steps beside the sockets.                                                *)

\* The queue, the sockets and the endpoints stay as they are.
Beside(e, f) ==
    /\ EntryTyped(f) /\ StagesOK(f) /\ LeaseOK(f)
    /\ f.status = e.status /\ f.attempt = e.attempt /\ f.ws = e.ws
    /\ f.sock = e.sock /\ f.tried = e.tried /\ f.astray = e.astray
    /\ f.control = e.control /\ f.outbound = e.outbound

\* An entry that waits after such a step did so before, or is done with its socket.
LEMMA BesideFine ==
  ASSUME NEW e, NEW f, NEW g, NEW t, NEW h, NEW n, Fine(e, g, t, h, n), Beside(e, f),
         Waiting(f) => Waiting(e) \/ DoneWith(e, t, e.ws)
  PROVE  Fine(f, g, t, h, n)
<1>1. \A c : DoneWith(f, t, c) <=> DoneWith(e, t, c)
  BY DEF Beside, DoneWith
<1>2. SocketsOK(f, t)
  BY <1>1 DEF Fine, SocketsOK, Beside
<1>3. TunnelOK(f, g, t) /\ HeardOK(f, t, h) /\ QueueOK(f, g, n)
  BY DEF Fine, TunnelOK, HeardOK, QueueOK, Beside, Up
<1> QED
  BY <1>2, <1>3 DEF Fine, Beside

\* requestFlush of an open entry.
LEMMA RequestedFine ==
  ASSUME NEW e, NEW g, NEW t, NEW h, NEW n, Fine(e, g, t, h, n),
         e.status # "closed", NEW kind \in {"microtask", "task", "timer"}
  PROVE  Fine(Requested(e, kind), g, t, h, n)
<1>1. EntryTyped(e) /\ StagesOK(e) /\ LeaseOK(e) /\ e \in Entries
  BY DEF Fine, EntryTyped
<1>2. CASE e.flush = "none" /\ Flushable(e)
  <2>1. PICK f : f = [e EXCEPT !.flush = kind]
    OBVIOUS
  <2>2. f \in Entries
    BY <1>1, <2>1, ZenonT(60) DEF Entries
  <2>3. /\ f.refused = e.refused /\ f.status = e.status /\ f.error = e.error
        /\ f.known = e.known /\ f.tried = e.tried /\ f.attempt = e.attempt
        /\ f.ws = e.ws /\ f.sock = e.sock /\ f.timeout = e.timeout
        /\ f.stage = e.stage /\ f.selection = e.selection /\ f.waits = e.waits
        /\ f.lease = e.lease /\ f.control = e.control /\ f.outbound = e.outbound
        /\ f.astray = e.astray
    BY <1>1, <2>1 DEF Entries
  <2>4. e.status # "new"
    BY <1>1, <1>2 DEF StagesOK, NewEntry, Flushable, Sendable
  <2>5. EntryTyped(f) /\ StagesOK(f) /\ LeaseOK(f)
    BY <1>1, <2>2, <2>3, <2>4 DEF EntryTyped, StagesOK, LeaseOK
  <2>6. Beside(e, f) /\ (Waiting(f) => Waiting(e))
    BY <2>3, <2>5 DEF Beside, Waiting
  <2> QED
    BY <1>2, <2>1, <2>6, BesideFine DEF Requested
<1>3. CASE ~(e.flush = "none" /\ Flushable(e))
  BY <1>3 DEF Requested
<1> QED
  BY <1>2, <1>3

\* A callback that leaves the endpoints and Java alone.
LEMMA EntryStep ==
  ASSUME Inv, UNCHANGED net, Fine(entry', got, told, heard, written), DirectTried(entry')
  PROVE  Inv'
<1>1. got' = got /\ told' = told /\ heard' = heard /\ written' = written
      /\ buffered' = buffered
  BY DEF net
<1>2. NetTyped' /\ GotOK(got', written')
  BY <1>1 DEF Inv, NetTyped
<1> QED
  BY <1>1, <1>2 DEF Inv

\* A callback that goes on to the next candidate.
LEMMA GoesOnStep ==
  ASSUME Inv, UNCHANGED net, NEW e, Fine(e, got, told, heard, written),
         e.status = "connecting" => DoneWith(e, told, e.ws),
         Direct \in e.known \ e.tried => e.waits = {},
         e.status = "connecting" \/ DirectTried(e),
         GoesOn(e)
  PROVE  Inv' /\ GaveUp(e, entry')
<1>1. /\ got \in [Candidates -> Seq(Nat)] /\ told \in [Candidates -> Told]
      /\ heard \in SUBSET Candidates
  BY DEF Inv, NetTyped
<1>2. entry' \in OpenRemoteCandidate(e)
  BY DEF GoesOn
<1> QED
  BY <1>1, <1>2, GoesOnFine, EntryStep

-----------------------------------------------------------------------------
(* Java's calls.                                                            *)

\* The parts of Inv that the steps start from.
LEMMA Known ==
  ASSUME Inv
  PROVE  /\ Fine(entry, got, told, heard, written) /\ DirectTried(entry)
         /\ entry \in Entries /\ EntryTyped(entry)
         /\ StagesOK(entry) /\ LeaseOK(entry) /\ NetTyped
  BY DEF Inv, Fine, EntryTyped

\* state.open
LEMMA OpenKeeps == ASSUME Inv, Open PROVE Inv' /\ GaveUp(entry, entry')
<1>1. /\ Fine(entry, got, told, heard, written) /\ entry \in Entries /\ EntryTyped(entry)
      /\ entry.status = "new" /\ entry = NewEntry(entry.refused) /\ UNCHANGED net
  BY Known DEF Open, StagesOK
<1>2. /\ entry.attempt = None /\ entry.ws = None /\ entry.waits = {} /\ entry.stage = "none"
      /\ entry.selection = "none" /\ entry.known = {} /\ entry.tried = {}
      /\ entry.control = None /\ entry.timeout = None /\ entry.lease = None
      /\ entry.flush = "none" /\ entry.astray = {} /\ entry.error = "none"
  <2>1. PICK r : entry = NewEntry(r)
    BY <1>1
  <2> QED
    BY <2>1 DEF NewEntry
<1>3. PICK e : e = [entry EXCEPT !.status = "connecting"]
  OBVIOUS
<1>4. e \in Entries
  BY <1>1, <1>3, ZenonT(60) DEF Entries
<1>5. /\ e.status = "connecting"
      /\ e.refused = entry.refused /\ e.error = entry.error
      /\ e.known = entry.known /\ e.tried = entry.tried /\ e.attempt = entry.attempt
      /\ e.ws = entry.ws /\ e.sock = entry.sock /\ e.timeout = entry.timeout
      /\ e.stage = entry.stage /\ e.selection = entry.selection /\ e.waits = entry.waits
      /\ e.lease = entry.lease /\ e.control = entry.control /\ e.flush = entry.flush
      /\ e.outbound = entry.outbound /\ e.astray = entry.astray
  BY <1>1, <1>3 DEF Entries
<1>6. EntryTyped(e) /\ StagesOK(e) /\ LeaseOK(e)
  BY <1>1, <1>2, <1>4, <1>5 DEF EntryTyped, StagesOK, LeaseOK
<1>7. SocketsOK(e, told)
  BY <1>1, <1>2, <1>5 DEF Fine, SocketsOK, DoneWith, Waiting
<1>8. TunnelOK(e, got, told) /\ HeardOK(e, told, heard) /\ QueueOK(e, got, written)
  BY <1>1, <1>2, <1>5, Named DEF Fine, TunnelOK, HeardOK, QueueOK, Up
<1>9. Fine(e, got, told, heard, written)
  BY <1>6, <1>7, <1>8 DEF Fine
<1>10. CASE GoesOn([e EXCEPT !.known = {Direct}, !.stage = "timer"])
  <2>1. PICK k \in SUBSET Candidates : k = {Direct}
    BY Named
  <2>2. PICK f : f = [e EXCEPT !.known = k, !.stage = "timer"]
    OBVIOUS
  <2>3. f \in Entries
    BY <1>4, <2>2, ZenonT(60) DEF Entries
  <2>4. /\ f.status = e.status
        /\ f.refused = e.refused /\ f.error = e.error
        /\ f.known = k /\ f.tried = e.tried /\ f.attempt = e.attempt
        /\ f.ws = e.ws /\ f.sock = e.sock /\ f.timeout = e.timeout
        /\ f.stage = "timer" /\ f.selection = e.selection /\ f.waits = e.waits
        /\ f.lease = e.lease /\ f.control = e.control /\ f.flush = e.flush
        /\ f.outbound = e.outbound /\ f.astray = e.astray
    BY <1>4, <2>2 DEF Entries
  <2>5. EntryTyped(f) /\ StagesOK(f) /\ LeaseOK(f)
    BY <1>2, <1>5, <1>6, <2>3, <2>4 DEF EntryTyped, StagesOK, LeaseOK
  <2>6. Fine(f, got, told, heard, written)
    BY <1>2, <1>5, <1>9, <2>4, <2>5, BesideFine DEF Beside, Waiting
  <2>7. DoneWith(f, told, f.ws) /\ f.waits = {}
    BY <1>2, <1>5, <2>4 DEF DoneWith
  <2>8. Inv' /\ GaveUp(f, entry')
    BY <1>1, <1>5, <1>10, <2>1, <2>2, <2>4, <2>6, <2>7, GoesOnStep
  <2> QED
    BY <1>5, <2>4, <2>8 DEF GaveUp
<1>11. ASSUME NEW p \in Prepared(e), GoesOn(p) PROVE Inv' /\ GaveUp(entry, entry')
  <2>1. /\ Keeps(e, p) /\ StagesOK(p) /\ p.known \subseteq e.known \cup Relays
        /\ p.waits \subseteq e.waits
    BY <1>2, <1>5, <1>6, <1>11, PreparedKeeps
  <2>2. DoneWith(e, told, e.ws)
    BY <1>2, <1>5 DEF DoneWith
  <2>3. Searching(p, got, told, heard, written)
    BY <1>5, <1>9, <2>1, <2>2, KeepsSearching DEF Searching
  <2>4. Direct \notin p.known
    BY <1>2, <1>5, <2>1, Named
  <2>5. Inv' /\ GaveUp(p, entry')
    BY <1>1, <1>11, <2>3, <2>4, GoesOnStep DEF Searching
  <2> QED
    BY <1>5, <2>1, <2>5 DEF GaveUp, Keeps
<1> QED
  BY <1>3, <1>10, <1>11 DEF Open

\* The frames after the first ones, with one more.
LEMMA NumbersAppend ==
  ASSUME NEW i \in Nat, NEW n \in Nat, i <= n + 1
  PROVE  Append(Numbers(i, n), n + 1) = Numbers(i, n + 1)
  BY DEF Numbers

\* Frames from i to n are a sequence.
LEMMA NumbersType ==
  ASSUME NEW i \in Nat, NEW n \in Nat, i <= n + 1
  PROVE  /\ Numbers(i, n) \in Seq(Nat) /\ Len(Numbers(i, n)) = n - i + 1
         /\ \A k \in 1 .. n - i + 1 : Numbers(i, n)[k] = i + k - 1
  BY DEF Numbers

\* doWrite
LEMMA WriteKeeps == ASSUME Inv, Write PROVE Inv'
<1>1. /\ Fine(entry, got, told, heard, written) /\ entry \in Entries /\ EntryTyped(entry)
      /\ StagesOK(entry) /\ LeaseOK(entry) /\ NetTyped /\ DirectTried(entry)
      /\ GotOK(got, written)
      /\ entry.status \in {"connecting", "connected"}
      /\ UNCHANGED <<buffered, got, told, heard>>
      /\ written \in Nat /\ written < MaxWrites /\ MaxWrites \in Nat
  BY Known, CandidateAssumption DEF Write, Inv, NetTyped
<1>2. CASE Len(entry.outbound) = MaxQueue
  <2>1. entry' = Requested(entry, "timer") /\ written' = written
    BY <1>2 DEF Write
  <2>2. Fine(entry', got, told, heard, written)
    BY <1>1, <2>1, RequestedFine
  <2>3. DirectTried(entry')
    BY <1>1, <2>1 DEF Requested, DirectTried, Entries
  <2> QED
    BY <1>1, <2>1, <2>2, <2>3, EntryStep DEF net
<1>3. CASE Len(entry.outbound) # MaxQueue
  <2>1. PICK q : q = Append(entry.outbound, written + 1)
    OBVIOUS
  <2>2. q \in Seq(Nat) /\ Len(q) = Len(entry.outbound) + 1 /\ Len(entry.outbound) \in Nat
    BY <1>1, <2>1 DEF Entries
  <2>3. PICK f : f = [entry EXCEPT !.outbound = q]
    OBVIOUS
  <2>4. f \in Entries
    BY <1>1, <2>2, <2>3, ZenonT(60) DEF Entries
  <2>5. /\ f.outbound = q /\ f.status = entry.status
        /\ f.refused = entry.refused /\ f.error = entry.error
        /\ f.known = entry.known /\ f.tried = entry.tried /\ f.attempt = entry.attempt
        /\ f.ws = entry.ws /\ f.sock = entry.sock /\ f.timeout = entry.timeout
        /\ f.stage = entry.stage /\ f.selection = entry.selection /\ f.waits = entry.waits
        /\ f.lease = entry.lease /\ f.control = entry.control /\ f.flush = entry.flush
        /\ f.astray = entry.astray
    BY <1>1, <2>3 DEF Entries
  <2>6. EntryTyped(f)
    BY <1>1, <1>3, <2>2, <2>4, <2>5, CandidateAssumption DEF EntryTyped
  <2>7. StagesOK(f) /\ LeaseOK(f)
    BY <1>1, <2>5 DEF StagesOK, LeaseOK
  <2>8. SocketsOK(f, told)
    BY <1>1, <2>5 DEF Fine, SocketsOK, DoneWith, Waiting
  <2>9. TunnelOK(f, got, told) /\ HeardOK(f, told, heard)
    BY <1>1, <2>5 DEF Fine, TunnelOK, HeardOK, Up
  <2>10. QueueOK(f, got, written + 1)
    <3>1. CASE entry.status = "connecting"
      <4>1. entry.outbound = Numbers(1, written)
        BY <1>1, <3>1 DEF Fine, QueueOK
      <4> QED
        BY <1>1, <2>1, <2>5, <3>1, <4>1, NumbersAppend DEF QueueOK
    <3>2. CASE entry.status = "connected"
      <4>1. entry.outbound = Numbers(Len(got[entry.ws]), written)
        BY <1>1, <3>2 DEF Fine, QueueOK
      <4>2. entry.ws \in Candidates
        BY <1>1, <3>2 DEF Fine, TunnelOK, SocketsOK, Entries, Choices
      <4>3. Len(got[entry.ws]) \in Nat /\ Len(got[entry.ws]) <= written + 1
        BY <1>1, <4>2 DEF GotOK, NetTyped
      <4> QED
        BY <1>1, <2>1, <2>5, <3>2, <4>1, <4>3, NumbersAppend DEF QueueOK
    <3> QED
      BY <1>1, <3>1, <3>2
  <2>11. Fine(f, got, told, heard, written + 1)
    BY <2>6, <2>7, <2>8, <2>9, <2>10 DEF Fine
  <2>12. entry' = Requested(f, "microtask") /\ written' = written + 1
    BY <1>3, <2>1, <2>3 DEF Write
  <2>13. Fine(entry', got, told, heard, written')
    BY <1>1, <2>5, <2>11, <2>12, RequestedFine
  <2>14. DirectTried(entry')
    BY <1>1, <2>4, <2>5, <2>12 DEF Requested, DirectTried, Entries
  <2>15. NetTyped' /\ GotOK(got', written')
    BY <1>1, <2>12 DEF NetTyped, GotOK
  <2> QED
    BY <1>1, <2>13, <2>14, <2>15 DEF Inv
<1> QED
  BY <1>2, <1>3

\* state.close
LEMMA JavaCloseKeeps == ASSUME Inv, JavaClose PROVE Inv'
<1>1. Fine(entry, got, told, heard, written) /\ DirectTried(entry)
      /\ UNCHANGED net /\ entry' = Shut(Closed(entry), entry.ws)
  BY Known DEF JavaClose
<1>2. Ends(entry, entry')
  BY <1>1, CloseEnds
<1> QED
  BY <1>1, <1>2, EndsFine, EntryStep DEF Ends, DirectTried
-----------------------------------------------------------------------------
(* The preparation of the relays.                                           *)

\* What the preparation may change.
Prepares(e, known, stage, selection, waits) ==
    [e EXCEPT !.known = known, !.stage = stage, !.selection = selection, !.waits = waits]
Preparable(e, known, stage, selection, waits) ==
    /\ EntryTyped(e)
    /\ known \in SUBSET Candidates /\ e.tried \subseteq known
    /\ stage \in {"none", "timer", "discovering", "probing", "ready"}
    /\ selection \in {"none", "timer", "ready"}
    /\ waits \in SUBSET {"selection", "exhaustion"}
PreparedAs(e, known, stage, selection, waits, f) ==
    /\ EntryTyped(f) /\ f \in Entries
    /\ f.known = known /\ f.stage = stage /\ f.selection = selection /\ f.waits = waits
    /\ f.status = e.status
    /\ f.refused = e.refused /\ f.error = e.error
    /\ f.tried = e.tried /\ f.attempt = e.attempt
    /\ f.ws = e.ws /\ f.sock = e.sock /\ f.timeout = e.timeout
    /\ f.lease = e.lease /\ f.control = e.control /\ f.flush = e.flush
    /\ f.outbound = e.outbound /\ f.astray = e.astray

\* A step that changes no more than the preparation.
LEMMA PreparationStep ==
  ASSUME NEW e, NEW known, NEW stage, NEW selection, NEW waits,
         Preparable(e, known, stage, selection, waits)
  PROVE  PreparedAs(e, known, stage, selection, waits,
                    Prepares(e, known, stage, selection, waits))
<1>1. PICK f : f = Prepares(e, known, stage, selection, waits)
  OBVIOUS
<1>2. e \in Entries
  BY DEF Preparable, EntryTyped
<1>3. f \in Entries
  BY <1>1, <1>2, ZenonT(60) DEF Entries, Prepares, Preparable
<1>4. /\ f.known = known /\ f.stage = stage /\ f.selection = selection /\ f.waits = waits
      /\ f.status = e.status
      /\ f.refused = e.refused /\ f.error = e.error
      /\ f.tried = e.tried /\ f.attempt = e.attempt
      /\ f.ws = e.ws /\ f.sock = e.sock /\ f.timeout = e.timeout
      /\ f.lease = e.lease /\ f.control = e.control /\ f.flush = e.flush
      /\ f.outbound = e.outbound /\ f.astray = e.astray
  BY <1>1, <1>2 DEF Entries, Prepares
<1>5. EntryTyped(f)
  BY <1>3, <1>4 DEF EntryTyped, Preparable
<1> QED
  BY <1>1, <1>3, <1>4, <1>5 DEF PreparedAs

\* 50 ms after the attempt on the plugin began.
LEMMA PreparationTimerKeeps == ASSUME Inv, PreparationTimer PROVE Inv'
<1>1. /\ Fine(entry, got, told, heard, written) /\ entry \in Entries /\ EntryTyped(entry)
      /\ StagesOK(entry) /\ LeaseOK(entry) /\ DirectTried(entry)
      /\ entry.stage = "timer" /\ UNCHANGED net
  BY Known DEF PreparationTimer
<1>2. entry.status # "new" /\ entry.selection = "none" /\ "exhaustion" \notin entry.waits
  <2>1. NewEntry(entry.refused).stage = "none"
    BY DEF NewEntry
  <2> QED
    BY <1>1, <2>1 DEF StagesOK
<1>3. PICK e : e = [entry EXCEPT !.stage = "none"]
  OBVIOUS
<1>4. e = Prepares(entry, entry.known, "none", entry.selection, entry.waits)
  BY <1>1, <1>3 DEF Entries, Prepares
<1>5. PreparedAs(entry, entry.known, "none", entry.selection, entry.waits, e)
  <2>1. Preparable(entry, entry.known, "none", entry.selection, entry.waits)
    BY <1>1 DEF Preparable, EntryTyped, Entries
  <2> QED
    BY <1>4, <2>1, PreparationStep, Zenon
<1>6. StagesOK(e) /\ LeaseOK(e)
  BY <1>1, <1>2, <1>5 DEF StagesOK, LeaseOK, PreparedAs
<1>7. Fine(e, got, told, heard, written) /\ DirectTried(e)
  BY <1>1, <1>5, <1>6, BesideFine DEF Beside, Waiting, DirectTried, PreparedAs
<1>8. CASE entry' = e
  BY <1>1, <1>7, <1>8, EntryStep
<1>9. CASE e.status = "connecting" /\ entry' \in Prepared(e)
  <2>1. PICK p : p = entry'
    OBVIOUS
  <2>2. /\ Keeps(e, p) /\ StagesOK(p) /\ p.attempt = e.attempt /\ p.tried = e.tried
        /\ "selection" \notin p.waits /\ p.waits \subseteq e.waits
    BY <1>5, <1>6, <1>9, <2>1, PreparedKeeps DEF PreparedAs
  <2>3. LeaseOK(p)
    BY <1>6, <1>9, <2>2 DEF Keeps, LeaseOK
  <2>4. ~Waiting(p)
    BY <1>2, <1>5, <2>2 DEF Waiting, PreparedAs
  <2>5. Fine(p, got, told, heard, written)
    BY <1>7, <2>2, <2>3, <2>4, BesideFine DEF Beside, Keeps
  <2>6. DirectTried(p)
    BY <1>7, <2>2, Named DEF Keeps, DirectTried
  <2> QED
    BY <1>1, <2>1, <2>5, <2>6, EntryStep
<1>10. \/ e.status # "connecting" \/ entry' = e
       \/ (e.status = "connecting" /\ entry' \in Prepared(e))
  BY <1>1, <1>3, <1>5, Zenon DEF PreparationTimer, PreparedAs
<1>11. e.status # "connecting" => entry' = e
  BY <1>3 DEF PreparationTimer
<1> QED
  BY <1>8, <1>9, <1>10, <1>11

\* The registries have answered or timed out.
LEMMA DiscoveredKeeps == ASSUME Inv, Discovered PROVE Inv'
<1>1. /\ Fine(entry, got, told, heard, written) /\ entry \in Entries /\ EntryTyped(entry)
      /\ StagesOK(entry) /\ LeaseOK(entry) /\ DirectTried(entry)
      /\ entry.stage = "discovering" /\ UNCHANGED net
  BY Known DEF Discovered
<1>2. PICK found \in SUBSET Relays :
        entry' = [entry EXCEPT !.stage = "probing", !.known = @ \cup found]
  BY DEF Discovered
<1>3. PICK k \in SUBSET Candidates : k = entry.known \cup found
  BY <1>1, Named DEF Entries
<1>4. PICK f : f = entry'
  OBVIOUS
<1>5. f = Prepares(entry, k, "probing", entry.selection, entry.waits)
  BY <1>1, <1>2, <1>3, <1>4 DEF Entries, Prepares
<1>6. PreparedAs(entry, k, "probing", entry.selection, entry.waits, f)
  <2>1. Preparable(entry, k, "probing", entry.selection, entry.waits)
    BY <1>1, <1>3 DEF Preparable, EntryTyped, Entries
  <2> QED
    BY <1>5, <2>1, PreparationStep, Zenon
<1>7. entry.status # "new"
  <2>1. NewEntry(entry.refused).stage = "none"
    BY DEF NewEntry
  <2> QED
    BY <1>1, <2>1 DEF StagesOK
<1>8. StagesOK(f) /\ LeaseOK(f)
  BY <1>1, <1>6, <1>7 DEF StagesOK, LeaseOK, PreparedAs
<1>9. Fine(f, got, told, heard, written)
  BY <1>1, <1>6, <1>8, BesideFine DEF Beside, Waiting, PreparedAs
<1>10. DirectTried(f)
  BY <1>1, <1>3, <1>6, Named DEF DirectTried, PreparedAs
<1> QED
  BY <1>1, <1>4, <1>9, <1>10, EntryStep

\* An entry whose selection is over, before it goes on.
LEMMA ReadyFine ==
  ASSUME NEW e, NEW g, NEW t, NEW h, NEW n, Fine(e, g, t, h, n), DirectTried(e),
         e.selection = "timer",
         NEW to \in {"none", "ready"}, to = IF e.status = "closed" THEN "none" ELSE "ready",
         NEW f, f = Prepares(e, e.known, e.stage, to, e.waits)
  PROVE  /\ Fine(f, g, t, h, n) /\ DirectTried(f)
         /\ f.status = e.status /\ f.waits = e.waits /\ f.stage = e.stage
         /\ f.known = e.known /\ f.tried = e.tried /\ f.error = e.error
         /\ DoneWith(e, t, e.ws) => DoneWith(f, t, f.ws)
<1>1. EntryTyped(e) /\ StagesOK(e) /\ LeaseOK(e) /\ e \in Entries
  BY DEF Fine, EntryTyped
<1>3. PreparedAs(e, e.known, e.stage, to, e.waits, f)
  <2>1. Preparable(e, e.known, e.stage, to, e.waits)
    BY <1>1 DEF Preparable, EntryTyped, Entries
  <2> QED
    BY <2>1, PreparationStep, Zenon
<1>4. e.status # "new"
  <2>1. NewEntry(e.refused).selection = "none"
    BY DEF NewEntry
  <2> QED
    BY <1>1, <2>1 DEF StagesOK
<1>5. StagesOK(f) /\ LeaseOK(f)
  BY <1>1, <1>3, <1>4 DEF StagesOK, LeaseOK, PreparedAs
<1>6. Waiting(f) => Waiting(e)
  BY <1>3 DEF Waiting, PreparedAs
<1> QED
  BY <1>3, <1>5, <1>6, BesideFine DEF Beside, DirectTried, DoneWith, PreparedAs

\* The selection is over, by its timer or by the preflight.
LEMMA SelectedKeeps ==
  ASSUME Inv, UNCHANGED net, NEW e, Fine(e, got, told, heard, written), DirectTried(e),
         e.selection = "timer", Selected(e)
  PROVE  Inv' /\ GaveUp(e, entry')
<1>0. e \in Entries
  BY DEF Fine, EntryTyped
<1>1. CASE e.status = "closed"
  <2>1. PICK f : f = [e EXCEPT !.selection = "none"]
    OBVIOUS
  <2> f = Prepares(e, e.known, e.stage, "none", e.waits)
    BY <1>0, <2>1 DEF Prepares, Entries
  <2>2. Fine(f, got, told, heard, written) /\ DirectTried(f) /\ f.error = e.error
    BY <1>1, ReadyFine
  <2> QED
    BY <1>1, <2>1, <2>2, EntryStep DEF Selected, GaveUp
<1>2. CASE e.status # "closed"
  <2>1. PICK f : f = [e EXCEPT !.selection = "ready"]
    OBVIOUS
  <2> f = Prepares(e, e.known, e.stage, "ready", e.waits)
    BY <1>0, <2>1 DEF Prepares, Entries
  <2>2. /\ Fine(f, got, told, heard, written) /\ DirectTried(f)
        /\ f.status = e.status /\ f.error = e.error /\ f.waits = e.waits
        /\ (DoneWith(e, told, e.ws) => DoneWith(f, told, f.ws))
    BY <1>2, ReadyFine
  <2>3. CASE "selection" \in e.waits
    <3>1. GoesOn(f)
      BY <1>2, <2>1, <2>3 DEF Selected
    <3>2. f.status = "connecting" => DoneWith(f, told, f.ws)
      BY <2>2, <2>3 DEF Fine, SocketsOK, Waiting
    <3>3. Inv' /\ GaveUp(f, entry')
      BY <2>2, <3>1, <3>2, GoesOnStep DEF DirectTried
    <3> QED
      BY <2>2, <3>3 DEF GaveUp
  <2>4. CASE "selection" \notin e.waits
    BY <1>2, <2>1, <2>2, <2>4, EntryStep DEF Selected, GaveUp
  <2> QED
    BY <2>3, <2>4
<1> QED
  BY <1>1, <1>2

\* 120 ms after the preparation began.
LEMMA SelectionTimerKeeps ==
  ASSUME Inv, SelectionTimer PROVE Inv' /\ GaveUp(entry, entry')
  BY Known, SelectedKeeps DEF SelectionTimer

\* Every probe has answered or timed out.
LEMMA PreflightDoneKeeps ==
  ASSUME Inv, PreflightDone PROVE Inv' /\ GaveUp(entry, entry')
<1>1. /\ Fine(entry, got, told, heard, written) /\ entry \in Entries /\ EntryTyped(entry)
      /\ StagesOK(entry) /\ LeaseOK(entry) /\ DirectTried(entry)
      /\ entry.stage = "probing" /\ UNCHANGED net
  BY Known DEF PreflightDone
<1>2. entry.status # "new"
  <2>1. NewEntry(entry.refused).stage = "none"
    BY DEF NewEntry
  <2> QED
    BY <1>1, <2>1 DEF StagesOK
<1>3. ASSUME NEW w \in SUBSET {"selection", "exhaustion"}, w \subseteq entry.waits,
             NEW f, f = Prepares(entry, entry.known, "ready", entry.selection, w)
      PROVE  /\ Fine(f, got, told, heard, written) /\ DirectTried(f)
             /\ f.selection = entry.selection /\ f.waits = w /\ f.status = entry.status
             /\ f.ws = entry.ws /\ f.error = entry.error
             /\ DoneWith(entry, told, entry.ws) => DoneWith(f, told, f.ws)
  <2>1. PreparedAs(entry, entry.known, "ready", entry.selection, w, f)
    <3>1. Preparable(entry, entry.known, "ready", entry.selection, w)
      BY <1>1 DEF Preparable, EntryTyped, Entries
    <3> QED
      BY <1>3, <3>1, PreparationStep, Zenon
  <2>2. StagesOK(f) /\ LeaseOK(f)
    BY <1>1, <1>2, <1>3, <2>1 DEF StagesOK, LeaseOK, PreparedAs
  <2>3. Waiting(f) => Waiting(entry)
    BY <1>3, <2>1 DEF Waiting, PreparedAs
  <2> QED
    BY <1>1, <2>1, <2>2, <2>3, BesideFine DEF Beside, DirectTried, DoneWith, PreparedAs
<1>4. PICK e : e = [entry EXCEPT !.stage = "ready"]
  OBVIOUS
<1>5. /\ entry.waits \in SUBSET {"selection", "exhaustion"}
      /\ e = Prepares(entry, entry.known, "ready", entry.selection, entry.waits)
  BY <1>1, <1>4 DEF Entries, Prepares
<1>6. /\ Fine(e, got, told, heard, written) /\ DirectTried(e)
      /\ e.selection = entry.selection /\ e.waits = entry.waits /\ e.status = entry.status
      /\ e.error = entry.error
  BY <1>3, <1>5
<1>7. CASE e.selection = "timer"
  BY <1>1, <1>4, <1>6, <1>7, SelectedKeeps DEF PreflightDone, GaveUp
<1>8. CASE e.selection # "timer" /\ "exhaustion" \in e.waits /\ e.status = "connecting"
  <2>1. PICK w \in SUBSET {"selection", "exhaustion"} : w = e.waits \ {"exhaustion"}
    BY <1>5, <1>6
  <2>2. PICK f : f = [e EXCEPT !.waits = w]
    OBVIOUS
  <2>3. f = Prepares(entry, entry.known, "ready", entry.selection, w)
    BY <1>1, <1>5, <2>2 DEF Entries, Prepares
  <2>4. /\ Fine(f, got, told, heard, written) /\ DirectTried(f)
        /\ f.waits = w /\ f.error = entry.error
        /\ DoneWith(entry, told, entry.ws) => DoneWith(f, told, f.ws)
    BY <1>3, <1>6, <2>1, <2>3
  <2>5. DoneWith(entry, told, entry.ws)
    BY <1>1, <1>6, <1>8 DEF Fine, SocketsOK, Waiting
  <2>6. GoesOn(f)
    BY <1>4, <1>8, <2>1, <2>2 DEF PreflightDone
  <2>7. Inv' /\ GaveUp(f, entry')
    BY <1>1, <2>4, <2>5, <2>6, GoesOnStep DEF DirectTried
  <2> QED
    BY <1>6, <2>1, <2>4, <2>7 DEF GaveUp
<1>9. CASE e.selection # "timer" /\ ~("exhaustion" \in e.waits /\ e.status = "connecting")
  BY <1>1, <1>4, <1>6, <1>9, EntryStep DEF PreflightDone, GaveUp
<1> QED
  BY <1>7, <1>8, <1>9
-----------------------------------------------------------------------------
(* The sockets' events.                                                     *)

\* ws.close() of a socket leaves the entry fine.
LEMMA ShutFine ==
  ASSUME NEW e, NEW g, NEW t, NEW h, NEW n, Fine(e, g, t, h, n), e.status # "new"
  PROVE  LET f == Shut(e, e.ws)
         IN  /\ Fine(f, g, t, h, n) /\ DoneWith(f, t, f.ws)
             /\ f.status = e.status /\ f.known = e.known /\ f.tried = e.tried
             /\ f.error = e.error /\ f.waits = e.waits
<1>1. EntryTyped(e) /\ StagesOK(e) /\ LeaseOK(e) /\ e \in Entries /\ e.ws \in Choices
  BY DEF Fine, EntryTyped, Entries
<1>2. PICK f : f = Shut(e, e.ws)
  OBVIOUS
<1>3. /\ f \in Entries
      /\ f.refused = e.refused /\ f.status = e.status /\ f.error = e.error
      /\ f.known = e.known /\ f.tried = e.tried /\ f.attempt = e.attempt
      /\ f.ws = e.ws /\ f.timeout = e.timeout /\ f.stage = e.stage
      /\ f.selection = e.selection /\ f.waits = e.waits /\ f.lease = e.lease
      /\ f.control = e.control /\ f.outbound = e.outbound /\ f.flush = e.flush
      /\ f.astray = e.astray
      /\ \A d \in Candidates \ {e.ws} : f.sock[d] = e.sock[d]
      /\ e.ws # None => \/ f.sock[e.ws] = e.sock[e.ws]
                        \/ e.sock[e.ws] # "none" /\ f.sock[e.ws] = "closing"
      /\ e.ws # None => f.sock[e.ws] \notin {"connecting", "open"}
  BY <1>1, <1>2, ShutFields
<1> HIDE <1>2
<1>4. EntryTyped(f) /\ StagesOK(f) /\ LeaseOK(f)
  BY <1>1, <1>3 DEF EntryTyped, StagesOK, LeaseOK
<1>5. DoneWith(f, t, f.ws)
  BY <1>3 DEF DoneWith
<1>6. SocketsOK(f, t)
  <2>1. \A c \in Candidates : c \notin e.tried => f.sock[c] = "none"
    BY <1>3, Named DEF Fine, SocketsOK
  <2>2. \A c \in Candidates : DoneWith(e, t, c) => DoneWith(f, t, c)
    BY <1>3 DEF DoneWith
  <2> QED
    BY <1>3, <1>5, <2>1, <2>2 DEF Fine, SocketsOK
<1>7. TunnelOK(f, g, t)
  <2>1. \A c \in Candidates : f.sock[c] \in {"none", "connecting"} => f.sock[c] = e.sock[c]
    BY <1>3, Named
  <2>2. e.control \in Choices
    BY <1>1 DEF Entries
  <2>3. e.control # None => e.control \in Candidates
    BY <2>2 DEF Choices
  <2> QED
    BY <1>3, <2>1, <2>3 DEF Fine, TunnelOK, Up
<1>8. HeardOK(f, t, h) /\ QueueOK(f, g, n)
  BY <1>3 DEF Fine, HeardOK, QueueOK, Up
<1> QED
  BY <1>2, <1>3, <1>4, <1>5, <1>6, <1>7, <1>8 DEF Fine

\* What an event of a socket may change beside its state.
Retimed(e, timeout, negotiating, stage) ==
    [e EXCEPT !.timeout = timeout, !.negotiating = negotiating, !.stage = stage]
RetimedAs(e, timeout, stage, f) ==
    /\ EntryTyped(f) /\ f \in Entries /\ f.timeout = timeout /\ f.stage = stage
    /\ f.known = e.known /\ f.selection = e.selection /\ f.waits = e.waits
    /\ f.status = e.status
    /\ f.refused = e.refused /\ f.error = e.error
    /\ f.tried = e.tried /\ f.attempt = e.attempt
    /\ f.ws = e.ws /\ f.sock = e.sock
    /\ f.lease = e.lease /\ f.control = e.control /\ f.flush = e.flush
    /\ f.outbound = e.outbound /\ f.astray = e.astray
Retimable(e, timeout, negotiating, stage) ==
    /\ EntryTyped(e) /\ timeout \in Choices /\ negotiating \in BOOLEAN
    /\ stage \in {"none", "timer", "discovering", "probing", "ready"}
    /\ e.status # "new" /\ (timeout # None => e.status = "connecting")
    /\ stage = e.stage \/ (e.stage = "timer" /\ stage = "none")

\* The attempt's timeout and the preparation's timer are fields of the entry.
LEMMA RetimedFields ==
  ASSUME NEW e, NEW timeout, NEW negotiating, NEW stage,
         Retimable(e, timeout, negotiating, stage)
  PROVE  RetimedAs(e, timeout, stage, Retimed(e, timeout, negotiating, stage))
<1>1. PICK f : f = Retimed(e, timeout, negotiating, stage)
  OBVIOUS
<1>2. e \in Entries
  BY DEF Retimable, EntryTyped
<1>3. f \in Entries
  BY <1>1, <1>2, Zenon DEF Entries, Retimed, Retimable
<1>4. /\ f.timeout = timeout /\ f.stage = stage
      /\ f.known = e.known /\ f.selection = e.selection /\ f.waits = e.waits
      /\ f.status = e.status
      /\ f.refused = e.refused /\ f.error = e.error
      /\ f.tried = e.tried /\ f.attempt = e.attempt
      /\ f.ws = e.ws /\ f.sock = e.sock
      /\ f.lease = e.lease /\ f.control = e.control /\ f.flush = e.flush
      /\ f.outbound = e.outbound /\ f.astray = e.astray
  BY <1>1, <1>2 DEF Entries, Retimed
<1>5. EntryTyped(f)
  BY <1>3, <1>4 DEF EntryTyped, Retimable
<1> QED
  BY <1>1, <1>3, <1>4, <1>5 DEF RetimedAs

\* A timeout runs only while the entry connects, and such an entry waits no sooner.
LEMMA RetimedFine ==
  ASSUME NEW e, NEW g, NEW t, NEW h, NEW n, Fine(e, g, t, h, n),
         NEW timeout, NEW negotiating, NEW stage, Retimable(e, timeout, negotiating, stage)
  PROVE  /\ Fine(Retimed(e, timeout, negotiating, stage), g, t, h, n)
         /\ RetimedAs(e, timeout, stage, Retimed(e, timeout, negotiating, stage))
<1> PICK f : f = Retimed(e, timeout, negotiating, stage)
  OBVIOUS
<1>1. RetimedAs(e, timeout, stage, f)
  BY RetimedFields, Zenon
<1>2. StagesOK(e) /\ LeaseOK(e)
  BY DEF Fine
<1>3. StagesOK(f) /\ LeaseOK(f)
  BY <1>1, <1>2 DEF RetimedAs, StagesOK, LeaseOK, Retimable
<1>4. Waiting(f) => Waiting(e)
  BY <1>1 DEF RetimedAs, Waiting
<1> QED
  BY <1>1, <1>3, <1>4, BesideFine DEF Beside, RetimedAs

\* The attempt has taken too long.
LEMMA CandidateTimeoutKeeps ==
  ASSUME Inv, CandidateTimeout PROVE Inv' /\ GaveUp(entry, entry')
<1>1. /\ Fine(entry, got, told, heard, written) /\ entry \in Entries /\ EntryTyped(entry)
      /\ StagesOK(entry) /\ LeaseOK(entry) /\ DirectTried(entry)
      /\ entry.timeout # None /\ UNCHANGED net
  BY Known DEF CandidateTimeout
<1>2. entry.status # "new"
  <2>1. NewEntry(entry.refused).timeout = None
    BY DEF NewEntry
  <2> QED
    BY <1>1, <2>1 DEF StagesOK
<1>3. PICK e : e = [entry EXCEPT !.timeout = None]
  OBVIOUS
<1>4. e = Retimed(entry, None, entry.negotiating, entry.stage)
  BY <1>1, <1>3 DEF Retimed, Entries
<1>5. Retimable(entry, None, entry.negotiating, entry.stage)
  <2>1. entry.negotiating \in BOOLEAN
    BY <1>1, ZenonT(60) DEF Entries
  <2> QED
    BY <1>1, <1>2, <2>1, Named DEF Retimable, Entries
<1>6. Fine(e, got, told, heard, written) /\ RetimedAs(entry, None, entry.stage, e)
  BY <1>1, <1>4, <1>5, RetimedFine
<1>7. CASE entry.timeout = entry.attempt /\ entry.status = "connecting"
  <2>1. GoesOn(Shut(e, entry.attempt)) /\ entry.attempt = e.ws
    BY <1>1, <1>3, <1>6, <1>7 DEF CandidateTimeout, Fine, SocketsOK, RetimedAs
  <2>2. PICK s : s = Shut(e, e.ws)
    OBVIOUS
  <2>3. /\ Fine(s, got, told, heard, written) /\ DoneWith(s, told, s.ws)
        /\ s.status = e.status /\ s.known = e.known /\ s.tried = e.tried
        /\ s.error = e.error /\ s.waits = e.waits
    BY <1>2, <1>6, <2>2, ShutFine DEF RetimedAs
  <2>4. DirectTried(s)
    BY <1>1, <1>6, <2>3 DEF RetimedAs, DirectTried
  <2>5. Inv' /\ GaveUp(s, entry')
    BY <1>1, <2>1, <2>2, <2>3, <2>4, GoesOnStep DEF DirectTried
  <2> QED
    BY <1>6, <2>3, <2>5 DEF GaveUp, RetimedAs
<1>8. CASE ~(entry.timeout = entry.attempt /\ entry.status = "connecting")
  <2>1. entry' = e
    BY <1>3, <1>8 DEF CandidateTimeout
  <2>2. DirectTried(e)
    BY <1>1, <1>6 DEF RetimedAs, DirectTried
  <2> QED
    BY <1>1, <1>6, <2>1, <2>2, EntryStep DEF GaveUp, RetimedAs
<1> QED
  BY <1>7, <1>8

\* The state of one socket is a field of the entry.
SocketAs(e, c, s, f) ==
    /\ f \in Entries /\ f.timeout = e.timeout /\ f.stage = e.stage
    /\ f.known = e.known /\ f.selection = e.selection /\ f.waits = e.waits
    /\ f.status = e.status /\ f.negotiating = e.negotiating
    /\ f.refused = e.refused /\ f.error = e.error
    /\ f.tried = e.tried /\ f.attempt = e.attempt /\ f.ws = e.ws
    /\ f.lease = e.lease /\ f.control = e.control /\ f.flush = e.flush
    /\ f.outbound = e.outbound /\ f.astray = e.astray
    /\ f.sock[c] = s /\ \A d \in Candidates \ {c} : f.sock[d] = e.sock[d]

\* A socket opens or closes.
LEMMA SocketFields ==
  ASSUME NEW e \in Entries, NEW c \in Candidates, NEW s \in {"open", "closed"}
  PROVE  SocketAs(e, c, s, [e EXCEPT !.sock[c] = s])
<1>1. PICK sock \in [Candidates -> {"none", "connecting", "open", "closing", "closed"}] :
        sock = [e.sock EXCEPT ![c] = s]
  BY DEF Entries
<1>2. PICK f : f = [e EXCEPT !.sock[c] = s]
  OBVIOUS
<1>3. f = [e EXCEPT !.sock = sock]
  BY <1>1, <1>2
<1>4. f \in Entries
  BY <1>3, ZenonT(60) DEF Entries
<1>5. /\ f.timeout = e.timeout /\ f.stage = e.stage
      /\ f.known = e.known /\ f.selection = e.selection /\ f.waits = e.waits
      /\ f.status = e.status
      /\ f.refused = e.refused /\ f.error = e.error
      /\ f.tried = e.tried /\ f.attempt = e.attempt /\ f.ws = e.ws
      /\ f.lease = e.lease /\ f.control = e.control /\ f.flush = e.flush
      /\ f.outbound = e.outbound /\ f.astray = e.astray /\ f.sock = sock
  BY <1>3 DEF Entries
<1>6. f.negotiating = e.negotiating
  BY <1>3 DEF Entries
<1>7. sock[c] = s /\ \A d \in Candidates \ {c} : sock[d] = e.sock[d]
  BY <1>1 DEF Entries
<1> QED
  BY <1>2, <1>4, <1>5, <1>6, <1>7 DEF SocketAs

\* A socket opens that was connecting, or closes that had been dialled.
LEMMA SocketFine ==
  ASSUME NEW e, NEW g, NEW t, NEW h, NEW n, Fine(e, g, t, h, n), NEW c \in Candidates,
         NEW s \in {"open", "closed"}, e.sock[c] # "none",
         s = "open" => e.sock[c] = "connecting",
         NEW f, SocketAs(e, c, s, f)
  PROVE  Fine(f, g, t, h, n) /\ e.status # "new"
<1>1. EntryTyped(e) /\ StagesOK(e) /\ LeaseOK(e) /\ e \in Entries
  BY DEF Fine, EntryTyped
<1>2. e.status # "new"
  <2>1. NewEntry(e.refused).sock[c] = "none"
    BY DEF NewEntry
  <2> QED
    BY <1>1, <2>1 DEF StagesOK
<1>3. EntryTyped(f)
  BY <1>1 DEF SocketAs, EntryTyped
<1>4. StagesOK(f)
  BY <1>1, <1>2 DEF SocketAs, StagesOK
<1>5. LeaseOK(f)
  BY <1>1 DEF SocketAs, LeaseOK
<1>6. SocketsOK(f, t)
  <2>1. \A d : (d \in Candidates \/ d = None) /\ DoneWith(e, t, d) => DoneWith(f, t, d)
    BY Named DEF SocketAs, DoneWith
  <2>2. e.ws \in Candidates \/ e.ws = None
    BY <1>1 DEF Entries, Choices
  <2>3. \A d \in Candidates : d \notin f.tried => f.sock[d] = "none"
    BY DEF Fine, SocketsOK, SocketAs
  <2>4. \A d \in Candidates : d # f.ws \/ f.status = "closed" => DoneWith(f, t, d)
    BY <2>1 DEF Fine, SocketsOK, SocketAs
  <2>5. Waiting(f) => DoneWith(f, t, f.ws)
    BY <2>1, <2>2 DEF Fine, SocketsOK, SocketAs, Waiting
  <2>6. f.attempt # None => f.attempt = f.ws
    BY DEF Fine, SocketsOK, SocketAs
  <2> QED
    BY <2>3, <2>4, <2>5, <2>6 DEF SocketsOK
<1>7. TunnelOK(f, g, t)
  <2>1. \A d \in Candidates :
          f.sock[d] \in {"none", "connecting"} => f.sock[d] = e.sock[d]
    BY DEF SocketAs
  <2>2. e.control # None => e.control \in Candidates
    BY <1>1 DEF Entries, Choices
  <2> QED
    BY <2>1, <2>2 DEF Fine, TunnelOK, SocketAs, Up
<1>8. HeardOK(f, t, h) /\ QueueOK(f, g, n)
  BY DEF Fine, HeardOK, QueueOK, SocketAs, Up
<1> QED
  BY <1>2, <1>3, <1>4, <1>5, <1>6, <1>7, <1>8 DEF Fine

\* onopen
LEMMA OnOpenKeeps == ASSUME Inv, NEW c \in Candidates, OnOpen(c) PROVE Inv'
<1>1. /\ Fine(entry, got, told, heard, written) /\ entry \in Entries
      /\ DirectTried(entry) /\ entry.sock[c] = "connecting" /\ UNCHANGED net
  BY Known DEF OnOpen
<1>2. PICK e : e = [entry EXCEPT !.sock[c] = "open"]
  OBVIOUS
<1>3. SocketAs(entry, c, "open", e)
  BY <1>1, <1>2, SocketFields
<1>4. Fine(e, got, told, heard, written) /\ entry.status # "new"
  BY <1>1, <1>3, SocketFine
<1>5. CASE ~IsCurrent(c)
  <2>1. entry' = e
    BY <1>2, <1>5 DEF OnOpen
  <2> QED
    BY <1>1, <1>3, <1>4, <2>1, EntryStep DEF SocketAs, DirectTried
<1>6. CASE IsCurrent(c)
  <2>1. got[c] = <<>> /\ told[c] = "nothing"
    BY <1>1 DEF Fine, TunnelOK
  <2>2. c = entry.attempt /\ c = entry.ws /\ c # None /\ entry.status = "connecting"
    BY <1>1, <1>4, <1>6, <2>1, Named
       DEF IsCurrent, Fine, SocketsOK, TunnelOK, Entries
  <2>3. e \in Entries /\ EntryTyped(e) /\ StagesOK(e) /\ LeaseOK(e)
    BY <1>4 DEF Fine, EntryTyped
  <2>4. PICK timeout \in Choices : timeout = IF c = Direct THEN e.timeout ELSE c
    BY <2>3, Named DEF Entries
  <2>5. c \in Choices
    BY Named
  <2>6. PICK f : f = [e EXCEPT !.control = c, !.timeout = timeout]
    OBVIOUS
  <2>7. f \in Entries
    BY <2>3, <2>5, <2>6, ZenonT(60) DEF Entries
  <2>8. /\ f.control = c /\ f.timeout = timeout /\ f.stage = e.stage
        /\ f.known = e.known /\ f.selection = e.selection /\ f.waits = e.waits
        /\ f.status = e.status
        /\ f.refused = e.refused /\ f.error = e.error
        /\ f.tried = e.tried /\ f.attempt = e.attempt /\ f.ws = e.ws
        /\ f.lease = e.lease /\ f.flush = e.flush
        /\ f.outbound = e.outbound /\ f.astray = e.astray /\ f.sock = e.sock
    BY <2>3, <2>6 DEF Entries
  <2>9. EntryTyped(f)
    BY <2>3, <2>7, <2>8 DEF EntryTyped
  <2>10. StagesOK(f) /\ LeaseOK(f)
    BY <1>3, <2>2, <2>3, <2>8 DEF StagesOK, LeaseOK, SocketAs
  <2>11. SocketsOK(f, told)
    BY <1>4, <2>8 DEF Fine, SocketsOK, DoneWith, Waiting
  <2>12. TunnelOK(f, got, told)
    BY <1>3, <1>4, <2>1, <2>8 DEF Fine, TunnelOK, Up, SocketAs
  <2>13. HeardOK(f, told, heard) /\ QueueOK(f, got, written)
    BY <1>4, <2>8 DEF Fine, HeardOK, QueueOK, Up
  <2>14. Fine(f, got, told, heard, written) /\ f.status # "closed"
    BY <1>3, <2>2, <2>8, <2>9, <2>10, <2>11, <2>12, <2>13 DEF Fine, SocketAs
  <2>15. entry' = Requested(f, "microtask")
    BY <1>2, <1>6, <2>4, <2>6 DEF OnOpen
  <2>16. Fine(entry', got, told, heard, written)
    BY <2>14, <2>15, RequestedFine
  <2>17. DirectTried(entry')
    BY <1>1, <1>3, <2>7, <2>8, <2>15 DEF Requested, DirectTried, Entries, SocketAs
  <2> QED
    BY <1>1, <2>16, <2>17, EntryStep
<1> QED
  BY <1>5, <1>6

\* A message changes the entry and what the endpoint has said.
LEMMA SaysStep ==
  ASSUME Inv, NEW c \in Candidates, NEW what, Says(c, what), heard' = heard,
         told' \in [Candidates -> Told],
         Fine(entry', got, told', heard, written), DirectTried(entry')
  PROVE  Inv'
<1>1. got' = got /\ heard' = heard /\ written' = written /\ buffered' = buffered
  BY DEF Says
<1>2. NetTyped' /\ GotOK(got', written')
  BY <1>1 DEF Inv, NetTyped
<1> QED
  BY <1>1, <1>2 DEF Inv

\* The first answers of an endpoint come while the entry connects.
LEMMA SaysKnown ==
  ASSUME Inv, NEW c \in Candidates, NEW what \in {"connecting", "tunnel", "wrong"},
         told[c] \in {"nothing", "connecting"}, got[c] # <<>>, Says(c, what)
  PROVE  /\ got \in [Candidates -> Seq(Nat)] /\ told \in [Candidates -> Told]
         /\ heard \in SUBSET Candidates
         /\ Fine(entry, got, told, heard, written) /\ DirectTried(entry)
         /\ entry \in Entries /\ EntryTyped(entry) /\ StagesOK(entry) /\ LeaseOK(entry)
         /\ entry.status # "new" /\ c \notin heard
         /\ told' = [told EXCEPT ![c] = what]
         /\ IsCurrent(c) =>
               c = entry.attempt /\ c = entry.ws /\ entry.status = "connecting"
<1>1. /\ got \in [Candidates -> Seq(Nat)] /\ told \in [Candidates -> Told]
      /\ heard \in SUBSET Candidates
      /\ Fine(entry, got, told, heard, written) /\ DirectTried(entry)
      /\ entry \in Entries /\ EntryTyped(entry) /\ StagesOK(entry) /\ LeaseOK(entry)
      /\ entry.sock[c] = "open" /\ told' = [told EXCEPT ![c] = what]
  BY Known DEF NetTyped, Says
<1>2. entry.status # "new"
  <2>1. NewEntry(entry.refused).sock[c] = "none"
    BY DEF NewEntry
  <2> QED
    BY <1>1, <2>1 DEF StagesOK
<1>3. c \notin heard
  BY <1>1 DEF Fine, HeardOK
<1>4. ASSUME IsCurrent(c)
      PROVE  c = entry.attempt /\ c = entry.ws /\ entry.status = "connecting"
  <2>1. c = entry.attempt /\ c # None /\ entry.status # "closed"
    BY <1>4, Named DEF IsCurrent
  <2>2. c = entry.ws
    BY <1>1, <2>1 DEF Fine, SocketsOK
  <2>3. entry.status # "connected"
    BY <1>1, <2>2 DEF Fine, TunnelOK
  <2> QED
    BY <1>1, <1>2, <2>1, <2>2, <2>3 DEF Entries
<1> QED
  BY <1>1, <1>2, <1>3, <1>4

\* What was fine stays so when an endpoint speaks, before the page reacts.
LEMMA SaysFine ==
  ASSUME Inv, NEW c \in Candidates, NEW what \in {"connecting", "tunnel", "wrong"},
         told[c] \in {"nothing", "connecting"}, got[c] # <<>>, Says(c, what),
         what = "tunnel" => ~IsCurrent(c)
  PROVE  /\ Fine(entry, got, told', heard, written) /\ told' \in [Candidates -> Told]
         /\ told'[c] = what
<1> PICK s : s = told'
  OBVIOUS
<1>0. /\ got \in [Candidates -> Seq(Nat)] /\ told \in [Candidates -> Told]
      /\ heard \subseteq Candidates /\ Fine(entry, got, told, heard, written)
      /\ what = "tunnel" => c # entry.attempt \/ Up(entry)
  BY Known DEF NetTyped, IsCurrent, Up
<1>1. /\ s \in [Candidates -> Told]
      /\ s[c] = what /\ \A d \in Candidates \ {c} : s[d] = told[d]
  BY <1>0 DEF Told, Says
<1>2. entry.ws \in Candidates \/ entry.ws = None
  BY <1>0 DEF Fine, EntryTyped, Entries, Choices
<1>3. \A d : (d \in Candidates \/ d = None) /\ DoneWith(entry, told, d) => DoneWith(entry, s, d)
  BY <1>0, <1>1 DEF DoneWith
<1>4. SocketsOK(entry, s)
  BY <1>0, <1>2, <1>3 DEF Fine, SocketsOK
<1>5. TunnelOK(entry, got, s)
  <2>1. entry.status = "connected" => entry.ws \in Candidates /\ entry.ws # c
    BY <1>0, <1>2 DEF Fine, TunnelOK, SocketsOK
  <2>2. \A d \in Candidates : Len(got[d]) > 1 => d # c
    BY <1>0 DEF Fine, TunnelOK
  <2>3. \A d \in Candidates : got[d] = <<>> => d # c
    BY <1>0
  <2>4. \A d \in Candidates : s[d] = "tunnel" /\ d = entry.attempt => Up(entry)
    BY <1>0, <1>1 DEF Fine, TunnelOK
  <2>5. \A d \in Candidates : Len(got[d]) > 1 => d = entry.ws /\ Up(entry) /\ s[d] = "tunnel"
    BY <1>0, <1>1, <2>2 DEF Fine, TunnelOK
  <2>6. \A d \in Candidates : got[d] = <<>> => s[d] = "nothing"
    BY <1>0, <1>1, <2>3 DEF Fine, TunnelOK
  <2> QED
    BY <1>0, <1>1, <2>1, <2>4, <2>5, <2>6 DEF Fine, TunnelOK
<1>6. HeardOK(entry, s, heard)
  BY <1>0, <1>1 DEF Fine, HeardOK
<1> QED
  BY <1>0, <1>1, <1>4, <1>5, <1>6 DEF Fine

\* onmessage "connecting"
LEMMA OnConnectingKeeps == ASSUME Inv, NEW c \in Candidates, OnConnecting(c) PROVE Inv'
<1>1. /\ told[c] \in {"nothing", "connecting"} /\ got[c] # <<>> /\ Says(c, "connecting")
      /\ heard' = heard
  BY DEF OnConnecting
<1>2. PICK s : s = told'
  OBVIOUS
<1>3. /\ Fine(entry, got, s, heard, written) /\ s \in [Candidates -> Told]
  BY <1>1, <1>2, SaysFine
<1>4. CASE ~IsCurrent(c)
  <2>1. entry' = entry
    BY <1>4 DEF OnConnecting
  <2> QED
    BY <1>1, <1>2, <1>3, <2>1, SaysKnown, SaysStep
<1>5. CASE IsCurrent(c)
  <2>1. /\ entry \in Entries /\ EntryTyped(entry) /\ entry.status = "connecting"
        /\ DirectTried(entry) /\ c \in Choices
    BY <1>1, <1>5, Named, SaysKnown
  <2>2. entry.negotiating \in BOOLEAN
    BY <2>1, ZenonT(60) DEF Entries
  <2>3. PICK e : e = [entry EXCEPT !.timeout = c]
    OBVIOUS
  <2>4. e = Retimed(entry, c, entry.negotiating, entry.stage)
    BY <2>1, <2>3 DEF Retimed, Entries
  <2>5. Retimable(entry, c, entry.negotiating, entry.stage)
    BY <2>1, <2>2 DEF Retimable, Entries
  <2>6. Fine(e, got, s, heard, written) /\ RetimedAs(entry, c, entry.stage, e)
    BY <1>3, <2>4, <2>5, RetimedFine
  <2>7. CASE c # Direct
    <3>1. entry' = e
      BY <1>5, <2>3, <2>7 DEF OnConnecting
    <3> QED
      BY <1>1, <1>2, <1>3, <2>1, <2>6, <3>1, SaysStep DEF RetimedAs, DirectTried
  <2>8. CASE c = Direct
    <3>1. PICK stage \in {"none", "timer", "discovering", "probing", "ready"} :
            stage = IF e.stage = "timer" THEN "none" ELSE e.stage
      BY <2>6 DEF RetimedAs, Entries
    <3>2. entry' = [e EXCEPT !.negotiating = TRUE, !.stage = stage]
      BY <1>5, <2>3, <2>8, <3>1 DEF OnConnecting
    <3>3. entry' = Retimed(e, c, TRUE, stage)
      BY <2>6, <3>2 DEF Retimed, RetimedAs, Entries
    <3>4. Retimable(e, c, TRUE, stage)
      BY <2>1, <2>6, <3>1 DEF Retimable, RetimedAs
    <3>5. Fine(entry', got, s, heard, written) /\ RetimedAs(e, c, stage, entry')
      BY <2>6, <3>3, <3>4, RetimedFine
    <3>6. DirectTried(entry')
      BY <2>1, <2>6, <3>5 DEF RetimedAs, DirectTried
    <3> QED
      BY <1>1, <1>2, <1>3, <3>5, <3>6, SaysStep
  <2> QED
    BY <2>7, <2>8
<1> QED
  BY <1>4, <1>5

\* onmessage "connected" with the target that was asked for
LEMMA OnConnectedKeeps == ASSUME Inv, NEW c \in Candidates, OnConnected(c) PROVE Inv'
<1>1. /\ told[c] \in {"nothing", "connecting"} /\ got[c] # <<>> /\ Says(c, "tunnel")
      /\ heard' = heard
  BY DEF OnConnected
<1>2. PICK s : s = told'
  OBVIOUS
<1>3. s = [told EXCEPT ![c] = "tunnel"]
  BY <1>1, <1>2, SaysKnown
<1>4. CASE ~IsCurrent(c)
  <2>1. entry' = entry
    BY <1>4 DEF OnConnected
  <2>2. /\ Fine(entry, got, s, heard, written) /\ s \in [Candidates -> Told]
    BY <1>1, <1>2, <1>4, SaysFine
  <2> QED
    BY <1>1, <1>2, <2>1, <2>2, SaysKnown, SaysStep
<1>5. CASE IsCurrent(c)
  <2>1. /\ entry \in Entries /\ EntryTyped(entry) /\ StagesOK(entry) /\ LeaseOK(entry)
        /\ entry.status = "connecting" /\ DirectTried(entry)
        /\ c = entry.attempt /\ c = entry.ws /\ c # None /\ c \notin heard
        /\ Fine(entry, got, told, heard, written) /\ got[c] \in Seq(Nat)
        /\ told \in [Candidates -> Told]
    BY <1>1, <1>5, Named, SaysKnown
  <2>2. /\ s \in [Candidates -> Told] /\ s[c] = "tunnel"
        /\ \A d \in Candidates \ {c} : s[d] = told[d]
    BY <1>3, <2>1 DEF Told
  <2>3. PICK stage \in {"none", "timer", "discovering", "probing", "ready"} :
          stage = IF entry.stage = "timer" THEN "none" ELSE entry.stage
    BY <2>1 DEF Entries
  <2>4. PICK lease \in Choices : lease = IF c = Direct THEN None ELSE c
    BY Named
  <2>5. PICK e : e = Retimed(entry, None, FALSE, stage)
    OBVIOUS
  <2>6. RetimedAs(entry, None, stage, e)
    <3>1. Retimable(entry, None, FALSE, stage)
      BY <2>1, <2>3, Named DEF Retimable
    <3> QED
      BY <2>5, <3>1, RetimedFields, Zenon
  <2>7. PICK f : f = [e EXCEPT !.status = "connected", !.lease = lease]
    OBVIOUS
  <2>8. f \in Entries
    <3>1. e \in Entries
      BY <2>6 DEF RetimedAs
    <3> QED
      BY <2>7, <3>1, ZenonT(60) DEF Entries
  <2>9. /\ f.control = e.control /\ f.timeout = e.timeout /\ f.stage = e.stage
        /\ f.known = e.known /\ f.selection = e.selection /\ f.waits = e.waits
        /\ f.status = "connected"
        /\ f.refused = e.refused /\ f.error = e.error
        /\ f.tried = e.tried /\ f.attempt = e.attempt /\ f.ws = e.ws
        /\ f.lease = lease /\ f.flush = e.flush
        /\ f.outbound = e.outbound /\ f.astray = e.astray /\ f.sock = e.sock
    BY <2>6, <2>7 DEF RetimedAs, Entries
  <2>10. EntryTyped(f) /\ StagesOK(f)
    BY <2>1, <2>3, <2>6, <2>8, <2>9 DEF EntryTyped, StagesOK, RetimedAs
  <2>11. LeaseOK(f)
    BY <2>1, <2>4, <2>6, <2>9, Named DEF LeaseOK, RetimedAs, Candidates
  <2>12. SocketsOK(f, s)
    <3>1. \A d \in Candidates : d # c /\ DoneWith(entry, told, d) => DoneWith(f, s, d)
      BY <2>2, <2>6, <2>9 DEF DoneWith, RetimedAs
    <3>2. /\ f.attempt = c /\ f.ws = c /\ f.status = "connected" /\ f.tried = entry.tried
          /\ f.sock = entry.sock
      BY <2>1, <2>6, <2>9 DEF RetimedAs
    <3>3. /\ \A d \in Candidates : d \notin entry.tried => entry.sock[d] = "none"
          /\ \A d \in Candidates : d # c => DoneWith(entry, told, d)
      BY <2>1 DEF Fine, SocketsOK
    <3>4. ~Waiting(f)
      BY <3>2 DEF Waiting
    <3> QED
      BY <3>1, <3>2, <3>3, <3>4 DEF SocketsOK
  <2>13. Len(got[c]) = 1
    <3>1. PICK k \in Nat : k = Len(got[c])
      BY <2>1
    <3>2. ~(k > 1) /\ k # 0
      BY <1>1, <2>1, <3>1 DEF Fine, TunnelOK
    <3>3. k = 1
      BY <3>2
    <3> QED
      BY <3>1, <3>3
  <2>14. TunnelOK(f, got, s)
    <3>1. \A d \in Candidates : Len(got[d]) <= 1
      BY <2>1, <2>13, <1>1, SaysKnown DEF Fine, TunnelOK, Up
    <3>2. \A d \in Candidates : got[d] = <<>> => s[d] = "nothing"
      BY <1>1, <2>1, <2>2 DEF Fine, TunnelOK
    <3>3. \A d \in Candidates : Len(got[d]) > 1 => d = c /\ Up(f) /\ s[d] = "tunnel"
      BY <2>1, <2>2, <2>13 DEF Fine, TunnelOK, Up
    <3>4. /\ f.attempt = c /\ f.ws = c /\ Up(f)
          /\ f.sock = entry.sock /\ f.control = entry.control
      BY <2>1, <2>6, <2>9 DEF RetimedAs, Up
    <3>5. /\ \A d \in Candidates : entry.sock[d] \in {"none", "connecting"} => got[d] = <<>>
          /\ entry.control # None =>
                entry.sock[entry.control] \notin {"none", "connecting"}
                /\ got[entry.control] = <<>>
      BY <2>1 DEF Fine, TunnelOK
    <3> QED
      BY <2>1, <2>2, <3>2, <3>3, <3>4, <3>5 DEF TunnelOK
  <2>15. HeardOK(f, s, heard)
    BY <2>1, <2>2, <2>6, <2>9, <1>1, SaysKnown DEF Fine, HeardOK, Up
  <2>16. QueueOK(f, got, written)
    BY <2>1, <2>6, <2>9, <2>13 DEF Fine, QueueOK, RetimedAs
  <2>17. Fine(f, got, s, heard, written)
    BY <2>10, <2>11, <2>12, <2>14, <2>15, <2>16 DEF Fine
  <2>18. entry' = Requested(f, "microtask")
    <3>1. f = [entry EXCEPT !.status = "connected", !.timeout = None, !.negotiating = FALSE,
                            !.stage = stage, !.lease = lease]
      BY <2>1, <2>5, <2>7 DEF Retimed, Entries
    <3>2. stage = IF entry.stage = "timer" THEN "none" ELSE entry.stage
      BY <2>3
    <3> QED
      BY <1>5, <2>3, <2>4, <3>1 DEF OnConnected
  <2>19. Fine(entry', got, s, heard, written)
    BY <2>9, <2>17, <2>18, RequestedFine
  <2>20. DirectTried(entry')
    BY <2>1, <2>6, <2>8, <2>9, <2>18 DEF Requested, DirectTried, Entries, RetimedAs
  <2> QED
    BY <1>1, <1>2, <2>2, <2>19, <2>20, SaysStep
<1> QED
  BY <1>4, <1>5

\* onmessage "connected" with another target
LEMMA OnMismatchKeeps ==
  ASSUME Inv, NEW c \in Candidates, OnMismatch(c) PROVE Inv' /\ GaveUp(entry, entry')
<1>1. /\ told[c] \in {"nothing", "connecting"} /\ got[c] # <<>> /\ Says(c, "wrong")
      /\ heard' = heard
  BY DEF OnMismatch
<1>2. PICK s : s = told'
  OBVIOUS
<1>3. /\ Fine(entry, got, s, heard, written) /\ s \in [Candidates -> Told]
      /\ s[c] = "wrong"
  BY <1>1, <1>2, SaysFine
<1>4. CASE ~IsCurrent(c)
  <2>1. entry' = entry
    BY <1>4 DEF OnMismatch
  <2> QED
    BY <1>1, <1>2, <1>3, <2>1, SaysKnown, SaysStep DEF GaveUp
<1>5. CASE IsCurrent(c)
  <2>1. /\ entry \in Entries /\ EntryTyped(entry) /\ entry.status = "connecting"
        /\ DirectTried(entry) /\ c = entry.ws
        /\ got \in [Candidates -> Seq(Nat)] /\ heard \in SUBSET Candidates
    BY <1>1, <1>5, SaysKnown
  <2>2. entry.negotiating \in BOOLEAN
    BY <2>1, ZenonT(60) DEF Entries
  <2>3. PICK e : e = [entry EXCEPT !.timeout = None]
    OBVIOUS
  <2>4. e = Retimed(entry, None, entry.negotiating, entry.stage)
    BY <2>1, <2>3 DEF Retimed, Entries
  <2>5. Retimable(entry, None, entry.negotiating, entry.stage)
    BY <2>1, <2>2, Named DEF Retimable, Entries
  <2>6. Fine(e, got, s, heard, written) /\ RetimedAs(entry, None, entry.stage, e)
    BY <1>3, <2>4, <2>5, RetimedFine
  <2>7. DoneWith(e, s, e.ws) /\ DirectTried(e) /\ e.status = "connecting"
    BY <1>3, <2>1, <2>6 DEF RetimedAs, DoneWith, DirectTried
  <2>8. entry' \in OpenRemoteCandidate(e)
    BY <1>5, <2>3 DEF OnMismatch, GoesOn
  <2>9. Fine(entry', got, s, heard, written) /\ DirectTried(entry') /\ GaveUp(e, entry')
    BY <1>3, <2>1, <2>6, <2>7, <2>8, GoesOnFine DEF DirectTried
  <2> QED
    BY <1>1, <1>2, <1>3, <2>6, <2>9, SaysStep DEF GaveUp, RetimedAs
<1> QED
  BY <1>4, <1>5

\* onmessage with bytes
LEMMA OnBytesKeeps == ASSUME Inv, NEW c \in Candidates, OnBytes(c) PROVE Inv'
<1>1. /\ Fine(entry, got, told, heard, written) /\ DirectTried(entry) /\ NetTyped
      /\ told[c] \in {"tunnel", "wrong"} /\ entry' = entry /\ GotOK(got, written)
      /\ UNCHANGED <<written, buffered, got>>
      /\ heard' = IF IsCurrent(c) THEN heard \cup {c} ELSE heard
  BY Known DEF OnBytes, Says, Inv
<1>2. told' = told
  BY <1>1 DEF OnBytes, Says, NetTyped
<1>3. HeardOK(entry, told, heard')
  BY <1>1, Named DEF Fine, HeardOK, IsCurrent, TunnelOK, SocketsOK
<1>4. NetTyped' /\ Fine(entry, got, told, heard', written)
  BY <1>1, <1>2, <1>3 DEF NetTyped, Fine
<1> QED
  BY <1>1, <1>2, <1>4 DEF Inv

\* onclose
LEMMA OnCloseKeeps ==
  ASSUME Inv, NEW c \in Candidates, NEW failed \in BOOLEAN, OnClose(c, failed)
  PROVE  Inv' /\ GaveUp(entry, entry')
<1>1. /\ Fine(entry, got, told, heard, written) /\ entry \in Entries
      /\ DirectTried(entry) /\ UNCHANGED net
      /\ entry.sock[c] \in {"connecting", "open", "closing"}
  BY Known DEF OnClose
<1>2. PICK e : e = [entry EXCEPT !.sock[c] = "closed"]
  OBVIOUS
<1>3. SocketAs(entry, c, "closed", e)
  BY <1>1, <1>2, SocketFields
<1>4. Fine(e, got, told, heard, written) /\ entry.status # "new"
  BY <1>1, <1>3, SocketFine
<1>5. DirectTried(e)
  BY <1>1, <1>3 DEF SocketAs, DirectTried
<1>6. CASE ~IsCurrent(c)
  <2>1. entry' = e
    BY <1>2, <1>6 DEF OnClose
  <2> QED
    BY <1>1, <1>3, <1>4, <1>5, <2>1, EntryStep DEF GaveUp, SocketAs
<1>7. CASE IsCurrent(c)
  <2>1. c = e.attempt /\ c = e.ws /\ e.status # "closed" /\ e.status # "new"
        /\ e.sock[c] = "closed" /\ e \in Entries /\ EntryTyped(e)
    BY <1>3, <1>4, <1>7, Named DEF IsCurrent, SocketAs, Fine, SocketsOK, EntryTyped
  <2>2. CASE e.status = "connecting"
    <3>1. PICK f : f = [e EXCEPT !.timeout = None, !.negotiating = FALSE]
      OBVIOUS
    <3>2. f = Retimed(e, None, FALSE, e.stage)
      BY <2>1, <3>1 DEF Retimed, Entries
    <3>3. Retimable(e, None, FALSE, e.stage)
      BY <2>1, <2>2, Named DEF Retimable, Entries
    <3>4. Fine(f, got, told, heard, written) /\ RetimedAs(e, None, e.stage, f)
      BY <1>4, <3>2, <3>3, RetimedFine
    <3>5. DoneWith(f, told, f.ws) /\ DirectTried(f)
      BY <1>5, <2>1, <3>4 DEF RetimedAs, DoneWith, DirectTried
    <3>6. GoesOn(f)
      BY <1>2, <1>7, <2>2, <3>1 DEF OnClose
    <3>7. Inv' /\ GaveUp(f, entry')
      BY <1>1, <3>4, <3>5, <3>6, GoesOnStep DEF DirectTried
    <3> QED
      BY <1>3, <3>4, <3>7 DEF GaveUp, RetimedAs, SocketAs
  <2>3. CASE e.status # "connecting" /\ failed
    <3>1. entry' = Fail(e, "transport")
      BY <1>2, <1>7, <2>3 DEF OnClose
    <3>2. Ends(e, entry') /\ entry'.error = "transport"
      BY <1>4, <3>1, FailEnds
    <3> QED
      BY <1>1, <1>4, <1>5, <3>2, EndsFine, EntryStep DEF Ends, DirectTried, GaveUp
  <2>4. CASE e.status # "connecting" /\ ~failed
    <3>1. PICK f : f = Lost(e)
      OBVIOUS
    <3>2. entry' = f
      BY <1>2, <1>7, <2>4, <3>1 DEF OnClose
    <3>3. /\ f \in Entries
          /\ f.status = "closed" /\ f.lease = None /\ f.timeout = None
          /\ f.control = None /\ f.outbound = <<>> /\ f.flush = "none"
          /\ f.refused = e.refused /\ f.error = e.error
          /\ f.known = e.known /\ f.tried = e.tried /\ f.attempt = e.attempt
          /\ f.ws = e.ws /\ f.sock = e.sock /\ f.stage = e.stage
          /\ f.selection = e.selection /\ f.waits = e.waits /\ f.astray = e.astray
      BY <2>1, <3>1, LostFields
    <3>4. e.status = "connected" /\ e.error = "none" /\ e.stage # "timer" /\ StagesOK(e)
      BY <1>4, <2>1, <2>4 DEF Entries, Fine, StagesOK, LeaseOK
    <3>5. StagesOK(f)
      BY <3>3, <3>4 DEF StagesOK
    <3>6. Ends(e, f)
      BY <2>1, <3>3, <3>4, <3>5 DEF Ends
    <3> QED
      BY <1>1, <1>4, <1>5, <3>2, <3>3, <3>4, <3>6, EndsFine, EntryStep
         DEF Ends, DirectTried, GaveUp
  <2> QED
    BY <2>2, <2>3, <2>4
<1> QED
  BY <1>6, <1>7

-----------------------------------------------------------------------------
(* A turn of flush.                                                         *)

\* What a turn leaves of the entry, before it asks for another.
Flushed(e, control, outbound) ==
    [e EXCEPT !.control = control, !.outbound = outbound, !.flush = "none"]
FlushedAs(e, control, outbound, f) ==
    /\ f \in Entries /\ f.control = control /\ f.outbound = outbound /\ f.flush = "none"
    /\ f.timeout = e.timeout /\ f.stage = e.stage
    /\ f.known = e.known /\ f.selection = e.selection /\ f.waits = e.waits
    /\ f.status = e.status
    /\ f.refused = e.refused /\ f.error = e.error
    /\ f.tried = e.tried /\ f.attempt = e.attempt
    /\ f.ws = e.ws /\ f.sock = e.sock /\ f.lease = e.lease /\ f.astray = e.astray

\* Controls, queue and turn are fields of the entry.
LEMMA FlushedFields ==
  ASSUME NEW e \in Entries, NEW control \in Choices, NEW outbound \in Seq(Nat)
  PROVE  FlushedAs(e, control, outbound, Flushed(e, control, outbound))
<1>1. PICK f : f = Flushed(e, control, outbound)
  OBVIOUS
<1>2. f \in Entries
  BY <1>1, Zenon DEF Entries, Flushed
<1>3. /\ f.control = control /\ f.outbound = outbound /\ f.flush = "none"
      /\ f.timeout = e.timeout /\ f.stage = e.stage
      /\ f.known = e.known /\ f.selection = e.selection /\ f.waits = e.waits
      /\ f.status = e.status
      /\ f.refused = e.refused /\ f.error = e.error
      /\ f.tried = e.tried /\ f.attempt = e.attempt
      /\ f.ws = e.ws /\ f.sock = e.sock /\ f.lease = e.lease /\ f.astray = e.astray
  BY <1>1 DEF Entries, Flushed
<1> QED
  BY <1>1, <1>2, <1>3 DEF FlushedAs

\* k frames of those from i to n are sent, and m is the next.
Splits(i, n, k, m) ==
    /\ i \in Nat /\ n \in Nat /\ k \in Nat /\ m \in Nat
    /\ i <= n + 1 /\ k <= n - i + 1 /\ m = i + k
SplitAs(i, n, k, m) ==
    /\ SubSeq(Numbers(i, n), k + 1, Len(Numbers(i, n))) = Numbers(m, n)
    /\ i > 0 => Numbers(0, i - 1) \o SubSeq(Numbers(i, n), 1, k) = Numbers(0, m - 1)

\* Frames split where a turn ends.
LEMMA NumbersSplit ==
  ASSUME NEW i, NEW n, NEW k, NEW m, Splits(i, n, k, m)
  PROVE  SplitAs(i, n, k, m)
<1>0. /\ i \in Nat /\ n \in Nat /\ k \in Nat /\ m \in Nat
      /\ i <= n + 1 /\ k <= n - i + 1 /\ m = i + k
  BY DEF Splits
<1> USE <1>0
<1>1. /\ Numbers(i, n) \in Seq(Nat) /\ Len(Numbers(i, n)) = n - i + 1
      /\ \A j \in 1 .. n - i + 1 : Numbers(i, n)[j] = i + j - 1
  BY NumbersType
<1>2. SubSeq(Numbers(i, n), k + 1, Len(Numbers(i, n))) = Numbers(m, n)
  <2>1. PICK s : s = SubSeq(Numbers(i, n), k + 1, Len(Numbers(i, n)))
    OBVIOUS
  <2>2. /\ s \in Seq(Nat) /\ Len(s) = n - (i + k) + 1
        /\ \A j \in 1 .. n - (i + k) + 1 : s[j] = i + k + j - 1
    BY <1>1, <2>1
  <2>3. PICK from \in Nat : from = i + k
    OBVIOUS
  <2>4. from <= n + 1
    BY <2>3
  <2>5. /\ Numbers(from, n) \in Seq(Nat) /\ Len(Numbers(from, n)) = n - from + 1
        /\ \A j \in 1 .. n - from + 1 : Numbers(from, n)[j] = from + j - 1
    BY <2>4, NumbersType
  <2>6. s = Numbers(from, n)
    BY <2>2, <2>3, <2>5, SeqEqual
  <2> QED
    BY <2>1, <2>3, <2>6
<1>3. ASSUME i > 0
      PROVE  Numbers(0, i - 1) \o SubSeq(Numbers(i, n), 1, k) = Numbers(0, m - 1)
  <2>1. PICK s : s = SubSeq(Numbers(i, n), 1, k)
    OBVIOUS
  <2>2. /\ s \in Seq(Nat) /\ Len(s) = k
        /\ \A j \in 1 .. k : s[j] = i + j - 1
    BY <1>1, <2>1
  <2>3. PICK v \in Nat : v = i - 1
    BY <1>3
  <2>4. PICK a : a = Numbers(0, v)
    OBVIOUS
  <2>5. /\ a \in Seq(Nat) /\ Len(a) = i /\ \A j \in 1 .. i : a[j] = j - 1
    <3>1. a = Numbers(0, v) /\ 0 \in Nat /\ 0 <= v + 1
      BY <2>3, <2>4
    <3>2. /\ a \in Seq(Nat) /\ Len(a) = v - 0 + 1
          /\ \A j \in 1 .. v - 0 + 1 : a[j] = 0 + j - 1
      BY <3>1 DEF Numbers
    <3> QED
      BY <2>3, <3>2
  <2>6. PICK l \in Nat : l = i + k - 1
    BY <1>3
  <2>7. PICK b : b = Numbers(0, l)
    OBVIOUS
  <2>8. /\ b \in Seq(Nat) /\ Len(b) = i + k /\ \A j \in 1 .. i + k : b[j] = j - 1
    <3>1. b = Numbers(0, l) /\ 0 \in Nat /\ 0 <= l + 1
      BY <2>6, <2>7
    <3>2. /\ b \in Seq(Nat) /\ Len(b) = l - 0 + 1
          /\ \A j \in 1 .. l - 0 + 1 : b[j] = 0 + j - 1
      BY <3>1 DEF Numbers
    <3> QED
      BY <2>6, <3>2
  <2>9. PICK x : x = a \o s
    OBVIOUS
  <2>10. x \in Seq(Nat) /\ Len(x) = i + k
    <3>1. a \in Seq(Nat) /\ s \in Seq(Nat) /\ Len(a) = i /\ Len(s) = k
      BY <2>2, <2>5
    <3> QED
      BY <2>9, <3>1, ConcatProperties
  <2>11. ASSUME NEW j \in 1 .. i + k PROVE x[j] = j - 1
    <3>1. CASE j <= i
      BY <2>2, <2>5, <2>9, <3>1
    <3>2. CASE j > i
      <4>1. PICK d \in 1 .. k : d = j - i
        BY <3>2
      <4>2. x[j] = s[d]
        BY <2>2, <2>5, <2>9, <3>2, <4>1, SMTT(30)
      <4> QED
        BY <2>2, <4>1, <4>2
    <3> QED
      BY <3>1, <3>2
  <2>12. x = b
    BY <2>8, <2>10, <2>11, SeqEqual
  <2>13. l = m - 1
    BY <2>6
  <2> QED
    BY <2>1, <2>3, <2>4, <2>7, <2>9, <2>12, <2>13
<1> QED
  BY <1>2, <1>3, Zenon DEF SplitAs

\* The queue loses its first frames; what the endpoints got is still to be compared.
LEMMA FlushedFine ==
  ASSUME NEW e, NEW g, NEW t, NEW h, NEW n, Fine(e, g, t, h, n),
         e.status \in {"connecting", "connected"},
         NEW control \in {None, e.control}, NEW outbound \in Seq(Nat),
         Len(outbound) <= MaxQueue,
         NEW f, f = Flushed(e, control, outbound)
  PROVE  /\ FlushedAs(e, control, outbound, f)
         /\ EntryTyped(f) /\ SocketsOK(f, t) /\ StagesOK(f) /\ LeaseOK(f) /\ HeardOK(f, t, h)
<1>1. EntryTyped(e) /\ StagesOK(e) /\ LeaseOK(e) /\ e \in Entries
  BY DEF Fine, EntryTyped
<1>2. control \in Choices
  BY <1>1, Named DEF Entries
<1>3. FlushedAs(e, control, outbound, f)
  BY <1>1, <1>2, FlushedFields, Zenon
<1>4. EntryTyped(f) /\ StagesOK(f) /\ LeaseOK(f)
  BY <1>1, <1>3 DEF EntryTyped, StagesOK, LeaseOK, FlushedAs
<1>5. SocketsOK(f, t)
  BY <1>3 DEF Fine, SocketsOK, FlushedAs, DoneWith, Waiting
<1>6. HeardOK(f, t, h)
  BY <1>3 DEF Fine, HeardOK, FlushedAs, Up
<1> QED
  BY <1>3, <1>4, <1>5, <1>6

\* A part of the queue is a queue.
LEMMA Rest ==
  ASSUME NEW s \in Seq(Nat), NEW n \in 0 .. Len(s)
  PROVE  /\ SubSeq(s, n + 1, Len(s)) \in Seq(Nat)
         /\ Len(SubSeq(s, n + 1, Len(s))) = Len(s) - n
         /\ n = 0 => SubSeq(s, n + 1, Len(s)) = s
         /\ SubSeq(s, 1, n) \in Seq(Nat) /\ Len(SubSeq(s, 1, n)) = n
<1>1. SubSeq(s, n + 1, Len(s)) \in Seq(Nat) /\ Len(SubSeq(s, n + 1, Len(s))) = Len(s) - n
  OBVIOUS
<1>2. SubSeq(s, 1, n) \in Seq(Nat) /\ Len(SubSeq(s, 1, n)) = n
  OBVIOUS
<1>3. SubSeq(s, 1, Len(s)) = s
  OBVIOUS
<1>4. n = 0 => n + 1 = 1
  OBVIOUS
<1>5. n = 0 => SubSeq(s, n + 1, Len(s)) = s
  BY <1>3, <1>4, Zenon
<1> QED
  BY <1>1, <1>2, <1>5, Zenon

\* A turn of flush sends the connect message or keeps it; frames go to an open tunnel.
Sends == entry.control # None /\ ControlIsCurrent(entry) /\ entry.sock[entry.control] = "open"
Kept == IF entry.control # None /\ ControlIsCurrent(entry) /\ ~Sends THEN entry.control ELSE None
Opened == Sendable(entry) /\ entry.ws # None /\ entry.sock[entry.ws] = "open"

\* A turn of flush: what it sends and what it leaves.
LEMMA FlushParts ==
  ASSUME Flush
  PROVE  /\ entry.flush # "none" /\ UNCHANGED <<written, told, heard>>
         /\ \E n \in (IF Opened /\ ~buffered /\ entry.outbound # <<>>
                      THEN 1 .. Len(entry.outbound) ELSE {0}), full \in BOOLEAN :
               /\ buffered' = full
               /\ got' = IF Sends THEN [got EXCEPT ![entry.control] = Append(@, 0)]
                         ELSE IF n = 0 THEN got
                         ELSE [got EXCEPT ![entry.ws] = @ \o SubSeq(entry.outbound, 1, n)]
               /\ LET f == Flushed(entry, Kept, SubSeq(entry.outbound, n + 1, Len(entry.outbound)))
                  IN  entry' \in {Requested(f, "timer"), Requested(f, "task")}
  BY Zenon DEF Flush, Sends, Kept, Opened, Flushed

\* flush
LEMMA FlushKeeps == ASSUME Inv, Flush PROVE Inv'
<1>1. /\ Fine(entry, got, told, heard, written) /\ entry \in Entries /\ EntryTyped(entry)
      /\ StagesOK(entry) /\ LeaseOK(entry) /\ DirectTried(entry) /\ NetTyped
      /\ GotOK(got, written) /\ entry.flush # "none"
      /\ written' = written /\ told' = told /\ heard' = heard
  BY Known, FlushParts DEF Inv
<1>2. entry.status \in {"connecting", "connected"}
  <2>1. NewEntry(entry.refused).flush = "none"
    BY DEF NewEntry
  <2> QED
    BY <1>1, <2>1 DEF StagesOK, LeaseOK, Entries
<1>3. PICK n \in (IF Opened /\ ~buffered /\ entry.outbound # <<>>
                  THEN 1 .. Len(entry.outbound) ELSE {0}), full \in BOOLEAN :
         /\ buffered' = full
         /\ got' = IF Sends THEN [got EXCEPT ![entry.control] = Append(@, 0)]
                   ELSE IF n = 0 THEN got
                   ELSE [got EXCEPT ![entry.ws] = @ \o SubSeq(entry.outbound, 1, n)]
         /\ LET f == Flushed(entry, Kept, SubSeq(entry.outbound, n + 1, Len(entry.outbound)))
            IN  entry' \in {Requested(f, "timer"), Requested(f, "task")}
  BY FlushParts
<1>4. /\ entry.outbound \in Seq(Nat) /\ Len(entry.outbound) \in Nat
      /\ Len(entry.outbound) <= MaxQueue /\ MaxQueue \in Nat
      /\ entry.control \in Choices /\ entry.ws \in Choices
      /\ entry.sock \in [Candidates -> {"none", "connecting", "open", "closing", "closed"}]
  BY <1>1, CandidateAssumption DEF EntryTyped, Entries
<1>5. /\ got \in [Candidates -> Seq(Nat)] /\ written \in Nat
      /\ written \in 0 .. MaxWrites /\ MaxWrites \in Nat
  BY <1>1, CandidateAssumption DEF NetTyped
<1>6. n \in 0 .. Len(entry.outbound)
  BY <1>3, <1>4
<1>7. PICK q : q = SubSeq(entry.outbound, n + 1, Len(entry.outbound))
  OBVIOUS
<1>8. /\ q \in Seq(Nat) /\ Len(q) = Len(entry.outbound) - n
      /\ n = 0 => q = entry.outbound
  BY <1>4, <1>6, <1>7, Rest
<1>9. PICK f : f = Flushed(entry, Kept, q)
  OBVIOUS
<1>10. Kept \in {None, entry.control}
  BY DEF Kept
<1>11. /\ FlushedAs(entry, Kept, q, f)
       /\ EntryTyped(f) /\ SocketsOK(f, told) /\ StagesOK(f) /\ LeaseOK(f)
       /\ HeardOK(f, told, heard)
  <2>1. Len(q) <= MaxQueue
    BY <1>4, <1>6, <1>8
  <2> QED
    BY <1>1, <1>2, <1>8, <1>9, <1>10, <2>1, FlushedFine, Zenon
<1>12. /\ \A c \in Candidates :
             /\ entry.sock[c] \in {"none", "connecting"} => got[c] = <<>>
             /\ got[c] = <<>> => told[c] = "nothing"
             /\ told[c] = "tunnel" /\ c = entry.attempt => Up(entry)
             /\ Len(got[c]) > 1 => c = entry.ws /\ Up(entry) /\ told[c] = "tunnel"
       /\ entry.control # None =>
             entry.sock[entry.control] \notin {"none", "connecting"}
             /\ got[entry.control] = <<>>
       /\ entry.status = "connected" => entry.attempt # None /\ told[entry.ws] = "tunnel"
  BY <1>1 DEF Fine, TunnelOK
<1>13. entry.control # None => entry.control \in Candidates
  BY <1>4 DEF Choices
<1>14. entry.ws # None => entry.ws \in Candidates
  BY <1>4 DEF Choices
<1>15. /\ f.control = Kept /\ f.outbound = q /\ f.status = entry.status
       /\ f.attempt = entry.attempt /\ f.ws = entry.ws /\ f.sock = entry.sock
       /\ f.known = entry.known /\ f.tried = entry.tried
       /\ Up(f) <=> Up(entry)
  BY <1>11 DEF FlushedAs, Up
<1>16. QueueOK(entry, got, written)
  BY <1>1 DEF Fine
<1>17. ASSUME got' \in [Candidates -> Seq(Nat)], GotOK(got', written),
              TunnelOK(f, got', told), QueueOK(f, got', written)
       PROVE  Inv'
  <2>1. Fine(f, got', told, heard, written)
    BY <1>11, <1>17 DEF Fine
  <2>2. Fine(entry', got', told, heard, written)
    <3>1. f.status # "closed"
      BY <1>2, <1>15
    <3>2. entry' \in {Requested(f, "timer"), Requested(f, "task")}
      BY <1>3, <1>7, <1>9
    <3> QED
      BY <2>1, <3>1, <3>2, RequestedFine
  <2>3. DirectTried(entry')
    <3>1. f \in Entries
      BY <1>11 DEF EntryTyped
    <3>2. entry'.known = f.known /\ entry'.tried = f.tried
      BY <1>3, <1>7, <1>9, <3>1 DEF Requested, Entries
    <3> QED
      BY <1>1, <1>15, <3>2 DEF DirectTried
  <2>4. NetTyped'
    BY <1>1, <1>3, <1>17 DEF NetTyped
  <2> QED
    BY <1>1, <1>17, <2>2, <2>3, <2>4 DEF Inv
<1>18. CASE Sends
  <2>1. /\ entry.control = entry.ws /\ entry.control = entry.attempt
        /\ entry.control \in Candidates /\ entry.ws \in Candidates
        /\ entry.sock[entry.ws] = "open" /\ got[entry.ws] = <<>> /\ Kept = None
    BY <1>12, <1>13, <1>18 DEF Sends, Kept, ControlIsCurrent
  <2>2. entry.status = "connecting" /\ ~Opened
    BY <1>2, <1>12, <2>1 DEF Opened, Sendable
  <2>3. n = 0
    BY <1>3, <2>2
  <2>4. PICK x : x = Append(got[entry.ws], 0)
    OBVIOUS
  <2>5. x \in Seq(Nat) /\ Len(x) = 1 /\ x # <<>> /\ x = Numbers(0, Len(x) - 1)
    BY <2>1, <2>4 DEF Numbers
  <2>6. /\ got' \in [Candidates -> Seq(Nat)] /\ got'[entry.ws] = x
        /\ \A c \in Candidates \ {entry.ws} : got'[c] = got[c]
    <3>1. got' = [got EXCEPT ![entry.ws] = x]
      <4>1. got' = [got EXCEPT ![entry.control] = Append(got[entry.control], 0)]
        BY <1>3, <1>18, Zenon
      <4> QED
        BY <2>1, <2>4, <4>1, Zenon
    <3> QED
      BY <1>5, <2>1, <2>5, <3>1
  <2>7. GotOK(got', written)
    <3>1. x = Numbers(0, Len(x) - 1) /\ Len(x) <= written + 1
      BY <1>5, <2>5
    <3>2. \A c \in Candidates \ {entry.ws} :
            got[c] = Numbers(0, Len(got[c]) - 1) /\ Len(got[c]) <= written + 1
      BY <1>1 DEF GotOK
    <3> QED
      BY <2>6, <3>1, <3>2, Zenon DEF GotOK
  <2>8. TunnelOK(f, got', told)
    <3>1. ASSUME NEW c \in Candidates
          PROVE  /\ entry.sock[c] \in {"none", "connecting"} => got'[c] = <<>>
                 /\ got'[c] = <<>> => told[c] = "nothing"
                 /\ told[c] = "tunnel" /\ c = entry.attempt => Up(entry)
                 /\ Len(got'[c]) > 1 => c = entry.ws /\ Up(entry) /\ told[c] = "tunnel"
      <4>1. CASE c = entry.ws
        <5>1. told[c] = "nothing" /\ entry.sock[c] = "open" /\ got'[c] = x
          BY <1>12, <2>1, <2>6, <4>1
        <5>2. ~(Len(x) > 1)
          BY <2>5
        <5> QED
          BY <2>5, <5>1, <5>2
      <4>2. CASE c # entry.ws
        BY <1>12, <2>6, <4>2
      <4> QED
        BY <4>1, <4>2
    <3> QED
      BY <1>15, <2>1, <2>2, <3>1 DEF TunnelOK
  <2>9. QueueOK(f, got', written)
    BY <1>8, <1>15, <1>16, <2>2, <2>3 DEF QueueOK
  <2> QED
    BY <1>17, <2>6, <2>7, <2>8, <2>9
<1>19. CASE ~Sends /\ n = 0
  <2>1. got' = got
    BY <1>3, <1>19
  <2>2. TunnelOK(f, got, told)
    BY <1>10, <1>12, <1>15 DEF TunnelOK
  <2>3. QueueOK(f, got, written)
    BY <1>8, <1>15, <1>16, <1>19 DEF QueueOK
  <2> QED
    BY <1>1, <1>5, <1>17, <2>1, <2>2, <2>3
<1>20. CASE ~Sends /\ n # 0
  <2>1. Opened /\ n > 0
    BY <1>3, <1>6, <1>20
  <2>2. /\ entry.ws \in Candidates /\ entry.sock[entry.ws] = "open"
        /\ entry.status = "connected" /\ told[entry.ws] = "tunnel"
        /\ got[entry.ws] \in Seq(Nat) /\ got[entry.ws] # <<>>
    BY <1>5, <1>12, <1>14, <2>1 DEF Opened, Sendable
  <2>3. PICK l \in Nat : l = Len(got[entry.ws])
    BY <2>2
  <2>4. /\ l > 0 /\ l <= written + 1 /\ got[entry.ws] = Numbers(0, l - 1)
        /\ entry.outbound = Numbers(l, written)
    BY <1>1, <1>16, <2>2, <2>3 DEF GotOK, QueueOK
  <2>5. n \in Nat /\ n <= written - l + 1
    <3>1. Len(entry.outbound) = written - l + 1
      BY <1>5, <2>4, NumbersType
    <3> QED
      BY <1>6, <3>1
  <2>6. PICK m \in Nat : m = l + n
    BY <2>5
  <2>7. PICK x : x = Numbers(0, m - 1)
    OBVIOUS
  <2>8. /\ q = Numbers(m, written)
        /\ got[entry.ws] \o SubSeq(entry.outbound, 1, n) = x
    <3>1. /\ SubSeq(Numbers(l, written), n + 1, Len(Numbers(l, written))) = Numbers(m, written)
          /\ Numbers(0, l - 1) \o SubSeq(Numbers(l, written), 1, n) = Numbers(0, m - 1)
      <4>1. Splits(l, written, n, m)
        BY <1>5, <2>4, <2>5, <2>6 DEF Splits
      <4>2. SplitAs(l, written, n, m)
        BY <4>1, NumbersSplit, Zenon
      <4> QED
        BY <2>4, <4>2, Zenon DEF SplitAs
    <3> QED
      BY <1>7, <2>4, <2>7, <3>1, Zenon
  <2>9. x \in Seq(Nat) /\ Len(x) = m /\ x # <<>> /\ m > 1 /\ m <= written + 1
        /\ x = Numbers(0, Len(x) - 1)
    <3>1. m > 1 /\ m <= written + 1
      BY <1>5, <2>1, <2>4, <2>5, <2>6
    <3>2. x \in Seq(Nat) /\ Len(x) = m
      BY <2>6, <2>7, <3>1 DEF Numbers
    <3>3. x # <<>>
      BY <3>1, <3>2
    <3> QED
      BY <2>7, <3>1, <3>2, <3>3
  <2>10. got' = [got EXCEPT ![entry.ws] = x]
    <3>1. got' = [got EXCEPT ![entry.ws] = got[entry.ws] \o SubSeq(entry.outbound, 1, n)]
      BY <1>3, <1>20, Zenon
    <3> QED
      BY <2>8, <3>1, Zenon
  <2>11. /\ got' \in [Candidates -> Seq(Nat)] /\ got'[entry.ws] = x
         /\ \A c \in Candidates \ {entry.ws} : got'[c] = got[c]
    BY <1>5, <2>2, <2>9, <2>10
  <2>12. GotOK(got', written)
    BY <1>1, <2>2, <2>9, <2>11 DEF GotOK
  <2>13. Kept = None
    BY <1>12, <2>2 DEF Kept, ControlIsCurrent
  <2>14. TunnelOK(f, got', told)
    BY <1>12, <1>15, <2>2, <2>9, <2>11, <2>13 DEF TunnelOK, Up
  <2>15. QueueOK(f, got', written)
    BY <1>15, <2>2, <2>8, <2>9, <2>11 DEF QueueOK
  <2> QED
    BY <1>17, <2>11, <2>12, <2>14, <2>15
<1> QED
  BY <1>18, <1>19, <1>20

\* The browser sends what the socket holds.
LEMMA SocketDrainsKeeps == ASSUME Inv, SocketDrains PROVE Inv'
<1>1. /\ entry' = entry /\ written' = written /\ got' = got /\ told' = told
      /\ heard' = heard /\ buffered' \in BOOLEAN
  BY DEF SocketDrains
<1>2. NetTyped'
  BY <1>1 DEF Inv, NetTyped
<1> QED
  BY <1>1, <1>2 DEF Inv

-----------------------------------------------------------------------------
(* Every reachable state satisfies Inv.                                     *)

\* The page and the endpoints begin as new.
LEMMA InitHolds == Init => Inv
<1> SUFFICES ASSUME Init PROVE Inv
  OBVIOUS
<1>1. PICK refused \in SUBSET Refusable : entry = NewEntry(refused)
  BY DEF Init
<1>2. /\ entry.refused = refused /\ entry.status = "new" /\ entry.error = "none"
      /\ entry.known = {} /\ entry.tried = {} /\ entry.attempt = None /\ entry.ws = None
      /\ entry.sock = [c \in Candidates |-> "none"]
      /\ entry.timeout = None /\ entry.stage = "none" /\ entry.selection = "none"
      /\ entry.waits = {} /\ entry.lease = None /\ entry.control = None
      /\ entry.outbound = <<>> /\ entry.flush = "none" /\ entry.astray = {}
  BY <1>1 DEF NewEntry
<1>3. entry \in Entries
  <2> <<>> \in Seq(Nat)
    OBVIOUS
  <2>1. PICK nil \in Seq(Nat) : nil = <<>>
    BY Zenon
  <2>2. PICK sock \in [Candidates -> {"none", "connecting", "open", "closing", "closed"}] :
          sock = [c \in Candidates |-> "none"]
    OBVIOUS
  <2>3. None \in Choices
    BY Named
  <2>4. entry = [refused |-> refused, status |-> "new", error |-> "none", known |-> {},
                 tried |-> {}, attempt |-> None, ws |-> None, sock |-> sock,
                 timeout |-> None, negotiating |-> FALSE, stage |-> "none",
                 selection |-> "none", waits |-> {}, lease |-> None, control |-> None,
                 outbound |-> nil, flush |-> "none", astray |-> {}]
    BY <1>1, <2>1, <2>2 DEF NewEntry
  <2> QED
    BY <2>3, <2>4, ZenonT(60) DEF Entries
<1>4. EntryTyped(entry)
  BY <1>2, <1>3, CandidateAssumption DEF EntryTyped
<1>5. StagesOK(entry) /\ LeaseOK(entry)
  BY <1>1, <1>2 DEF StagesOK, LeaseOK
<1>6. /\ got = [c \in Candidates |-> <<>>] /\ told = [c \in Candidates |-> "nothing"]
      /\ heard = {} /\ written = 0 /\ buffered = FALSE
  BY DEF Init
<1>7. SocketsOK(entry, told)
  BY <1>2 DEF SocketsOK, DoneWith, Waiting
<1>8. TunnelOK(entry, got, told) /\ HeardOK(entry, told, heard)
  BY <1>2, <1>6 DEF TunnelOK, HeardOK, Up
<1>9. <<>> = Numbers(1, 0) /\ <<>> = Numbers(0, 0 - 1)
  BY DEF Numbers
<1>10. QueueOK(entry, got, written)
  BY <1>2, <1>6, <1>9 DEF QueueOK
<1>11. GotOK(got, written)
  BY <1>6, <1>9 DEF GotOK
<1>12. NetTyped
  <2>1. <<>> \in Seq(Nat)
    OBVIOUS
  <2>2. got \in [Candidates -> Seq(Nat)]
    BY <1>6, <2>1, Zenon
  <2>3. told \in [Candidates -> Told] /\ heard \subseteq Candidates
    BY <1>6 DEF Told
  <2>4. written \in 0 .. MaxWrites
    BY <1>6, CandidateAssumption
  <2>5. buffered \in BOOLEAN
    BY <1>6, Zenon
  <2> QED
    BY <2>2, <2>3, <2>4, <2>5, Zenon DEF NetTyped
<1>13. DirectTried(entry)
  BY <1>2 DEF DirectTried
<1> QED
  BY <1>4, <1>5, <1>7, <1>8, <1>10, <1>11, <1>12, <1>13 DEF Inv, Fine

\* Every callback keeps Inv.
LEMMA NextKeeps == Inv /\ [Next]_vars => Inv'
<1> SUFFICES ASSUME Inv, [Next]_vars PROVE Inv'
  OBVIOUS
<1>1. CASE UNCHANGED vars
  <2>1. /\ entry' = entry /\ written' = written /\ buffered' = buffered /\ got' = got
        /\ told' = told /\ heard' = heard
    BY <1>1 DEF vars
  <2>2. NetTyped'
    BY <2>1 DEF Inv, NetTyped
  <2> QED
    BY <2>1, <2>2 DEF Inv
<1>2. CASE Open
  BY <1>2, OpenKeeps
<1>3. CASE Write
  BY <1>3, WriteKeeps
<1>4. CASE JavaClose
  BY <1>4, JavaCloseKeeps
<1>5. CASE PreparationTimer
  BY <1>5, PreparationTimerKeeps
<1>6. CASE Discovered
  BY <1>6, DiscoveredKeeps
<1>7. CASE SelectionTimer
  BY <1>7, SelectionTimerKeeps
<1>8. CASE PreflightDone
  BY <1>8, PreflightDoneKeeps
<1>9. CASE CandidateTimeout
  BY <1>9, CandidateTimeoutKeeps
<1>10. CASE Flush
  BY <1>10, FlushKeeps
<1>11. CASE SocketDrains
  BY <1>11, SocketDrainsKeeps
<1>12. ASSUME NEW c \in Candidates, OnOpen(c) PROVE Inv'
  BY <1>12, OnOpenKeeps
<1>13. ASSUME NEW c \in Candidates, OnConnecting(c) PROVE Inv'
  BY <1>13, OnConnectingKeeps
<1>14. ASSUME NEW c \in Candidates, OnConnected(c) PROVE Inv'
  BY <1>14, OnConnectedKeeps
<1>15. ASSUME NEW c \in Candidates, OnMismatch(c) PROVE Inv'
  BY <1>15, OnMismatchKeeps
<1>16. ASSUME NEW c \in Candidates, OnBytes(c) PROVE Inv'
  BY <1>16, OnBytesKeeps
<1>17. ASSUME NEW c \in Candidates, NEW failed \in BOOLEAN, OnClose(c, failed) PROVE Inv'
  BY <1>17, OnCloseKeeps
<1> QED
  BY <1>1, <1>2, <1>3, <1>4, <1>5, <1>6, <1>7, <1>8, <1>9, <1>10, <1>11, <1>12, <1>13,
     <1>14, <1>15, <1>16, <1>17 DEF Next

\* A channel's entry, its sockets, its queue and what the endpoints got and said
\* agree in every reachable state (Inv), whatever comes first: messages, close
\* events, timers, registries or Java's calls.
THEOREM Invariance == Spec => []Inv
<1>1. Init => Inv
  BY InitHolds
<1>2. Inv /\ [Next]_vars => Inv'
  BY NextKeeps
<1> QED
  BY <1>1, <1>2, PTL DEF Spec

-----------------------------------------------------------------------------
(* The properties.                                                          *)

\* Whichever callback ended an attempt or a channel, its socket is closed or
\* closing, no timer or lease outlives it, and a lease is held exactly while a
\* tunnel through a relay is up (NothingLeft).
THEOREM NothingLeftBehind == Spec => []NothingLeft
<1>1. Inv => NothingLeft
  <2> SUFFICES ASSUME Inv PROVE NothingLeft
    OBVIOUS
  <2>1. /\ Fine(entry, got, told, heard, written) /\ entry \in Entries /\ EntryTyped(entry)
        /\ LeaseOK(entry) /\ NetTyped
    BY Known
  <2>2. TypeOK
    <3>1. entry.negotiating \in BOOLEAN
      BY <2>1, ZenonT(60) DEF Entries
    <3>2. /\ entry.status \in {"new", "connecting", "connected", "closed"}
          /\ entry.error \in {"none", "exhausted", "transport"}
          /\ entry.known \subseteq Candidates
          /\ entry.attempt \in Choices /\ entry.ws \in Choices /\ entry.timeout \in Choices
          /\ entry.lease \in Choices /\ entry.control \in Choices
          /\ entry.sock \in
                [Candidates -> {"none", "connecting", "open", "closing", "closed"}]
          /\ entry.stage \in {"none", "timer", "discovering", "probing", "ready"}
          /\ entry.selection \in {"none", "timer", "ready"}
          /\ entry.waits \subseteq {"selection", "exhaustion"}
          /\ entry.flush \in {"none", "microtask", "task", "timer"}
          /\ entry.refused \subseteq Refusable
      BY <2>1 DEF Entries
    <3>3. {entry.attempt, entry.ws, entry.timeout, entry.lease, entry.control}
             \subseteq Candidates \cup {None}
      BY <3>2 DEF Choices
    <3>4. /\ entry.tried \subseteq entry.known /\ entry.astray \subseteq entry.tried
          /\ Len(entry.outbound) <= MaxQueue
      BY <2>1 DEF EntryTyped
    <3>5. /\ written \in 0 .. MaxWrites /\ buffered \in BOOLEAN
          /\ told \in [Candidates -> {"nothing", "connecting", "tunnel", "wrong"}]
          /\ heard \subseteq Candidates
      BY <2>1, Zenon DEF NetTyped, Told
    <3> QED
      BY <3>1, <3>2, <3>3, <3>4, <3>5, Zenon DEF TypeOK
  <2>3. SocketsAreClosed
    BY <2>1, Named DEF SocketsAreClosed, Fine, SocketsOK, DoneWith, Abandoned
  <2>4. LeaseFollowsTunnel
    BY <2>1 DEF LeaseOK, LeaseFollowsTunnel
  <2> QED
    BY <2>2, <2>3, <2>4 DEF NothingLeft
<1> QED
  BY <1>1, Invariance, PTL

\* However often the channel failed over, Java's frames reach one endpoint, after
\* its connect message, in order and without a gap, and what the decoder hears
\* comes from no second tunnel (OneTunnel).
THEOREM TunnelIsOne == Spec => []OneTunnel
<1>1. Inv => OneTunnel
  <2> SUFFICES ASSUME Inv PROVE OneTunnel
    OBVIOUS
  <2>1. /\ Fine(entry, got, told, heard, written) /\ NetTyped /\ GotOK(got, written)
        /\ entry \in Entries
    BY Known DEF Inv
  <2>2. \A c \in Tunnels : c = entry.ws /\ Up(entry) /\ told[c] = "tunnel" /\ c \in Candidates
    BY <2>1 DEF Fine, TunnelOK, Tunnels
  <2>3. Cardinality(Tunnels) <= 1
    <3>1. Tunnels = {} \/ Tunnels = {entry.ws}
      BY <2>2
    <3>2. CASE Tunnels = {}
      BY <3>2, FS_EmptySet
    <3>3. CASE Tunnels = {entry.ws}
      <4>1. Cardinality({entry.ws}) = 1
        BY FS_Singleton, Zenon
      <4> QED
        BY <3>3, <4>1
    <3> QED
      BY <3>1, <3>2, <3>3
  <2>4. ASSUME entry.status \in {"connecting", "connected"}
        PROVE  LET sent == IF Tunnels = {} THEN 0
                           ELSE Len(got[CHOOSE c \in Tunnels : TRUE]) - 1
               IN  entry.outbound = Numbers(sent + 1, written)
    <3>1. CASE Tunnels = {}
      <4>1. CASE entry.status = "connecting"
        BY <2>1, <3>1, <4>1 DEF Fine, QueueOK
      <4>2. CASE entry.status = "connected"
        <5>1. entry.outbound = Numbers(Len(got[entry.ws]), written)
          BY <2>1, <4>2 DEF Fine, QueueOK
        <5>2. entry.ws \in Candidates /\ told[entry.ws] = "tunnel"
          BY <2>1, <4>2 DEF Fine, TunnelOK, SocketsOK, Entries, Choices
        <5>3. PICK k \in Nat : k = Len(got[entry.ws])
          BY <2>1, <5>2 DEF NetTyped
        <5>4. ~(k > 1)
          BY <3>1, <5>2, <5>3 DEF Tunnels
        <5>5. k # 0
          BY <2>1, <5>2, <5>3 DEF Fine, TunnelOK, NetTyped
        <5>6. k = 0 + 1
          BY <5>4, <5>5
        <5> QED
          BY <3>1, <5>1, <5>3, <5>6
      <4> QED
        BY <2>4, <4>1, <4>2
    <3>2. CASE Tunnels # {}
      <4>1. Tunnels = {entry.ws} /\ Up(entry) /\ entry.ws \in Candidates
        BY <2>2, <3>2
      <4>2. (CHOOSE c \in Tunnels : TRUE) = entry.ws
        BY <4>1
      <4>3. entry.outbound = Numbers(Len(got[entry.ws]), written)
        BY <2>1, <2>4, <4>1 DEF Fine, QueueOK, Up
      <4>4. PICK k \in Nat : k = Len(got[entry.ws])
        BY <2>1, <4>1 DEF NetTyped
      <4>5. k - 1 + 1 = k
        OBVIOUS
      <4> QED
        BY <3>2, <4>2, <4>3, <4>4, <4>5
    <3> QED
      BY <3>1, <3>2
  <2>5. ASSUME NEW c \in heard, told[c] = "tunnel"
        PROVE  /\ Tunnels \subseteq {c}
               /\ \A d \in heard : d = c \/ told[d] = "wrong"
    <3>1. c = entry.ws
      BY <2>1, <2>5 DEF Fine, HeardOK
    <3>2. \A d \in heard : d = entry.ws \/ told[d] = "wrong"
      BY <2>1 DEF Fine, HeardOK
    <3> QED
      BY <2>2, <3>1, <3>2
  <2>6. \A c \in Candidates : got[c] = Numbers(0, Len(got[c]) - 1)
    BY <2>1 DEF GotOK
  <2> QED
    BY <2>2, <2>3, <2>4, <2>5, <2>6 DEF OneTunnel
<1> QED
  BY <1>1, Invariance, PTL

\* requestFlush does not fail.
LEMMA RequestedError ==
  ASSUME NEW e \in Entries, NEW kind
  PROVE  Requested(e, kind).error = e.error
  BY DEF Requested, Entries

\* Only a search fails for want of candidates, and it does so last.
LEMMA NextGivesUp ==
  ASSUME Inv, Next PROVE GaveUp(entry, entry')
<1>0. entry \in Entries /\ Fine(entry, got, told, heard, written)
  BY Known
<1>1. CASE Open
  BY <1>1, OpenKeeps
<1>2. CASE Write
  <2>1. Len(entry.outbound) # MaxQueue =>
          entry' = Requested([entry EXCEPT !.outbound = Append(@, written + 1)], "microtask")
    BY <1>2 DEF Write
  <2>2. PICK f : f = [entry EXCEPT !.outbound = Append(@, written + 1)]
    OBVIOUS
  <2>3. Requested(f, "microtask").error = f.error /\ f.error = entry.error
    BY <1>0, <2>2 DEF Requested, Entries
  <2>4. Len(entry.outbound) = MaxQueue => entry' = Requested(entry, "timer")
    BY <1>2 DEF Write
  <2> QED
    BY <1>0, <2>1, <2>2, <2>3, <2>4, RequestedError DEF GaveUp
<1>3. CASE JavaClose
  BY <1>0, <1>3, CloseEnds DEF JavaClose, GaveUp
<1>4. CASE PreparationTimer
  <2>1. PICK e : e = [entry EXCEPT !.stage = "none"]
    OBVIOUS
  <2>2. entry' = e \/ entry' \in Prepared(e)
    BY <1>4, <2>1 DEF PreparationTimer
  <2>3. e.error = entry.error /\ e.stage = "none"
    BY <1>0, <2>1 DEF Entries
  <2>4. ASSUME NEW p \in Prepared(e) PROVE p.error = entry.error
    <3>1. PICK named \in SUBSET Relays :
            p = [e EXCEPT !.stage = "discovering", !.selection = "timer",
                          !.known = e.known \cup named, !.waits = e.waits \ {"selection"}]
      BY <2>3 DEF Prepared
    <3>2. p.error = e.error
      BY <1>0, <2>1, <3>1 DEF Entries
    <3> QED
      BY <2>3, <3>2
  <2> QED
    BY <2>2, <2>3, <2>4 DEF GaveUp
<1>5. CASE Discovered
  BY <1>0, <1>5 DEF Discovered, GaveUp, Entries
<1>6. CASE SelectionTimer
  BY <1>6, SelectionTimerKeeps
<1>7. CASE PreflightDone
  BY <1>7, PreflightDoneKeeps
<1>8. CASE CandidateTimeout
  BY <1>8, CandidateTimeoutKeeps
<1>9. CASE Flush
  <2>1. PICK rest, kind : entry' = Requested(Flushed(entry, Kept, rest), kind)
    BY <1>9, FlushParts
  <2>2. PICK f : f = Flushed(entry, Kept, rest)
    OBVIOUS
  <2>3. Requested(f, kind).error = f.error /\ f.error = entry.error
    BY <1>0, <2>2 DEF Requested, Flushed, Entries
  <2> QED
    BY <2>1, <2>2, <2>3 DEF GaveUp
<1>10. CASE SocketDrains
  BY <1>10 DEF SocketDrains, GaveUp
<1>11. ASSUME NEW c \in Candidates, OnOpen(c) PROVE GaveUp(entry, entry')
  <2>1. PICK e : e = [entry EXCEPT !.sock[c] = "open"]
    OBVIOUS
  <2>2. e.error = entry.error
    BY <1>0, <2>1 DEF Entries
  <2>3. ASSUME NEW f, f = [e EXCEPT !.control = c, !.timeout = IF c = Direct THEN @ ELSE c]
        PROVE  Requested(f, "microtask").error = entry.error
    BY <1>0, <2>1, <2>3 DEF Requested, Entries
  <2> QED
    BY <1>11, <2>1, <2>2, <2>3 DEF OnOpen, GaveUp
<1>12. ASSUME NEW c \in Candidates, OnConnecting(c) PROVE GaveUp(entry, entry')
  BY <1>0, <1>12 DEF OnConnecting, GaveUp, Entries
<1>13. ASSUME NEW c \in Candidates, OnConnected(c) PROVE GaveUp(entry, entry')
  <2>1. PICK f : f = [entry EXCEPT
                         !.status = "connected", !.timeout = None,
                         !.negotiating = FALSE,
                         !.stage = IF @ = "timer" THEN "none" ELSE @,
                         !.lease = IF c = Direct THEN None ELSE c]
    OBVIOUS
  <2>2. Requested(f, "microtask").error = f.error /\ f.error = entry.error
    BY <1>0, <2>1 DEF Requested, Entries
  <2> QED
    BY <1>13, <2>1, <2>2 DEF OnConnected, GaveUp
<1>14. ASSUME NEW c \in Candidates, OnMismatch(c) PROVE GaveUp(entry, entry')
  BY <1>14, OnMismatchKeeps
<1>15. ASSUME NEW c \in Candidates, OnBytes(c) PROVE GaveUp(entry, entry')
  BY <1>15 DEF OnBytes, GaveUp
<1>16. ASSUME NEW c \in Candidates, NEW failed \in BOOLEAN, OnClose(c, failed)
       PROVE  GaveUp(entry, entry')
  BY <1>16, OnCloseKeeps
<1> QED
  BY <1>1, <1>2, <1>3, <1>4, <1>5, <1>6, <1>7, <1>8, <1>9, <1>10, <1>11, <1>12, <1>13,
     <1>14, <1>15, <1>16 DEF Next

\* The channel gives up only when every candidate it knows was tried and no more can
\* become known, or after the one wait for those that could (GivesUpLast).
THEOREM GivesUp == Spec => GivesUpLast
<1>1. Inv /\ [Next]_vars =>
        [entry.error = "none" /\ entry'.error = "exhausted" =>
           /\ entry'.known = entry'.tried
           /\ entry'.stage = "ready" \/ "exhaustion" \in entry.waits]_vars
  BY NextGivesUp DEF GaveUp
<1> QED
  BY <1>1, Invariance, PTL DEF Spec, GivesUpLast
=============================================================================
