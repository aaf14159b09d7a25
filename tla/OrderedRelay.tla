------------------------------ MODULE OrderedRelay ------------------------------
(***************************************************************************)
(* What one hop of the stream from the target to the client promises: the  *)
(* relay's half of a tunnel (ServerFramePath) and the channel in the page  *)
(* (BrowserInbound).  The units of a byte stream arrive in order; while    *)
(* the hop is open each one is taken off the stream exactly once and in    *)
(* order, either to be delivered or to be answered by the hop itself.  A   *)
(* hop that is abandoned delivers and answers nothing more.                *)
(***************************************************************************)
EXTENDS Naturals, Sequences

CONSTANT Length    \* number of units in the stream

VARIABLES arrived, taken, delivered, answered, open

vars == <<arrived, taken, delivered, answered, open>>

Init ==
    /\ arrived = 0 /\ taken = 0
    /\ delivered = <<>> /\ answered = {}
    /\ open = TRUE

Arrive == arrived' \in arrived .. Length

\* The next units, some of which may arrive with this very step, are delivered.
Deliver ==
    /\ Arrive
    /\ taken' \in taken .. arrived'
    /\ delivered' = delivered \o [i \in 1 .. taken' - taken |-> taken + i]
    /\ UNCHANGED <<answered, open>>

Answer ==
    /\ taken' \in taken + 1 .. arrived
    /\ answered' = answered \cup (taken + 1 .. taken')
    /\ UNCHANGED <<arrived, delivered, open>>

Abandon ==
    /\ open' = FALSE
    /\ Arrive
    /\ taken' \in taken .. arrived'
    /\ UNCHANGED <<delivered, answered>>

Next == \/ open /\ (Deliver \/ Answer)
        \/ Abandon

Spec == Init /\ [][Next]_vars
=============================================================================
