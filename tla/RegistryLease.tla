----------------------------- MODULE RegistryLease -----------------------------
(***************************************************************************)
(* The lease registry (apps/bridge/dist/registry.js) and the RelayNodes    *)
(* that keep a lease in it (main.js, startRelayRegistration).              *)
(*                                                                         *)
(* A PUT is verified with DNS and HTTP requests the registry awaits, so    *)
(* handlers of several requests are in progress at once.  A relay that     *)
(* gives up on a PUT does not end the registry's handler.                  *)
(***************************************************************************)
EXTENDS Naturals, FiniteSets

CONSTANTS
    Nodes,         \* node ids
    MaximumNodes,  \* config.maximumNodes
    MaxStarts,     \* bound: incarnations of one relay
    MaxRequests    \* bound: requests of one relay in progress at the registry

ASSUME NodesAssumption == IsFiniteSet(Nodes)
ASSUME MaximumNodesAssumption == MaximumNodes \in Nat \ {0}
ASSUME BoundsAssumption == MaxStarts \in Nat /\ MaxRequests \in Nat \ {0}

VARIABLES
    relay,     \* per node: the relay process
    start,     \* per node: its incarnation, which fixes url, name and priority
    requests,  \* handlers in progress at the registry
    leases     \* the lease map; NoLease where a node has no entry

leaseVars == <<relay, start, requests, leases>>

NoLease == [start |-> 0, expired |-> FALSE]
Lease == [start : 1 .. MaxStarts, expired : BOOLEAN]

\* A PUT is "sent" until its manifest probe was answered, then "probed".
\* awaited: the relay still waits for the answer.
Request == [node : Nodes, start : 1 .. MaxStarts,
            stage : {"sent", "probed", "delete"}, awaited : BOOLEAN]

LeaseTypeOK ==
    /\ relay \in [Nodes -> {"down", "up", "deleting", "left"}]
    /\ start \in [Nodes -> 0 .. MaxStarts]
    /\ requests \subseteq Request
    /\ leases \in [Nodes -> Lease \cup {NoLease}]

LeaseInit ==
    /\ relay = [n \in Nodes |-> "down"] /\ start = [n \in Nodes |-> 0]
    /\ requests = {} /\ leases = [n \in Nodes |-> NoLease]

Of(n) == {r \in requests : r.node = n}
Awaited(n) == {r \in Of(n) : r.awaited}
Abandoned(r) == [r EXCEPT !.awaited = FALSE]
Listed == {n \in Nodes : leases[n] # NoLease}

-----------------------------------------------------------------------------
(* The relay.                                                              *)

Start(n) ==
    /\ relay[n] \in {"down", "left"} /\ start[n] < MaxStarts
    /\ relay' = [relay EXCEPT ![n] = "up"] /\ start' = [start EXCEPT ![n] = @ + 1]
    /\ UNCHANGED <<requests, leases>>

\* register: one PUT at a time (requestRunning), at start and on the interval.
Register(n) ==
    /\ relay[n] = "up" /\ Awaited(n) = {} /\ Cardinality(Of(n)) < MaxRequests
    /\ requests' = requests \cup
          {[node |-> n, start |-> start[n], stage |-> "sent", awaited |-> TRUE]}
    /\ UNCHANGED <<relay, start, leases>>

\* An aborted request may be lost on its way or go on at the registry.
Abort(n) ==
    {(requests \ Awaited(n)) \cup {Abandoned(r) : r \in kept} : kept \in SUBSET Awaited(n)}

\* Variant: a stopping relay lets its PUT run.
AbortAndMutant(n, new) == {requests \cup new}

\* What a relay that gives up on its request, and sends another, leaves behind.
AbortAnd(n, new) == {s \cup new : s \in Abort(n)}

\* The timeout of a PUT, or of the DELETE, which ends the process.
Timeout(n) ==
    /\ Awaited(n) # {}
    /\ requests' \in Abort(n)
    /\ relay' = IF relay[n] = "deleting" THEN [relay EXCEPT ![n] = "down"] ELSE relay
    /\ UNCHANGED <<start, leases>>

\* stopRelayRegistration: the PUT is aborted, then DELETE is sent.
Stop(n) ==
    /\ relay[n] = "up" /\ relay' = [relay EXCEPT ![n] = "deleting"]
    /\ requests' \in AbortAnd(n,
          {[node |-> n, start |-> start[n], stage |-> "delete", awaited |-> TRUE]})
    /\ UNCHANGED <<start, leases>>

Crash(n) ==
    /\ relay[n] \in {"up", "deleting"} /\ relay' = [relay EXCEPT ![n] = "down"]
    /\ requests' \in Abort(n)
    /\ UNCHANGED <<start, leases>>

-----------------------------------------------------------------------------
(* The registry.                                                           *)

\* verifyRegistration reads the manifest: the relay's server answers until the
\* process ends, whatever became of the PUT.
Verify(r) ==
    /\ r \in requests /\ r.stage = "sent" /\ relay[r.node] \in {"up", "deleting"}
    /\ requests' = (requests \ {r}) \cup {[r EXCEPT !.stage = "probed"]}
    /\ UNCHANGED <<relay, start, leases>>

\* Variant: an existing entry of anybody makes room.
HasRoomMutant(n) == Cardinality(Listed) <= MaximumNodes

HasRoom(n) == leases[n] # NoLease \/ Cardinality(Listed) < MaximumNodes

\* The rest of the PUT handler, in one turn.
Accept(r) ==
    /\ r \in requests /\ r.stage = "probed" /\ HasRoom(r.node)
    /\ leases' = [leases EXCEPT ![r.node] = [start |-> r.start, expired |-> FALSE]]
    /\ requests' = requests \ {r}
    /\ UNCHANGED <<relay, start>>

\* The verification fails, or the registry is at capacity.
Reject(r) ==
    /\ r \in requests
    /\ r.stage = "sent" \/ (r.stage = "probed" /\ ~HasRoom(r.node))
    /\ requests' = requests \ {r}
    /\ UNCHANGED <<relay, start, leases>>

\* DELETE; its answer lets the relay close.
Delete(r) ==
    /\ r \in requests /\ r.stage = "delete"
    /\ leases' = [leases EXCEPT ![r.node] = NoLease]
    /\ requests' = requests \ {r}
    /\ relay' = IF r.awaited THEN [relay EXCEPT ![r.node] = "left"] ELSE relay
    /\ UNCHANGED start

\* leaseMs pass since the last renewal.
Expire(n) ==
    /\ n \in Listed /\ ~leases[n].expired
    /\ leases' = [leases EXCEPT ![n].expired = TRUE]
    /\ UNCHANGED <<relay, start, requests>>

\* Variant: expired entries go only when the registry is over its capacity.
PrunedMutant == IF Cardinality(Listed) <= MaximumNodes THEN leases
                ELSE [n \in Nodes |-> IF leases[n].expired THEN NoLease ELSE leases[n]]

Pruned == [n \in Nodes |-> IF leases[n].expired THEN NoLease ELSE leases[n]]

\* pruneExpiredLeases, on its timer and before every listing.
Prune ==
    /\ leases' = Pruned
    /\ UNCHANGED <<relay, start, requests>>

\* The registry keeps its leases in memory; requests in progress fail.
RegistryRestarts ==
    /\ leases' = [n \in Nodes |-> NoLease] /\ requests' = {}
    /\ relay' = [n \in Nodes |-> IF relay[n] = "deleting" THEN "down" ELSE relay[n]]
    /\ UNCHANGED start

Handle(r) == Verify(r) \/ Accept(r) \/ Reject(r) \/ Delete(r)

LeaseNext ==
    \/ \E n \in Nodes : \/ Start(n) \/ Register(n) \/ Timeout(n) \/ Stop(n)
                        \/ Crash(n) \/ Expire(n)
    \/ \E r \in requests : Handle(r)
    \/ Prune \/ RegistryRestarts

LeaseSpec == LeaseInit /\ [][LeaseNext]_leaseVars

\* Every handler ends, because its probe times out; time passes; the prune timer
\* runs.  Nothing makes a relay register or stop.
LeaseFairSpec ==
    /\ LeaseSpec
    /\ WF_leaseVars(Prune)
    /\ \A n \in Nodes : /\ WF_leaseVars(\E r \in Of(n) : Handle(r))
                        /\ WF_leaseVars(Expire(n))
-----------------------------------------------------------------------------
(* Properties.                                                             *)

\* The lease map never exceeds maximumNodes, however many verifications run at
\* the same time.
WithinCapacity == Cardinality(Listed) <= MaximumNodes

\* A relay waits for one request at a time, so an answer belongs to the request
\* that is waited for, and a DELETE is never overtaken by a PUT the relay still
\* drives.
OneRequestAtATime ==
    \A n \in Nodes :
        /\ Cardinality(Awaited(n)) <= 1
        /\ relay[n] = "deleting" => \A r \in Awaited(n) : r.stage = "delete"
        /\ relay[n] \in {"down", "left"} => Awaited(n) = {}

\* The TTL is the fallback: a relay that is gone for good is forgotten for good,
\* however it went and whatever it left in progress.
EventuallyForgotten ==
    \A n \in Nodes :
        <>[](relay[n] \in {"down", "left"}) => <>[](n \notin Listed)

=============================================================================
