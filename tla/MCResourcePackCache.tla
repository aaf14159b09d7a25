------------------------- MODULE MCResourcePackCache -------------------------
(* Three requests, of which the first two may share a stream's or each     *)
(* other's download; the keys are interchangeable, so the first asks for k1. *)
EXTENDS ResourcePackCache

CONSTANTS r1, r2, r3, k1, k2

MCWanted == [r \in {r1, r2, r3} |-> IF r = r1 THEN {k1} ELSE {k1, k2}]
=============================================================================
