------------------------- MODULE MCClientFrameScheduler -------------------------
(* Three tunnels for ClientFrameScheduler.                                 *)
EXTENDS ClientFrameScheduler

CONSTANTS t1, t2, t3

MCTunnels == {t1, t2, t3}
=============================================================================
