--------------------------- MODULE MCServerFramePath ---------------------------
(* A small target stream for TLC.                                          *)
EXTENDS ServerFramePath

Frame(kind, units) ==
    [i \in 1 .. units |-> [kind |-> kind, last |-> i = units]]

\* A keepalive the relay answers only in PLAY, an encryption request that may
\* form a batch with the split frame behind it, a Start Configuration, and at
\* last a byte that parses as no frame.
MCStream ==
    Frame("playKeepAlive", 1) \o Frame("encryptionRequest", 1)
        \o Frame("plain", 2) \o Frame("startConfiguration", 1)
        \o Frame("malformed", 1)
=============================================================================
