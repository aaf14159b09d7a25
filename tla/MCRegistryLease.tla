---------------------------- MODULE MCRegistryLease ----------------------------
(* Node sets for RegistryLease.                                            *)
EXTENDS RegistryLease

CONSTANTS n1, n2

OneNode == {n1}
TwoNodes == {n1, n2}
=============================================================================
