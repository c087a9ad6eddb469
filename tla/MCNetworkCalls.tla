---------------------------- MODULE MCNetworkCalls ----------------------------
(* _BaseNet queries on every network of a 4-bit "IPv4" and a 5-bit "IPv6". *)
EXTENDS NetworkCalls

MCW4 == 4
MCW6 == 5
=============================================================================
