---------------------------- MODULE MCIPTextCalls ----------------------------
(* Octets of 0..1, hextets of 0..3 and five hextets to an IPv6 address:   *)
(* enough for two zero runs of length two to tie.                         *)
EXTENDS IPTextCalls
MCOctetMax == 1
MCHextetCount == 5
=============================================================================
