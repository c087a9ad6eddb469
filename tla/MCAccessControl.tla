--------------------------- MODULE MCAccessControl ---------------------------
(* Two hosts the daemon can detect and the administrator can list. *)
EXTENDS AccessControl

CONSTANTS h1, h2

MCHosts == {h1, h2}
MCSymmetry == Permutations(MCHosts)
=============================================================================
