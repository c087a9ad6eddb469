---------------------------- MODULE AbstractExclude ----------------------------
(***************************************************************************)
(* What address_exclude promises (its docstring and spec.md 4.4), as one   *)
(* atomic step: self minus other as the set of maximal CIDR blocks inside  *)
(* it, or the exception for a version mismatch or a non-contained other.  *)
(* Blocks are described arithmetically here (aligned ranges), not with the *)
(* bit masks of _BaseNet, so the detailed module is checked against an     *)
(* independent definition.                                                 *)
(***************************************************************************)
EXTENDS IPNet

VARIABLES self, other, outcome

\* The addresses of a block: those agreeing with it above the prefix.
BlockSpan(n) ==
    LET size == 2^(Width(n.version) - n.prefixlen)
    IN  {a \in 0..AllOnes(n.version) : a \div size = n.ip \div size}

\* The block one bit shorter that contains n.
Parent(n) ==
    LET size == 2^(Width(n.version) - n.prefixlen + 1)
    IN  [version |-> n.version, ip |-> (n.ip \div size) * size,
         prefixlen |-> n.prefixlen - 1]

\* The maximal blocks inside span(s) \ span(o): the minimal CIDR cover.
MaxBlocks(s, o) ==
    LET D == BlockSpan(s) \ BlockSpan(o)
    IN  {b \in Networks :
            /\ b.version = s.version
            /\ BlockSpan(b) \subseteq D
            /\ b.prefixlen = 0 \/ ~(BlockSpan(Parent(b)) \subseteq D)}

\* outcome.status is "pending", "returned" or the exception raised;
\* outcome.blocks is the set of blocks returned.
Outcome(status, blocks) == [status |-> status, blocks |-> blocks]

Init ==
    /\ self \in Networks
    /\ other \in Networks
    /\ outcome = Outcome("pending", {})

Exclude ==
    /\ outcome.status = "pending"
    /\ outcome' =
         CASE self.version # other.version -> Outcome("TypeError", {})
           [] ~(BlockSpan(other) \subseteq BlockSpan(self)) -> Outcome("ValueError", {})
           [] OTHER -> Outcome("returned", MaxBlocks(self, other))
    /\ UNCHANGED <<self, other>>

Spec == Init /\ [][Exclude]_<<self, other, outcome>>
             /\ WF_<<self, other, outcome>>(Exclude)
=============================================================================
