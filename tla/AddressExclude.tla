---------------------------- MODULE AddressExclude ----------------------------
(***************************************************************************)
(* _BaseNet.address_exclude (gargoyle_admin_wrapper.py 344-420) as a state *)
(* machine: one step for the checks on entry and the first bisection, one *)
(* step per round of the while loop, one step for the exit and the sort.  *)
(* The receiver and the argument are chosen in Init among all networks of  *)
(* both versions; pc records where the call is, or the exception raised.  *)
(***************************************************************************)
EXTENDS IPNet, TLC

VARIABLES
    self,      \* the receiver
    other,     \* the argument (re-normalised on entry, line 394)
    s1, s2,    \* the two halves of the current bisection
    ret_addrs, \* the blocks recorded so far
    pc         \* "call", "loop", "returned", or the exception raised

vars == <<self, other, s1, s2, ret_addrs, pc>>

\* Outcomes of the call: a return or one of the exceptions it may raise.
\* "unpack" is the ValueError of `s1, s2 = x.subnet()` on a one-element list,
\* "assert" the AssertionError of the two `assert True == False`.
Raised == {"TypeError", "ValueError", "unpack", "assert"}
Terminal == {"returned"} \cup Raised

Init ==
    /\ self \in Networks
    /\ other \in Networks
    /\ s1 = self /\ s2 = self
    /\ ret_addrs = <<>>
    /\ pc = "call"

\* x.subnet() with its default arguments, for every network (a constant
\* table, evaluated once).
Halves == [n \in Networks |-> Subnet(n, 1, NONE)]

\* `s1, s2 = x.subnet()` succeeds: subnet() returns exactly two halves.
Unpacks(x) == Halves[x] \notin Errors /\ Len(Halves[x]) = 2

\* The assignment `s1, s2 = x.subnet()` before going on at pc `to`, or the
\* ValueError it raises.
Bisect(x, to) ==
    IF Unpacks(x)
    THEN /\ s1' = Halves[x][1] /\ s2' = Halves[x][2]
         /\ pc' = to
    ELSE pc' = "unpack" /\ UNCHANGED <<s1, s2>>

\* Mutant of Enter: other re-normalised with prefixlen + 1 (off by one).
EnterRenormOffByOne ==
    /\ pc = "call"
    /\ CASE self.version # other.version ->
              pc' = "TypeError" /\ UNCHANGED <<other, s1, s2, ret_addrs>>
         [] ~Contains(self, other) ->
              pc' = "ValueError" /\ UNCHANGED <<other, s1, s2, ret_addrs>>
         [] NetEq(other, self) ->
              pc' = "returned" /\ UNCHANGED <<other, s1, s2, ret_addrs>>
         [] OTHER ->
              /\ other' = IPNetwork(other.version, NetworkAddr(other),
                                    other.prefixlen + 1)
              /\ Bisect(self, "loop")
              /\ UNCHANGED ret_addrs
    /\ UNCHANGED self

\* Lines 378-397: version and containment checks, the equal case, the
\* re-normalisation of other and the first bisection of self.
Enter ==
    /\ pc = "call"
    /\ CASE self.version # other.version ->
              pc' = "TypeError" /\ UNCHANGED <<other, s1, s2, ret_addrs>>
         [] ~Contains(self, other) ->
              pc' = "ValueError" /\ UNCHANGED <<other, s1, s2, ret_addrs>>
         [] NetEq(other, self) ->
              pc' = "returned" /\ UNCHANGED <<other, s1, s2, ret_addrs>>
         [] OTHER ->
              /\ other' = IPNetwork(other.version, NetworkAddr(other),
                                    other.prefixlen)
              /\ Bisect(self, "loop")
              /\ UNCHANGED ret_addrs
    /\ UNCHANGED self

\* Lines 398-409: one round of the while loop.  The half holding other is
\* bisected again and its sibling recorded.
LoopRound ==
    /\ pc = "loop"
    /\ ~NetEq(s1, other) /\ ~NetEq(s2, other)
    /\ CASE Contains(s1, other) ->
              /\ ret_addrs' = Append(ret_addrs, s2)
              /\ Bisect(s1, "loop")
         [] Contains(s2, other) ->
              /\ ret_addrs' = Append(ret_addrs, s1)
              /\ Bisect(s2, "loop")
         [] OTHER -> pc' = "assert" /\ UNCHANGED <<s1, s2, ret_addrs>>
    /\ UNCHANGED <<self, other>>

\* Mutant of Finish: the list is returned unsorted.
FinishUnsorted ==
    /\ pc = "loop"
    /\ NetEq(s1, other) \/ NetEq(s2, other)
    /\ ret_addrs' = Append(ret_addrs, IF NetEq(s1, other) THEN s2 ELSE s1)
    /\ pc' = "returned"
    /\ UNCHANGED <<self, other, s1, s2>>

\* Mutant of Finish: the half equal to other is recorded, not its sibling.
FinishKeepsOther ==
    /\ pc = "loop"
    /\ NetEq(s1, other) \/ NetEq(s2, other)
    /\ ret_addrs' = SortSeq(Append(ret_addrs, IF NetEq(s1, other) THEN s1 ELSE s2),
                            NetworksKeyLt)
    /\ pc' = "returned"
    /\ UNCHANGED <<self, other, s1, s2>>

\* Lines 398 and 410-420: the loop exits when a half equals other; the
\* sibling is recorded and the list is sorted by _get_networks_key.
Finish ==
    /\ pc = "loop"
    /\ NetEq(s1, other) \/ NetEq(s2, other)
    /\ LET last == IF NetEq(s1, other) THEN s2 ELSE s1
       IN  ret_addrs' = SortSeq(Append(ret_addrs, last), NetworksKeyLt)
    /\ pc' = "returned"
    /\ UNCHANGED <<self, other, s1, s2>>

Next == Enter \/ LoopRound \/ Finish

\* The call runs on one thread with no suspension point: once started, its
\* next statement is always executed.
Spec == Init /\ [][Next]_vars /\ WF_vars(Next)

-----------------------------------------------------------------------------
TypeOK ==
    /\ self \in Networks /\ other \in Networks
    /\ s1 \in Networks /\ s2 \in Networks
    /\ ret_addrs \in Seq(Networks)
    /\ pc \in {"call", "loop"} \cup Terminal

(***************************************************************************)
(* The list address_exclude returns is sorted strictly by                  *)
(* (version, network, netmask), as its docstring promises.                 *)
(***************************************************************************)
ReturnedSorted ==
    pc = "returned" =>
        \A i \in 1..Len(ret_addrs) - 1 :
            NetworksKeyLt(ret_addrs[i], ret_addrs[i + 1])

(***************************************************************************)
(* address_exclude implements the atomic exclusion of AbstractExclude:     *)
(* nothing is visible until the call ends, and it then returns exactly     *)
(* the maximal CIDR blocks of self minus other, or raises TypeError /      *)
(* ValueError on a version mismatch / an argument not contained in self.   *)
(***************************************************************************)
Abs == INSTANCE AbstractExclude
    WITH outcome <-
        [status |-> IF pc \in {"call", "loop"} THEN "pending" ELSE pc,
         blocks |-> IF pc = "returned"
                    THEN {ret_addrs[i] : i \in DOMAIN ret_addrs} ELSE {}]

RefinesAbstractExclude == Abs!Spec
=============================================================================
