----------------------------- MODULE NetworkCalls -----------------------------
(***************************************************************************)
(* A caller holding one network value and calling the query methods of     *)
(* _BaseNet on it (gargoyle_admin_wrapper.py 167-712).  Network values are *)
(* immutable, so each call is one step that leaves the receiver alone and  *)
(* records the call, its arguments and its result (or the exception).      *)
(* Arguments range over small sets that include the invalid values just    *)
(* outside the legal ranges.                                               *)
(***************************************************************************)
EXTENDS IPNet

VARIABLES
    net,   \* the receiver
    call   \* [op, args, res] of the last call

vars == <<net, call>>

MaxW == Width(6)

\* prefixlen_diff and new_prefix as callers pass them: one past each end.
Diffs      == -1..2
NewPrefixes == {NONE} \cup -1..MaxW + 1

Record(op, args, res) == call' = [op |-> op, args |-> args, res |-> res]

Init ==
    /\ net \in Networks
    /\ call = [op |-> "none", args |-> <<>>, res |-> NONE]

\* net.subnet(prefixlen_diff, new_prefix)
CallSubnet ==
    \E d \in Diffs, np \in NewPrefixes :
        Record("subnet", <<d, np>>, Subnet(net, d, np))

\* net.supernet(prefixlen_diff, new_prefix)
CallSupernet ==
    \E d \in Diffs, np \in NewPrefixes :
        Record("supernet", <<d, np>>, Supernet(net, d, np))

\* net[i], for every index up to one past each end
CallGetItem ==
    \E i \in -(2^MaxW + 1)..2^MaxW :
        Record("getitem", <<i>>, GetItem(net, i))

\* net < o, net > o, net <= o, net >= o, net == o, net != o,
\* net.compare_networks(o) and the hashes of both, as a caller sorting or
\* deduplicating networks uses them
CallCompare ==
    \E o \in Networks :
        Record("compare", <<o>>,
               [lt |-> NetLt(net, o), gt |-> NetGt(net, o),
                le |-> NetLe(net, o), ge |-> NetGe(net, o),
                eq |-> NetEq(net, o), ne |-> NetNe(net, o),
                cmp |-> CompareNetworks(net, o),
                hash |-> <<NetHash(net), NetHash(o)>>])

\* The same operators with an address on the right
CallCompareAddress ==
    \E o \in Addresses :
        Record("compare_addr", <<o>>,
               [lt |-> NetLt(net, o), gt |-> NetGt(net, o),
                le |-> NetLe(net, o), ge |-> NetGe(net, o),
                eq |-> NetEq(net, o), ne |-> NetNe(net, o)])

\* list(net.iterhosts())
CallIterHosts == Record("iterhosts", <<>>, IterHosts(net))

\* m = net.masked(), then m == net and the hashes of both
CallMasked ==
    LET m == Masked(net)
    IN  Record("masked", <<>>,
               [val |-> m, eq |-> NetEq(m, net), hash |-> <<NetHash(m), NetHash(net)>>])

\* An address a of net (as `for a in net` yields them) compared with an
\* address or a network: the six operators and the hashes of both.
CallAddrCompare ==
    \E i \in Span(net), o \in Addresses \cup Networks :
        LET a == Addr(net.version, i)
        IN  Record("addr_compare", <<a, o>>,
                   [lt |-> AddrLt(a, o), gt |-> AddrGt(a, o),
                    le |-> AddrLe(a, o), ge |-> AddrGe(a, o),
                    eq |-> AddrEq(a, o), ne |-> AddrNe(a, o),
                    hash |-> <<AddrHash(a),
                               IF IsNet(o) THEN NetHash(o) ELSE AddrHash(o)>>])

\* a + k and a - k for an address a of net and a small int k
Offsets == -2..2

CallAddrAdd ==
    \E i \in Span(net), k \in Offsets :
        LET a == Addr(net.version, i)
        IN  Record("addr_add", <<a, k>>, AddrAdd(a, k))

CallAddrSub ==
    \E i \in Span(net), k \in Offsets :
        LET a == Addr(net.version, i)
        IN  Record("addr_sub", <<a, k>>, AddrSub(a, k))

\* net.overlaps(o)
CallOverlaps ==
    \E o \in Networks :
        Record("overlaps", <<o>>, Overlaps(net, o))

\* _prefix_from_ip_string of a mask written in net's version
CallPrefixFromMask ==
    \E x \in 0..AllOnes(net.version) :
        Record("mask", <<x>>, PrefixFromIpString(net.version, x))

\* _prefix_from_prefix_string of the text after '/' in net's version
PrefixTexts == {Digits(p) : p \in 0..MaxW + 1} \cup {EmptyText, OtherText}

CallPrefixFromString ==
    \E s \in PrefixTexts :
        Record("prefixstr", <<s>>, PrefixFromPrefixString(net.version, s))

\* One call per behaviour: the receiver is immutable and the methods keep no
\* state, so a later call does not depend on an earlier one.
Next ==
    /\ call.op = "none"
    /\ \/ CallSubnet \/ CallSupernet \/ CallGetItem
       \/ CallCompare \/ CallOverlaps \/ CallPrefixFromMask
       \/ CallCompareAddress \/ CallIterHosts \/ CallMasked
       \/ CallAddrCompare \/ CallAddrAdd \/ CallAddrSub \/ CallPrefixFromString
    /\ UNCHANGED net

Spec == Init /\ [][Next]_vars

-----------------------------------------------------------------------------
TypeOK ==
    /\ net \in Networks
    /\ call.op \in {"none", "subnet", "supernet", "getitem", "compare",
                    "overlaps", "mask", "compare_addr", "iterhosts",
                    "masked", "addr_compare", "addr_add", "addr_sub",
                    "prefixstr"}
    /\ call.op = "getitem" =>
         call.res \in {IndexError} \cup
                      {Addr(net.version, a) : a \in 0..AllOnes(net.version)}
    /\ call.op = "subnet"   => call.res \in Errors \/ call.res \in Seq(Networks)
    /\ call.op = "supernet" => call.res \in Errors \/ call.res \in Networks
    /\ call.op = "iterhosts" => call.res \in Seq(Addresses)
    /\ call.op \in {"addr_add", "addr_sub"} =>
         call.res \in Addresses \cup {AddressValueError}

(***************************************************************************)
(* subnet() splits the receiver into equal, aligned, adjacent children in  *)
(* ascending order that start at its network address, end at its          *)
(* broadcast address and have the requested prefix length: the loop of     *)
(* iter_subnets steps by broadcast + 1 and stops exactly at the parent's   *)
(* broadcast, also when that is the all-ones address.                      *)
(***************************************************************************)
RequestedPrefix(n, args) ==
    IF args[2] # NONE THEN args[2] ELSE n.prefixlen + args[1]

SubnetPartition ==
    call.op = "subnet" /\ call.res \notin Errors =>
        LET L == call.res
        IN  /\ NetworkAddr(L[1]) = NetworkAddr(net)
            /\ Broadcast(L[Len(L)]) = Broadcast(net)
            /\ \A i \in 1..Len(L) - 1 : NetworkAddr(L[i + 1]) = Broadcast(L[i]) + 1
            /\ \A i \in DOMAIN L :
                  /\ L[i].version = net.version
                  /\ net.prefixlen < Width(net.version) =>
                        L[i].prefixlen = RequestedPrefix(net, call.args)

(***************************************************************************)
(* supernet() with a non-negative prefixlen_diff, or with new_prefix,      *)
(* returns a network of the requested length that contains the receiver,   *)
(* and raises ValueError only when that length would be negative or        *)
(* longer than the receiver's (a /0 receiver is returned unchanged).       *)
(***************************************************************************)
SupernetTarget(n, args) ==
    IF args[2] # NONE THEN args[2] ELSE n.prefixlen - args[1]

SupernetOfNonNegativeDiff ==
    call.op = "supernet" /\ (call.args[2] # NONE \/ call.args[1] >= 0) =>
        IF net.prefixlen = 0 THEN call.res = net
        ELSE LET t == SupernetTarget(net, call.args)
                 bad == t < 0 \/ t > net.prefixlen
                        \/ (call.args[2] # NONE /\ call.args[1] # 1)
             IN  IF bad THEN call.res = ValueError
                 ELSE /\ call.res \notin Errors
                      /\ call.res.prefixlen = t
                      /\ Contains(call.res, net)

(***************************************************************************)
(* net[i] is element i of list(net) with Python's negative indexing, and   *)
(* IndexError exactly outside -numhosts .. numhosts - 1.                   *)
(***************************************************************************)
GetItemMatchesIteration ==
    call.op = "getitem" =>
        LET i == call.args[1]
            L == IterList(net)
            N == Len(L)
        IN  CASE i \in 0..N - 1  -> call.res = L[i + 1]
              [] i \in -N..-1    -> call.res = L[N + i + 1]
              [] OTHER           -> call.res = IndexError

(***************************************************************************)
(* The six comparison operators and compare_networks agree with each other *)
(* and with the sort key (version, network, netmask) between networks of   *)
(* one version: <= is < or ==, != is not ==.  Across versions, or with an *)
(* address on the right, the four orderings raise TypeError (__le__ and    *)
(* __ge__ through the __gt__ and __lt__ they negate) while                 *)
(* compare_networks orders networks by version.                            *)
(***************************************************************************)
OrderingConsistent ==
    /\ call.op = "compare" =>
        LET o == call.args[1]
            r == call.res
        IN  IF net.version = o.version
            THEN /\ r.lt = (r.cmp = -1) /\ r.gt = (r.cmp = 1) /\ r.eq = (r.cmp = 0)
                 /\ r.lt = NetworksKeyLt(net, o)
                 /\ r.le = (r.lt \/ r.eq) /\ r.ge = (r.gt \/ r.eq)
                 /\ r.ne = ~r.eq
            ELSE /\ r.lt = TypeError /\ r.gt = TypeError
                 /\ r.le = TypeError /\ r.ge = TypeError
                 /\ ~r.eq /\ r.ne
                 /\ r.cmp = IF net.version < o.version THEN -1 ELSE 1
    /\ call.op = "compare_addr" =>
        \A f \in {"lt", "gt", "le", "ge"} : call.res[f] = TypeError

(***************************************************************************)
(* Addresses: within a version ==, <, >, <=, >= and != are the order of    *)
(* the integers; across versions == is false and the four orderings raise  *)
(* TypeError, as they do against a network of either version (spec.md     *)
(* 4.2: ordering only within a version).                                   *)
(***************************************************************************)
AddressOrderConsistent ==
    call.op = "addr_compare" =>
        LET a == call.args[1]
            o == call.args[2]
            r == call.res
        IN  IF IsNet(o) \/ a.version # o.version
            THEN /\ \A f \in {"lt", "gt", "le", "ge"} : r[f] = TypeError
                 /\ a.version # o.version => ~r.eq /\ r.ne
            ELSE /\ r.lt = (a.ip < o.ip) /\ r.gt = (a.ip > o.ip)
                 /\ r.le = (a.ip =< o.ip) /\ r.ge = (a.ip >= o.ip)
                 /\ r.eq = (a.ip = o.ip) /\ r.ne = (a.ip # o.ip)

(***************************************************************************)
(* Values that compare equal hash equally, so sets and dicts deduplicate   *)
(* them: two networks, two addresses, and a network and its masked()       *)
(* copy.  (A network and an address can also compare equal; see the       *)
(* hazards.)                                                               *)
(***************************************************************************)
HashRespectsEq ==
    /\ call.op = "compare" /\ call.res.eq =>
         call.res.hash[1] = call.res.hash[2]
    /\ call.op = "addr_compare" /\ ~IsNet(call.args[2]) /\ call.res.eq =>
         call.res.hash[1] = call.res.hash[2]
    /\ call.op = "masked" =>
         call.res.eq /\ call.res.hash[1] = call.res.hash[2]

(***************************************************************************)
(* a + k and a - k keep a's version and are exact, or raise               *)
(* AddressValueError when the result leaves 0 .. 2^width - 1 (spec.md     *)
(* 4.2): no wrap-around, and no switch to the other version.              *)
(***************************************************************************)
AddressArithmeticExact ==
    call.op \in {"addr_add", "addr_sub"} =>
        LET a == call.args[1]
            t == IF call.op = "addr_add" THEN a.ip + call.args[2]
                                         ELSE a.ip - call.args[2]
        IN  IF 0 =< t /\ t < 2^Width(a.version)
            THEN call.res = [version |-> a.version, ip |-> t]
            ELSE call.res = AddressValueError

(***************************************************************************)
(* iterhosts() is __iter__ without the network and broadcast addresses,    *)
(* as its docstring says: empty for a /w and a /w-1 network.               *)
(***************************************************************************)
IterHostsExact ==
    call.op = "iterhosts" =>
        call.res = SubSeq(IterList(net), 2, NumHosts(net) - 1)

(***************************************************************************)
(* overlaps() holds exactly when the two networks share an address, for    *)
(* nested, disjoint and identical pairs and across versions.               *)
(***************************************************************************)
OverlapsIsIntersection ==
    call.op = "overlaps" =>
        LET o == call.args[1]
        IN  call.res = (net.version = o.version /\ Span(net) \cap Span(o) # {})

(***************************************************************************)
(* A mask yields prefix p exactly when it is the netmask 1^p 0^(w-p) or    *)
(* the hostmask 0^p 1^(w-p); the all-zeros and all-ones masks, which are   *)
(* both, are read as netmasks; anything else raises NetmaskValueError.     *)
(* The masks are written arithmetically here, independently of the bit    *)
(* loop of _prefix_from_ip_int.  A prefix text yields p exactly when it    *)
(* is the decimal digits of p with p in 0..w; an empty text raises too.   *)
(***************************************************************************)
NetmaskOf(v, p)  == 2^Width(v) - 2^(Width(v) - p)
HostmaskOf(v, p) == 2^(Width(v) - p) - 1

MaskPrefixExact ==
    /\ call.op = "mask" =>
        LET v == net.version
            x == call.args[1]
            r == call.res
        IN  CASE \E p \in 0..Width(v) : NetmaskOf(v, p) = x ->
                   r \in 0..Width(v) /\ NetmaskOf(v, r) = x
              [] \E p \in 0..Width(v) : HostmaskOf(v, p) = x ->
                   r \in 0..Width(v) /\ HostmaskOf(v, r) = x
              [] OTHER -> r = NetmaskValueError
    /\ call.op = "prefixstr" =>
        LET s == call.args[1]
        IN  IF s.k = "digits" /\ s.n =< Width(net.version)
            THEN call.res = s.n ELSE call.res = NetmaskValueError
=============================================================================
