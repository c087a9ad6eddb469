-------------------------------- MODULE IPNet --------------------------------
(***************************************************************************)
(* The version-independent network algebra of _BaseNet and _BaseIP in      *)
(* src/utils/gargoyle_admin_wrapper.py, as operators over both address     *)
(* versions.  Every method of _BaseNet reads the width only through        *)
(* _max_prefixlen and _ALL_ONES, so the widths are CONSTANTS (W4, W6)      *)
(* standing for IPV4LENGTH = 32 and IPV6LENGTH = 128.                      *)
(*                                                                         *)
(* An address is a record [version, ip]; a network is a record            *)
(* [version, ip, prefixlen].  Python exceptions are model values.          *)
(***************************************************************************)
EXTENDS Integers, Sequences, FiniteSets, Bitwise

CONSTANTS
    W4, W6,              \* IPV4LENGTH and IPV6LENGTH, scaled down
    NONE,                \* Python None: an omitted keyword argument
    TypeError, ValueError, IndexError, NetmaskValueError, AddressValueError

ASSUME W4 \in 1..8 /\ W6 \in 1..8 /\ W4 =< W6

Errors == {TypeError, ValueError, IndexError, NetmaskValueError,
           AddressValueError}

Versions == {4, 6}

\* _BaseV4._max_prefixlen / _BaseV6._max_prefixlen
Width(v) == IF v = 4 THEN W4 ELSE W6

\* _ALL_ONES of _BaseV4 / _BaseV6
AllOnes(v) == 2^Width(v) - 1

Addr(v, i) == [version |-> v, ip |-> i]

\* IPv4Address(i) / IPv6Address(i) for an int i: the range check.
V4AddressFromInt(i) == IF i < 0 \/ i > AllOnes(4) THEN AddressValueError ELSE Addr(4, i)
V6AddressFromInt(i) == IF i < 0 \/ i > AllOnes(6) THEN AddressValueError ELSE Addr(6, i)

\* IPAddress(i, version=v)
IPAddressInt(i, v) == IF v = 4 THEN V4AddressFromInt(i) ELSE V6AddressFromInt(i)

\* Every address value a program can hold.
Addresses == UNION {{Addr(v, i) : i \in 0..AllOnes(v)} : v \in Versions}

\* _BaseNet._ip_int_from_prefix
IpIntFromPrefix(v, p) == AllOnes(v) ^^ shiftR(AllOnes(v), p)

\* _BaseNet._prefix_from_prefix_int: validate a prefix length
PrefixFromPrefixInt(v, p) ==
    IF p \in 0..Width(v) THEN p ELSE NetmaskValueError

(***************************************************************************)
(* _BaseNet._prefix_from_prefix_string.  A prefix text is abstracted to    *)
(* what the code tells apart: decimal digits (with their value), the empty *)
(* string, which passes the digit test and fails int(), or text with      *)
(* another character ('-1', '/8', ' 8').                                  *)
(***************************************************************************)
Digits(n) == [k |-> "digits", n |-> n]
EmptyText == [k |-> "empty"]
OtherText == [k |-> "other"]

PrefixFromPrefixString(v, s) ==
    IF s.k # "digits" THEN NetmaskValueError ELSE PrefixFromPrefixInt(v, s.n)

(***************************************************************************)
(* IPNetwork('addr/prefix', version=v).  The class is called by _BaseNet   *)
(* but is not part of the repository; spec.md 4.3: the prefix is          *)
(* validated and the stored address is masked to the network address.     *)
(***************************************************************************)
IPNetwork(v, a, p) ==
    CASE a \notin 0..AllOnes(v)                     -> AddressValueError
      [] PrefixFromPrefixInt(v, p) = NetmaskValueError -> NetmaskValueError
      [] OTHER -> [version |-> v, ip |-> a & IpIntFromPrefix(v, p),
                   prefixlen |-> p]

\* Every network value a program can hold.
Networks == {IPNetwork(v, a, p) : v \in Versions, a \in 0..AllOnes(4) \cup 0..AllOnes(6),
                                 p \in 0..Width(4) \cup 0..Width(6)} \ Errors

\* netmask (defined by the missing IPvXNetwork classes, spec.md 3)
Netmask(n) == IpIntFromPrefix(n.version, n.prefixlen)

\* _BaseNet.hostmask
Hostmask(n) == Netmask(n) ^^ AllOnes(n.version)

\* _BaseNet.network
NetworkAddr(n) == n.ip & Netmask(n)

\* _BaseNet.broadcast
Broadcast(n) == n.ip | Hostmask(n)

\* The integers a network covers.
Span(n) == NetworkAddr(n)..Broadcast(n)

\* _BaseNet.numhosts
NumHosts(n) == Broadcast(n) - NetworkAddr(n) + 1

\* list(n): _BaseNet.__iter__ yields network, network + 1, ..., broadcast
IterList(n) == [k \in 1..NumHosts(n) |-> Addr(n.version, NetworkAddr(n) + k - 1)]

IsNet(x) == "prefixlen" \in DOMAIN x

\* _BaseNet.__contains__: another network or an address
Contains(n, x) ==
    IF n.version # x.version THEN FALSE
    ELSE IF IsNet(x) THEN NetworkAddr(n) =< NetworkAddr(x)
                          /\ Broadcast(n) >= Broadcast(x)
    ELSE NetworkAddr(n) =< x.ip /\ x.ip =< Broadcast(n)

(***************************************************************************)
(* The methods of _BaseIP on an address a.  x is an address or a network:  *)
(* both have _ip and _version, so __eq__ compares them with either.        *)
(***************************************************************************)
\* _BaseIP.__eq__ and __ne__
AddrEq(a, x) == a.ip = x.ip /\ a.version = x.version
AddrNe(a, x) == ~AddrEq(a, x)

\* _BaseIP.__lt__ and __gt__: the version check comes first, then the type.
AddrLt(a, x) ==
    CASE a.version # x.version -> TypeError
      [] IsNet(x)              -> TypeError
      [] a.ip # x.ip           -> a.ip < x.ip
      [] OTHER                 -> FALSE

AddrGt(a, x) ==
    CASE a.version # x.version -> TypeError
      [] IsNet(x)              -> TypeError
      [] a.ip # x.ip           -> a.ip > x.ip
      [] OTHER                 -> FALSE

\* Mutant of AddrLe: the negation of __lt__ instead of __gt__.
AddrLeNotLt(a, x) == IF AddrLt(a, x) = TypeError THEN TypeError ELSE ~AddrLt(a, x)

\* _BaseIP.__le__ and __ge__
AddrLe(a, x) == IF AddrGt(a, x) = TypeError THEN TypeError ELSE ~AddrGt(a, x)
AddrGe(a, x) == IF AddrLt(a, x) = TypeError THEN TypeError ELSE ~AddrLt(a, x)

\* Mutant of AddrAdd: IPAddress(int(self) + other) without the version, so
\* IPAddress tries IPv4Address, then IPv6Address, then returns 1.
AddrAddNoVersion(a, k) ==
    CASE V4AddressFromInt(a.ip + k) # AddressValueError -> V4AddressFromInt(a.ip + k)
      [] V6AddressFromInt(a.ip + k) # AddressValueError -> V6AddressFromInt(a.ip + k)
      [] OTHER -> [version |-> 0, ip |-> 1]

\* _BaseIP.__add__ and __sub__ with an int
AddrAdd(a, k) == IPAddressInt(a.ip + k, a.version)
AddrSub(a, k) == IPAddressInt(a.ip - k, a.version)

\* _BaseIP.__hash__: hash(hex(long(_ip))), the hash of a string of the
\* digits of _ip alone.
AddrHash(a) == [hex |-> a.ip]

\* Mutant of Overlaps: only n's ends are tested against m.
OverlapsOneWay(n, m) ==
    \/ Contains(m, Addr(n.version, NetworkAddr(n)))
    \/ Contains(m, Addr(n.version, Broadcast(n)))

\* _BaseNet.overlaps
Overlaps(n, m) ==
    \/ Contains(m, Addr(n.version, NetworkAddr(n)))
    \/ Contains(m, Addr(n.version, Broadcast(n)))
    \/ Contains(n, Addr(m.version, NetworkAddr(m)))
    \/ Contains(n, Addr(m.version, Broadcast(m)))

\* Mutant of NetEq: the netmasks are not compared.
NetEqNoMask(n, m) ==
    IF IsNet(m) THEN n.version = m.version /\ NetworkAddr(n) = NetworkAddr(m)
    ELSE n.version = m.version /\ n.ip = m.ip

\* _BaseNet.__eq__: m.network raises AttributeError for an address m, and
\* the except branch then compares _version and _ip.
NetEq(n, m) ==
    IF IsNet(m) THEN /\ n.version = m.version
                     /\ NetworkAddr(n) = NetworkAddr(m)
                     /\ Netmask(n) = Netmask(m)
    ELSE n.version = m.version /\ n.ip = m.ip

\* _BaseNet.__ne__
NetNe(n, m) == ~NetEq(n, m)

\* _BaseNet.__lt__
NetLt(n, m) ==
    CASE n.version # m.version           -> TypeError
      [] ~IsNet(m)                       -> TypeError
      [] NetworkAddr(n) # NetworkAddr(m) -> NetworkAddr(n) < NetworkAddr(m)
      [] Netmask(n) # Netmask(m)         -> Netmask(n) < Netmask(m)
      [] OTHER                           -> FALSE

\* Mutant of NetGt: the netmask tie-break compared the wrong way round.
NetGtMaskSwapped(n, m) ==
    CASE n.version # m.version           -> TypeError
      [] ~IsNet(m)                       -> TypeError
      [] NetworkAddr(n) # NetworkAddr(m) -> NetworkAddr(n) > NetworkAddr(m)
      [] Netmask(n) # Netmask(m)         -> Netmask(n) < Netmask(m)
      [] OTHER                           -> FALSE

\* _BaseNet.__gt__
NetGt(n, m) ==
    CASE n.version # m.version           -> TypeError
      [] ~IsNet(m)                       -> TypeError
      [] NetworkAddr(n) # NetworkAddr(m) -> NetworkAddr(n) > NetworkAddr(m)
      [] Netmask(n) # Netmask(m)         -> Netmask(n) > Netmask(m)
      [] OTHER                           -> FALSE

\* _BaseNet.__le__ and __ge__: the negation of __gt__ and __lt__, which
\* propagate their TypeError.
NetLe(n, m) == IF NetGt(n, m) = TypeError THEN TypeError ELSE ~NetGt(n, m)
NetGe(n, m) == IF NetLt(n, m) = TypeError THEN TypeError ELSE ~NetLt(n, m)

\* _BaseNet.__hash__: hash(int(network) ^ int(netmask)); the hash of an int
\* is the int, tagged here apart from the hash of a string.
NetHash(n) == [int |-> NetworkAddr(n) ^^ Netmask(n)]

\* Mutant of IterHosts: cur starts at the network address.
IterHostsFromNetwork(n) ==
    LET cur == NetworkAddr(n)  bcast == Broadcast(n) - 1
    IN  [k \in 1..bcast - cur + 1 |-> IPAddressInt(cur + k - 1, n.version)]

\* _BaseNet.iterhosts: cur = network + 1, bcast = broadcast - 1, yield
\* while cur <= bcast.
IterHosts(n) ==
    LET cur == NetworkAddr(n) + 1  bcast == Broadcast(n) - 1
    IN  [k \in 1..bcast - cur + 1 |-> IPAddressInt(cur + k - 1, n.version)]

\* _BaseNet.masked: IPNetwork('%s/%d' % (network, prefixlen)); the text
\* names the network address, which parses back to the same integer.
Masked(n) == IPNetwork(n.version, NetworkAddr(n), n.prefixlen)

\* _BaseNet.compare_networks
CompareNetworks(n, m) ==
    CASE n.version < m.version           -> -1
      [] n.version > m.version           -> 1
      [] NetworkAddr(n) < NetworkAddr(m) -> -1
      [] NetworkAddr(n) > NetworkAddr(m) -> 1
      [] Netmask(n) < Netmask(m)         -> -1
      [] Netmask(n) > Netmask(m)         -> 1
      [] OTHER                           -> 0

\* _BaseNet._get_networks_key used as a sort key: the tuple
\* (version, network, netmask) compared lexicographically.
NetworksKeyLt(n, m) ==
    \/ n.version < m.version
    \/ n.version = m.version /\ NetworkAddr(n) < NetworkAddr(m)
    \/ n.version = m.version /\ NetworkAddr(n) = NetworkAddr(m)
       /\ Netmask(n) < Netmask(m)

(***************************************************************************)
(* The loop of iter_subnets after the first child: yield current, stop     *)
(* when its broadcast is the parent's, otherwise build the next child at   *)
(* broadcast + 1 (IPAddress raises once that leaves the address space).    *)
(* list() of the generator raises if any step raises.                      *)
(***************************************************************************)
RECURSIVE SubnetsFrom(_, _)
SubnetsFrom(cur, parent) ==
    IF Broadcast(cur) = Broadcast(parent) THEN <<cur>>
    ELSE LET next == IPNetwork(cur.version, Broadcast(cur) + 1, cur.prefixlen)
             rest == IF next \in Errors THEN next ELSE SubnetsFrom(next, parent)
         IN  IF rest \in Errors THEN rest ELSE <<cur>> \o rest

\* Mutant of Subnet: new_prefix taken as the difference itself.
SubnetNewPrefixAsDiff(n, prefixlen_diff, new_prefix) ==
    LET v    == n.version
        diff == IF new_prefix # NONE THEN new_prefix ELSE prefixlen_diff
        newp == n.prefixlen + diff
    IN  CASE n.prefixlen = Width(v)                            -> <<n>>
          [] new_prefix # NONE /\ new_prefix < n.prefixlen      -> ValueError
          [] new_prefix # NONE /\ prefixlen_diff # 1            -> ValueError
          [] diff < 0                                           -> ValueError
          [] newp > Width(v)                                    -> ValueError
          [] OTHER -> SubnetsFrom(IPNetwork(v, NetworkAddr(n), newp), n)

\* _BaseNet.iter_subnets, collected by _BaseNet.subnet
Subnet(n, prefixlen_diff, new_prefix) ==
    LET v    == n.version
        diff == IF new_prefix # NONE THEN new_prefix - n.prefixlen
                                     ELSE prefixlen_diff
        newp == n.prefixlen + diff
    IN  CASE n.prefixlen = Width(v)                            -> <<n>>
          [] new_prefix # NONE /\ new_prefix < n.prefixlen      -> ValueError
          [] new_prefix # NONE /\ prefixlen_diff # 1            -> ValueError
          [] diff < 0                                           -> ValueError
          [] newp > Width(v)                                    -> ValueError
          [] OTHER -> SubnetsFrom(IPNetwork(v, NetworkAddr(n), newp), n)

\* Mutant of Supernet: the check that new_prefix is not longer is missing.
SupernetNoLongerCheck(n, prefixlen_diff, new_prefix) ==
    LET diff == IF new_prefix # NONE THEN n.prefixlen - new_prefix
                                     ELSE prefixlen_diff
    IN  CASE n.prefixlen = 0                                    -> n
          [] new_prefix # NONE /\ prefixlen_diff # 1            -> ValueError
          [] n.prefixlen - diff < 0                             -> ValueError
          [] OTHER -> IPNetwork(n.version, NetworkAddr(n), n.prefixlen - diff)

\* _BaseNet.supernet
Supernet(n, prefixlen_diff, new_prefix) ==
    LET diff == IF new_prefix # NONE THEN n.prefixlen - new_prefix
                                     ELSE prefixlen_diff
    IN  CASE n.prefixlen = 0                                    -> n
          [] new_prefix # NONE /\ new_prefix > n.prefixlen      -> ValueError
          [] new_prefix # NONE /\ prefixlen_diff # 1            -> ValueError
          [] n.prefixlen - diff < 0                             -> ValueError
          [] OTHER -> IPNetwork(n.version, NetworkAddr(n), n.prefixlen - diff)

\* Mutant of GetItem: negative indices counted from broadcast + i.
GetItemNoPlusOne(n, i) ==
    IF i >= 0
    THEN IF NetworkAddr(n) + i > Broadcast(n) THEN IndexError
         ELSE Addr(n.version, NetworkAddr(n) + i)
    ELSE IF Broadcast(n) + i < NetworkAddr(n) THEN IndexError
         ELSE Addr(n.version, Broadcast(n) + i)

\* Mutant of GetItem: negative indices are not bounds-checked.
GetItemNoLowerCheck(n, i) ==
    IF i >= 0
    THEN IF NetworkAddr(n) + i > Broadcast(n) THEN IndexError
         ELSE Addr(n.version, NetworkAddr(n) + i)
    ELSE Addr(n.version, Broadcast(n) + (i + 1))

\* _BaseNet.__getitem__
GetItem(n, i) ==
    IF i >= 0
    THEN IF NetworkAddr(n) + i > Broadcast(n) THEN IndexError
         ELSE Addr(n.version, NetworkAddr(n) + i)
    ELSE IF Broadcast(n) + (i + 1) < NetworkAddr(n) THEN IndexError
         ELSE Addr(n.version, Broadcast(n) + (i + 1))

\* The loop of _prefix_from_ip_int: strip trailing zero bits, counting
\* the prefix length down from _max_prefixlen.
RECURSIVE StripZeros(_, _)
StripZeros(x, p) ==
    IF p = 0 \/ x & 1 = 1 THEN <<x, p>> ELSE StripZeros(shiftR(x, 1), p - 1)

\* _BaseNet._prefix_from_ip_int
PrefixFromIpInt(v, x) ==
    LET s == StripZeros(x, Width(v))
    IN  IF s[1] = 2^s[2] - 1 THEN s[2] ELSE NetmaskValueError

\* Mutant of PrefixFromIpString: no second try as a hostmask.
PrefixFromIpStringNetmaskOnly(v, x) == PrefixFromIpInt(v, x)

\* _BaseNet._prefix_from_ip_string, after the mask text has been parsed to
\* the integer x: try a netmask, then the inverted bits as a hostmask.
PrefixFromIpString(v, x) ==
    IF PrefixFromIpInt(v, x) # NetmaskValueError THEN PrefixFromIpInt(v, x)
    ELSE PrefixFromIpInt(v, x ^^ AllOnes(v))
=============================================================================
