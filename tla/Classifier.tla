------------------------------ MODULE Classifier ------------------------------
(***************************************************************************)
(* The classification properties of _BaseV4 (gargoyle_admin_wrapper.py    *)
(* 812-875) and _BaseV6 (1147-1278).  Each range predicate is             *)
(* `self in IPvXNetwork(<literal>)`, i.e. _BaseNet.__contains__ against    *)
(* a literal CIDR block, so the predicates only mean something at the     *)
(* real widths IPV4LENGTH = 32 and IPV6LENGTH = 128.  Values that wide are *)
(* written as sequences of 16-bit limbs, most significant first (2 limbs  *)
(* for IPv4, 8 for IPv6): integer order is the lexicographic order of the *)
(* limbs and masking a prefix acts limb by limb.                          *)
(*                                                                         *)
(* The properties live in the classes shared by addresses and networks,   *)
(* so `self` is an address [version, ip] or a network [version, ip,       *)
(* prefixlen] whose ip is the masked network address (spec.md 4.3).       *)
(***************************************************************************)
EXTENDS Integers, Sequences

LimbBase == 2^16

IsNetObj(x) == "prefixlen" \in DOMAIN x

\* Integer order of two values of one width.
LimbLt(a, b) ==
    \E k \in 1..Len(a) : a[k] < b[k] /\ \A j \in 1..k - 1 : a[j] = b[j]

LimbLe(a, b) == a = b \/ LimbLt(a, b)

\* Host bits of a /p prefix that fall in limb k.
HostBitsIn(p, k) ==
    LET h == 16 * k - p IN IF h < 0 THEN 0 ELSE IF h > 16 THEN 16 ELSE h

\* _BaseNet.network: ip & netmask
NetworkOf(n) ==
    [k \in 1..Len(n.ip) |-> n.ip[k] - (n.ip[k] % 2^HostBitsIn(n.prefixlen, k))]

\* _BaseNet.broadcast: ip | hostmask
BroadcastOf(n) ==
    [k \in 1..Len(n.ip) |-> NetworkOf(n)[k] + 2^HostBitsIn(n.prefixlen, k) - 1]

\* __contains__ comparing only the network addresses of two networks
InBlockNetworkOnly(n, x) ==
    IF n.version # x.version THEN FALSE
    ELSE IF IsNetObj(x) THEN LimbLe(NetworkOf(n), NetworkOf(x))
    ELSE LimbLe(NetworkOf(n), x.ip) /\ LimbLe(x.ip, BroadcastOf(n))

\* _BaseNet.__contains__: another network or an address
InBlock(n, x) ==
    IF n.version # x.version THEN FALSE
    ELSE IF IsNetObj(x) THEN LimbLe(NetworkOf(n), NetworkOf(x))
                             /\ LimbLe(BroadcastOf(x), BroadcastOf(n))
    ELSE LimbLe(NetworkOf(n), x.ip) /\ LimbLe(x.ip, BroadcastOf(n))

(***************************************************************************)
(* The literal blocks: IPv4Network('a.b.c.d/p') and IPv6Network('h::/p'). *)
(* A literal without '/p' has the full prefix.                            *)
(***************************************************************************)
V4Block(a, b, c, d, p) ==
    [version |-> 4, ip |-> <<a * 256 + b, c * 256 + d>>, prefixlen |-> p]

V6Block(h, p) == [version |-> 6, ip |-> <<h, 0, 0, 0, 0, 0, 0, 0>>, prefixlen |-> p]

InAnyBlock(blocks, x) == \E b \in blocks : InBlock(b, x)

\* _BaseV4.is_reserved, is_private, is_multicast, is_unspecified,
\* is_loopback, is_link_local
V4IsReserved(x)    == InBlock(V4Block(240, 0, 0, 0, 4), x)
V4IsPrivate(x)     == InAnyBlock({V4Block(10, 0, 0, 0, 8), V4Block(172, 16, 0, 0, 12),
                                  V4Block(192, 168, 0, 0, 16)}, x)
V4IsMulticast(x)   == InBlock(V4Block(224, 0, 0, 0, 4), x)
V4IsUnspecified(x) == InBlock(V4Block(0, 0, 0, 0, 32), x)
V4IsLoopback(x)    == InBlock(V4Block(127, 0, 0, 0, 8), x)
V4IsLinkLocal(x)   == InBlock(V4Block(169, 254, 0, 0, 16), x)

\* The fifteen blocks of _BaseV6.is_reserved
V6ReservedBlocks ==
    {V6Block(\h0000, 8), V6Block(\h0100, 8), V6Block(\h0200, 7),
     V6Block(\h0400, 6), V6Block(\h0800, 5), V6Block(\h1000, 4),
     V6Block(\h4000, 3), V6Block(\h6000, 3), V6Block(\h8000, 3),
     V6Block(\hA000, 3), V6Block(\hC000, 3), V6Block(\hE000, 4),
     V6Block(\hF000, 5), V6Block(\hF800, 6), V6Block(\hFE00, 9)}

\* getattr(self, '_prefixlen', 128): an address has no _prefixlen
PrefixOr128(x) == IF IsNetObj(x) THEN x.prefixlen ELSE 128

Zero6 == <<0, 0, 0, 0, 0, 0, 0, 0>>
One6  == <<0, 0, 0, 0, 0, 0, 0, 1>>

\* _BaseV6.is_multicast, is_reserved, is_unspecified, is_loopback,
\* is_link_local, is_site_local, is_private
V6IsMulticast(x)   == InBlock(V6Block(\hFF00, 8), x)
V6IsReserved(x)    == InAnyBlock(V6ReservedBlocks, x)
V6IsUnspecified(x) == x.ip = Zero6 /\ PrefixOr128(x) = 128
V6IsLoopback(x)    == x.ip = One6 /\ PrefixOr128(x) = 128
V6IsLinkLocal(x)   == InBlock(V6Block(\hFE80, 10), x)
V6IsSiteLocal(x)   == InBlock(V6Block(\hFEC0, 10), x)
V6IsPrivate(x)     == InBlock(V6Block(\hFC00, 7), x)

\* Python None where an IPv4Address is expected
NoAddress == [version |-> 0, ip |-> <<>>]

V4Address(limbs) == [version |-> 4, ip |-> limbs]

\* _BaseV6.ipv4_mapped: (ip >> 32) must be 0xFFFF
Ipv4Mapped(x) ==
    IF SubSeq(x.ip, 1, 6) # <<0, 0, 0, 0, 0, \hFFFF>> THEN NoAddress
    ELSE V4Address(SubSeq(x.ip, 7, 8))

\* teredo returning the client field as stored, without inverting it
TeredoClientAsStored(x) ==
    IF SubSeq(x.ip, 1, 2) # <<\h2001, 0>> THEN NoAddress
    ELSE <<V4Address(SubSeq(x.ip, 3, 4)), V4Address(SubSeq(x.ip, 7, 8))>>

\* _BaseV6.teredo: (ip >> 96) must be 0x20010000; the server is
\* (ip >> 64) & 0xFFFFFFFF, the client ~ip & 0xFFFFFFFF
Teredo(x) ==
    IF SubSeq(x.ip, 1, 2) # <<\h2001, 0>> THEN NoAddress
    ELSE <<V4Address(SubSeq(x.ip, 3, 4)),
           V4Address(<<LimbBase - 1 - x.ip[7], LimbBase - 1 - x.ip[8]>>)>>

\* _BaseV6.sixtofour: (ip >> 112) must be 0x2002; the address is
\* (ip >> 80) & 0xFFFFFFFF
SixToFour(x) ==
    IF x.ip[1] # \h2002 THEN NoAddress ELSE V4Address(SubSeq(x.ip, 2, 3))

\* Every property of an object of either version, as a caller reads them.
Classify(x) ==
    IF x.version = 4
    THEN [private |-> V4IsPrivate(x), reserved |-> V4IsReserved(x),
          multicast |-> V4IsMulticast(x), unspecified |-> V4IsUnspecified(x),
          loopback |-> V4IsLoopback(x), link_local |-> V4IsLinkLocal(x)]
    ELSE [private |-> V6IsPrivate(x), reserved |-> V6IsReserved(x),
          multicast |-> V6IsMulticast(x), unspecified |-> V6IsUnspecified(x),
          loopback |-> V6IsLoopback(x), link_local |-> V6IsLinkLocal(x),
          site_local |-> V6IsSiteLocal(x), ipv4_mapped |-> Ipv4Mapped(x),
          teredo |-> Teredo(x), sixtofour |-> SixToFour(x)]
=============================================================================
