----------------------------- MODULE IPTextCalls -----------------------------
(***************************************************************************)
(* A caller turning strings into addresses with IPAddress() (as every     *)
(* entry point of the access-control workflow does) and addresses into    *)
(* strings with str() and exploded.  The conversions keep no state, so    *)
(* each behaviour is one call; the inputs range over every arrangement of *)
(* separators and of words of each kind up to one part past the longest  *)
(* legal form.                                                            *)
(*                                                                         *)
(* The same caller asks full-width addresses and networks for their       *)
(* classification (is_private, is_reserved, ..., teredo), over probes at  *)
(* and around both ends of every block of the range table.                *)
(***************************************************************************)
EXTENDS IPText, FiniteSets, Classifier, Bitwise

VARIABLE call   \* [op, args, res] of the last call

NoCall == [op |-> "none", args |-> <<>>, res |-> 0]

\* Octet parts: empty, the smallest and largest octet, and one of each
\* rejected kind.
OctetParts == {<<>>, <<W(Dec(0))>>, <<W(Dec(OctetMax))>>,
               <<W(LeadZero)>>, <<W(BigDec)>>, <<W(Junk)>>}

V4Inputs ==
    {Join(ps, Dot) : ps \in [1..4 -> OctetParts]}
    \cup {Join(ps, Dot) : ps \in [1..3 -> {<<W(Dec(0))>>}]
                                \cup [1..5 -> {<<W(Dec(0))>>}]}

\* Hextet parts: empty, a zero and a non-zero hextet, and a rejected word.
HextetParts == {<<>>, HexPart(0), HexPart(HextetBase - 1), <<W(Junk)>>}

\* IPv4 tails: two addresses whose halves differ, and a three-octet string.
TailValues == {0, OctetBase^3 + OctetBase + 1}
Tails == {V4StringFromInt(v) : v \in TailValues} \cup
         {Join([i \in 1..3 |-> <<W(Dec(0))>>], Dot)}

\* Up to HextetCount + 2 parts, one more than the longest legal form; the
\* last part may be an IPv4 tail.
V6Inputs ==
    UNION {{Join(ps \o <<last>>, Colon) :
                ps \in [1..n -> HextetParts], last \in HextetParts \cup Tails} :
           n \in 0..HextetCount + 1}

Init == call = NoCall

\* IPAddress(s), as unblock_ip and the list functions call it
CallIPAddress ==
    \E s \in V4Inputs \cup V6Inputs :
        call' = [op |-> "ipaddress", args |-> <<s>>, res |-> IPAddressOf(s)]

\* str(IPv4Address(ip)) and str(IPv6Address(ip))
CallStr ==
    \/ \E ip \in 0..V4AllOnes :
          call' = [op |-> "str", args |-> <<4, ip>>, res |-> V4StringFromInt(ip)]
    \/ \E ip \in 0..V6AllOnes :
          call' = [op |-> "str", args |-> <<6, ip>>, res |-> V6StringFromInt(ip)]

\* IPv6Address(ip).exploded
CallExplode ==
    \E ip \in 0..V6AllOnes :
        call' = [op |-> "explode", args |-> <<6, ip>>, res |-> V6Explode(ip)]

(***************************************************************************)
(* Classifier probes.  Every range predicate is a union of blocks of at   *)
(* most 16 bits, so it depends on the top limb alone; an interval test    *)
(* that is wrong at all is wrong at an end of one of the reference        *)
(* intervals or just beside it, and the probes take the top limb there:   *)
(* both ends of every /8 (and of every /10 for IPv6); the first and last  *)
(* /16 of 172.16/12 with their outer neighbours; 192.168 and 169.254      *)
(* themselves with the /16 on either side; the low bits zero, one or all  *)
(* ones.                                                                  *)
(***************************************************************************)
V4Tops == {o * 256 + e : o \in 0..255, e \in {0, 255}}
          \cup {172 * 256 + e : e \in {15, 16, 31, 32}}
          \cup {192 * 256 + e : e \in 167..169}
          \cup {169 * 256 + e : e \in 253..255}
V6Tops == {k * 64 + e : k \in 0..1023, e \in {0, 63}}

V4AddrProbes == {V4Address(<<t, l>>) : t \in V4Tops, l \in {0, 1, LimbBase - 1}}
V6AddrProbes == {[version |-> 6, ip |-> <<t>> \o SubSeq(r, 2, 8)] :
                    t \in V6Tops, r \in {Zero6, One6}}

\* IPv4Network / IPv6Network values: the given address masked to the prefix.
MaskedNet(v, ip, p) == LET n == [version |-> v, ip |-> ip, prefixlen |-> p]
                       IN  [n EXCEPT !.ip = NetworkOf(n)]

\* Networks wider than, as wide as and narrower than each table block.
V4NetProbes == {MaskedNet(4, <<t, 0>>, p) :
                    t \in V4Tops, p \in {3, 4, 5, 7, 8, 9, 11, 12, 13, 15, 16, 17, 32}}
V6NetProbes == {MaskedNet(6, <<k * 64, 0, 0, 0, 0, 0, 0, 0>>, p) :
                    k \in 0..1023, p \in 1..10}
               \cup {MaskedNet(6, ip, p) : ip \in {Zero6, One6}, p \in {0, 127, 128}}

\* IPv4 values embedded in IPv6 addresses, and the embeddings of RFC 4291
\* (::ffff:a), RFC 3056 (2002:a:subnet::) and RFC 4380 (2001:0:server:
\* flags:port:client with every client bit inverted).
EmbedV4s == {<<0, 0>>, <<\hC0A8, 1>>, <<1, \h8000>>, <<\hFFFF, \hFFFF>>}
Embeddings == {"mapped", "6to4", "teredo"}

Embed(k, a, b) ==
    CASE k = "mapped" -> <<0, 0, 0, 0, 0, \hFFFF>> \o a
      [] k = "6to4"   -> <<\h2002>> \o a \o <<b[2], 0, 0, 0, 0>>
      [] k = "teredo" -> <<\h2001, 0>> \o a \o <<0, 0>>
                          \o <<b[1] ^^ \hFFFF, b[2] ^^ \hFFFF>>

\* self.is_private, ..., self.teredo on an address or network
CallClassify ==
    \E x \in V4AddrProbes \cup V6AddrProbes \cup V4NetProbes \cup V6NetProbes :
        call' = [op |-> "classify", args |-> <<x>>, res |-> Classify(x)]

\* The same on an IPv6 address that carries an IPv4 address
CallClassifyEmbedded ==
    \E k \in Embeddings, a \in EmbedV4s, b \in EmbedV4s :
        LET x == [version |-> 6, ip |-> Embed(k, a, b)]
        IN  call' = [op |-> "embedded", args |-> <<x, k, a, b>>, res |-> Classify(x)]

Next ==
    /\ call.op = "none"
    /\ CallIPAddress \/ CallStr \/ CallExplode \/ CallClassify \/ CallClassifyEmbedded

Spec == Init /\ [][Next]_call

-----------------------------------------------------------------------------
(***************************************************************************)
(* The reference grammar, written from the notation (dotted quad; eight    *)
(* hextets or one '::' standing for at least one zero hextet; the last two *)
(* hextets may be written as a dotted quad), independently of the parsers. *)
(* Values are built arithmetically, not by the parsers' shift loops.       *)
(***************************************************************************)
Val(ds, b) == LET RECURSIVE v(_) v(k) == IF k = 0 THEN 0 ELSE v(k - 1) * b + ds[k]
              IN  v(Len(ds))

DottedQuads ==
    {[str |-> Join([i \in 1..4 |-> <<W(Dec(o[i]))>>], Dot), val |-> Val(o, OctetBase)] :
        o \in [1..4 -> 0..OctetMax]}

HexVals == {0, HextetBase - 1}
Words(hs) == [i \in DOMAIN hs |-> HexPart(hs[i])]

\* An IPv6 text: the hextets written before '::' (all of them when there is
\* no '::'), those after it, and an optional dotted-quad tail.
NoTail == [str |-> <<>>, val |-> -1]
TailHex(t) == IF t = NoTail THEN <<>> ELSE <<t.val \div HextetBase, t.val % HextetBase>>

V6Text(pre, gap, suf, t) ==
    LET after == Words(suf) \o (IF t = NoTail THEN <<>> ELSE <<t.str>>)
        n     == Len(pre) + Len(suf) + Len(TailHex(t))
    IN  [str |-> IF gap THEN Join(Words(pre), Colon) \o <<Colon, Colon>> \o Join(after, Colon)
                 ELSE Join(Words(pre) \o after, Colon),
         val |-> Val(pre \o [i \in 1..HextetCount - n |-> 0] \o suf \o TailHex(t),
                     HextetBase)]

TailQuads == {q \in DottedQuads : q.val \in TailValues}

\* Without '::' all HextetCount hextets are written; with it at most
\* HextetCount - 1, so that '::' stands for at least one.
V6Texts ==
    LET H == HextetCount
        Ts == {NoTail} \cup TailQuads
    IN  UNION {{V6Text(pre, FALSE, <<>>, t) :
                   pre \in [1..H - Len(TailHex(t)) -> HexVals]} : t \in Ts}
        \cup
        UNION {{V6Text(pre, TRUE, suf, t) :
                   pre \in [1..i -> HexVals],
                   suf \in IF i + j + Len(TailHex(t)) <= H - 1
                           THEN [1..j -> HexVals] ELSE {}} :
               i \in 0..H - 1, j \in 0..H - 1, t \in Ts}

\* What IPAddress(s) must return.
ExpectedAddress(s) ==
    CASE \E q \in DottedQuads : q.str = s ->
             Addr(4, (CHOOSE q \in DottedQuads : q.str = s).val)
      [] \E x \in V6Texts : x.str = s ->
             Addr(6, (CHOOSE x \in V6Texts : x.str = s).val)
      [] OTHER -> Sentinel

\* RFC 5952 section 4.2: the longest run of two or more zero hextets, the
\* first of equally long ones, is written '::'.
Canonical(ip) ==
    LET H    == HextetCount
        hs   == [i \in 1..H |-> (ip \div HextetBase^(H - i)) % HextetBase]
        runs == {r \in (1..H) \X (2..H) :
                    r[1] + r[2] - 1 <= H /\ \A k \in r[1]..r[1] + r[2] - 1 : hs[k] = 0}
        best == CHOOSE r \in runs :
                    \A q \in runs : q[2] < r[2] \/ (q[2] = r[2] /\ r[1] <= q[1])
    IN  IF runs = {} THEN Join(Words(hs), Colon)
        ELSE Join(Words(SubSeq(hs, 1, best[1] - 1)), Colon) \o <<Colon, Colon>>
             \o Join(Words(SubSeq(hs, best[1] + best[2], H)), Colon)

-----------------------------------------------------------------------------
TypeOK ==
    /\ call.op \in {"none", "ipaddress", "str", "explode", "classify", "embedded"}
    /\ call.op = "ipaddress" =>
         call.res = Sentinel \/ call.res \in {Addr(4, ip) : ip \in 0..V4AllOnes}
                      \/ call.res \in {Addr(6, ip) : ip \in 0..V6AllOnes}

(***************************************************************************)
(* IPAddress(s) returns the IPv4 address of s exactly when s is a dotted   *)
(* quad, otherwise the IPv6 address exactly when s is an IPv6 text (one    *)
(* '::' at most, standing for at least one zero hextet, no lone leading   *)
(* or trailing ':', the right number of hextets, a dotted-quad tail only  *)
(* last), each with its value; otherwise the sentinel 1, which the         *)
(* workflow's `ip_address == 1` recognises and no address equals.          *)
(***************************************************************************)
IPAddressExact ==
    call.op = "ipaddress" =>
        /\ call.res = ExpectedAddress(call.args[1])
        /\ IsSentinel(call.res) = (ExpectedAddress(call.args[1]) = Sentinel)

(***************************************************************************)
(* str() of an IPv6 address writes the first longest run of at least two  *)
(* zero hextets as '::', including at either end, and nothing else.       *)
(***************************************************************************)
V6StrCanonical ==
    call.op = "str" /\ call.args[1] = 6 => call.res = Canonical(call.args[2])

(***************************************************************************)
(* Every text the library writes reads back as the same address through   *)
(* IPAddress: str() of both versions and the exploded IPv6 form.           *)
(***************************************************************************)
TextRoundTrip ==
    call.op \in {"str", "explode"} =>
        /\ call.res # AddressValueError
        /\ IPAddressOf(call.res) = Addr(call.args[1], call.args[2])

-----------------------------------------------------------------------------
(***************************************************************************)
(* The range table of spec.md 4.5, written as closed intervals of the top *)
(* 16 bits (an IPv4 value's first two octets).  is_reserved of IPv6 is    *)
(* every address outside global unicast 2000::/3 and the blocks of the    *)
(* other predicates, merged into maximal intervals; loopback of IPv6 and  *)
(* unspecified of both versions are single addresses.                     *)
(***************************************************************************)
Oct(a, b) == a * 256 + b

RefRanges(v) ==
    IF v = 4
    THEN [private    |-> {<<Oct(10, 0), Oct(10, 255)>>, <<Oct(172, 16), Oct(172, 31)>>,
                          <<Oct(192, 168), Oct(192, 168)>>},
          multicast  |-> {<<Oct(224, 0), Oct(239, 255)>>},
          loopback   |-> {<<Oct(127, 0), Oct(127, 255)>>},
          link_local |-> {<<Oct(169, 254), Oct(169, 254)>>},
          reserved   |-> {<<Oct(240, 0), Oct(255, 255)>>}]
    ELSE [private    |-> {<<\hFC00, \hFDFF>>},
          multicast  |-> {<<\hFF00, \hFFFF>>},
          link_local |-> {<<\hFE80, \hFEBF>>},
          site_local |-> {<<\hFEC0, \hFEFF>>},
          reserved   |-> {<<0, \h1FFF>>, <<\h4000, \hFBFF>>, <<\hFE00, \hFE7F>>}]

\* The top limbs an address or a probe network spans.
SpanTop(x) ==
    IF IsNetObj(x) /\ x.prefixlen < 16
    THEN <<x.ip[1], x.ip[1] + 2^(16 - x.prefixlen) - 1>>
    ELSE <<x.ip[1], x.ip[1]>>

\* The object stands for one address.
Single(x) == ~IsNetObj(x) \/ x.prefixlen = 16 * Len(x.ip)

InTable(v, pred, span) == \E r \in RefRanges(v)[pred] : r[1] <= span[1] /\ span[2] <= r[2]

(***************************************************************************)
(* The classifier agrees with the range table.  An address is classified  *)
(* by a predicate exactly when it lies in that predicate's ranges (so the *)
(* fifteen literal blocks of is_reserved tile the reserved space).  A     *)
(* network is classified only when all its addresses lie in the ranges:   *)
(* __contains__ must compare both ends.  The converse fails for networks  *)
(* across two reserved blocks, such as ::/7, and is not claimed.          *)
(***************************************************************************)
ClassifyMatchesTable ==
    call.op \in {"classify", "embedded"} =>
        LET x == call.args[1]
            r == call.res
            exact == IF x.version = 4 THEN {"unspecified"} ELSE {"unspecified", "loopback"}
        IN  /\ \A pred \in DOMAIN RefRanges(x.version) :
                  /\ r[pred] => InTable(x.version, pred, SpanTop(x))
                  /\ ~IsNetObj(x) /\ InTable(x.version, pred, SpanTop(x)) => r[pred]
            /\ \A pred \in exact :
                  r[pred] = (Single(x) /\ x.ip = IF pred = "unspecified" /\ x.version = 4
                                                  THEN <<0, 0>>
                                                  ELSE IF pred = "unspecified" THEN Zero6
                                                  ELSE One6)

(***************************************************************************)
(* ipv4_mapped, sixtofour and teredo recover the IPv4 addresses an IPv6   *)
(* address carries in the embedding of its RFC, the teredo client with    *)
(* its bits inverted back, and give None for the other embeddings.        *)
(***************************************************************************)
EmbeddedV4RoundTrip ==
    call.op = "embedded" =>
        LET k == call.args[2]  a == call.args[3]  b == call.args[4]
        IN  /\ call.res.ipv4_mapped = IF k = "mapped" THEN V4Address(a) ELSE NoAddress
            /\ call.res.sixtofour = IF k = "6to4" THEN V4Address(a) ELSE NoAddress
            /\ call.res.teredo = IF k = "teredo" THEN <<V4Address(a), V4Address(b)>>
                                 ELSE NoAddress

=============================================================================
