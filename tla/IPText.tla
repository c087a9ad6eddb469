------------------------------- MODULE IPText -------------------------------
(***************************************************************************)
(* The text forms of addresses in gargoyle_admin_wrapper.py: _BaseV4      *)
(* (715-797), _BaseV6 (916-1132), the string constructors of IPv4Address  *)
(* and IPv6Address (913-914, 1315-1316) and IPAddress (1319-1337).         *)
(*                                                                         *)
(* A string is a sequence of symbols: the separators ':' and '.' and      *)
(* words, the maximal runs of other characters.  A word is abstracted to   *)
(* the token that decides how the parsers treat it: a hex number of at    *)
(* most four digits with its value, a decimal without leading zero with   *)
(* its value, a decimal with a leading zero, a decimal above 255, or      *)
(* other characters.  Widths are scaled: an octet holds 0..OctetMax      *)
(* (255), a hextet is two octets, an IPv6 address has HextetCount (8)     *)
(* hextets; an IPv4 address keeps its four octets.                       *)
(***************************************************************************)
EXTENDS Integers, SequencesExt

CONSTANTS
    OctetMax,            \* 255, scaled down
    HextetCount,         \* _HEXTET_COUNT = 8, scaled down
    ValueError, AddressValueError

ASSUME OctetMax \in Nat \ {0} /\ HextetCount \in Nat /\ HextetCount >= 4

OctetBase  == OctetMax + 1
HextetBase == OctetBase * OctetBase       \* 0xFFFF + 1
V4AllOnes  == OctetBase^4 - 1             \* _BaseV4._ALL_ONES
V6AllOnes  == HextetBase^HextetCount - 1  \* _BaseV6._ALL_ONES

Tok(k, v)   == [k |-> k, v |-> v]
Hex(v)      == Tok("hex", v)      \* 1 to 4 hex digits
Dec(v)      == Tok("dec", v)      \* decimal digits, no leading zero
LeadZero    == Tok("lz", 0)       \* decimal digits with a leading zero
BigDec      == Tok("big", 0)      \* a decimal above 255
Junk        == Tok("junk", 0)     \* other characters, or more than 4 hex digits

Colon   == [sym |-> ":", t |-> Tok("none", 0)]
Dot     == [sym |-> ".", t |-> Tok("none", 0)]
W(t)    == [sym |-> "w", t |-> t]

---------------------------------------------------------------------------
(* str.split(sep) and sep.join(parts).                                     *)

Split(s, sep) ==
    LET at  == SelectSeq([i \in 1..Len(s) |-> i], LAMBDA i : s[i] = sep)
        cut == <<0>> \o at \o <<Len(s) + 1>>
    IN  [j \in 1..Len(cut) - 1 |-> SubSeq(s, cut[j] + 1, cut[j + 1] - 1)]

Join(ps, sep) ==
    IF ps = <<>> THEN <<>>
    ELSE FlattenSeq([i \in 1..2 * Len(ps) - 1 |->
                        IF i % 2 = 1 THEN ps[(i + 1) \div 2] ELSE <<sep>>])

\* The integer whose base-b digits, most significant first, are ds: the
\* loops `x = (x << n) | d`.
Pack(ds, b) == FoldLeft(LAMBDA acc, d : acc * b + d, 0, ds)

---------------------------------------------------------------------------
(* IPv4                                                                    *)

\* _parse_octet: digits only, int(), at most 255 and no leading zero.  An
\* empty part passes the digit test and int('') raises.
ParseOctet(p) ==
    IF Len(p) = 1 /\ p[1].t.k = "dec" THEN p[1].t.v ELSE ValueError

\* _BaseV4._ip_int_from_string
V4IntFromString(s) ==
    LET octets == Split(s, Dot)
    IN  IF Len(octets) # 4 \/ \E i \in 1..4 : ParseOctet(octets[i]) = ValueError
        THEN AddressValueError
        ELSE Pack([i \in 1..4 |-> ParseOctet(octets[i])], OctetBase)

\* Mutant of V4StringFromInt: octets.append instead of octets.insert(0, ...).
V4StringFromIntReversed(ip) ==
    Join([i \in 1..4 |-> <<W(Dec((ip \div OctetBase^(i - 1)) % OctetBase))>>],
         Dot)

\* _BaseV4._string_from_ip_int: octets.insert(0, str(ip & 0xFF)) four times.
V4StringFromInt(ip) ==
    Join([i \in 1..4 |-> <<W(Dec((ip \div OctetBase^(4 - i)) % OctetBase))>>],
         Dot)

---------------------------------------------------------------------------
(* IPv6                                                                    *)

\* _parse_hextet: hex digits only, at most four of them, int(x, 16).
ParseHextet(p) ==
    IF Len(p) = 1 /\ p[1].t.k = "hex" THEN p[1].t.v ELSE ValueError

\* '%x' % n as a part
HexPart(n) == <<W(Hex(n))>>

\* Lines 952-956: an IPv4 tail becomes two hextets; the AddressValueError
\* of IPv4Address propagates.
ExpandTail(parts) ==
    IF \E i \in DOMAIN Last(parts) : Last(parts)[i] = Dot
    THEN LET v4 == V4IntFromString(Last(parts))
         IN  IF v4 = AddressValueError THEN AddressValueError
             ELSE Front(parts) \o <<HexPart((v4 \div HextetBase) % HextetBase),
                                    HexPart(v4 % HextetBase)>>
    ELSE parts

\* Mutant of Layout: the `parts_skipped < 1` check is missing.
LayoutNoSkippedCheck(parts) ==
    LET n     == Len(parts)
        skips == {i \in 2..n - 1 : parts[i] = <<>>}
        skip  == CHOOSE i \in skips : TRUE
        hi    == IF parts[1] = <<>> THEN skip - 2 ELSE skip - 1
        lo    == IF parts[n] = <<>> THEN n - skip - 1 ELSE n - skip
    IN  CASE Cardinality(skips) > 1            -> AddressValueError
          [] skips = {} /\ n # HextetCount     -> AddressValueError
          [] skips = {}                         -> [hi |-> n, lo |-> 0, skipped |-> 0]
          [] parts[1] = <<>> /\ hi # 0          -> AddressValueError
          [] parts[n] = <<>> /\ lo # 0          -> AddressValueError
          [] OTHER -> [hi |-> hi, lo |-> lo, skipped |-> HextetCount - (hi + lo)]

\* Mutant of Layout: parts_skipped computed from parts_hi alone.
LayoutSkippedIgnoresLo(parts) ==
    LET n     == Len(parts)
        skips == {i \in 2..n - 1 : parts[i] = <<>>}
        skip  == CHOOSE i \in skips : TRUE
        hi    == IF parts[1] = <<>> THEN skip - 2 ELSE skip - 1
        lo    == IF parts[n] = <<>> THEN n - skip - 1 ELSE n - skip
    IN  CASE Cardinality(skips) > 1            -> AddressValueError
          [] skips = {} /\ n # HextetCount     -> AddressValueError
          [] skips = {}                         -> [hi |-> n, lo |-> 0, skipped |-> 0]
          [] parts[1] = <<>> /\ hi # 0          -> AddressValueError
          [] parts[n] = <<>> /\ lo # 0          -> AddressValueError
          [] HextetCount - (hi + lo) < 1        -> AddressValueError
          [] OTHER -> [hi |-> hi, lo |-> lo, skipped |-> HextetCount - hi]

\* Lines 962-996: the single '::' and the part counts around it, as
\* [hi, lo, skipped], or the AddressValueError raised.
Layout(parts) ==
    LET n     == Len(parts)
        skips == {i \in 2..n - 1 : parts[i] = <<>>}
        skip  == CHOOSE i \in skips : TRUE
        hi    == IF parts[1] = <<>> THEN skip - 2 ELSE skip - 1
        lo    == IF parts[n] = <<>> THEN n - skip - 1 ELSE n - skip
    IN  CASE Cardinality(skips) > 1            -> AddressValueError
          [] skips = {} /\ n # HextetCount     -> AddressValueError
          [] skips = {}                         -> [hi |-> n, lo |-> 0, skipped |-> 0]
          [] parts[1] = <<>> /\ hi # 0          -> AddressValueError
          [] parts[n] = <<>> /\ lo # 0          -> AddressValueError
          [] HextetCount - (hi + lo) < 1        -> AddressValueError
          [] OTHER -> [hi |-> hi, lo |-> lo, skipped |-> HextetCount - (hi + lo)]

\* _BaseV6._ip_int_from_string (933-1010).
V6IntFromString(s) ==
    LET parts0 == Split(s, Colon)
        parts  == ExpandTail(parts0)
        lay    == Layout(parts)
        used   == [i \in 1..lay.hi |-> parts[i]]
                  \o [i \in 1..lay.lo |-> parts[Len(parts) - lay.lo + i]]
        hexts  == [i \in DOMAIN used |-> ParseHextet(used[i])]
    IN  CASE Len(parts0) < 3                                -> AddressValueError
          [] parts = AddressValueError                      -> AddressValueError
          [] Len(parts) > HextetCount + 1                   -> AddressValueError
          [] lay = AddressValueError                        -> AddressValueError
          [] \E i \in DOMAIN hexts : hexts[i] = ValueError  -> AddressValueError
          [] OTHER ->
               (Pack(SubSeq(hexts, 1, lay.hi), HextetBase) * HextetBase^lay.skipped)
                   * HextetBase^lay.lo
               + Pack(SubSeq(hexts, lay.hi + 1, Len(hexts)), HextetBase)

\* Mutant of BestZeroRun: `>=` keeps the last of equally long runs.
BestZeroRunLastTie(hs) ==
    LET step(st, i) ==
            IF hs[i] = HexPart(0)
            THEN LET len   == st.len + 1
                     start == IF st.start = -1 THEN i - 1 ELSE st.start
                 IN  IF len >= st.bestLen
                     THEN [start |-> start, len |-> len, bestStart |-> start, bestLen |-> len]
                     ELSE [st EXCEPT !.start = start, !.len = len]
            ELSE [st EXCEPT !.start = -1, !.len = 0]
    IN  FoldLeft(step, [start |-> -1, len |-> 0, bestStart |-> -1, bestLen |-> 0],
                 [i \in 1..Len(hs) |-> i])

\* _compress_hextets, the scan of lines 1051-1067: the start and length of
\* the first longest run of "0" hextets (0-based start, as in the code).
BestZeroRun(hs) ==
    LET step(st, i) ==
            IF hs[i] = HexPart(0)
            THEN LET len   == st.len + 1
                     start == IF st.start = -1 THEN i - 1 ELSE st.start
                 IN  IF len > st.bestLen
                     THEN [start |-> start, len |-> len, bestStart |-> start, bestLen |-> len]
                     ELSE [st EXCEPT !.start = start, !.len = len]
            ELSE [st EXCEPT !.start = -1, !.len = 0]
    IN  FoldLeft(step, [start |-> -1, len |-> 0, bestStart |-> -1, bestLen |-> 0],
                 [i \in 1..Len(hs) |-> i])

\* _compress_hextets, lines 1069-1080: the run becomes one empty part, and
\* an empty part is added at an end the run touches.
CompressHextets(hs) ==
    LET best == BestZeroRun(hs)
        bs   == best.bestStart
        be   == best.bestStart + best.bestLen
        hs1  == IF be = Len(hs) THEN Append(hs, <<>>) ELSE hs
        hs2  == SubSeq(hs1, 1, bs) \o <<<<>>>> \o SubSeq(hs1, be + 1, Len(hs1))
    IN  IF best.bestLen > 1
        THEN IF bs = 0 THEN <<<<>>>> \o hs2 ELSE hs2
        ELSE hs

\* The hextets of ip, most significant first, as '%x' writes them.
Hextets(ip) ==
    [i \in 1..HextetCount |->
        HexPart((ip \div HextetBase^(HextetCount - i)) % HextetBase)]

\* _BaseV6._string_from_ip_int (1082-1107).
V6StringFromInt(ip) ==
    IF ip > V6AllOnes THEN ValueError
    ELSE Join(CompressHextets(Hextets(ip)), Colon)

\* _BaseV6._explode_shorthand_ip_string of an address: str(self) parsed
\* back and written as HextetCount '%04x' hextets.
V6Explode(ip) ==
    LET back == V6IntFromString(V6StringFromInt(ip))
    IN  IF back = AddressValueError THEN AddressValueError
        ELSE Join(Hextets(back), Colon)

---------------------------------------------------------------------------
(* The constructors from strings and IPAddress.                            *)

Addr(version, ip) == [version |-> version, ip |-> ip]

\* The int 1 that IPAddress returns on failure, tagged apart from addresses.
Sentinel == [version |-> 0, ip |-> 1]

\* IPAddress(s) without a version: IPv4Address, then IPv6Address, each
\* failing with AddressValueError; the sentinel 1 when both fail.
IPAddressOf(s) ==
    LET v4 == V4IntFromString(s)
        v6 == V6IntFromString(s)
    IN  CASE v4 # AddressValueError -> Addr(4, v4)
          [] v6 # AddressValueError -> Addr(6, v6)
          [] OTHER                  -> Sentinel

\* `ip_address == 1` in the callers: _BaseIP.__eq__ reads other._ip, gets
\* AttributeError from an int and returns NotImplemented, so Python falls
\* back to identity and an address never equals 1.
IsSentinel(r) == r = Sentinel
=============================================================================
