# TLA+ models of gargoyle's address engine and access-control wrapper

This directory holds TLA+ modules, TLC configurations and the record
(`PROJECT.json`) of what they check, for the Python sources of
BayshoreNetworks/gargoyle:

* `src/utils/gargoyle_admin_wrapper.py` -- an embedded copy of ipaddr-py's
  address/network engine (lines 48-1337) followed by the administrative
  wrapper used by the UI and the CLI (lines 1341-1959);
* `src/status.py` -- the `status.py` CLI that prints the wrapper's results.

## 1. Inventory

### Components

| Component | Source | State | Operations |
|---|---|---|---|
| Address values (`_BaseIP`, `IPv4Address`, `IPv6Address`, `IPAddress`) | wrapper 82-165, 883-914, 1283-1337 | immutable `(version, _ip)` | construct from int / packed / string, `==`, `<`, `>`, `+n`, `-n`, `str`, `IPAddress` auto-detection (returns the sentinel `1` on failure) |
| Network values (`_BaseNet`) | wrapper 167-712 | `(version, _ip, _prefixlen)` plus a memo `_cache` of network / broadcast / hostmask | `network`, `broadcast`, `hostmask`, `numhosts`, `in` (`__contains__`), `overlaps`, `<`/`>`/`==`, `compare_networks`, `__getitem__`, `__iter__`, `iterhosts`, `iter_subnets`/`subnet`, `supernet`, `address_exclude`, prefix from netmask / hostmask / prefix string |
| Network constructor (`IPNetwork`, `IPv4Network`, `IPv6Network`) | **not in the repository** (called at 394, 642, 653, 660, 703, 821-875, 1156-1237) | -- | modelled from spec.md section 4.3 (`spec_modelled`) |
| IPv4 text (`_BaseV4`) | wrapper 715-876 | -- | `_ip_int_from_string`, `_parse_octet`, `_string_from_ip_int` |
| IPv6 text (`_BaseV6`) | wrapper 916-1279 | -- | `_ip_int_from_string` (with `::` and an embedded IPv4 tail), `_parse_hextet`, `_compress_hextets`, `_string_from_ip_int`, `_explode_shorthand_ip_string` |
| Classifier | wrapper 276-308, 812-875, 1147-1278 | -- | `is_private`, `is_loopback`, ..., `ipv4_mapped`, `teredo`, `sixtofour` |
| Port/config store | wrapper 1341-1449 | the file `.gargoyle_config` (`key:value` lines) | `list_of_ports`, `is_there_conflict`, `get_current_config`, `set_config` |
| Access-control workflow | wrapper 1451-1796 | SQLite tables `hosts_table`, `detected_hosts`, `black_ip_list`, `ignore_ip_list`; the iptables chain | `unblock_ip`, `add_to_white_list`, `remove_from_white_list`, `add_to_black_list`, `remove_from_black_list`, `get_current_white_list`, `get_current_black_list` |
| External gargoyle programs | not in the repository (`gargoyle_pscand_unblockip`, `..._remove_from_whitelist`, `..._remove_from_blacklist`, the `gargoyle_pscand` daemon) | same tables / iptables | invoked synchronously with `call`; modelled from the source's comments |
| Schedule reporting | wrapper 1801-1959 | reads syslog, `service status`, iptables | `get_current_from_iptables`, `blocked_time`, `daemon_stats` (period arithmetic with 900 s / 43200 s) |
| CLI | `src/status.py` | -- | flag selection and printing |

### How they interact

Raw strings go through `IPAddress` (IPv4 first, then IPv6) before the
workflow touches the database: every workflow entry point returns 1 when
`IPAddress` returns its sentinel `1`. The workflow functions call each other
(`add_to_white_list` calls `remove_from_black_list` and `unblock_ip`;
`add_to_black_list` calls `unblock_ip` and `remove_from_white_list`) and
synchronously call external programs through `sudo`. Per the comment at
wrapper 1620-1621, `gargoyle_pscand_unblockip` itself inserts the host into
`ignore_ip_list`. The daemon `gargoyle_pscand` writes the same tables
concurrently (it detects and blocks hosts); each wrapper query runs in its
own `with table:` transaction, so a wrapper operation is a sequence of
separate transactions interleaved with the daemon.

`status.py` calls `daemon_stats`, then `blocked_time` and the two list
functions inside one `try`, then prints the sections its flags select.
`blocked_time` calls `get_current_from_iptables` and `daemon_stats` again.
It reads `lockout_time` from the file `set_config` last wrote, and then walks
the blocked hosts, carrying its locals from one host to the next.

Inside the engine, `_BaseNet` builds everything from `network`/`broadcast`
(masks of `_ip`), `__contains__` and `iter_subnets`; `address_exclude` is a
loop over `subnet()`; `supernet`, `masked` and `iter_subnets` build new
networks through the (missing) `IPNetwork` constructor from strings
`"addr/prefix"`.

### What is hard

* `address_exclude` (344-420): a bisection loop whose correctness (the two
  `assert True == False` branches are unreachable, the loop ends within
  `width` rounds, the result is exactly `self - other`, minimal and sorted)
  depends on `iter_subnets` and `__contains__` being exact at every boundary.
* `iter_subnets` (596-656): a loop stepping by `broadcast + 1` that stops
  on `broadcast == self.broadcast`; argument checks in a specific order,
  with the single-host case returning before any check.
* mask and index arithmetic at the edges: `_prefix_from_ip_int` on the
  all-zeros/all-ones masks, `__getitem__` with negative indices, the
  all-ones address (`broadcast + 1` leaves the address space).
* IPv6 text: `::` placement, the IPv4 tail, the `parts_skipped < 1`
  check, and compression choosing the first longest zero run.
* The workflow: multi-step sequences of separate transactions and external
  commands, interleaved with the daemon; exit codes of external programs
  are ignored; a variable (`tstamp`) is read on a path that never assigned it.
* `blocked_time`: loop-carried locals, a `while` loop over 43200 s steps,
  and a value read from a file another program rewrites; `status.py`'s
  `except` leaves names unbound.
* `set_config`: a read-modify-write of the config file that writes back only
  the keys just set.

### Correctness properties per component

* Network algebra: `subnet` partitions the parent into aligned, ascending,
  equal blocks; `supernet` contains its receiver (it does not for a negative
  `prefixlen_diff`); `__getitem__` agrees with
  iteration, including negative indices; `<`, `==`, `compare_networks` and
  the sort key agree; a mask string yields a prefix exactly when it is a
  netmask or hostmask; `iterhosts` is `__iter__` without its two ends.
* Address values: the six comparisons are the integer order within a
  version and raise across versions (spec.md 4.2); `a + n` and `a - n` keep
  the version and raise rather than wrap; values that compare equal hash
  equally.
* `address_exclude`: refines an atomic abstract exclusion, which under
  weak fairness returns the minimal CIDR cover of `self - other` or raises.
  So it never stops at its assertions and always terminates. The list it
  returns is also sorted.
* IPv6/IPv4 text: parse(compress(x)) = x; parse accepts exactly the
  grammar of spec.md 4.1; compression picks the first longest zero run.
* Workflow: a host is never both white- and black-listed after an operation
  returns; a black-listed host is not unblocked by `unblock_ip`; every
  operation that returns 0 ran to completion.
* Config: `set_config` never loses keys it was not asked to change.

## 2. Plan

Order (most important behaviour first):

1. `IPNet` -- the version-parametric `_BaseNet` algebra as operators
   (masks, containment, ordering, `iter_subnets`, `supernet`,
   `__getitem__`, prefix from mask), with both versions present and the
   widths as CONSTANTS (`W4`, `W6` scaled down from 32/128: every operator
   of `_BaseNet` uses only `_max_prefixlen` and `_ALL_ONES`).
2. `AddressExclude` + `AbstractExclude` + `MCAddressExclude` -- the
   exclusion loop as a state machine, refining the atomic abstract exclusion.
3. `NetworkCalls` + `MCNetworkCalls` -- a caller walking the CIDR tree
   with `subnet`, `supernet`, `[]`, comparisons and mask parsing.
4. `IPv6Text` / `IPv4Text` -- the tokenised parsers and the compressor,
   round trip and grammar checks (tokens instead of characters).
5. `AccessControl` + MC -- the whitelist/blacklist workflow as steps of
   separate transactions and external programs, interleaved with the
   daemon; a crash between steps; violation run for the unbound `tstamp`.
6. `ConfigStore` -- `set_config`'s read-modify-write (violation run for
   dropped keys).
7. `Schedule` -- the 900 s / 43200 s period arithmetic of `daemon_stats`
   and `blocked_time`.

Not planned at first: the classifier predicates, which are constant range
tables at full width and so beyond TLC's integers. They were added later,
with 128-bit values written as 16-bit limbs (module `Classifier`). Packing
(`struct`) and CLI printing remain unplanned.

Status: every item is built and checked. Item 4 became `IPText` /
`IPTextCalls`. Item 7 became `StatusReport`, which also models
`status.py` and composes with `ConfigStore`, because `blocked_time` reads
`lockout_time` from the configuration file.

## 3. Modules

| Module | Models | State / actions |
|---|---|---|
| `IPNet` | `_BaseNet`, `_BaseIP`, the integer constructors, `_prefix_from_*` (wrapper 82-712, 883-900, 1283-1324) | Pure operators. A network is `[version, ip, prefixlen]`; an address is `[version, ip]`. The comparisons of both classes also take an operand of the other class, as the code does (`IsNet` stands for `isinstance` and for the `AttributeError` of `other.network`). A hash is a tagged value: `[int]` for `_BaseNet.__hash__`, `[hex]` for the hash of `hex(_ip)`. `W4`/`W6` are the widths (32/128 scaled). `SubnetsFrom` is the recursive `iter_subnets` loop. `IPNetwork` and `Netmask` are modelled from spec.md, since the constructor is not in the repository. Exceptions are model values. |
| `AbstractExclude` | what `address_exclude` promises | `outcome` goes from `pending` to the sorted maximal blocks of `self - other`, or to the exception. |
| `AddressExclude` | `address_exclude` (344-420) | `self, other, s1, s2, ret_addrs, pc`. Actions: `Enter` (checks, re-normalisation, first `subnet()`), `LoopRound` (one round of the `while`), `Finish` (exit, sort). `Abs` is the refinement mapping to `AbstractExclude`. |
| `NetworkCalls` | the methods of `_BaseNet` and `_BaseIP` | `net, call`. One action per method or group of operators: `subnet`, `supernet`, `[]`, `iterhosts`, `masked`, the six comparisons with `compare_networks` and `__hash__` (against a network, and against an address), `overlaps`, prefix from a mask and from a prefix text; and, on an address of `net`, the six comparisons with `__hash__` against every address and network, and `+`/`-` with a small int. Arguments include the values one past each legal end. |
| `AccessControl` | `unblock_ip`, `add_to/remove_from_white/black_list` (1451-1799) | `hosts, detected, white, black` are the SQLite tables. `pc, arg, det, tstamp` are the call's locals. `ret` is the last result. Each `with table:` block is one action (`AWDetect` ... `AWLog`, `ABDetect` ... `ABLog`). The external `gargoyle_pscand_*` programs run inside the calling step. The daemon (`DaemonDetect`, `DaemonRelease`) interleaves between any two steps. `Crash` kills the call between steps. A reader models `status.py` 96-97: `get_current_white_list` and then `get_current_black_list` (1517-1550, 1660-1693). Its variables are `rpc, rsnap, rdone, rout, rwhite`. `RSelectWhite` and `RSelectBlack` each SELECT a list table in one step. `RLookup` looks up one `host_ix` in `hosts_table`, and a host without a row is left out. `RReturn` ends the read. The history variable `moved` collects the hosts of administrator calls that were running or started between the reader's first SELECT and its return. |
| `ConfigStore` | `list_of_ports`, `is_there_conflict`, `get_current_config`, `set_config` (1341-1449) | `file` maps each of the four UI keys (`ports_to_ignore`, `hot_ports`, `enforce`, `lockout_time`) to a value; `ret` is the last result. A value string is a sequence of part tokens (number, range `a-b`, alphabetic word, mixed word like `8a`). `KeyVals(k)` is the set of strings the UI may send for key `k`. `SetConfig` is the call up to `open(config_file, 'w')`: it reads the file, does the conflict test, runs the key loop in any order, and truncates the file, keeping what it will write in `pending`. `SetConfigClose` is `file.close()`, when the buffered lines reach the disk. Readers see `OnDisk`, which is empty in between. |
| `IPText` | `_BaseV4` / `_BaseV6` text conversions and `IPAddress` (715-1132, 1313-1337) | Pure operators over strings. A string is a sequence of separators (`:`, `.`) and words. A word is abstracted to its kind: a hex or decimal number with its value, a decimal with a leading zero, a too-long decimal, or junk. `Layout` is the `::` bookkeeping of `_ip_int_from_string`. `BestZeroRun` is the scan of `_compress_hextets`. `IPAddressOf` tries IPv4, then IPv6, and falls back to the sentinel. |
| `IPTextCalls` | a caller of `IPAddress`, `str` and `exploded` | `call`. Each behaviour is one call. Its inputs are every arrangement of separators and words up to one part past the longest legal form. The properties compare each result with a grammar and an RFC 5952 canonical form, both written independently of the parsers. Two more actions cover the classifier. `CallClassify` classifies a full-width address or network from the probe sets. `CallClassifyEmbedded` classifies an IPv6 address that carries IPv4 addresses in the ::ffff:a, 2002:a:: or Teredo layout. |
| `Classifier` | `is_private`, `is_reserved`, `is_multicast`, `is_unspecified`, `is_loopback`, `is_link_local`, `is_site_local`, `ipv4_mapped`, `teredo`, `sixtofour` of `_BaseV4` / `_BaseV6` (812-875, 1147-1278), with the `__contains__`, `network` and `broadcast` they call (276-308) | Pure operators at the real widths. A value is a sequence of 16-bit limbs, most significant first: 2 for IPv4, 8 for IPv6. `LimbLt` is integer order, and `NetworkOf` / `BroadcastOf` mask limb by limb. `InBlock` is `__contains__`, for an address or a network on the right. `V4Block` / `V6Block` build the literal `IPvXNetwork('...')` blocks directly, without parsing their text. `Classify` collects every property of one object. |
| `StatusReport` | `status.py` `main`, `daemon_stats`, `get_current_from_iptables`, `blocked_time` (wrapper 1801-1959), composed with `ConfigStore` | `pc` is where `status.py` is. `args` are its flags and `stats` what `daemon_stats` returned. `db` holds, per blocked host, the `hosts_table` row, the detection time and black-listing. `todo, bt, nmr, lock, cur, out` are `blocked_time`'s locals and result. `raised` records that `blocked_time` raised into the `try`. The actions are `StatusStart` (lines 69-92), `BtStart` (1850-1864), one action per branch of the per-host `if`/`elif`/`else` (`BtHostSkip`, `BtHostBlack`, `BtHostTypeError`, `BtHostReport`, `BtHostWrap`), one round of the `while` loop (`BtWrap`, `BtWrapDone`), then `BtDone` and `Display`. `BtStart` makes its own `daemon_stats` call at a time from `LaterTimes`, with the syslog line of any monitor run since the first call. `ConfigCall` is the UI calling `set_config` / `get_current_config` between runs, and a `set_config` whose truncation `BtStart` may read. |

Each `MC*` module fixes the constants for TLC.

## 4. Runs

| Run | Checks | Result |
|---|---|---|
| `exclude` | `TypeOK`, `ReturnedSorted`, `RefinesAbstractExclude`, over every pair of networks of a 3-bit and a 4-bit space | pass: every call implements the atomic exclusion. `AbstractExclude` has no assertion or unpacking outcome, and its `Spec` carries weak fairness, so the refinement also shows that the asserts and the unpacking error are unreachable and that the loop ends. The result is the minimal cover of `self - other`, sorted |
| `netcalls` | `SubnetPartition`, `SupernetOfNonNegativeDiff`, `GetItemMatchesIteration`, `OrderingConsistent`, `OverlapsIsIntersection`, `MaskPrefixExact`, `AddressOrderConsistent`, `HashRespectsEq`, `AddressArithmeticExact`, `IterHostsExact`, over all networks and addresses of widths 4 and 5 | pass. Address `+`/`-` never wraps or changes version, including at 0 and the all-ones address. `iterhosts` is empty for /w and /w-1. Two networks or two addresses that are `==` have equal hashes. Not checked: an address and a network compare `==` when the address is the network address, yet their hashes differ (see `PROJECT.json` hazards) |
| `access` | `WhiteBlackDisjoint`, `WhiteListCallEffect`, `BlackListCallEffect`, `DisplayOverlapNeedsCall`, with two hosts, the daemon, crashes and the `status.py` reader | pass, when the external programs always do their job. The two lists `status.py` shows are not one snapshot, and a host can appear on both. `DisplayOverlapNeedsCall` shows this happens only when an administrator's call for that host ran between the reads. Without that condition the property fails: a call already running when the reader starts moves the host after the white-list read. |
| `whitelist_tstamp` | `NoUnboundTstamp` | violation: `add_to_white_list` of a detected host in `hosts_table` reaches line 1641 with `tstamp` unbound (code bug) |
| `whitelist_race` | `WhitelistedNotBlocked` | violation: the daemon blocks the host between line 1599 and 1638, leaving it whitelisted but blocked (spec gap) |
| `exit_codes` | `BlackListCallEffect` with `ProgramsMayFail = TRUE` | violation: the exit status of `call()` is ignored, so `add_to_black_list` returns 0 with the host still whitelisted (code bug, 1652) |
| `config_keys` | `KeysPreserved` | violation: a successful `set_config` erases every key not in its dictionary (code bug, 1442) |
| `config_readable` | `ConfigStaysReadable` | violation: `set_config` stores `8a`; `get_current_config` then raises on `int('8a')` (code bug, 1431/1402) |
| `iptext` | `TypeOK`, `IPAddressExact`, `V6StrCanonical`, `TextRoundTrip`, `ClassifyMatchesTable`, `EmbeddedV4RoundTrip` | pass: `IPAddress` accepts exactly the dotted quads and IPv6 texts, with their values, and returns the sentinel otherwise; `str()` of an IPv6 address is the RFC 5952 form, including ties between zero runs; `str()` and `exploded` read back as the same address. `ClassifyMatchesTable`: for an address, every predicate holds exactly on its ranges of spec.md 4.5. It follows that the fifteen `is_reserved` literals tile the reserved space. A network is classified only if all of its addresses are in the ranges, because `__contains__` compares both ends. `EmbeddedV4RoundTrip`: `ipv4_mapped`, `sixtofour` and `teredo` recover the embedded IPv4 addresses, with the Teredo client inverted back, and give None for the other layouts. |
| `reporting` | `TypeOK`, `NoStoredConflict`, `DaemonNextRunsExact`, `ReleaseNotBeforeLockout`, `Termination`, with the UI's configuration calls between runs of `status.py`, a `set_config` straddling `blocked_time`'s read, and the clock moving between the two `daemon_stats` calls | pass: the stored port lists never overlap; the next runs are the first scheduled runs not yet past; no detected, non-black-listed host is reported released before its lockout is over or at a time the monitor does not run; every `status.py` run ends |
| `report_carryover` | `ReportPerHostExact` | violation: a host without a `detected_hosts` row is reported with the previous host's detection time (1867/1881), and `next_monitor_run` advanced for one host carries to the next (1901) (code bug) |
| `status_crash` | `StatusNeverCrashes` | violation: `status.py` catches what `blocked_time` raises, only prints it, then crashes with NameError on the unbound `blockedIps` (status.py 105). TLC's shortest trace: the service stops after `status.py`'s own `daemon_stats` call, so `blocked_time`'s second call (1855) returns no `next_monitor` and 1856 raises KeyError. The same check, rerun with the service kept running, crashes through a file that a `set_config` in progress has truncated (1439, ValueError at 1858). Rerun with the file read only between saves as well, it crashes through a saved dictionary without `lockout_time` (KeyError at 1858). (code bug) |

Two earlier violation runs were retired, because the project keeps at most
twelve runs. Their results still stand:

* `supernet(-1)` returns a network with a longer prefix that does not
  contain the receiver (699). Only `prefixlen - prefixlen_diff < 0` is
  rejected.
* `set_config` of a dictionary with `hot_ports` but without
  `ports_to_ignore` raises KeyError (1419). The test
  `'ports_to_ignore' and 'hot_ports' in data.keys()` tests only `hot_ports`.
  `SetConfig` still models this path.

The pass run `config` was folded into `reporting`, which checks
`NoStoredConflict` on the same store.

Every property of a passing run has a mutant in `PROJECT.json`. A mutant is
a plausible bug in the mapped definition, and TLC finds the property
violated under the mutant.

## 5. Bounds

* Widths 3/4 (`exclude`) and 4/5 (`netcalls`). Every `_BaseNet` operator
  depends on the width only through `_max_prefixlen` and `_ALL_ONES`. These
  widths cover prefixes 0, 1, middle, max-1 and max; the all-ones address;
  both versions; and differing widths. Every pair and every argument one past
  each end is enumerated. The address receiver ranges over the addresses
  of `net`, so over all networks it takes every address; the offsets are
  -2..2, which cross both ends of the address space.
* Two hosts in `access`. That is enough for one host to be the call's
  argument while the daemon acts on the other. `Bad` is the string
  `IPAddress()` rejects. The hosts are symmetric (`Permutations`), because
  no action distinguishes them.
* `MaxPort = 2` in the `config_*` runs. The port lists take `0`, `1`,
  `MaxPort + 1`, a range, a list, an alphabetic word and a mixed word.
  `enforce` takes 1, a number other than 0 and 1, and a range.
  `lockout_time` takes a number and a range. Together these reach every
  branch of `list_of_ports` and of the `set_config` loop.
* `iptext`: `OctetMax = 1` (two octet values) and `HextetCount = 5`. Five
  hextets are the fewest that allow two zero runs of equal length with a
  non-zero hextet between them, so ties occur in `_compress_hextets`. They
  also allow `::` at either end and in the middle, and an IPv4 tail.
  Inputs reach one part past the longest legal form, and every word kind
  the parsers reject.
  The classifier probes are full width. Every range in the table is a block
  of at most 16 bits, so a predicate depends only on the top limb. An
  interval test that is wrong at all is wrong at an end of a reference
  interval or just beside one. The probes therefore take the top limb at
  both ends of every /8 (IPv4) and every /10 (IPv6). For the narrower IPv4
  blocks they take 172.15, 172.16, 172.31 and 172.32 (the ends of
  172.16/12 and the /16 beside each), and 192.167-192.169 and
  169.253-169.255. So each of the 192.168/16 and 169.254/16 blocks is
  probed inside and on both sides. The low bits are 0, 1 or all ones.
  Dropping the 192.168 block from `is_private`, or making `is_link_local`
  always False, is caught.
  Probe networks have every prefix from /1 to /10 (IPv6) and prefixes just
  wider than, equal to and narrower than each IPv4 block, plus ::/128,
  ::1/128 and ::/127.
  Changing one reserved literal, for example A000::/3 to /4, is caught at
  0xB000::.
* `reporting`, `report_carryover`, `status_crash`: two blocked hosts.
  That is the fewest for one host's locals to reach the next. The times
  are scaled: monitor period 3 (43200 s), analysis period 1 (900 s).
  The service starts at 0, syslog may hold a run at 2, and `status.py`
  runs at 5; `blocked_time` calls `daemon_stats` at 5 or at 7, so a
  monitor run (at 5 or 6) can fall between the two calls. So the next run is computed both from the start time and from
  syslog, and once it falls exactly on the current time (the `<` of the
  `while`). Detection times are 1 and 4, and `lockout_time` is 4, so one
  host is reported at the next monitor run and the other only after the
  `while` loop has advanced it. `MaxPort = 1` with the port values `0`, `1`
  and `0-1` leaves both a disjoint pair and an overlapping pair, which the
  conflict test must refuse. Each configuration key takes at least one
  value that `set_config` or `get_current_config` rejects.

## 6. Fairness

* `AddressExclude` has `WF_vars(Next)`. The call is one thread with no
  suspension point, so its next statement always runs. That justifies
  the weak fairness of `AbstractExclude`'s `Spec`, which
  `RefinesAbstractExclude` checks.
* `StatusReport` has `WF_allvars(StatusSteps)`, on the steps of a started
  `status.py` run only. The run is one sequential process that waits on
  nothing the model leaves out, so once started it keeps stepping. That
  justifies `Termination`. The UI's configuration calls and the start of a
  new run are not fair: nobody has to use the UI or run `status.py`.
* The other specifications have no fairness. The administrator may stop
  calling at any time, the daemon is driven by network traffic, and their
  properties are all safety properties.

## 7. Not modelled

* One administrator at a time. The UI and the command-line tools are run
  by one administrator, and nothing in the code serialises two of them.
  So `AccessControl` has one administrator's call at a time. `UnblockIp`
  takes the SELECTs, the `gargoyle_pscand_unblockip` call and the DELETEs
  of `unblock_ip` (1460-1493) as one step. `Start` takes the first
  `with table:` block of each list call (for example 1580-1592) as one
  step. The daemon and the `status.py` reader still interleave between
  any two steps. Two administrators racing each other inside one of these
  blocks are not modelled.
* `IPv4Network` and `IPv6Network` are not defined or imported anywhere in
  the repository. Every classifier predicate (`is_private`, `is_reserved`,
  `is_multicast`, `is_unspecified`, `is_loopback`, `is_link_local`,
  `is_site_local`, lines 821-875 and 1156-1237) builds one, so as the code
  stands each of them raises NameError. `Classifier` models what they
  compute once the constructors exist with the behaviour of spec.md 4.3.
  It does not model the NameError.
* spec.md 4.5 says `is_reserved` for IPv6 is the union of 14 listed blocks.
  The code lists 15 (1167-1181). The model follows the code, and the run
  checks the union against the reserved ranges of the table.

* The classifier's literal blocks are built directly, not parsed from their
  `IPvXNetwork('...')` text, because the constructors are not in the
  repository. For networks, `ClassifyMatchesTable` claims only soundness.
  The converse fails for a network spanning two reserved blocks: ::/7 is
  reserved throughout, yet `is_reserved` is False for it. Nothing in the
  code or spec.md promises the converse.
* Packing (`struct`), the parsing of syslog and `service status` output,
  and the printing of `status.py` are pure I/O and formatting. `status.py`'s
  display is reduced to which sections it shows and whether it crashes.
* Times are integers. `blocked_time` reads `next_monitor` back through
  `strptime(...).strftime("%s")`, and so do `daemon_stats`' fallbacks from
  the `Active:` line. These give the same instant as the `localtime`
  string they parse, except in the hour repeated when daylight saving time
  ends, which the model does not represent.
* The UI's `set_config` starts while `status.py` is idle or about to read
  the file (`bt_start`), and `get_current_config` runs while it is idle.
  That loses nothing, because of `status.py` only `BtStart` reads the file:
  a whole call at another point acts as one before or after that read.
  The file object's buffer is taken to hold all lines until `close()`. The
  file is a few short lines, far below the buffer size, so a reader sees
  either the old file, an empty one, or the new one.
* The daemon's monitor process is taken to run on its schedule, so a
  syslog line written between the two `daemon_stats` calls is a whole
  number of periods after the previous one.
* The network/address mixed `==` and `hash()` disagreement is modelled
  (the calls record both), but no run checks it. It is a known failure and
  would need a run of its own, expected to fail.
* `with_prefixlen`, `with_netmask`, `with_hostmask`, `__str__`, `__repr__`,
  `exploded`, `compressed`, `packed` and the construction from `Bytes` only
  format or unpack; the text forms that matter are in `IPText`.
* `packed` (lines 806 and 1141) calls `v4_int_to_packed` and
  `v6_int_to_packed`. Neither is defined or imported anywhere in the
  repository, so the property raises NameError for every address, although
  spec.md section 6 lists packed binary among the outputs. A unit test
  shows this at once, so no model checks it.
* `get_current_white_list` and `get_current_black_list` are assumed to
  succeed inside `status.py`'s `try` (`StatusReport`). Their failures are
  SQLite errors and a `TypeError` leaving `white_listed_entries` unbound.
  `get_db` only builds the database path from `GARGOYLE_DB` or the working
  directory, and is not modelled. Timestamps are dropped from the lists.
* A missing `GARGOYLE_DB` in `status.py` ends the run (`exited`). The
  handler at line 91 refers to an unbound `er`, so the run ends with a
  NameError traceback instead of the intended message and `exit(1)`. Either
  way the process stops with status 1.
* `ConfigStore` leaves out a missing config file (IOError), the
  `GARGOYLE_CONFIG` variable, keys other than the four the UI uses, and
  JSON numbers that are not strings.
* `AccessControl` treats a table as the set of hosts it has rows for.
  Timestamps and the iptables rules other than "host is blocked" are left
  out.
