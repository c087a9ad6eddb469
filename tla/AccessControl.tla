---------------------------- MODULE AccessControl ----------------------------
(***************************************************************************)
(* The access-control workflow of gargoyle_admin_wrapper.py (1451-1799):   *)
(* an administrator's process calling add_to_white_list,                  *)
(* add_to_black_list, remove_from_white_list, remove_from_black_list and   *)
(* unblock_ip against the SQLite tables that the detection daemon          *)
(* gargoyle_pscand writes at the same time.                                *)
(*                                                                         *)
(* A table is the set of hosts that have a row in it (host_ix is the host *)
(* itself).  Each `with table:` block is one step; the external programs *)
(* run by call() finish inside the step that calls them.  The daemon and  *)
(* the external programs are not part of the repository: their effects   *)
(* are the ones the wrapper's comments rely on (line 1620: the unblock     *)
(* program inserts into ignore_ip_list).                                  *)
(*                                                                         *)
(* A reader (status.py 96-97) calls get_current_white_list and then       *)
(* get_current_black_list, each a SELECT of the list table followed by    *)
(* one hosts_table lookup per host_ix, interleaved with the other two.    *)
(***************************************************************************)
EXTENDS FiniteSets, TLC

CONSTANTS
    Hosts,            \* addresses IPAddress() accepts
    Bad,              \* a string IPAddress() rejects (it returns 1)
    ProgramsMayFail   \* whether a gargoyle_pscand_* program may exit without effect

ASSUME Bad \notin Hosts /\ ProgramsMayFail \in BOOLEAN

VARIABLES
    hosts,      \* hosts_table
    detected,   \* detected_hosts: hosts the daemon currently blocks in iptables
    white,      \* ignore_ip_list
    black,      \* black_ip_list
    pc,         \* where the administrator's call is
    arg,        \* its ip_addr
    det,        \* detected_host_ix read by add_to_white_list / add_to_black_list
    tstamp,     \* whether the local tstamp of add_to_white_list is bound
    ret,        \* [op, host, code, exc] of the last call that ended
    rpc,        \* where the reader is
    rsnap,      \* the list rows its last SELECT fetched (host_ix_list)
    rdone,      \* the host_ix it has looked up in hosts_table since
    rout,       \* the hosts found so far (white_listed_ips / black_listed_ips)
    rwhite,     \* what its get_current_white_list returned
    moved       \* history: the hosts an administrator's call named while
                \* the reader was between its first SELECT and its return

tables == <<hosts, detected, white, black>>
locals == <<arg, det, tstamp>>
reader == <<rpc, rsnap, rdone, rout, rwhite, moved>>
vars   == <<tables, pc, locals, ret, reader>>

Ops   == {"add_white", "add_black", "rm_white", "rm_black", "unblock"}
Codes == {0, 1, 2}
Excs  == {"none", "UnboundLocalError", "killed"}

Init ==
    /\ hosts = {} /\ detected = {} /\ white = {} /\ black = {}
    /\ pc = "idle"
    /\ arg = Bad /\ det = FALSE /\ tstamp = FALSE
    /\ ret = [op |-> "none", host |-> Bad, code |-> 0, exc |-> "none"]
    /\ rpc = "idle" /\ rsnap = {} /\ rdone = {} /\ rout = {} /\ rwhite = {}
    /\ moved = {}

\* The call ends with a return code, or with exception exc.
Return(op, code, exc) ==
    /\ ret' = [op |-> op, host |-> arg, code |-> code, exc |-> exc]
    /\ pc' = "idle"

---------------------------------------------------------------------------
(* The external programs, run with call(); their exit codes are ignored.  *)

\* gargoyle_pscand_unblockip: drop the iptables rule and the detected_hosts
\* row, and insert the host into ignore_ip_list.
UnblockProgram(h) ==
    \/ /\ detected' = detected \ {h} /\ white' = white \cup {h}
       /\ UNCHANGED <<hosts, black>>
    \/ ProgramsMayFail /\ UNCHANGED tables

\* gargoyle_pscand_remove_from_whitelist
RemoveWhiteProgram(h) ==
    \/ white' = white \ {h} /\ UNCHANGED <<hosts, detected, black>>
    \/ ProgramsMayFail /\ UNCHANGED tables

\* gargoyle_pscand_remove_from_blacklist
RemoveBlackProgram(h) ==
    \/ black' = black \ {h} /\ UNCHANGED <<hosts, detected, white>>
    \/ ProgramsMayFail /\ UNCHANGED tables

---------------------------------------------------------------------------
(* The detection daemon: it blocks a host that is not whitelisted, and     *)
(* later releases it.                                                     *)

DaemonDetect ==
    \E h \in Hosts \ (white \cup detected) :
        /\ hosts' = hosts \cup {h} /\ detected' = detected \cup {h}
        /\ UNCHANGED <<white, black, pc, locals, ret>>

DaemonRelease ==
    \E h \in detected :
        /\ detected' = detected \ {h}
        /\ UNCHANGED <<hosts, white, black, pc, locals, ret>>

---------------------------------------------------------------------------
(* The administrator's calls.                                              *)

\* Mutant of UnblockIp: the black_ip_list check is missing.
UnblockIpNoBlackCheck(h) == UnblockProgram(h)

\* unblock_ip on a valid address: return 2 when the host is blacklisted,
\* otherwise run the unblock program (a host without a hosts_table row
\* skips the check).
UnblockIp(h) ==
    IF h \in hosts /\ h \in black THEN UNCHANGED tables ELSE UnblockProgram(h)

UnblockCode(h) == IF h \in hosts /\ h \in black THEN 2 ELSE 0

\* remove_from_white_list on a valid address: run the program, return 0.
RemoveFromWhiteList(a) ==
    /\ RemoveWhiteProgram(a)
    /\ ret' = [op |-> "rm_white", host |-> a, code |-> 0, exc |-> "none"]
    /\ UNCHANGED <<pc, det, tstamp>>

\* remove_from_black_list on a valid address: run the program, return 0.
RemoveFromBlackList(a) ==
    /\ RemoveBlackProgram(a)
    /\ ret' = [op |-> "rm_black", host |-> a, code |-> 0, exc |-> "none"]
    /\ UNCHANGED <<pc, det, tstamp>>

(***************************************************************************)
(* A call on a valid address starts.  The one-step calls run whole; the    *)
(* two add_to_* calls first look the host up in hosts_table and insert it  *)
(* when missing (lines 1580-1593 / 1723-1736), which is the only place     *)
(* add_to_white_list binds tstamp before its final branch.                 *)
(***************************************************************************)
Start(op, a) ==
    CASE op \in {"add_white", "add_black"} ->
            /\ hosts' = hosts \cup {a} /\ tstamp' = (a \notin hosts)
            /\ pc' = IF op = "add_white" THEN "aw_detect" ELSE "ab_detect"
            /\ UNCHANGED <<detected, white, black, det, ret>>
      [] op = "unblock" ->
            /\ UnblockIp(a)
            /\ ret' = [op |-> op, host |-> a, code |-> UnblockCode(a), exc |-> "none"]
            /\ UNCHANGED <<pc, det, tstamp>>
      [] op = "rm_white" -> RemoveFromWhiteList(a)
      [] op = "rm_black" -> RemoveFromBlackList(a)

\* Mutant of Call: the IPAddress() check is missing.
CallNoAddressCheck ==
    /\ pc = "idle"
    /\ \E op \in Ops, a \in Hosts \cup {Bad} : arg' = a /\ Start(op, a)

\* The administrator calls one of the five functions; IPAddress() returning
\* 1 for a rejected address makes the call return 1 at once.
Call ==
    /\ pc = "idle"
    /\ \E op \in Ops, a \in Hosts \cup {Bad} :
         /\ arg' = a
         /\ IF a = Bad
            THEN /\ ret' = [op |-> op, host |-> a, code |-> 1, exc |-> "none"]
                 /\ UNCHANGED <<tables, pc, det, tstamp>>
            ELSE Start(op, a)

\* add_to_white_list, lines 1595-1603: read detected_hosts.
AWDetect ==
    /\ pc = "aw_detect"
    /\ det' = (arg \in detected) /\ pc' = "aw_black"
    /\ UNCHANGED <<tables, arg, tstamp, ret>>

\* Mutant of AWBlack: the blacklisted host is not removed.
AWBlackNoRemove ==
    /\ pc = "aw_black"
    /\ pc' = "aw_branch"
    /\ UNCHANGED <<tables, locals, ret>>

\* Lines 1605-1615: a blacklisted host is removed from black_ip_list.
AWBlack ==
    /\ pc = "aw_black"
    /\ IF arg \in black THEN RemoveBlackProgram(arg) ELSE UNCHANGED tables
    /\ pc' = "aw_branch"
    /\ UNCHANGED <<locals, ret>>

\* Lines 1617-1638: a detected host is unblocked (the program whitelists
\* it); otherwise a missing ignore_ip_list row is inserted.  Both inner
\* branches of the else bind tstamp.
AWBranch ==
    /\ pc = "aw_branch"
    /\ IF det
       THEN UnblockIp(arg) /\ UNCHANGED tstamp
       ELSE /\ white' = white \cup {arg} /\ tstamp' = TRUE
            /\ UNCHANGED <<hosts, detected, black>>
    /\ pc' = "aw_log"
    /\ UNCHANGED <<arg, det, ret>>

\* Lines 1640-1643: the syslog line reads tstamp.
AWLog ==
    /\ pc = "aw_log"
    /\ Return("add_white", 0, IF tstamp THEN "none" ELSE "UnboundLocalError")
    /\ UNCHANGED <<tables, locals>>

\* add_to_black_list, lines 1738-1746: read detected_hosts.
ABDetect ==
    /\ pc = "ab_detect"
    /\ det' = (arg \in detected) /\ pc' = "ab_unblock"
    /\ UNCHANGED <<tables, arg, tstamp, ret>>

\* Lines 1748-1751: a detected host is unblocked first, which whitelists it.
ABUnblock ==
    /\ pc = "ab_unblock"
    /\ IF det THEN UnblockIp(arg) ELSE UNCHANGED tables
    /\ pc' = "ab_white"
    /\ UNCHANGED <<locals, ret>>

\* Mutant of ABWhite: a whitelisted host is not removed.
ABWhiteNoRemove ==
    /\ pc = "ab_white"
    /\ pc' = "ab_insert"
    /\ UNCHANGED <<tables, locals, ret>>

\* Lines 1753-1763: a whitelisted host is removed from ignore_ip_list.
ABWhite ==
    /\ pc = "ab_white"
    /\ IF arg \in white THEN RemoveWhiteProgram(arg) ELSE UNCHANGED tables
    /\ pc' = "ab_insert"
    /\ UNCHANGED <<locals, ret>>

\* Lines 1765-1776: a missing black_ip_list row is inserted.
ABInsert ==
    /\ pc = "ab_insert"
    /\ black' = black \cup {arg}
    /\ pc' = "ab_log"
    /\ UNCHANGED <<hosts, detected, white, locals, ret>>

\* Lines 1778-1781: tstamp is bound on both paths of line 1765.
ABLog ==
    /\ pc = "ab_log"
    /\ Return("add_black", 0, "none")
    /\ UNCHANGED <<tables, locals>>

\* The administrator's process is killed between two steps; every step
\* before it has been committed.
Crash ==
    /\ pc # "idle"
    /\ Return("crash", 0, "killed")
    /\ UNCHANGED <<tables, locals>>

---------------------------------------------------------------------------
(* The reader: status.py 96-97.  `with table:` makes each SELECT one step. *)

\* get_current_white_list, lines 1517-1537: SELECT * FROM ignore_ip_list.
\* A call of the administrator already running counts as one in between.
RSelectWhite ==
    /\ rpc = "idle"
    /\ rsnap' = white /\ rdone' = {} /\ rout' = {} /\ rpc' = "w_lookup"
    /\ moved' = IF pc # "idle" THEN {arg} ELSE {}
    /\ UNCHANGED rwhite

\* Lines 1539-1548 / 1682-1691: one host_ix looked up in hosts_table; a
\* host without a row is left out.
RLookup ==
    /\ rpc \in {"w_lookup", "b_lookup"}
    /\ \E h \in rsnap \ rdone :
         /\ rdone' = rdone \cup {h}
         /\ rout' = IF h \in hosts THEN rout \cup {h} ELSE rout
    /\ UNCHANGED <<rpc, rsnap, rwhite, moved>>

\* Mutant of RSelectBlack: the black list reads ignore_ip_list.
RSelectBlackWrongTable ==
    /\ rpc = "w_lookup" /\ rdone = rsnap
    /\ rwhite' = rout
    /\ rsnap' = white /\ rdone' = {} /\ rout' = {} /\ rpc' = "b_lookup"
    /\ UNCHANGED moved

\* get_current_white_list returns (1550); get_current_black_list, lines
\* 1660-1680: SELECT * FROM black_ip_list.
RSelectBlack ==
    /\ rpc = "w_lookup" /\ rdone = rsnap
    /\ rwhite' = rout
    /\ rsnap' = black /\ rdone' = {} /\ rout' = {} /\ rpc' = "b_lookup"
    /\ UNCHANGED moved

\* get_current_black_list returns (1693) and status.py shows rwhite and
\* rout; the reader's locals are gone.
RReturn ==
    /\ rpc = "b_lookup" /\ rdone = rsnap
    /\ rpc' = "idle"
    /\ rsnap' = {} /\ rdone' = {} /\ rout' = {} /\ rwhite' = {} /\ moved' = {}

ReaderStep == RSelectWhite \/ RLookup \/ RSelectBlack \/ RReturn

\* The steps of the administrator and of the daemon; a call starting while
\* the reader is between its SELECTs is recorded in the history.
Others ==
    \/ AWDetect \/ AWBlack \/ AWBranch \/ AWLog
    \/ ABDetect \/ ABUnblock \/ ABWhite \/ ABInsert \/ ABLog
    \/ Crash \/ DaemonDetect \/ DaemonRelease

Next ==
    \/ /\ Call
       /\ moved' = IF rpc # "idle" THEN moved \cup {arg'} ELSE moved
       /\ UNCHANGED <<rpc, rsnap, rdone, rout, rwhite>>
    \/ Others /\ UNCHANGED reader
    \/ ReaderStep /\ UNCHANGED <<tables, pc, locals, ret>>

Spec == Init /\ [][Next]_vars

---------------------------------------------------------------------------
TypeOK ==
    /\ hosts \subseteq Hosts /\ detected \subseteq hosts
    /\ white \subseteq Hosts /\ black \subseteq Hosts
    /\ pc \in {"idle", "aw_detect", "aw_black", "aw_branch", "aw_log",
               "ab_detect", "ab_unblock", "ab_white", "ab_insert", "ab_log"}
    /\ arg \in Hosts \cup {Bad} /\ det \in BOOLEAN /\ tstamp \in BOOLEAN
    /\ ret.code \in Codes /\ ret.exc \in Excs
    /\ rpc \in {"idle", "w_lookup", "b_lookup"}
    /\ rdone \subseteq rsnap /\ rout \subseteq rdone
    /\ rwhite \subseteq Hosts /\ moved \subseteq Hosts \cup {Bad}

(***************************************************************************)
(* No host is ever both whitelisted and blacklisted, whatever the daemon   *)
(* does and wherever the administrator's process is killed: add_to_black_  *)
(* list removes the ignore_ip_list row that its own unblock_ip call has    *)
(* just made, and unblock_ip refuses blacklisted hosts.                    *)
(***************************************************************************)
WhiteBlackDisjoint == white \cap black = {}

(***************************************************************************)
(* status.py reads the white list and then the black list, each in its own *)
(* transactions, so the two lists it shows are not one snapshot.  A host   *)
(* appears on both only if an administrator's call for that host ran       *)
(* between the reads.  The two tables never overlap, and each reader       *)
(* shows only rows of the table it selects from.                          *)
(***************************************************************************)
DisplayOverlapNeedsCall ==
    [][rpc = "b_lookup" /\ rpc' = "idle" => rwhite \cap rout \subseteq moved]_vars

(***************************************************************************)
(* When add_to_white_list returns 0 the host is whitelisted and not        *)
(* blacklisted: the blacklist row is removed before unblock_ip, which      *)
(* would otherwise refuse the host.                                        *)
(***************************************************************************)
WhiteListCallEffect ==
    pc = "idle" /\ ret.op = "add_white"
        /\ ret.code = 0 /\ ret.exc = "none" =>
        ret.host \in white /\ ret.host \notin black

(***************************************************************************)
(* When add_to_black_list returns 0 the host is blacklisted and not        *)
(* whitelisted.                                                           *)
(***************************************************************************)
BlackListCallEffect ==
    pc = "idle" /\ ret.op = "add_black"
        /\ ret.code = 0 /\ ret.exc = "none" =>
        ret.host \in black /\ ret.host \notin white

(***************************************************************************)
(* add_to_white_list never fails on its final syslog line (1641) with an   *)
(* unbound tstamp.                                                         *)
(***************************************************************************)
NoUnboundTstamp == ret.exc # "UnboundLocalError"

(***************************************************************************)
(* A whitelisted host is not blocked: the comment at 1552 says a detected  *)
(* host is unblocked before it is whitelisted.                             *)
(***************************************************************************)
WhitelistedNotBlocked == white \cap detected = {}
=============================================================================
