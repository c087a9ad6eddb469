---------------------------- MODULE StatusReport ----------------------------
(***************************************************************************)
(* status.py and the two wrapper functions it reports from: daemon_stats  *)
(* (wrapper 1906-1959), which computes the next analysis and monitor runs *)
(* from the last ones in syslog, and blocked_time (1848-1904), which walks *)
(* the DROP rules of the iptables chain and tells, per blocked host, when  *)
(* it was blocked and when the monitor process will release it.            *)
(* blocked_time reads lockout_time from the configuration file, so the     *)
(* module composes with the configuration store: the UI may call           *)
(* set_config and get_current_config between two runs of status.py.       *)
(*                                                                         *)
(* Times are integers: MonitorPeriod stands for 43200 s and                *)
(* AnalysisPeriod for 900 s.  The local-time strings written by strftime   *)
(* and read back by strptime are the same instants (see README).  The      *)
(* value 0 stands for Python's None where the code tests truthiness.       *)
(***************************************************************************)
EXTENDS ConfigStore, TLC

CONSTANTS
    Hosts,           \* the hosts with a DROP rule in GARGOYLE_Input_Chain
    MonitorPeriod,   \* 43200, scaled
    AnalysisPeriod,  \* 900, scaled
    Started,         \* the start time in the service's `Active:` line
    Now,             \* time.localtime() when status.py calls daemon_stats
    LaterTimes,      \* time.localtime() when blocked_time calls it again
    SyslogTimes,     \* the `... process commencing at <t>` times syslog may hold
    DetectTimes,     \* detected_hosts.timestamp values
    ArgSets,         \* the sets of command-line flags tried
    NoHost           \* no host

VARIABLES
    pc,      \* where status.py is
    args,    \* its flags
    stats,   \* what daemon_stats returned
    db,      \* per host: a hosts_table row (ix), its detection time, black-listed
    todo,    \* hosts blocked_time has still to visit
    bt,      \* blocked_time's local blocked_time
    nmr,     \* blocked_time's local next_monitor_run
    lock,    \* blocked_time's local lockout_time
    cur,     \* the host of the current while loop
    out,     \* blocked_timestamps
    raised   \* blocked_time raised into status.py's try

svars == <<pc, args, stats, db, todo, bt, nmr, lock, cur, out, raised>>
allvars == <<file, pending, ret, pc, args, stats, db, todo, bt, nmr, lock, cur, out, raised>>

Final == {"shown", "exited", "crashed"}
Rows == {r \in [ix : BOOLEAN, ts : {0} \cup DetectTimes, black : BOOLEAN] :
            r.ts # 0 => r.ix}
NoOut == [h \in {} |-> 0]

\* Mutant of NextRunLoop: `while next <= current_time`.
RECURSIVE NextRunLoopLe(_, _, _)
NextRunLoopLe(n, p, now) == IF n <= now THEN NextRunLoopLe(n + p, p, now) ELSE n

\* while next < current_time: next += period
RECURSIVE NextRunLoop(_, _, _)
NextRunLoop(n, p, now) == IF n < now THEN NextRunLoop(n + p, p, now) ELSE n

(***************************************************************************)
(* daemon_stats: when the service runs, the last runs come from syslog or, *)
(* when grep finds none (0 here), from the start time in `Active:`; the    *)
(* next runs are one period later, moved forward to the current time.      *)
(***************************************************************************)
DaemonStats(running, lastMon, lastAn, now) ==
    LET lm == IF lastMon = 0 THEN Started ELSE lastMon
        la == IF lastAn = 0 THEN Started ELSE lastAn
    IN  IF ~running THEN [running |-> FALSE]
        ELSE [running |-> TRUE, last_monitor |-> lm, last_analysis |-> la,
              next_monitor |-> NextRunLoop(lm + MonitorPeriod, MonitorPeriod, now),
              next_analysis |-> NextRunLoop(la + AnalysisPeriod, AnalysisPeriod, now)]

\* The last `monitor process commencing at` line syslog holds at time t,
\* when it held last at an earlier call: the same line, or a run of the
\* monitor process since, one or more periods later.
SyslogMonitorAt(last, t) ==
    {last} \cup ({last + k * MonitorPeriod : k \in 1..t} \cap 0..t)

\* get_current_from_iptables: the hosts of the chain's DROP rules, as the
\* keys of its dictionary (blocked_time does not use the first_seen and
\* last_seen values it pairs with them).
GetCurrentFromIptables == Hosts

\* json.loads of a stored value: an int, or the string itself when it holds
\* ',' or '-'.
LockoutValue(v) == [str |-> HasSep(v), n |-> IF HasSep(v) THEN 0 ELSE v[1].n]
NoLock == [str |-> FALSE, n |-> 0]

\* The sections status.py prints that use blocked_time's and the list
\* functions' results: all of them when no flag or --all is given.
UsesLists(a) == a = {} \/ a \cap {"blocked", "whitelist", "blacklist", "all"} # {}

---------------------------------------------------------------------------
(***************************************************************************)
(* status.py main up to the try (69-92): daemon_stats, then exit(1) for a  *)
(* non-root user; nothing more when the service is not running; a missing  *)
(* GARGOYLE_DB ends the program too (the handler's `er` is unbound, so a   *)
(* NameError replaces its exit(1)).  Syslog is the environment this run   *)
(* meets.                                                                  *)
(***************************************************************************)
StatusStart ==
    /\ pc = "idle"
    /\ \E a \in ArgSets, root, env, running \in BOOLEAN,
          lm, la \in {0} \cup SyslogTimes :
         /\ args' = a
         /\ stats' = DaemonStats(running, lm, la, Now)
         /\ pc' = CASE ~root    -> "exited"
                    [] ~running -> "shown"
                    [] ~env     -> "exited"
                    [] OTHER    -> "bt_start"
    /\ UNCHANGED <<file, pending, ret, db, todo, bt, nmr, lock, cur, out, raised>>

(***************************************************************************)
(* blocked_time up to its loop (1850-1864): the DROP rules, daemon_stats   *)
(* again, at a later time, and its next_monitor (KeyError when the service *)
(* stopped in between, so that the result holds no such key), then         *)
(* json.loads(get_current_config())['lockout_time'], which raises          *)
(* ValueError on an unreadable file and KeyError when the key is gone.     *)
(* The database rows and the second syslog reading are those this run     *)
(* meets.                                                                  *)
(***************************************************************************)
BtStart ==
    /\ pc = "bt_start"
    /\ \E now \in LaterTimes, running \in BOOLEAN :
       \E lm \in SyslogMonitorAt(stats.last_monitor, now) :
       LET daemons == DaemonStats(running, lm, stats.last_analysis, now)
           cfg     == GetCurrentConfig(OnDisk)
       IN  IF ~daemons.running \/ cfg = ValueError
              \/ "lockout_time" \notin DOMAIN cfg
           THEN /\ pc' = "display"
                /\ raised' = TRUE
                /\ UNCHANGED <<db, todo, nmr, lock>>
           ELSE /\ pc' = "bt_loop"
                /\ db' \in [Hosts -> Rows]
                /\ todo' = GetCurrentFromIptables
                /\ nmr' = daemons.next_monitor
                /\ lock' = LockoutValue(cfg["lockout_time"])
                /\ UNCHANGED raised
    /\ UNCHANGED <<file, pending, ret, args, stats, bt, cur, out>>

(***************************************************************************)
(* One host of the loop (1866-1897), in the dictionary's order.  host_ix   *)
(* is reset, blocked_time is not: it is assigned only when both SELECTs    *)
(* find a row, so HostTime is the previous host's time otherwise.  One    *)
(* action per branch: no time, black-listed (reported with 0), lockout_time *)
(* a string (the addition raises TypeError), the carried next_monitor_run  *)
(* late enough (reported), and the while loop entered.                     *)
(***************************************************************************)
HostTime(ip) == IF db[ip].ix /\ db[ip].ts # 0 THEN db[ip].ts ELSE bt

Visit(ip) == todo' = todo \ {ip} /\ bt' = HostTime(ip) /\ cur' = ip

BtHostSkip ==
    /\ pc = "bt_loop"
    /\ \E ip \in todo : HostTime(ip) = 0 /\ Visit(ip)
    /\ UNCHANGED <<file, pending, ret, pc, args, stats, db, nmr, lock, out, raised>>

\* Mutant of BtHostBlack: without the `if blocked_time:` test.
BtHostBlackNoTimeCheck ==
    /\ pc = "bt_loop"
    /\ \E ip \in todo :
         /\ db[ip].black
         /\ Visit(ip)
         /\ out' = out @@ (ip :> [bt |-> HostTime(ip), rel |-> 0])
    /\ UNCHANGED <<file, pending, ret, pc, args, stats, db, nmr, lock, raised>>

BtHostBlack ==
    /\ pc = "bt_loop"
    /\ \E ip \in todo :
         /\ HostTime(ip) # 0 /\ db[ip].black
         /\ Visit(ip)
         /\ out' = out @@ (ip :> [bt |-> HostTime(ip), rel |-> 0])
    /\ UNCHANGED <<file, pending, ret, pc, args, stats, db, nmr, lock, raised>>

BtHostTypeError ==
    /\ pc = "bt_loop"
    /\ \E ip \in todo :
         HostTime(ip) # 0 /\ ~db[ip].black /\ lock.str /\ Visit(ip)
    /\ pc' = "display"
    /\ raised' = TRUE
    /\ UNCHANGED <<file, pending, ret, args, stats, db, nmr, lock, out>>

\* Mutant of BtHostReport: `elif blocked_time <= next_monitor_run`.
BtHostReportNoLockout ==
    /\ pc = "bt_loop"
    /\ \E ip \in todo :
         /\ HostTime(ip) # 0 /\ ~db[ip].black /\ ~lock.str
         /\ HostTime(ip) <= nmr
         /\ Visit(ip)
         /\ out' = out @@ (ip :> [bt |-> HostTime(ip), rel |-> nmr])
    /\ UNCHANGED <<file, pending, ret, pc, args, stats, db, nmr, lock, raised>>

BtHostReport ==
    /\ pc = "bt_loop"
    /\ \E ip \in todo :
         /\ HostTime(ip) # 0 /\ ~db[ip].black /\ ~lock.str
         /\ HostTime(ip) + lock.n <= nmr
         /\ Visit(ip)
         /\ out' = out @@ (ip :> [bt |-> HostTime(ip), rel |-> nmr])
    /\ UNCHANGED <<file, pending, ret, pc, args, stats, db, nmr, lock, raised>>

BtHostWrap ==
    /\ pc = "bt_loop"
    /\ \E ip \in todo :
         /\ HostTime(ip) # 0 /\ ~db[ip].black /\ ~lock.str
         /\ HostTime(ip) + lock.n > nmr
         /\ Visit(ip)
    /\ pc' = "bt_wrap"
    /\ UNCHANGED <<file, pending, ret, args, stats, db, nmr, lock, out, raised>>

\* Mutant of BtWrap: the loop body forgets to advance next_monitor_run.
BtWrapNoAdvance ==
    /\ pc = "bt_wrap"
    /\ bt + lock.n > nmr
    /\ UNCHANGED allvars

\* One round of `while blocked_time + lockout_time > next_monitor_run`.
BtWrap ==
    /\ pc = "bt_wrap"
    /\ bt + lock.n > nmr
    /\ nmr' = nmr + MonitorPeriod
    /\ UNCHANGED <<file, pending, ret, pc, args, stats, db, todo, bt, lock, cur, out, raised>>

\* The loop's exit: the host is reported with the advanced next_monitor_run.
BtWrapDone ==
    /\ pc = "bt_wrap"
    /\ bt + lock.n <= nmr
    /\ out' = out @@ (cur :> [bt |-> bt, rel |-> nmr])
    /\ pc' = "bt_loop"
    /\ UNCHANGED <<file, pending, ret, args, stats, db, todo, bt, nmr, lock, cur, raised>>

\* blocked_time returns blocked_timestamps.
BtDone ==
    /\ pc = "bt_loop"
    /\ todo = {}
    /\ pc' = "display"
    /\ UNCHANGED <<file, pending, ret, args, stats, db, todo, bt, nmr, lock, cur, out, raised>>

(***************************************************************************)
(* The rest of the try (96-97) and the display (101-117).  The except only *)
(* prints, so when blocked_time raised, blockedIps and whiteList are      *)
(* unbound and a section that uses them raises NameError.                 *)
(***************************************************************************)
Display ==
    /\ pc = "display"
    /\ pc' = IF raised /\ UsesLists(args) THEN "crashed" ELSE "shown"
    /\ UNCHANGED <<file, pending, ret, args, stats, db, todo, bt, nmr, lock, cur, out, raised>>

\* status.py ends; it may be run again later.
StatusExit ==
    /\ pc \in Final
    /\ pc' = "idle"
    /\ args' = {}
    /\ stats' = [running |-> FALSE]
    /\ db' = [h \in Hosts |-> [ix |-> FALSE, ts |-> 0, black |-> FALSE]]
    /\ todo' = {} /\ bt' = 0 /\ nmr' = 0 /\ lock' = NoLock /\ cur' = NoHost
    /\ out' = NoOut /\ raised' = FALSE
    /\ UNCHANGED <<file, pending, ret>>

(***************************************************************************)
(* The UI uses the configuration store, also while status.py runs.  Of    *)
(* status.py only BtStart reads the file, so a whole set_config before or  *)
(* after it is the same as one while status.py is idle; what is not is a   *)
(* set_config whose open() and close() straddle that read, which starts    *)
(* here at bt_start and closes after BtStart.                              *)
(***************************************************************************)
ConfigCall ==
    /\ \/ pc \in {"idle", "bt_start"} /\ CallSetConfig
       \/ pc = "idle" /\ CallGetConfig
       \/ pc \notin {"bt_loop", "bt_wrap"} /\ SetConfigClose
    /\ UNCHANGED svars

ReportInit ==
    /\ Init
    /\ pc = "idle" /\ args = {} /\ stats = [running |-> FALSE]
    /\ db = [h \in Hosts |-> [ix |-> FALSE, ts |-> 0, black |-> FALSE]]
    /\ todo = {} /\ bt = 0 /\ nmr = 0 /\ lock = NoLock /\ cur = NoHost
    /\ out = NoOut /\ raised = FALSE

StatusSteps ==
    \/ BtStart
    \/ BtHostSkip \/ BtHostBlack \/ BtHostTypeError \/ BtHostReport \/ BtHostWrap
    \/ BtWrap \/ BtWrapDone \/ BtDone \/ Display

ReportNext == ConfigCall \/ StatusStart \/ StatusSteps \/ StatusExit

\* status.py is one sequential process that waits on nothing once started,
\* so its steps are weakly fair; the user's calls and runs are not.
ReportSpec == ReportInit /\ [][ReportNext]_allvars /\ WF_allvars(StatusSteps)

---------------------------------------------------------------------------
TypeOK ==
    /\ pc \in {"idle", "bt_start", "bt_loop", "bt_wrap", "display"} \cup Final
    /\ db \in [Hosts -> Rows]
    /\ todo \subseteq Hosts
    /\ DOMAIN out \subseteq Hosts
    /\ \A h \in DOMAIN out : out[h].bt \in DetectTimes /\ out[h].rel \in Nat
    /\ raised \in BOOLEAN

\* The instants a scheduled process runs at: one period after its last run
\* and every period after that.
RunsAfter(last, p) == {last + k * p : k \in 1..(Now + 1)}
FirstRunFrom(runs, t) == CHOOSE x \in runs : x >= t /\ \A y \in runs : y >= t => x <= y

(***************************************************************************)
(* daemon_stats reports as next analysis and next monitor run the first    *)
(* run of each process, counted in whole periods from its last run, that  *)
(* is not yet past: never one already over, never one too far ahead.      *)
(***************************************************************************)
DaemonNextRunsExact ==
    stats.running =>
        /\ stats.next_monitor =
             FirstRunFrom(RunsAfter(stats.last_monitor, MonitorPeriod), Now)
        /\ stats.next_analysis =
             FirstRunFrom(RunsAfter(stats.last_analysis, AnalysisPeriod), Now)

\* The host's own detection time, 0 when it has no detected_hosts row.
OwnTime(h) == IF db[h].ix THEN db[h].ts ELSE 0

(***************************************************************************)
(* When blocked_time returns, every detected host that is not black-listed *)
(* is reported with a release time at which the monitor process runs and   *)
(* no earlier than its detection time plus lockout_time: the report never  *)
(* promises a release before the lockout is over.                          *)
(***************************************************************************)
ReleaseNotBeforeLockout ==
    pc = "display" /\ ~raised =>
        \A h \in Hosts :
            OwnTime(h) # 0 /\ ~db[h].black =>
                /\ h \in DOMAIN out
                /\ out[h].rel >= OwnTime(h) + lock.n
                /\ out[h].rel >= stats.next_monitor
                /\ (out[h].rel - stats.next_monitor) % MonitorPeriod = 0

(***************************************************************************)
(* Once status.py has started, it ends: it shows its report, exits or     *)
(* fails, and in particular blocked_time's while loops terminate.          *)
(***************************************************************************)
Termination == (pc # "idle") ~> (pc \in Final)

(***************************************************************************)
(* blocked_time reports exactly the detected hosts, each with its own      *)
(* detection time and, unless black-listed, the first monitor run from    *)
(* next_monitor on that is not before that time plus lockout_time, as it   *)
(* computes for a host on its own.                                         *)
(***************************************************************************)
ReportPerHostExact ==
    pc = "display" /\ ~raised =>
        /\ DOMAIN out = {h \in Hosts : OwnTime(h) # 0}
        /\ \A h \in DOMAIN out :
              out[h] = [bt |-> OwnTime(h),
                        rel |-> IF db[h].black THEN 0
                                ELSE FirstRunFrom({stats.next_monitor + k * MonitorPeriod :
                                                      k \in 0..(Now + 1)},
                                                  OwnTime(h) + lock.n)]

(***************************************************************************)
(* status.py run by root with GARGOYLE_DB set never ends in an uncaught    *)
(* exception: the except around blocked_time and the list calls handles   *)
(* what they raise.                                                        *)
(***************************************************************************)
StatusNeverCrashes == pc # "crashed"
=============================================================================
