---------------------------- MODULE MCStatusReport ----------------------------
(***************************************************************************)
(* Two blocked hosts; the monitor runs every 3 time units (43200 s), the  *)
(* analysis every unit (900 s); the service started at 0 and status.py    *)
(* runs at 5.  A monitor run logged at 2 makes the next one fall exactly  *)
(* on 5.  Detection at 1 and 4 with lockout_time 4 puts one host before   *)
(* and one after the next monitor run, so the while loop runs.            *)
(***************************************************************************)
EXTENDS StatusReport

CONSTANTS h1, h2

MCMaxPort == 1
MCHosts == {h1, h2}

\* The port lists take two ports and a range holding both; enforce 1 and
\* 2, which set_config refuses; lockout_time a number, a range (kept as a
\* string, so the addition raises TypeError) and a mixed word (stored by
\* set_config, rejected by int() when the file is read).
MCKeyVals(k) ==
    CASE k \in {"ports_to_ignore", "hot_ports"} -> {<<Num(0)>>, <<Num(1)>>, <<Rng(0, 1)>>}
      [] k = "enforce" -> {<<Num(1)>>, <<Num(2)>>}
      [] OTHER         -> {<<Num(4)>>, <<Rng(0, 1)>>, <<Mixed>>}

MCArgSets == {{}, {"daemons"}}
=============================================================================
