---------------------------- MODULE MCConfigStore ----------------------------
(* Ports 0..2, with 3 standing for any number above 65535. *)
EXTENDS ConfigStore

MCMaxPort == 2

\* The port lists take every UI value; enforce a legal value, a number
\* other than 0 and 1, and a string int() rejects; lockout_time a number
\* and a range, which get_current_config keeps as a string.
MCKeyVals(k) ==
    CASE k \in {"ports_to_ignore", "hot_ports"} -> UIValues
      [] k = "enforce" -> {<<Num(1)>>, <<Num(MaxPort + 1)>>, <<Rng(0, 1)>>}
      [] OTHER         -> {<<Num(1)>>, <<Rng(0, 1)>>}
=============================================================================
