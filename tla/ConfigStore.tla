----------------------------- MODULE ConfigStore -----------------------------
(***************************************************************************)
(* The configuration store of gargoyle_admin_wrapper.py (1341-1449): the  *)
(* file .gargoyle_config of `key:value` lines, read by get_current_config *)
(* and rewritten by set_config with the dictionary the UI sends.           *)
(*                                                                         *)
(* A value string is abstracted to the list of its comma-separated parts, *)
(* each part a token: a number, a range `a-b`, a purely alphabetic word   *)
(* (str.isalpha()) or a mixed word such as `8a` that int() rejects.       *)
(* Port numbers are scaled: MaxPort stands for 65535 and MaxPort + 1 for  *)
(* any larger number.                                                      *)
(***************************************************************************)
EXTENDS Integers, Sequences, FiniteSets

CONSTANTS
    MaxPort,     \* 65535, scaled down
    KeyVals(_),  \* the value strings the UI may send for a key
    ValueError, KeyError

ASSUME MaxPort \in Nat

VARIABLES
    file,     \* the configuration file: key -> value
    pending,  \* {d} while set_config has the file open for writing d, else {}
    ret       \* [op, res] of the last call

vars == <<file, pending, ret>>

Keys == {"ports_to_ignore", "hot_ports", "enforce", "lockout_time"}

Num(n)    == [k |-> "num", n |-> n]
Rng(a, b) == [k |-> "range", a |-> a, b |-> b]
Alpha     == [k |-> "alpha"]
Mixed     == [k |-> "mixed"]

\* The value strings the UI may send, one past each legal end included:
\* "0", "1", "70000", "0-1", "0,1", "abc", "8a".
UIValues == {<<Num(0)>>, <<Num(1)>>, <<Num(MaxPort + 1)>>, <<Rng(0, 1)>>,
         <<Num(0), Num(1)>>, <<Alpha>>, <<Mixed>>}

\* value.isalpha()
IsAlphaStr(v) == Len(v) = 1 /\ v[1].k = "alpha"

\* ',' in value or '-' in value
HasSep(v) == Len(v) > 1 \/ v[1].k = "range"

---------------------------------------------------------------------------
\* How a check ends: "ok", "ret1" (an early `return 1`) or "raise" (the
\* ValueError of int()).
Res(o) == IF o = "ret1" THEN 1 ELSE ValueError

\* list_of_ports on one part.
PartCheck(t) ==
    CASE t.k = "alpha" -> "ret1"
      [] t.k = "mixed" -> "raise"
      [] t.k = "num"   -> IF t.n > MaxPort THEN "ret1" ELSE "ok"
      [] t.k = "range" -> IF t.b > MaxPort THEN "ret1" ELSE "ok"

\* Mutant of PartPorts: range(a, b) without the + 1.
PartPortsExclusive(t) ==
    IF t.k = "num" THEN {t.n} ELSE {p \in t.a..t.b : p < t.b}

\* The ports one part appends: range(int(x[0]), int(x[1]) + 1) or [int(x)].
PartPorts(t) == IF t.k = "num" THEN {t.n} ELSE t.a..t.b

\* list_of_ports: the parts in order, stopping at the first bad one; out
\* is how it ended, ports the list it returns.
ListOfPorts(v) ==
    LET bad == {i \in DOMAIN v : PartCheck(v[i]) # "ok"}
        first == CHOOSE i \in bad : \A j \in bad : i =< j
    IN  IF bad = {}
        THEN [out |-> "ok", ports |-> UNION {PartPorts(v[i]) : i \in DOMAIN v}]
        ELSE [out |-> PartCheck(v[first]), ports |-> {}]

\* is_there_conflict: 1 when a list is bad or the two share a port.
IsThereConflict(l1, l2) ==
    LET ignore == ListOfPorts(l1)
        hot    == ListOfPorts(l2)
    IN  CASE ignore.out # "ok"                -> Res(ignore.out)
          [] hot.out # "ok"                   -> Res(hot.out)
          [] ignore.ports \cap hot.ports # {} -> 1
          [] OTHER                            -> 0

\* get_current_config on one value: kept as a string when it holds ',' or
\* '-', otherwise int(value).
ReadValue(v) ==
    IF HasSep(v) \/ v[1].k = "num" THEN v ELSE ValueError

\* get_current_config: the file as a dictionary, or the ValueError of int().
GetCurrentConfig(f) ==
    IF \E k \in DOMAIN f : ReadValue(f[k]) = ValueError THEN ValueError ELSE f

(***************************************************************************)
(* What a reader finds in the file: open(config_file, 'w') truncates it,  *)
(* and the few short lines written after it stay in the file object's     *)
(* buffer until file.close(), so until then the file is empty.             *)
(***************************************************************************)
EmptyFile == [k \in {} |-> <<>>]
OnDisk == IF pending = {} THEN file ELSE EmptyFile

\* The ports a list of parts names, from the parts directly.
PortSet(v) ==
    {p \in 0..MaxPort :
        \E i \in DOMAIN v :
            \/ v[i].k = "num" /\ v[i].n = p
            \/ v[i].k = "range" /\ v[i].a =< p /\ p =< v[i].b}

\* The checks of set_config's loop on one key (lines 1425-1432).
KeyCheck(k, v) ==
    CASE k = "enforce" /\ ~(Len(v) = 1 /\ v[1].k = "num") -> "raise"
      [] k = "enforce" /\ v[1].n \notin {0, 1}            -> "ret1"
      [] IsAlphaStr(v)                                     -> "ret1"
      [] OTHER                                             -> "ok"

(***************************************************************************)
(* set_config(data).  The conflict test runs only when hot_ports is in     *)
(* data (line 1419 reads `'ports_to_ignore' and 'hot_ports' in ...`) and   *)
(* then reads data['ports_to_ignore'].  The loop visits the keys in an    *)
(* unspecified order and stops at the first bad one, so any bad key may   *)
(* decide the outcome.  The file is rewritten with the keys of data only: *)
(* the open() that truncates it is this step, the close() that puts the    *)
(* lines on disk is SetConfigClose.                                        *)
(***************************************************************************)
SetConfig(data) ==
    LET D == DOMAIN data
        conflict ==
            IF "hot_ports" \notin D THEN 0
            ELSE IF "ports_to_ignore" \notin D THEN KeyError
            ELSE IsThereConflict(data["ports_to_ignore"], data["hot_ports"])
        badKeys == {k \in D : KeyCheck(k, data[k]) # "ok"}
    IN  CASE GetCurrentConfig(OnDisk) = ValueError ->
                  ret' = [op |-> "set", res |-> ValueError] /\ UNCHANGED <<file, pending>>
             [] conflict # 0 ->
                  ret' = [op |-> "set", res |-> conflict] /\ UNCHANGED <<file, pending>>
             [] badKeys # {} ->
                  \E k \in badKeys :
                      ret' = [op |-> "set", res |-> Res(KeyCheck(k, data[k]))]
                      /\ UNCHANGED <<file, pending>>
             [] OTHER ->
                  pending' = {data} /\ UNCHANGED <<file, ret>>

\* A configuration file as shipped: every key with a valid value, the two
\* port lists disjoint and lockout_time a number of seconds.
Init ==
    /\ file \in {f \in [Keys -> UNION {KeyVals(k) : k \in Keys}] :
                   /\ \A k \in Keys : f[k] \in KeyVals(k)
                   /\ GetCurrentConfig(f) # ValueError
                   /\ \A k \in Keys : KeyCheck(k, f[k]) = "ok"
                   /\ \A k \in {"ports_to_ignore", "hot_ports"} :
                        \A i \in DOMAIN f[k] : PartCheck(f[k][i]) = "ok"
                   /\ PortSet(f["ports_to_ignore"]) \cap PortSet(f["hot_ports"]) = {}
                   /\ Len(f["lockout_time"]) = 1 /\ f["lockout_time"][1].k = "num"}
    /\ pending = {}
    /\ ret = [op |-> "none", res |-> 0]

\* The UI is the only writer: one set_config at a time.
CallSetConfig ==
    /\ pending = {}
    /\ \E D \in SUBSET Keys :
        \E data \in {d \in [D -> UNION {KeyVals(k) : k \in D}] :
                        \A k \in D : d[k] \in KeyVals(k)} :
            SetConfig(data)

\* file.close() of set_config, which then returns 0.
SetConfigClose ==
    /\ pending # {}
    /\ file' = CHOOSE d \in pending : TRUE
    /\ pending' = {}
    /\ ret' = [op |-> "set", res |-> 0]

\* get_current_config() leaves the file alone.
CallGetConfig ==
    /\ ret' = [op |-> "get", res |-> IF GetCurrentConfig(OnDisk) = ValueError
                                     THEN ValueError ELSE 0]
    /\ UNCHANGED <<file, pending>>

Next == CallSetConfig \/ CallGetConfig \/ SetConfigClose

Spec == Init /\ [][Next]_vars

---------------------------------------------------------------------------
(***************************************************************************)
(* The stored ports_to_ignore and hot_ports never share a port: set_config *)
(* refuses a dictionary whose two lists conflict, and a dictionary with    *)
(* only one of them replaces the whole file, so the other is gone.         *)
(***************************************************************************)
NoStoredConflict ==
    {"ports_to_ignore", "hot_ports"} \subseteq DOMAIN file =>
        /\ \A k \in {"ports_to_ignore", "hot_ports"} :
              \A i \in DOMAIN file[k] : PartCheck(file[k][i]) = "ok"
        /\ PortSet(file["ports_to_ignore"]) \cap PortSet(file["hot_ports"]) = {}

(***************************************************************************)
(* set_config changes only the keys it is given: every other key of the    *)
(* file survives a successful call.                                        *)
(***************************************************************************)
KeysPreserved ==
    [][ret'.op = "set" /\ ret'.res = 0 => DOMAIN file \subseteq DOMAIN file']_vars

(***************************************************************************)
(* The file set_config writes can always be read back by                   *)
(* get_current_config.                                                     *)
(***************************************************************************)
ConfigStaysReadable == GetCurrentConfig(file) # ValueError
=============================================================================
