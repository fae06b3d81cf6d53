----------------------------- MODULE MCLoading -----------------------------
(***************************************************************************)
(* The files Loading is checked on: a plain file that says nothing it need *)
(* not say, and all that deviate from it in one group of settings that     *)
(* the code looks at together.                                             *)
(***************************************************************************)
EXTENDS Loading

CONSTANT Never    \* MaxDuration is the interval of "never"

\* B and C are set to strings that look like references themselves.
MCEnv == [A |-> << Text("a") >>,
          B |-> << Ref("alert", "DaysLeft", "") >>,
          C |-> << Ref("", "C", ""), Ref("env", "U", "") >>]

plainNotifier ==
    [url |-> [http |-> TRUE, path |-> << Text("/") >>], headers |-> << >>,
     method |-> "", timeout |-> 0, concurrency |-> 0, send_recovery |-> Unset,
     retries |-> Unset, min_severity |-> "", ca_file |-> "",
     body |-> [k |-> String(<< Text("t") >>)], recovery_body |-> NoBody]

plainParams ==
    [warning_days |-> Unset, critical_days |-> Unset, timeout |-> Unset,
     connect_retries |-> Unset, notifiers |-> << >>,
     alert_repeat_interval |-> Unset, flap_streak |-> Unset]

plainTarget ==
    [address |-> [host |-> "a", port |-> 0], servername |-> "", protocol |-> "",
     ca_file |-> "", params |-> plainParams]

plain ==
    [check_interval |-> 0, concurrency |-> 0, jitter |-> 0,
     probe_log_retention |-> 0, alert_log_retention |-> 0,
     notifiers |-> [n |-> plainNotifier],
     target_defaults |-> [plainParams EXCEPT !.notifiers = << "n" >>],
     targets |-> << plainTarget >>]

WithNotifier(n) == [plain EXCEPT !.notifiers = [n |-> n]]
WithTargets(ts) == [plain EXCEPT !.targets = ts]

-----------------------------------------------------------------------------
Runs ==
    { [plain EXCEPT !.check_interval = i, !.concurrency = c, !.jitter = j,
                    !.probe_log_retention = p, !.alert_log_retention = a] :
        i \in {-1, 0, 1, 86401}, c \in {-1, 0, 3}, j \in {-1, 0},
        p \in {-1, 0, 5}, a \in {-1, 0, 5} }

Repeats == {Unset} \cup {scalarRepeat(d) : d \in {0, 299, 300, Never}} \cup
           {mapRepeat(m) : m \in UNION {[D -> {1, 3600}] : D \in
                {repeatSeverities, {"warning"}, {"warning", "critical"}, {}}}}

Cadences ==
    { [plain EXCEPT !.check_interval = i, !.targets[1].params.alert_repeat_interval = t,
                    !.target_defaults.alert_repeat_interval = d] :
        i \in {0, 1, 3601}, t \in Repeats, d \in Repeats }

Days == {Unset, 0, 7, 30, 31}
Thresholds ==
    { [plain EXCEPT !.targets[1].params = [@ EXCEPT !.warning_days = w, !.critical_days = c],
                    !.target_defaults = [@ EXCEPT !.warning_days = v, !.critical_days = d]] :
        w \in Days, c \in Days, v \in Days, d \in Days }

Counts == {Unset, -1, 0, 3}
Params ==
    { [plain EXCEPT !.targets[1].params[f] = t, !.target_defaults[f] = d] :
        f \in {"timeout", "connect_retries", "flap_streak"}, t \in Counts, d \in Counts }

\* Targets that name everything certel check has a flag for.
Probes ==
    { WithTargets(<< [plainTarget EXCEPT
        !.address = a, !.protocol = x, !.ca_file = f,
        !.params = [@ EXCEPT !.warning_days = w, !.critical_days = 7,
                             !.timeout = o, !.connect_retries = r]] >>) :
        a \in {NoAddress} \cup [host : {"a"}, port : {-1, 0, 443}],
        x \in {"tls", "smtp", "gopher"}, f \in CAFiles, w \in {6, 7},
        o \in {0, 5}, r \in {-1, 0} }

Lists == UNION {[1..n -> {"n", "m", "ghost", ""}] : n \in 0..2}
Recipients ==
    { [plain EXCEPT !.targets[1].params.notifiers = t, !.target_defaults.notifiers = d,
                    !.notifiers = [c \in D |-> plainNotifier]] :
        t \in Lists, d \in Lists, D \in {{}, {"n"}, {"n", "m"}, {"n", ""}} }

Addresses == [host : {"a", "b"}, port : {-1, 0, 443, 587}] \cup {NoAddress}
Endpoints == [address : Addresses, protocol : {"", "tls", "smtp"}, servername : {"", "s"}]
Endpoint(e) == [plainTarget EXCEPT !.address = e.address, !.protocol = e.protocol,
                                   !.servername = e.servername]
TwoTargets == {WithTargets(<< >>)} \cup
              { WithTargets(<< Endpoint(e), Endpoint(f) >>) : e \in Endpoints, f \in Endpoints }

Notifiers ==
    { WithNotifier([plainNotifier EXCEPT
        !.url.http = u, !.method = m, !.timeout = t, !.concurrency = c, !.send_recovery = s,
        !.retries = r, !.min_severity = v, !.ca_file = f]) :
        u \in BOOLEAN, m \in {"", "PUT", "PYST"}, t \in {-1, 0, 5}, c \in {0, 1},
        s \in {Unset, FALSE}, r \in Counts, v \in {"", "emergency", "ok"}, f \in CAFiles }

-----------------------------------------------------------------------------
References == {Ref("alert", "Host", ""), Ref("alert", "DaysLeft", ""),
               Ref("alert", "DaysLeft", "date"), Ref("alert", "Hots", ""),
               Ref("alert", "Cert.NotAfter", "human"), Ref("alert", "CheckedAt", "lunar"),
               Ref("env", "A", ""), Ref("env", "B", ""), Ref("env", "C", ""),
               Ref("env", "U", ""), Ref("other", "X", ""), Ref("", "A", "")}
Parts == {Text("t")} \cup References \cup {Escaped(p) : p \in References}

Singles == { << p >> : p \in Parts }
Messages == { << >> } \cup Singles \cup { << p, q >> : p \in Parts, q \in Parts }

Texts ==
    { WithNotifier([plainNotifier EXCEPT !.body = [k |-> String(s)],
                                         !.recovery_body = r]) :
        s \in Messages,
        r \in {NoBody, [k |-> String(<< Text("ok") >>)], [l |-> String(<< Text("ok") >>)]} }

Recoveries ==
    { WithNotifier([plainNotifier EXCEPT !.recovery_body = [k |-> String(s)]]) : s \in Messages }

Requests ==
    { WithNotifier([plainNotifier EXCEPT !.url.path = s, !.headers = t]) :
        s \in {<< >>} \cup Singles, t \in {<< >>} \cup Singles }

\* Shapes a recovery_body is merged onto and of.
Leaves == {String(<< Text("t") >>), String(<< Ref("alert", "Recovered", "") >>)}
Nested == UNION {[D -> {l.s : l \in Leaves}] : D \in SUBSET {"x", "y"}}
Values == Leaves \cup {Odd} \cup {Map(m) : m \in Nested}
Trees == UNION {[D -> Values] : D \in {{"k"}, {"l"}}} \cup
         UNION {[{"k", "l"} -> {Odd} \cup Leaves \cup {Map([x |-> << Text("t") >>])}]} \cup {NoBody}

Merges ==
    { WithNotifier([plainNotifier EXCEPT !.body = b, !.recovery_body = r]) :
        b \in Trees, r \in Trees }

MCFileGroups == {Runs, Cadences, Thresholds, Params, Probes, Recipients, TwoTargets,
                 Notifiers, Texts, Recoveries, Requests, Merges}
=============================================================================
