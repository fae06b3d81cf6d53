------------------------------- MODULE Config -------------------------------
(***************************************************************************)
(* The configuration file (internal/config/config.go): what a decoded file *)
(* turns into, and which ones are refused.  Durations are in seconds.      *)
(*                                                                         *)
(* A setting that is a pointer in the code is Unset when the file does not *)
(* name it; one that is not is then zero, or the empty string.             *)
(***************************************************************************)
EXTENDS Integers, Bodies, Functions

CONSTANTS
    Unset,
    MaxDuration    \* the largest time.Duration, also the interval of "never"

repeatSeverities == {"warning", "critical", "emergency"}
Methods == {"GET", "POST", "PUT", "PATCH", "DELETE"}
defaultPorts == [tls |-> 443, smtp |-> 587, imap |-> 143, pop3 |-> 110,
                 ftp |-> 21, postgres |-> 5432]
Protocols == DOMAIN defaultPorts

Or(setting, default) == IF setting = Unset THEN default ELSE setting
OrZero(setting, default) == IF setting = 0 THEN default ELSE setting
OrEmpty(setting, default) == IF setting = "" THEN default ELSE setting
OrPositive(setting, default) == IF setting <= 0 THEN default ELSE setting

-----------------------------------------------------------------------------
(***************************************************************************)
(* What the decoder makes of a file: the fields of its records, of the     *)
(* types they have in the code.  Notifiers and bodies are maps, targets    *)
(* and recipients are lists; what no rule of Load reads is left out.       *)
(***************************************************************************)
Setting == Int \cup {Unset}

RepeatInterval(r) ==
    /\ r.isMap \in BOOLEAN
    /\ \A s \in DOMAIN r.perSeverity : r.perSeverity[s] \in Int

TargetParams(p) ==
    /\ DOMAIN p = {"warning_days", "critical_days", "timeout", "connect_retries",
                   "notifiers", "alert_repeat_interval", "flap_streak"}
    /\ {p.warning_days, p.critical_days, p.timeout, p.connect_retries, p.flap_streak}
         \subseteq Setting
    /\ p.notifiers \in Seq(STRING)
    /\ p.alert_repeat_interval # Unset => RepeatInterval(p.alert_repeat_interval)

Target(t) ==
    /\ DOMAIN t = {"address", "servername", "protocol", "ca_file", "params"}
    /\ t.address \in [host : STRING, port : Int]
    /\ {t.servername, t.protocol, t.ca_file} \subseteq STRING
    /\ TargetParams(t.params)

AlertConfig(n) ==
    /\ DOMAIN n = {"url", "headers", "method", "timeout", "concurrency", "send_recovery",
                   "retries", "min_severity", "ca_file", "body", "recovery_body"}
    /\ n.url \in [http : BOOLEAN, path : Seq(Part)] /\ n.headers \in Seq(Part)
    /\ {n.method, n.min_severity, n.ca_file} \subseteq STRING
    /\ {n.timeout, n.concurrency} \subseteq Int /\ n.retries \in Setting
    /\ n.send_recovery \in BOOLEAN \cup {Unset}
    /\ Structure(n.body) /\ Structure(n.recovery_body)

ConfigFile(file) ==
    /\ DOMAIN file = {"check_interval", "concurrency", "jitter", "probe_log_retention",
                      "alert_log_retention", "notifiers", "target_defaults", "targets"}
    /\ {file.check_interval, file.concurrency, file.jitter, file.probe_log_retention,
        file.alert_log_retention} \subseteq Int
    /\ \A c \in DOMAIN file.notifiers : AlertConfig(file.notifiers[c])
    /\ TargetParams(file.target_defaults)
    /\ file.targets \in Seq(ToSet(file.targets))
    /\ \A i \in DOMAIN file.targets : Target(file.targets[i])

-----------------------------------------------------------------------------
(***************************************************************************)
(* alert_repeat_interval: one duration, or a map from severities that must *)
(* be complete.  Either may say "never".                                   *)
(***************************************************************************)
scalarRepeat(d) == [isMap |-> FALSE, perSeverity |-> [s \in repeatSeverities |-> d]]
mapRepeat(m) == [isMap |-> TRUE, perSeverity |-> m]

For(repeat, severity) ==
    IF severity \in DOMAIN repeat.perSeverity THEN repeat.perSeverity[severity] ELSE 0

\* Mutant: only the entries that are there are looked at.
validRepeatSparse(repeat, interval) ==
    \A s \in DOMAIN repeat.perSeverity : repeat.perSeverity[s] >= interval

validRepeat(repeat, interval) ==
    /\ repeat.isMap => DOMAIN repeat.perSeverity = repeatSeverities
    /\ \A s \in repeatSeverities :
         For(repeat, s) > 0 /\ For(repeat, s) >= interval

-----------------------------------------------------------------------------
(***************************************************************************)
(* applyDefaults.                                                          *)
(***************************************************************************)
NotifierDefaults(n) ==
    [n EXCEPT !.method = OrEmpty(@, "POST"), !.timeout = OrZero(@, 10),
              !.concurrency = OrPositive(@, 10), !.send_recovery = Or(@, TRUE),
              !.retries = Or(@, 2), !.min_severity = OrEmpty(@, "warning")]

\* The strings of a notifier whose secrets are resolved at load.
Secrets(n) == {n.url.path} \cup {n.headers} \cup Strings(n.body) \cup Strings(n.recovery_body)

\* Mutant: recovery_body is forgotten.
NotifierExpandedFiring(n) ==
    [n EXCEPT !.url.path = expandEnv(@), !.headers = expandEnv(@),
              !.body = expandEnvTree(@)]

NotifierExpanded(n) ==
    [n EXCEPT !.url.path = expandEnv(@), !.headers = expandEnv(@),
              !.body = expandEnvTree(@), !.recovery_body = expandEnvTree(@)]

\* Mutant: explicit zeros of target_defaults are taken for unset.
ParamDefaultsZero(d) ==
    [d EXCEPT !.warning_days = Or(@, 30), !.critical_days = Or(@, 7),
              !.timeout = Or(@, 10), !.flap_streak = Or(@, 2),
              !.connect_retries = IF @ = Unset \/ @ = 0 THEN 2 ELSE @,
              !.alert_repeat_interval = Or(@, scalarRepeat(86400))]

ParamDefaults(d) ==
    [d EXCEPT !.warning_days = Or(@, 30), !.critical_days = Or(@, 7),
              !.timeout = Or(@, 10), !.flap_streak = Or(@, 2),
              !.connect_retries = Or(@, 2),
              !.alert_repeat_interval = Or(@, scalarRepeat(86400))]

Inherited(params, d) ==
    [params EXCEPT !.warning_days = Or(@, d.warning_days),
                   !.critical_days = Or(@, d.critical_days),
                   !.timeout = Or(@, d.timeout),
                   !.connect_retries = Or(@, d.connect_retries),
                   !.notifiers = IF @ = << >> THEN d.notifiers ELSE @,
                   !.flap_streak = Or(@, d.flap_streak),
                   !.alert_repeat_interval = Or(@, d.alert_repeat_interval)]

(***************************************************************************)
(* An address is a host and a port: 0 for none, a negative one when the    *)
(* two cannot be told apart even after the default port was joined; any    *)
(* other is what stands after the colon, which nobody looks at here.       *)
(***************************************************************************)
NoAddress == [host |-> "", port |-> 0]

WithPort(address, protocol) ==
    IF address # NoAddress /\ address.port = 0 /\ protocol \in Protocols
    THEN [address EXCEPT !.port = defaultPorts[protocol]]
    ELSE address

TargetDefaults(t, d) ==
    LET protocol == OrEmpty(t.protocol, "tls")
    IN  [t EXCEPT !.protocol = protocol, !.address = WithPort(@, protocol),
                  !.params = Inherited(@, d)]

applyDefaults(file) ==
    LET d == ParamDefaults(file.target_defaults)
    IN  [file EXCEPT
           !.check_interval = OrZero(@, 300), !.concurrency = OrPositive(@, 10),
           !.probe_log_retention = OrZero(@, 7776000),
           !.alert_log_retention = OrZero(@, 31536000),
           !.notifiers = [c \in DOMAIN @ |-> NotifierExpanded(NotifierDefaults(@[c]))],
           !.target_defaults = d,
           !.targets = [i \in DOMAIN @ |-> TargetDefaults(@[i], d)]]

-----------------------------------------------------------------------------
(***************************************************************************)
(* Validate.  Which problem is reported first is left out.                 *)
(***************************************************************************)
\* A file named by ca_file is stat'ed here; nobody reads it yet.
CAFiles == {"", "pem", "not pem", "missing"}

validNotifier(n) ==
    /\ n.url.http
    /\ n.body # NoBody
    /\ n.method \in Methods
    /\ n.timeout > 0
    /\ n.min_severity \in repeatSeverities
    /\ n.retries >= 0
    /\ n.ca_file # "missing"

\* What a probe needs to know of a target; certel check has the same rules.
validProbe(t) ==
    /\ t.address # NoAddress /\ t.address.port > 0
    /\ t.protocol \in Protocols
    /\ t.ca_file # "missing"
    /\ t.params.critical_days <= t.params.warning_days
    /\ t.params.timeout > 0
    /\ t.params.connect_retries >= 0

validNotifierList(list, defined) ==
    /\ list # << >>
    /\ "" \notin ToSet(list)
    /\ IsInjective(list)
    /\ ToSet(list) \subseteq defined

validTarget(t, cfg) ==
    /\ validProbe(t)
    /\ t.params.flap_streak >= 1
    /\ validNotifierList(t.params.notifiers, DOMAIN cfg.notifiers)
    /\ validRepeat(t.params.alert_repeat_interval, cfg.check_interval)

Key(t) == << t.protocol, t.address, t.servername >>

Validate(cfg) ==
    /\ cfg.targets # << >>
    /\ DOMAIN cfg.notifiers # {} /\ "" \notin DOMAIN cfg.notifiers
    /\ \A c \in DOMAIN cfg.notifiers : validNotifier(cfg.notifiers[c])
    /\ cfg.check_interval > 0 /\ cfg.jitter >= 0
    /\ cfg.probe_log_retention > 0 /\ cfg.alert_log_retention > 0
    /\ \A i \in DOMAIN cfg.targets : validTarget(cfg.targets[i], cfg)
    /\ \A i, j \in DOMAIN cfg.targets :
         Key(cfg.targets[i]) = Key(cfg.targets[j]) => i = j

\* Load: secrets that are not set are refused before anything is validated.
Resolvable(file) ==
    \A c \in DOMAIN file.notifiers : \A s \in Secrets(file.notifiers[c]) : Missing(s) = {}

Loads(file) == Resolvable(file) /\ Validate(applyDefaults(file))

-----------------------------------------------------------------------------
(***************************************************************************)
(* buildCheckTarget of cmd/certel/check.go: the flags of one probe, all    *)
(* of them set, and the target it makes of them.                           *)
(***************************************************************************)
\* Mutant: the thresholds are not compared.
validFlagsLoose(f) ==
    /\ f.protocol \in Protocols /\ f.address # NoAddress /\ f.address.port >= 0
    /\ f.timeout > 0 /\ f.retries >= 0 /\ f.ca_file # "missing"

validFlags(f) ==
    /\ f.protocol \in Protocols
    /\ f.address # NoAddress /\ f.address.port >= 0
    /\ f.timeout > 0 /\ f.retries >= 0
    /\ f.criticalDays <= f.warningDays
    /\ f.ca_file # "missing"

buildCheckTarget(f) ==
    [address |-> WithPort(f.address, f.protocol), servername |-> f.servername,
     protocol |-> f.protocol, ca_file |-> f.ca_file,
     warning_days |-> f.warningDays, critical_days |-> f.criticalDays,
     timeout |-> f.timeout, connect_retries |-> f.retries]
=============================================================================
