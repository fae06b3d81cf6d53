------------------------------ MODULE Loading ------------------------------
(***************************************************************************)
(* From a decoded configuration file to the requests of its notifiers:     *)
(* Load (internal/config/config.go), buildRuntimes and buildDispatchers    *)
(* (cmd/certel/monitor.go), then the rendering of alerts.  The first two   *)
(* steps are also all of certel validate-config.                           *)
(***************************************************************************)
EXTENDS Config, FiniteSets

CONSTANT FileGroups    \* sets of decoded files to be loaded

\* The built-in settings of a target.
Builtin == [warning_days |-> 30, critical_days |-> 7, timeout |-> 10,
            connect_retries |-> 2, flap_streak |-> 2,
            alert_repeat_interval |-> scalarRepeat(86400)]

\* Unset is no value of any setting; files and secrets are what they decode to.
ASSUME LoadingAssumption ==
    /\ MaxDuration \in Nat \ {0}
    /\ Unset \notin Int \cup BOOLEAN /\ Unset # Builtin.alert_repeat_interval
    /\ \A v \in DOMAIN Env : Env[v] \in Seq(Part)
    /\ \A Files \in FileGroups : \A f \in Files : ConfigFile(f)

VARIABLES
    file,
    stage,    \* "start", "loaded", "compiled", "running" or "refused"
    cfg,      \* what was loaded, the file as long as nothing was
    bodies,   \* notifier -> its compiled body
    sent      \* the request made of the last alert, Nothing before

vars == << file, stage, cfg, bodies, sent >>

Nothing == [notifier |-> "", payload |-> samplePayload, ok |-> TRUE, body |-> NoBody]

Init ==
    /\ \E Files \in FileGroups : file \in Files
    /\ stage = "start"
    /\ cfg = file
    /\ bodies = << >>
    /\ sent = Nothing

Load ==
    /\ stage = "start"
    /\ IF Loads(file)
       THEN stage' = "loaded" /\ cfg' = applyDefaults(file)
       ELSE stage' = "refused" /\ cfg' = cfg
    /\ UNCHANGED << file, bodies, sent >>

buildRuntimes ==
    /\ stage = "loaded"
    /\ IF \A c \in DOMAIN cfg.notifiers :
            ParseBody(cfg.notifiers[c].body, cfg.notifiers[c].recovery_body)
       THEN /\ stage' = "compiled"
            /\ bodies' = [c \in DOMAIN cfg.notifiers |->
                            Compiled(cfg.notifiers[c].body, cfg.notifiers[c].recovery_body)]
       ELSE stage' = "refused" /\ bodies' = bodies
    /\ UNCHANGED << file, cfg, sent >>

\* NewWebhookSender is the first to read a notifier's ca_file.
buildDispatchers ==
    /\ stage = "compiled"
    /\ stage' = IF \A c \in DOMAIN cfg.notifiers : cfg.notifiers[c].ca_file # "not pem"
                THEN "running" ELSE "refused"
    /\ UNCHANGED << file, cfg, bodies, sent >>

\* An alert of any shape, at any time: payloads have nothing in common.
Render(c, payload) ==
    /\ stage = "running"
    /\ LET src == source(bodies[c], payload)
           ok == Renders(src, payload)
       IN  sent' = [notifier |-> c, payload |-> payload, ok |-> ok,
                    body |-> IF ok THEN renderTree(src) ELSE NoBody]
    /\ UNCHANGED << file, stage, cfg, bodies >>

Next ==
    \/ Load
    \/ buildRuntimes
    \/ buildDispatchers
    \/ \E c \in DOMAIN bodies, payload \in Payloads : Render(c, payload)

Spec == Init /\ [][Next]_vars

-----------------------------------------------------------------------------
(***************************************************************************)
(* Properties.                                                             *)
(***************************************************************************)
Accepted == stage \in {"loaded", "compiled", "running"}

\* A cadence that can be kept, for every severity a problem can have.
Cadence(repeat) ==
    \A s \in repeatSeverities : For(repeat, s) >= cfg.check_interval

(***************************************************************************)
(* Whatever combination of explicit, inherited and built-in settings a     *)
(* file has: once Load accepts it, the other parts can run on it.  These   *)
(* are their assumptions: a ticker that does not panic, at least one slot, *)
(* attempts that can succeed, a streak that can be reached, reminders that *)
(* come no faster than checks, retention that does not reach into the      *)
(* future, known notifiers for every alert, none of them twice, and no row *)
(* shared by two targets (the comments in Validate, on For and on Key).    *)
(***************************************************************************)
AcceptedIsRunnable ==
    Accepted =>
        /\ cfg.check_interval > 0 /\ cfg.concurrency > 0
        /\ cfg.probe_log_retention > 0 /\ cfg.alert_log_retention > 0
        /\ \A c \in DOMAIN cfg.notifiers :
             LET n == cfg.notifiers[c]
             IN  n.concurrency > 0 /\ n.timeout > 0 /\ n.retries >= 0
                 /\ n.min_severity \in repeatSeverities
        /\ \A i \in DOMAIN cfg.targets :
             LET p == cfg.targets[i].params
             IN  /\ p.timeout > 0 /\ p.connect_retries >= 0 /\ p.flap_streak > 0
                 /\ p.critical_days <= p.warning_days
                 /\ Cadence(p.alert_repeat_interval)
                 /\ p.notifiers # << >> /\ ToSet(p.notifiers) \subseteq DOMAIN cfg.notifiers
                 /\ Cardinality(ToSet(p.notifiers)) = Len(p.notifiers)
        /\ Cardinality({Key(cfg.targets[i]) : i \in DOMAIN cfg.targets}) = Len(cfg.targets)

(***************************************************************************)
(* What the file says is what is run or refused: a setting of a target     *)
(* goes before the one in target_defaults, and that before the built-in    *)
(* one; an explicit zero or false survives where it means something        *)
(* ("a pointer so an explicit 0 survives defaulting").                     *)
(***************************************************************************)
FirstSet(settings) ==
    settings[CHOOSE i \in DOMAIN settings :
                settings[i] # Unset /\ \A j \in 1..(i - 1) : settings[j] = Unset]

SettingsFollowFile ==
    Accepted =>
        /\ \A i \in DOMAIN file.targets : \A f \in DOMAIN Builtin :
             cfg.targets[i].params[f] =
               FirstSet(<< file.targets[i].params[f], file.target_defaults[f], Builtin[f] >>)
        /\ \A c \in DOMAIN file.notifiers : \A f \in {"retries", "send_recovery"} :
             file.notifiers[c][f] \in {Unset, cfg.notifiers[c][f]}

(***************************************************************************)
(* "A one-off check reproduces exactly what the monitor sees" (check.go):  *)
(* for a target that names all its settings, certel check takes the same   *)
(* ones as the monitor and probes the same thing; a target that only the   *)
(* settings of the monitor keep from being loaded is not held against it.  *)
(***************************************************************************)
Flags(t) ==
    [address |-> t.address, servername |-> t.servername, protocol |-> t.protocol,
     ca_file |-> t.ca_file, timeout |-> t.params.timeout,
     retries |-> t.params.connect_retries,
     warningDays |-> t.params.warning_days, criticalDays |-> t.params.critical_days]

Explicit(t) ==
    /\ t.protocol # ""
    /\ Unset \notin {t.params.timeout, t.params.connect_retries,
                     t.params.warning_days, t.params.critical_days}

CheckReproducesMonitor ==
    \A i \in DOMAIN file.targets :
        LET t == applyDefaults(file).targets[i]
            f == Flags(file.targets[i])
        IN  Explicit(file.targets[i]) =>
              /\ validFlags(f) <=> validProbe(t)
              /\ Accepted => buildCheckTarget(f) =
                   [address |-> t.address, servername |-> t.servername,
                    protocol |-> t.protocol, ca_file |-> t.ca_file,
                    warning_days |-> t.params.warning_days,
                    critical_days |-> t.params.critical_days,
                    timeout |-> t.params.timeout,
                    connect_retries |-> t.params.connect_retries]

(***************************************************************************)
(* "A broken reference or an encoding/format bug fails at startup, not at  *)
(* alert time" (ParseBody): a monitor that runs can render every alert,    *)
(* firing or recovered, with a certificate or without one.                 *)
(***************************************************************************)
StartedMeansRenders == sent.ok

(***************************************************************************)
(* No secret is missing when it counts: what a running monitor puts into a *)
(* request holds no reference to the environment but the ones the file     *)
(* escaped and the ones that came out of the environment.                  *)
(***************************************************************************)
EnvRefs(s, escaped) ==
    {s[i].name : i \in {j \in DOMAIN s : IsRef(s[j], "env") /\ s[j].escaped = escaped}}

Imported == UNION {EnvRefs(Env[v], FALSE) : v \in DOMAIN Env}

SecretsResolved ==
    Accepted => \A c \in DOMAIN cfg.notifiers :
        LET asked == UNION {EnvRefs(s, TRUE) : s \in Secrets(file.notifiers[c])}
        IN  \A s \in Secrets(cfg.notifiers[c]) :
              EnvRefs(s, FALSE) \subseteq asked \cup Imported

(***************************************************************************)
(* A recovery says what recovery_body names, and what body says for the    *)
(* rest ("name only the keys that differ"), down to the single key; and    *)
(* every value keeps the type of a field it consists of.                   *)
(***************************************************************************)
Overridden(k, l) ==
    LET over == cfg.notifiers[sent.notifier].recovery_body
    IN  /\ sent.payload.recovered /\ k \in DOMAIN over
        /\ over[k].kind = "map" => l \in DOMAIN over[k].map

Source(k, l) ==
    IF Overridden(k, l) THEN cfg.notifiers[sent.notifier].recovery_body
                        ELSE cfg.notifiers[sent.notifier].body

Typed(s) ==
    IF Len(s) = 1 /\ IsRef(s[1], "alert") /\ ~s[1].escaped
    THEN nativeType[s[1].name] ELSE "string"

Follows(leaf, s) == leaf.type = Typed(s) /\ DOMAIN leaf.parts = DOMAIN s

NestedKeys(body, k) == IF k \in DOMAIN body THEN DOMAIN body[k].map ELSE {}

RequestFollowsBodies ==
    sent # Nothing /\ sent.ok =>
        LET n == cfg.notifiers[sent.notifier]
            over == IF sent.payload.recovered THEN n.recovery_body ELSE NoBody
        IN  /\ DOMAIN sent.body = DOMAIN n.body \cup DOMAIN over
            /\ \A k \in DOMAIN sent.body :
                 IF sent.body[k].kind = "string"
                 THEN LET from == Source(k, "")[k]
                      IN  from.kind = "string" /\ Follows(sent.body[k].s, from.s)
                 ELSE /\ DOMAIN sent.body[k].map = NestedKeys(n.body, k) \cup NestedKeys(over, k)
                      /\ \A l \in DOMAIN sent.body[k].map :
                           LET from == Source(k, l)[k]
                           IN  l \in DOMAIN from.map /\ Follows(sent.body[k].map[l], from.map[l])
=============================================================================
