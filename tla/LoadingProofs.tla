--------------------------- MODULE LoadingProofs ---------------------------
(***************************************************************************)
(* What loading a file and starting a monitor establish, whatever the file *)
(* and the environment: the settings are those the file asks for and ones  *)
(* the other parts can run on, no secret is left unresolved, certel check  *)
(* probes what the monitor probes, every alert can be rendered, and what   *)
(* is sent is what the bodies say.                                         *)
(***************************************************************************)
EXTENDS Loading, FiniteSetTheorems, WellFoundedInduction, TLAPS

\* What Load leaves behind holds as long as the monitor runs.
LoadedInv ==
    /\ ConfigFile(file)
    /\ Accepted => cfg = applyDefaults(file) /\ Loads(file)

\* What is known of the compiled bodies from buildRuntimes on.
BodiesChecked ==
    stage \in {"compiled", "running"} =>
        \A c \in DOMAIN bodies : \A recovered \in BOOLEAN :
            Renders(source(bodies[c], [samplePayload EXCEPT !.recovered = recovered]),
                    samplePayload)

IInv == StartedMeansRenders /\ BodiesChecked

\* What was compiled, and what the last request was made of.
Requested ==
    /\ stage \in {"compiled", "running"} =>
         bodies = [c \in DOMAIN cfg.notifiers |->
                     Compiled(cfg.notifiers[c].body, cfg.notifiers[c].recovery_body)]
    /\ sent = Nothing \/
         /\ stage = "running"
         /\ sent.notifier \in DOMAIN cfg.notifiers
         /\ sent.ok =>
              LET n   == cfg.notifiers[sent.notifier]
                  src == source(Compiled(n.body, n.recovery_body), sent.payload)
              IN  /\ \A k \in DOMAIN src : src[k].kind # "odd"
                  /\ sent.body = renderTree(src)

RequestInv == LoadedInv /\ Requested

-----------------------------------------------------------------------------
(***************************************************************************)
(* Induction, from the library's theorem on minimal elements: a set of     *)
(* naturals that has 0 and every successor of its elements has them all.   *)
(***************************************************************************)
LEMMA LeastNatural ==
    ASSUME NEW S, S \subseteq Nat, S # {}
    PROVE  \E m \in S : \A n \in S : m <= n
<1>1. IsWellFoundedOn(OpToRel(<, Nat), Nat)
  BY NatLessThanWellFounded
<1>2. PICK m \in S : \A n \in S : ~ (<< n, m >> \in OpToRel(<, Nat))
  BY <1>1, WFMin
<1>3. \A n \in S : << n, m >> \in OpToRel(<, Nat) <=> n < m
  BY DEF OpToRel
<1>4. \A n \in S : ~(n < m)
  BY <1>2, <1>3, Zenon
<1>5. \A n \in S : m <= n
  BY <1>4
<1> QED BY <1>5

LEMMA Induction ==
    ASSUME NEW S, 0 \in S, \A n \in Nat : n \in S => n + 1 \in S
    PROVE  \A n \in Nat : n \in S
<1>1. SUFFICES ASSUME Nat \ S # {} PROVE FALSE
  OBVIOUS
<1>2. PICK m \in Nat \ S : \A n \in Nat \ S : m <= n
  BY <1>1, LeastNatural
<1>3. m - 1 \in Nat /\ m - 1 \in S
  BY <1>2
<1> QED BY <1>2, <1>3

(***************************************************************************)
(* FlattenSeq, which expandEnv is written with, is defined by a recursive  *)
(* function.  That there is one is by induction, and so is what it keeps.  *)
(***************************************************************************)
Flattens(g, seqs, n) ==
    g = [i \in 1..n |-> IF i = 1 THEN seqs[i] ELSE g[i - 1] \o seqs[i]]

LEMMA FlattensAt ==
    ASSUME NEW g, NEW seqs, NEW n, Flattens(g, seqs, n), NEW i \in 1..n
    PROVE  g[i] = IF i = 1 THEN seqs[i] ELSE g[i - 1] \o seqs[i]
<1> DEFINE F(f) == [j \in 1..n |-> IF j = 1 THEN seqs[j] ELSE f[j - 1] \o seqs[j]]
<1>1. g = F(g)
  BY DEF Flattens
<1>2. F(g)[i] = IF i = 1 THEN seqs[i] ELSE g[i - 1] \o seqs[i]
  OBVIOUS
<1> HIDE DEF F
<1> QED BY <1>1, <1>2

LEMMA FlattensExists ==
    ASSUME NEW seqs, NEW n \in Nat
    PROVE  \E g : Flattens(g, seqs, n)
<1> DEFINE S == {m \in Nat : \E g : Flattens(g, seqs, m)}
<1>1. 0 \in S
  <2>1. Flattens([i \in 1..0 |-> seqs[i]], seqs, 0)
    BY DEF Flattens
  <2> QED BY <2>1
<1>2. ASSUME NEW m \in Nat, m \in S
      PROVE  m + 1 \in S
  <2>1. PICK g : Flattens(g, seqs, m)
    BY <1>2
  <2> DEFINE h == [i \in 1..(m + 1) |->
                     IF i = 1 THEN seqs[i] ELSE g[i - 1] \o seqs[i]]
  <2>2. \A i \in 1..m : h[i] = g[i]
    BY <2>1, FlattensAt
  <2>3. \A i \in 1..(m + 1) : i # 1 => h[i - 1] = g[i - 1]
    <3>1. \A i \in 1..(m + 1) : i # 1 => i - 1 \in 1..m
      OBVIOUS
    <3> HIDE DEF h
    <3> QED BY <2>2, <3>1
  <2>4. h = [i \in 1..(m + 1) |-> IF i = 1 THEN seqs[i] ELSE h[i - 1] \o seqs[i]]
    BY <2>3
  <2>5. Flattens(h, seqs, m + 1)
    BY <2>4 DEF Flattens
  <2> QED BY <2>5
<1> HIDE DEF S
<1>3. n \in S
  BY <1>1, <1>2, Induction
<1> QED BY <1>3 DEF S

\* Sequences over a set are flattened to a sequence over that set.
LEMMA FlattenOfSeqs ==
    ASSUME NEW T, NEW seqs \in Seq(Seq(T))
    PROVE  FlattenSeq(seqs) \in Seq(T)
<1> DEFINE n == Len(seqs)
           g == CHOOSE f : Flattens(f, seqs, n)
<1>1. CASE n = 0
  BY <1>1 DEF FlattenSeq
<1>2. CASE n # 0
  <2>1. n \in Nat /\ n >= 1
    BY <1>2
  <2>2. Flattens(g, seqs, n)
    BY <2>1, FlattensExists
  <2>3. FlattenSeq(seqs) = g[n]
    BY <2>1 DEF FlattenSeq, Flattens
  <2> HIDE DEF g
  <2> DEFINE S == {m \in Nat : m \in 1..n => g[m] \in Seq(T)}
  <2>4. 0 \in S
    OBVIOUS
  <2>5. ASSUME NEW m \in Nat, m \in S
        PROVE  m + 1 \in S
    <3>1. SUFFICES ASSUME m + 1 \in 1..n PROVE g[m + 1] \in Seq(T)
      BY DEF S
    <3>2. g[m + 1] = IF m + 1 = 1 THEN seqs[m + 1] ELSE g[m] \o seqs[m + 1]
      <4>1. g[m + 1] = IF m + 1 = 1 THEN seqs[m + 1] ELSE g[(m + 1) - 1] \o seqs[m + 1]
        BY <2>2, <3>1, FlattensAt
      <4> QED BY <4>1
    <3>3. seqs[m + 1] \in Seq(T)
      BY <3>1
    <3>4. m + 1 # 1 => g[m] \in Seq(T)
      BY <2>5, <3>1
    <3>5. CASE m + 1 = 1
      BY <3>2, <3>3, <3>5
    <3>6. CASE m + 1 # 1
      BY <3>2, <3>3, <3>4, <3>6
    <3> QED BY <3>5, <3>6
  <2> HIDE DEF S
  <2>6. n \in S
    BY <2>1, <2>4, <2>5, Induction
  <2> QED BY <2>1, <2>3, <2>6 DEF S
<1> QED BY <1>1, <1>2

LEMMA SeqOfSubset ==
    ASSUME NEW S, NEW T, NEW q \in Seq(S), \A j \in DOMAIN q : q[j] \in T
    PROVE  q \in Seq(T)
OBVIOUS

\* A list without repetitions has as many elements as it is long.
LEMMA InjectiveCount ==
    ASSUME NEW n \in Nat, NEW f, DOMAIN f = 1..n,
           \A i, j \in 1..n : f[i] = f[j] => i = j
    PROVE  Cardinality({f[i] : i \in 1..n}) = n
<1> DEFINE g == [i \in 1..n |-> f[i]]
           S == {f[i] : i \in 1..n}
<1>1. g \in Bijection(1..n, S)
  BY DEF Bijection, Injection, Surjection, IsInjective
<1>2. IsFiniteSet(1..n) /\ Cardinality(1..n) = n
  BY FS_Interval
<1>3. ExistsBijection(1..n, S)
  BY <1>1 DEF ExistsBijection
<1> QED BY <1>2, <1>3, FS_Bijection

-----------------------------------------------------------------------------
(***************************************************************************)
(* applyDefaults, field by field: the records it updates have the fields   *)
(* that the decoder gives them.                                            *)
(***************************************************************************)
LEMMA NotifierFields ==
    ASSUME NEW n, AlertConfig(n)
    PROVE  LET m == NotifierExpanded(NotifierDefaults(n))
           IN  /\ m.url.path = expandEnv(n.url.path) /\ m.headers = expandEnv(n.headers)
               /\ m.body = expandEnvTree(n.body)
               /\ m.recovery_body = expandEnvTree(n.recovery_body)
               /\ m.concurrency = OrPositive(n.concurrency, 10)
               /\ m.send_recovery = Or(n.send_recovery, TRUE)
               /\ m.retries = Or(n.retries, 2)
<1> DEFINE m == NotifierDefaults(n)
           k == NotifierExpanded(m)
<1>1. /\ DOMAIN m = DOMAIN n /\ m.url = n.url /\ m.headers = n.headers
      /\ m.body = n.body /\ m.recovery_body = n.recovery_body
      /\ m.concurrency = OrPositive(n.concurrency, 10)
      /\ m.send_recovery = Or(n.send_recovery, TRUE) /\ m.retries = Or(n.retries, 2)
  BY DEF AlertConfig, NotifierDefaults
<1> HIDE DEF m
<1>2. DOMAIN m.url = {"http", "path"}
  BY <1>1 DEF AlertConfig
<1>3. /\ k.url.path = expandEnv(m.url.path) /\ k.headers = expandEnv(m.headers)
      /\ k.body = expandEnvTree(m.body)
      /\ k.recovery_body = expandEnvTree(m.recovery_body)
      /\ k.concurrency = m.concurrency /\ k.send_recovery = m.send_recovery
      /\ k.retries = m.retries
  BY <1>1, <1>2 DEF AlertConfig, NotifierExpanded
<1> QED BY <1>1, <1>3 DEF m

LEMMA ParamFields ==
    ASSUME NEW p, TargetParams(p)
    PROVE  LET d == ParamDefaults(p)
           IN  /\ DOMAIN d = DOMAIN p /\ d.notifiers = p.notifiers
               /\ d.warning_days = Or(p.warning_days, 30)
               /\ d.critical_days = Or(p.critical_days, 7)
               /\ d.timeout = Or(p.timeout, 10)
               /\ d.flap_streak = Or(p.flap_streak, 2)
               /\ d.connect_retries = Or(p.connect_retries, 2)
               /\ d.alert_repeat_interval = Or(p.alert_repeat_interval, scalarRepeat(86400))
BY DEF TargetParams, ParamDefaults

LEMMA InheritedFields ==
    ASSUME NEW p, TargetParams(p), NEW d
    PROVE  LET q == Inherited(p, d)
           IN  /\ q.notifiers = IF p.notifiers = << >> THEN d.notifiers ELSE p.notifiers
               /\ q.warning_days = Or(p.warning_days, d.warning_days)
               /\ q.critical_days = Or(p.critical_days, d.critical_days)
               /\ q.timeout = Or(p.timeout, d.timeout)
               /\ q.flap_streak = Or(p.flap_streak, d.flap_streak)
               /\ q.connect_retries = Or(p.connect_retries, d.connect_retries)
               /\ q.alert_repeat_interval
                    = Or(p.alert_repeat_interval, d.alert_repeat_interval)
BY DEF TargetParams, Inherited

LEMMA TargetFields ==
    ASSUME NEW t, Target(t), NEW d
    PROVE  LET u == TargetDefaults(t, d)
           IN  /\ u.protocol = OrEmpty(t.protocol, "tls")
               /\ u.address = WithPort(t.address, OrEmpty(t.protocol, "tls"))
               /\ u.params = Inherited(t.params, d)
               /\ u.servername = t.servername /\ u.ca_file = t.ca_file
BY DEF Target, TargetDefaults

LEMMA AppliedFields ==
    ASSUME NEW f, ConfigFile(f)
    PROVE  LET g == applyDefaults(f)
               d == ParamDefaults(f.target_defaults)
           IN  /\ g.check_interval = OrZero(f.check_interval, 300)
               /\ g.concurrency = OrPositive(f.concurrency, 10)
               /\ g.probe_log_retention = OrZero(f.probe_log_retention, 7776000)
               /\ g.alert_log_retention = OrZero(f.alert_log_retention, 31536000)
               /\ g.notifiers = [c \in DOMAIN f.notifiers |->
                                   NotifierExpanded(NotifierDefaults(f.notifiers[c]))]
               /\ g.targets = [i \in DOMAIN f.targets |-> TargetDefaults(f.targets[i], d)]
BY DEF ConfigFile, applyDefaults

(***************************************************************************)
(* From Load on, the configuration is the file with its defaults, and the  *)
(* file is one that Load accepts.                                          *)
(***************************************************************************)
LEMMA InitLoaded == Init => LoadedInv
BY LoadingAssumption DEF Init, LoadedInv, Accepted

LEMMA StepLoaded == LoadedInv /\ [Next]_vars => LoadedInv'
<1> SUFFICES ASSUME LoadedInv, [Next]_vars PROVE LoadedInv'
  OBVIOUS
<1>1. CASE Load
  BY <1>1 DEF Load, LoadedInv, Accepted
<1>2. CASE buildRuntimes
  BY <1>2 DEF buildRuntimes, LoadedInv, Accepted
<1>3. CASE buildDispatchers
  BY <1>3 DEF buildDispatchers, LoadedInv, Accepted
<1>4. ASSUME NEW c \in DOMAIN bodies, NEW payload \in Payloads, Render(c, payload)
      PROVE  LoadedInv'
  BY <1>4 DEF Render, LoadedInv, Accepted
<1>5. CASE UNCHANGED vars
  BY <1>5 DEF vars, LoadedInv, Accepted
<1> QED BY <1>1, <1>2, <1>3, <1>4, <1>5 DEF Next

-----------------------------------------------------------------------------
(***************************************************************************)
(* What Load accepts.                                                      *)
(***************************************************************************)
LEMMA LoadedIsRunnable == LoadedInv => AcceptedIsRunnable
<1> SUFFICES ASSUME LoadedInv, Accepted PROVE AcceptedIsRunnable
  BY DEF AcceptedIsRunnable
<1> DEFINE d == ParamDefaults(file.target_defaults)
<1>1. /\ ConfigFile(file) /\ cfg = applyDefaults(file) /\ Validate(cfg)
  BY DEF LoadedInv, Loads
<1>2. /\ cfg.concurrency = OrPositive(file.concurrency, 10)
      /\ cfg.notifiers = [c \in DOMAIN file.notifiers |->
                            NotifierExpanded(NotifierDefaults(file.notifiers[c]))]
      /\ cfg.targets = [i \in DOMAIN file.targets |-> TargetDefaults(file.targets[i], d)]
  BY <1>1, AppliedFields
<1> HIDE DEF d
<1>3. /\ cfg.check_interval > 0 /\ cfg.concurrency > 0
      /\ cfg.probe_log_retention > 0 /\ cfg.alert_log_retention > 0
  <2>1. file.concurrency \in Int
    BY <1>1 DEF ConfigFile
  <2>2. cfg.concurrency > 0
    BY <1>2, <2>1 DEF OrPositive
  <2> QED BY <1>1, <2>2 DEF Validate
<1>4. ASSUME NEW c \in DOMAIN cfg.notifiers
      PROVE  LET n == cfg.notifiers[c]
             IN  n.concurrency > 0 /\ n.timeout > 0 /\ n.retries >= 0
                 /\ n.min_severity \in repeatSeverities
  <2>1. AlertConfig(file.notifiers[c])
    BY <1>1, <1>2 DEF ConfigFile
  <2>2. cfg.notifiers[c].concurrency = OrPositive(file.notifiers[c].concurrency, 10)
    BY <1>2, <2>1, NotifierFields
  <2>3. file.notifiers[c].concurrency \in Int
    BY <2>1 DEF AlertConfig
  <2>4. cfg.notifiers[c].concurrency > 0
    BY <2>2, <2>3 DEF OrPositive
  <2>5. validNotifier(cfg.notifiers[c])
    BY <1>1 DEF Validate
  <2> QED BY <2>4, <2>5 DEF validNotifier
<1>5. ASSUME NEW i \in DOMAIN cfg.targets
      PROVE  LET p == cfg.targets[i].params
             IN  /\ p.timeout > 0 /\ p.connect_retries >= 0 /\ p.flap_streak > 0
                 /\ p.critical_days <= p.warning_days
                 /\ Cadence(p.alert_repeat_interval)
                 /\ p.notifiers # << >> /\ ToSet(p.notifiers) \subseteq DOMAIN cfg.notifiers
                 /\ Cardinality(ToSet(p.notifiers)) = Len(p.notifiers)
  <2> DEFINE p == cfg.targets[i].params
             q == file.targets[i].params
  <2>1. Target(file.targets[i]) /\ TargetParams(q)
    BY <1>1, <1>2 DEF ConfigFile, Target
  <2>2. p = Inherited(q, d)
    BY <1>2, <2>1, TargetFields
  <2>3. /\ validProbe(cfg.targets[i]) /\ p.flap_streak >= 1
        /\ validNotifierList(p.notifiers, DOMAIN cfg.notifiers)
        /\ validRepeat(p.alert_repeat_interval, cfg.check_interval)
    BY <1>1 DEF Validate, validTarget
  <2>4. TargetParams(file.target_defaults)
    BY <1>1 DEF ConfigFile
  <2>5. /\ p.notifiers = IF q.notifiers = << >> THEN d.notifiers ELSE q.notifiers
        /\ p.flap_streak = Or(q.flap_streak, d.flap_streak)
        /\ d.notifiers = file.target_defaults.notifiers
        /\ d.flap_streak = Or(file.target_defaults.flap_streak, 2)
    <3>1. /\ d.notifiers = file.target_defaults.notifiers
          /\ d.flap_streak = Or(file.target_defaults.flap_streak, 2)
      BY <2>4, ParamFields DEF d
    <3> QED BY <2>1, <2>2, <3>1, InheritedFields
  <2> HIDE DEF p, q
  <2>6. p.notifiers \in Seq(STRING)
    BY <2>1, <2>4, <2>5 DEF TargetParams
  <2>7. p.flap_streak > 0
    <3>1. p.flap_streak \in Int
      BY <2>1, <2>4, <2>5 DEF TargetParams, Setting, Or
    <3> QED BY <2>3, <3>1
  <2>8. p.timeout > 0 /\ p.connect_retries >= 0 /\ p.critical_days <= p.warning_days
    BY <2>3 DEF validProbe, p
  <2>9. Cadence(p.alert_repeat_interval)
    BY <2>3 DEF validRepeat, Cadence
  <2>10. /\ p.notifiers # << >> /\ ToSet(p.notifiers) \subseteq DOMAIN cfg.notifiers
         /\ Cardinality(ToSet(p.notifiers)) = Len(p.notifiers)
    <3> DEFINE n == Len(p.notifiers)
    <3>1. n \in Nat /\ DOMAIN p.notifiers = 1..n
      BY <2>6
    <3>2. \A j, k \in 1..n : p.notifiers[j] = p.notifiers[k] => j = k
      BY <2>3, <3>1 DEF validNotifierList, IsInjective
    <3>3. Cardinality({p.notifiers[j] : j \in 1..n}) = n
      BY <3>1, <3>2, InjectiveCount
    <3> QED BY <2>3, <3>1, <3>3 DEF validNotifierList, ToSet
  <2> QED BY <2>7, <2>8, <2>9, <2>10 DEF p
<1>6. Cardinality({Key(cfg.targets[i]) : i \in DOMAIN cfg.targets}) = Len(cfg.targets)
  <2> DEFINE n == Len(file.targets)
             keys == [i \in 1..n |-> Key(cfg.targets[i])]
  <2>1. n \in Nat /\ DOMAIN file.targets = 1..n
    BY <1>1 DEF ConfigFile
  <2>2. Len(cfg.targets) = n /\ DOMAIN cfg.targets = 1..n
    BY <1>2, <2>1
  <2>3. \A i, j \in 1..n : keys[i] = keys[j] => i = j
    BY <1>1, <2>2 DEF Validate
  <2>4. {keys[i] : i \in 1..n} = {Key(cfg.targets[i]) : i \in DOMAIN cfg.targets}
    BY <2>2
  <2>5. DOMAIN keys = 1..n
    OBVIOUS
  <2> HIDE DEF keys, n
  <2>6. Cardinality({keys[i] : i \in 1..n}) = n
    BY <2>1, <2>3, <2>5, InjectiveCount
  <2> QED BY <2>2, <2>4, <2>6
<1> QED BY <1>3, <1>4, <1>5, <1>6 DEF AcceptedIsRunnable

(***************************************************************************)
(* Whatever a file says, explicitly, by inheritance or not at all: if it is *)
(* accepted, the parts that run on it find what they assume (the ticker, the *)
(* slots, the attempts, the streaks, the reminders, the recipients, the rows). *)
(***************************************************************************)
THEOREM AcceptedRuns == Spec => []AcceptedIsRunnable
BY InitLoaded, StepLoaded, LoadedIsRunnable, PTL DEF Spec

LEMMA LoadedFollowsFile == LoadedInv => SettingsFollowFile
<1> SUFFICES ASSUME LoadedInv, Accepted PROVE SettingsFollowFile
  BY DEF SettingsFollowFile
<1> DEFINE d == ParamDefaults(file.target_defaults)
<1>1. ConfigFile(file) /\ cfg = applyDefaults(file)
  BY DEF LoadedInv
<1>2. /\ cfg.notifiers = [c \in DOMAIN file.notifiers |->
                            NotifierExpanded(NotifierDefaults(file.notifiers[c]))]
      /\ cfg.targets = [i \in DOMAIN file.targets |-> TargetDefaults(file.targets[i], d)]
  BY <1>1, AppliedFields
<1>3. ASSUME NEW a, NEW b, NEW c, c # Unset
      PROVE  FirstSet(<< a, b, c >>) = Or(a, Or(b, c))
  <2> DEFINE s == << a, b, c >>
             k == CHOOSE i \in DOMAIN s :
                    s[i] # Unset /\ \A j \in 1..(i - 1) : s[j] = Unset
  <2>1. DOMAIN s = 1..3 /\ s[1] = a /\ s[2] = b /\ s[3] = c
    OBVIOUS
  <2>2. \E i \in DOMAIN s : s[i] # Unset /\ \A j \in 1..(i - 1) : s[j] = Unset
    <3>1. CASE a # Unset
      BY <2>1, <3>1
    <3>2. CASE a = Unset /\ b # Unset
      BY <2>1, <3>2
    <3>3. CASE a = Unset /\ b = Unset
      BY <1>3, <2>1, <3>3
    <3> QED BY <3>1, <3>2, <3>3
  <2>3. k \in DOMAIN s /\ s[k] # Unset /\ \A j \in 1..(k - 1) : s[j] = Unset
    BY <2>2
  <2>4. FirstSet(s) = s[k]
    BY DEF FirstSet
  <2> HIDE DEF s, k
  <2>5. k \in 1..3
    BY <2>1, <2>3
  <2>6. s[k] = Or(a, Or(b, c))
    <3>1. CASE k = 1
      BY <2>1, <2>3, <3>1 DEF Or
    <3>2. CASE k = 2
      BY <2>1, <2>3, <3>2 DEF Or
    <3>3. CASE k = 3
      BY <2>1, <2>3, <3>3 DEF Or
    <3> QED BY <2>5, <3>1, <3>2, <3>3
  <2> QED BY <2>4, <2>6 DEF s
<1>4. ASSUME NEW i \in DOMAIN file.targets, NEW f \in DOMAIN Builtin
      PROVE  cfg.targets[i].params[f] =
               FirstSet(<< file.targets[i].params[f], file.target_defaults[f], Builtin[f] >>)
  <2> DEFINE p == cfg.targets[i].params
             q == file.targets[i].params
             b == file.target_defaults
  <2>1. Target(file.targets[i]) /\ TargetParams(q) /\ TargetParams(b)
    BY <1>1 DEF ConfigFile, Target
  <2>2. p = Inherited(q, d)
    BY <1>2, <2>1, TargetFields
  <2>3. f \in {"warning_days", "critical_days", "timeout", "connect_retries",
               "flap_streak", "alert_repeat_interval"}
    BY DEF Builtin
  <2>4. d[f] = Or(b[f], Builtin[f])
    BY <2>1, <2>3, ParamFields DEF Builtin
  <2> HIDE DEF d
  <2>5. p[f] = Or(q[f], d[f])
    BY <2>1, <2>2, <2>3, InheritedFields
  <2>6. Builtin[f] # Unset
    BY <2>3, LoadingAssumption DEF Builtin
  <2> QED BY <1>3, <2>4, <2>5, <2>6
<1>5. ASSUME NEW c \in DOMAIN file.notifiers, NEW f \in {"retries", "send_recovery"}
      PROVE  file.notifiers[c][f] \in {Unset, cfg.notifiers[c][f]}
  <2>1. AlertConfig(file.notifiers[c])
    BY <1>1 DEF ConfigFile
  <2>2. /\ cfg.notifiers[c].retries = Or(file.notifiers[c].retries, 2)
        /\ cfg.notifiers[c].send_recovery = Or(file.notifiers[c].send_recovery, TRUE)
    BY <1>2, <2>1, NotifierFields
  <2> QED BY <2>2 DEF Or
<1> QED BY <1>4, <1>5 DEF SettingsFollowFile

(***************************************************************************)
(* A setting goes before the one in target_defaults, and that before the   *)
(* built-in one, for every setting of every target of every file.          *)
(***************************************************************************)
THEOREM SettingsAreFollowed == Spec => []SettingsFollowFile
BY InitLoaded, StepLoaded, LoadedFollowsFile, PTL DEF Spec

LEMMA LoadedReproduces == LoadedInv => CheckReproducesMonitor
<1> SUFFICES ASSUME LoadedInv, NEW i \in DOMAIN file.targets, Explicit(file.targets[i])
             PROVE  LET t == applyDefaults(file).targets[i]
                        f == Flags(file.targets[i])
                    IN  /\ validFlags(f) <=> validProbe(t)
                        /\ Accepted => buildCheckTarget(f) =
                             [address |-> t.address, servername |-> t.servername,
                              protocol |-> t.protocol, ca_file |-> t.ca_file,
                              warning_days |-> t.params.warning_days,
                              critical_days |-> t.params.critical_days,
                              timeout |-> t.params.timeout,
                              connect_retries |-> t.params.connect_retries]
  BY DEF CheckReproducesMonitor
<1> DEFINE u == file.targets[i]
           t == applyDefaults(file).targets[i]
           f == Flags(u)
           d == ParamDefaults(file.target_defaults)
<1>1. ConfigFile(file)
  BY DEF LoadedInv
<1>2. Target(u) /\ TargetParams(u.params)
  BY <1>1 DEF ConfigFile, Target
<1>3. t = TargetDefaults(u, d)
  BY <1>1 DEF applyDefaults, ConfigFile
<1> HIDE DEF t, d
<1>4. /\ t.protocol = u.protocol
      /\ t.address = WithPort(u.address, u.protocol)
      /\ t.params = Inherited(u.params, d)
      /\ t.servername = u.servername /\ t.ca_file = u.ca_file
  <2>1. u.protocol # ""
    BY Zenon DEF Explicit
  <2>2. OrEmpty(u.protocol, "tls") = u.protocol
    BY <2>1, Zenon DEF OrEmpty
  <2> QED BY <1>2, <1>3, <2>2, TargetFields
<1>5. /\ t.params.warning_days = u.params.warning_days
      /\ t.params.critical_days = u.params.critical_days
      /\ t.params.timeout = u.params.timeout
      /\ t.params.connect_retries = u.params.connect_retries
  <2> DEFINE p == u.params
  <2>1. /\ p.warning_days # Unset /\ p.critical_days # Unset
        /\ p.timeout # Unset /\ p.connect_retries # Unset
    BY Zenon DEF Explicit
  <2>2. /\ t.params.warning_days = Or(p.warning_days, d.warning_days)
        /\ t.params.critical_days = Or(p.critical_days, d.critical_days)
        /\ t.params.timeout = Or(p.timeout, d.timeout)
        /\ t.params.connect_retries = Or(p.connect_retries, d.connect_retries)
    BY <1>2, <1>4, InheritedFields
  <2> QED BY <2>1, <2>2 DEF Or
<1>6. /\ f.address = u.address /\ f.servername = u.servername
      /\ f.protocol = u.protocol /\ f.ca_file = u.ca_file
      /\ f.timeout = u.params.timeout /\ f.retries = u.params.connect_retries
      /\ f.warningDays = u.params.warning_days /\ f.criticalDays = u.params.critical_days
  BY DEF Flags
<1>7. (u.protocol \in Protocols /\ u.address # NoAddress /\ u.address.port >= 0)
      <=> (u.protocol \in Protocols /\ t.address # NoAddress /\ t.address.port > 0)
  <2>1. u.address \in [host : STRING, port : Int]
    BY <1>2 DEF Target
  <2>2. SUFFICES ASSUME u.protocol \in Protocols
                 PROVE  (u.address # NoAddress /\ u.address.port >= 0)
                        <=> (t.address # NoAddress /\ t.address.port > 0)
    OBVIOUS
  <2>3. CASE u.address # NoAddress /\ u.address.port = 0
    <3>1. t.address = [u.address EXCEPT !.port = defaultPorts[u.protocol]]
      BY <1>4, <2>2, <2>3 DEF WithPort
    <3>2. defaultPorts[u.protocol] > 0
      BY <2>2 DEF Protocols, defaultPorts
    <3>3. t.address.port > 0
      BY <2>1, <3>1, <3>2
    <3>4. t.address # NoAddress
      <4>1. NoAddress.port = 0
        BY Zenon DEF NoAddress
      <4> QED BY <3>3, <4>1
    <3> QED BY <2>3, <3>3, <3>4
  <2>4. CASE ~(u.address # NoAddress /\ u.address.port = 0)
    <3>1. t.address = u.address
      BY <1>4, <2>4 DEF WithPort
    <3> QED BY <2>1, <2>4, <3>1
  <2> QED BY <2>3, <2>4
<1>8. validFlags(f) <=> validProbe(t)
  BY <1>4, <1>5, <1>6, <1>7 DEF validFlags, validProbe
<1>9. buildCheckTarget(f) =
        [address |-> t.address, servername |-> t.servername,
         protocol |-> t.protocol, ca_file |-> t.ca_file,
         warning_days |-> t.params.warning_days, critical_days |-> t.params.critical_days,
         timeout |-> t.params.timeout, connect_retries |-> t.params.connect_retries]
  BY <1>4, <1>5, <1>6 DEF buildCheckTarget
<1> QED BY <1>8, <1>9 DEF t

(***************************************************************************)
(* certel check accepts the flags of a target exactly when the monitor would *)
(* probe it, and then probes the same thing.                               *)
(***************************************************************************)
THEOREM CheckReproduces == Spec => []CheckReproducesMonitor
BY InitLoaded, StepLoaded, LoadedReproduces, PTL DEF Spec

-----------------------------------------------------------------------------
(***************************************************************************)
(* Secrets.  Expanding a string leaves the references that were escaped in *)
(* it and those that its variables are set to; a body's strings are expanded *)
(* one by one.                                                             *)
(***************************************************************************)
LEMMA StringsAreSeqs ==
    ASSUME NEW body, Structure(body)
    PROVE  Strings(body) \subseteq Seq(Part)
<1> SUFFICES ASSUME NEW s \in Strings(body) PROVE s \in Seq(Part)
  OBVIOUS
<1>1. CASE \E k \in DOMAIN body : body[k].kind = "string" /\ s = body[k].s
  <2>1. PICK k \in DOMAIN body : body[k].kind = "string" /\ s = body[k].s
    BY <1>1
  <2>2. body[k] # Odd /\ body[k] # Map(body[k].map)
    BY <2>1 DEF Odd, Map
  <2> QED BY <2>1, <2>2 DEF Structure
<1>2. CASE \E k \in DOMAIN body : \E l \in DOMAIN body[k].map : s = body[k].map[l]
  <2>1. PICK k \in DOMAIN body : \E l \in DOMAIN body[k].map : s = body[k].map[l]
    BY <1>2
  <2>2. body[k].map # << >>
    BY <2>1
  <2>3. body[k] # Odd /\ body[k] # String(body[k].s)
    BY <2>2 DEF Odd, String
  <2> QED BY <2>1, <2>3 DEF Structure
<1> QED BY <1>1, <1>2 DEF Strings

LEMMA StringsExpanded ==
    ASSUME NEW body, Structure(body), NEW s \in Strings(expandEnvTree(body))
    PROVE  \E r \in Strings(body) : s = expandEnv(r)
<1> DEFINE e == expandEnvTree(body)
           read == [r \in Strings(body) |-> expandEnv(r)]
<1>1. e = [k \in DOMAIN body |->
        CASE body[k].kind = "string" -> String(read[body[k].s])
          [] body[k].kind = "map" -> Map([l \in DOMAIN body[k].map |-> read[body[k].map[l]]])
          [] OTHER -> Odd]
  BY DEF expandEnvTree, OverStrings
<1> HIDE DEF e, read
<1>2. CASE \E k \in DOMAIN e : e[k].kind = "string" /\ s = e[k].s
  <2>1. PICK k \in DOMAIN e : e[k].kind = "string" /\ s = e[k].s
    BY <1>2
  <2>2. k \in DOMAIN body /\ body[k].kind = "string" /\ e[k] = String(read[body[k].s])
    BY <1>1, <2>1 DEF Map, Odd
  <2>3. s = read[body[k].s] /\ body[k].s \in Strings(body)
    BY <2>1, <2>2 DEF String, Strings
  <2> QED BY <2>3 DEF read
<1>3. CASE \E k \in DOMAIN e : \E l \in DOMAIN e[k].map : s = e[k].map[l]
  <2>6. PICK k \in DOMAIN e : \E l \in DOMAIN e[k].map : s = e[k].map[l]
    BY <1>3
  <2>1. PICK l \in DOMAIN e[k].map : s = e[k].map[l]
    BY <2>6
  <2>2. e[k].map # << >>
    BY <2>1
  <2>3. /\ k \in DOMAIN body /\ body[k].kind = "map"
        /\ e[k] = Map([j \in DOMAIN body[k].map |-> read[body[k].map[j]]])
    BY <1>1, <2>1, <2>2 DEF String, Odd
  <2>4. l \in DOMAIN body[k].map /\ s = read[body[k].map[l]]
    BY <2>1, <2>3 DEF Map
  <2>5. body[k].map[l] \in Strings(body)
    BY <2>3, <2>4 DEF Strings
  <2> QED BY <2>4, <2>5 DEF read
<1> QED BY <1>2, <1>3 DEF Strings, e

LEMMA ExpandedRefs ==
    ASSUME NEW s \in Seq(Part), Missing(s) = {}
    PROVE  EnvRefs(expandEnv(s), FALSE) \subseteq EnvRefs(s, TRUE) \cup Imported
<1> DEFINE R == EnvRefs(s, TRUE) \cup Imported
           T == {p \in Part : IsRef(p, "env") /\ ~p.escaped => p.name \in R}
<1>1. ASSUME NEW i \in DOMAIN s
      PROVE  expandPart(s[i]) \in Seq(T)
  <2>1. s[i] \in Part
    OBVIOUS
  <2>2. CASE ~IsRef(s[i], "env")
    <3>1. s[i] \in T /\ expandPart(s[i]) = << s[i] >>
      BY <2>1, <2>2 DEF expandPart
    <3> HIDE DEF T
    <3> QED BY <3>1
  <2>3. CASE IsRef(s[i], "env") /\ s[i].escaped
    <3>1. s[i].name \in EnvRefs(s, TRUE)
      BY <2>3 DEF EnvRefs
    <3>2. Decoded(s[i]) \in Part /\ Decoded(s[i]).name = s[i].name
      BY <2>1 DEF Part, Decoded
    <3>3. Decoded(s[i]) \in T
      BY <3>1, <3>2
    <3>4. expandPart(s[i]) = << Decoded(s[i]) >>
      BY <2>3 DEF expandPart
    <3> HIDE DEF T
    <3> QED BY <3>3, <3>4
  <2>4. CASE IsRef(s[i], "env") /\ ~s[i].escaped
    <3> DEFINE v == s[i].name
    <3>1. v \in DOMAIN Env
      BY <2>4 DEF Missing
    <3>2. Env[v] \in Seq(Part)
      BY <3>1, LoadingAssumption
    <3>3. ASSUME NEW j \in DOMAIN Env[v]
          PROVE  Env[v][j] \in T
      <4> DEFINE p == Env[v][j]
      <4>1. p \in Part /\ p.escaped \in BOOLEAN
        <5>1. p \in Part
          BY <3>2
        <5> QED BY <5>1 DEF Part
      <4>2. IsRef(p, "env") /\ ~p.escaped => p.name \in EnvRefs(Env[v], FALSE)
        BY <4>1 DEF EnvRefs
      <4>3. EnvRefs(Env[v], FALSE) \subseteq Imported
        BY <3>1 DEF Imported
      <4> QED BY <4>1, <4>2, <4>3
    <3> HIDE DEF T
    <3>4. Env[v] \in Seq(T)
      BY <3>2, <3>3, SeqOfSubset
    <3> QED BY <2>4, <3>4 DEF expandPart
  <2> QED BY <2>2, <2>3, <2>4
<1> HIDE DEF T
<1>2. [i \in DOMAIN s |-> expandPart(s[i])] \in Seq(Seq(T))
  BY <1>1
<1>3. expandEnv(s) \in Seq(T)
  BY <1>2, FlattenOfSeqs DEF expandEnv
<1> SUFFICES ASSUME NEW i \in DOMAIN expandEnv(s), IsRef(expandEnv(s)[i], "env"),
                    expandEnv(s)[i].escaped = FALSE
             PROVE  expandEnv(s)[i].name \in R
  BY DEF EnvRefs
<1>4. expandEnv(s)[i] \in T
  BY <1>3
<1> QED BY <1>4 DEF T

LEMMA SecretsExpanded ==
    ASSUME NEW n, AlertConfig(n), NEW s \in Secrets(NotifierExpanded(NotifierDefaults(n)))
    PROVE  \E r \in Secrets(n) : r \in Seq(Part) /\ s = expandEnv(r)
<1> DEFINE m == NotifierExpanded(NotifierDefaults(n))
<1>1. /\ m.url.path = expandEnv(n.url.path) /\ m.headers = expandEnv(n.headers)
      /\ m.body = expandEnvTree(n.body) /\ m.recovery_body = expandEnvTree(n.recovery_body)
  BY NotifierFields
<1> HIDE DEF m
<1>2. /\ n.url.path \in Seq(Part) /\ n.headers \in Seq(Part)
      /\ Structure(n.body) /\ Structure(n.recovery_body)
  BY DEF AlertConfig
<1>3. s \in {m.url.path, m.headers} \cup Strings(m.body) \cup Strings(m.recovery_body)
  BY DEF Secrets, m
<1>4. CASE s = m.url.path
  BY <1>1, <1>2, <1>4 DEF Secrets
<1>5. CASE s = m.headers
  BY <1>1, <1>2, <1>5 DEF Secrets
<1>6. CASE s \in Strings(m.body)
  <2>1. PICK r \in Strings(n.body) : s = expandEnv(r)
    BY <1>1, <1>2, <1>6, StringsExpanded
  <2> QED BY <1>2, <2>1, StringsAreSeqs DEF Secrets
<1>7. CASE s \in Strings(m.recovery_body)
  <2>1. PICK r \in Strings(n.recovery_body) : s = expandEnv(r)
    BY <1>1, <1>2, <1>7, StringsExpanded
  <2> QED BY <1>2, <2>1, StringsAreSeqs DEF Secrets
<1> QED BY <1>3, <1>4, <1>5, <1>6, <1>7

LEMMA LoadedResolves == LoadedInv => SecretsResolved
<1> SUFFICES ASSUME LoadedInv, Accepted, NEW c \in DOMAIN cfg.notifiers
             PROVE  LET asked == UNION {EnvRefs(s, TRUE) : s \in Secrets(file.notifiers[c])}
                    IN  \A s \in Secrets(cfg.notifiers[c]) :
                          EnvRefs(s, FALSE) \subseteq asked \cup Imported
  BY DEF SecretsResolved
<1> DEFINE asked == UNION {EnvRefs(s, TRUE) : s \in Secrets(file.notifiers[c])}
<1>1. ConfigFile(file) /\ cfg = applyDefaults(file) /\ Resolvable(file)
  BY DEF LoadedInv, Loads
<1>2. c \in DOMAIN file.notifiers
      /\ cfg.notifiers[c] = NotifierExpanded(NotifierDefaults(file.notifiers[c]))
  BY <1>1 DEF ConfigFile, applyDefaults
<1>3. AlertConfig(file.notifiers[c])
  BY <1>1, <1>2 DEF ConfigFile
<1>4. ASSUME NEW s \in Secrets(cfg.notifiers[c])
      PROVE  EnvRefs(s, FALSE) \subseteq asked \cup Imported
  <2>1. PICK r \in Secrets(file.notifiers[c]) : r \in Seq(Part) /\ s = expandEnv(r)
    BY <1>2, <1>3, SecretsExpanded
  <2>2. Missing(r) = {}
    BY <1>1, <1>2, <2>1 DEF Resolvable
  <2>3. EnvRefs(s, FALSE) \subseteq EnvRefs(r, TRUE) \cup Imported
    BY <2>1, <2>2, ExpandedRefs
  <2>4. EnvRefs(r, TRUE) \subseteq asked
    BY <2>1
  <2> QED BY <2>3, <2>4
<1> QED BY <1>4

(***************************************************************************)
(* No secret is missing from a configuration that was accepted, in any string *)
(* of any notifier, for any environment: every reference to the environment *)
(* that is left was escaped, or came out of the environment.               *)
(***************************************************************************)
THEOREM SecretsAreResolved == Spec => []SecretsResolved
BY InitLoaded, StepLoaded, LoadedResolves, PTL DEF Spec

-----------------------------------------------------------------------------
(***************************************************************************)
(* Bodies that can be rendered.                                            *)
(***************************************************************************)

(***************************************************************************)
(* The sample has every timestamp, and a timestamp is what a reference can *)
(* fail on: one that is zero resolves whatever its format.                 *)
(***************************************************************************)
LEMMA SampleIsHardest ==
    ASSUME NEW body, NEW payload, Renders(body, samplePayload)
    PROVE  Renders(body, payload)
<1>1. ASSUME NEW p, Resolves(p, samplePayload)
      PROVE  Resolves(p, payload)
  BY <1>1 DEF Resolves, samplePayload
<1> QED BY <1>1 DEF Renders

\* Which structure is rendered depends on the recovery flag only.
LEMMA SourceByRecovery ==
    ASSUME NEW b, NEW payload \in Payloads
    PROVE  source(b, payload)
             = source(b, [samplePayload EXCEPT !.recovered = payload.recovered])
BY DEF source, samplePayload, Payloads

\* ParseBody accepts a body only if both of its structures render.
LEMMA ParsedRenders ==
    ASSUME NEW body, NEW recoveryBody, ParseBody(body, recoveryBody), NEW recovered \in BOOLEAN
    PROVE  Renders(source(Compiled(body, recoveryBody),
                          [samplePayload EXCEPT !.recovered = recovered]), samplePayload)
BY DEF ParseBody

-----------------------------------------------------------------------------
LEMMA InitIInv == Init => IInv
<1> SUFFICES ASSUME Init PROVE IInv
  OBVIOUS
<1>1. Nothing.ok = TRUE
  BY DEF Nothing
<1>2. StartedMeansRenders
  BY <1>1 DEF Init, StartedMeansRenders
<1>3. BodiesChecked
  BY DEF Init, BodiesChecked
<1> QED BY <1>2, <1>3 DEF IInv

LEMMA StepIInv == IInv /\ [Next]_vars => IInv'
<1> SUFFICES ASSUME IInv, [Next]_vars PROVE IInv'
  OBVIOUS
<1> USE DEF IInv
<1>1. CASE Load
  BY <1>1 DEF Load, StartedMeansRenders, BodiesChecked
<1>2. CASE buildRuntimes
  <2>1. StartedMeansRenders'
    BY <1>2 DEF buildRuntimes, StartedMeansRenders
  <2>2. BodiesChecked'
    <3>1. SUFFICES ASSUME stage' = "compiled", NEW c \in DOMAIN bodies', NEW recovered \in BOOLEAN
                   PROVE  Renders(source(bodies'[c],
                                    [samplePayload EXCEPT !.recovered = recovered]), samplePayload)
      BY <1>2 DEF buildRuntimes, BodiesChecked
    <3>2. /\ ParseBody(cfg.notifiers[c].body, cfg.notifiers[c].recovery_body)
          /\ bodies'[c] = Compiled(cfg.notifiers[c].body, cfg.notifiers[c].recovery_body)
      BY <1>2, <3>1 DEF buildRuntimes
    <3> QED BY <3>2, ParsedRenders
  <2> QED BY <2>1, <2>2
<1>3. CASE buildDispatchers
  BY <1>3 DEF buildDispatchers, StartedMeansRenders, BodiesChecked
<1>4. ASSUME NEW c \in DOMAIN bodies, NEW payload \in Payloads, Render(c, payload)
      PROVE  IInv'
  <2>1. Renders(source(bodies[c], payload), payload)
    <3>1. payload.recovered \in BOOLEAN
      BY DEF Payloads
    <3>2. Renders(source(bodies[c], [samplePayload EXCEPT !.recovered = payload.recovered]),
                  samplePayload)
      BY <1>4, <3>1 DEF Render, BodiesChecked
    <3> QED BY <3>2, SourceByRecovery, SampleIsHardest
  <2>2. StartedMeansRenders'
    BY <1>4, <2>1 DEF Render, StartedMeansRenders
  <2>3. BodiesChecked'
    BY <1>4 DEF Render, BodiesChecked
  <2> QED BY <2>2, <2>3
<1>5. CASE UNCHANGED vars
  BY <1>5 DEF vars, StartedMeansRenders, BodiesChecked
<1> QED BY <1>1, <1>2, <1>3, <1>4, <1>5 DEF Next

(***************************************************************************)
(* A monitor that started can render every alert, for any bodies, any      *)
(* environment and any configuration file.                                 *)
(***************************************************************************)
THEOREM StartedRenders == Spec => []StartedMeansRenders
<1>1. IInv => StartedMeansRenders
  BY DEF IInv
<1> QED BY InitIInv, StepIInv, <1>1, PTL DEF Spec

-----------------------------------------------------------------------------
(***************************************************************************)
(* Requests.  A recovery's structure has the keys of both bodies, and at   *)
(* each key what deepMerge makes of the two; rendering keeps the shape.    *)
(***************************************************************************)

\* Every value of a body is what its kind says.
Shaped(body) ==
    \A k \in DOMAIN body :
        body[k] \in {String(body[k].s), Odd, Map(body[k].map)}

LEMMA Values ==
    /\ \A s : String(s).kind = "string" /\ String(s).s = s /\ String(s).map = << >>
    /\ Odd.kind = "odd" /\ Odd.map = << >>
    /\ \A m : Map(m).kind = "map" /\ Map(m).map = m
BY DEF String, Odd, Map

LEMMA ExpandedShaped ==
    ASSUME NEW body
    PROVE  Shaped(expandEnvTree(body))
<1> DEFINE e == expandEnvTree(body)
           read == [r \in Strings(body) |-> expandEnv(r)]
<1> SUFFICES ASSUME NEW k \in DOMAIN e
             PROVE  e[k] \in {String(e[k].s), Odd, Map(e[k].map)}
  BY DEF Shaped
<1>1. /\ k \in DOMAIN body
      /\ e[k] = CASE body[k].kind = "string" -> String(read[body[k].s])
                  [] body[k].kind = "map" ->
                       Map([l \in DOMAIN body[k].map |-> read[body[k].map[l]]])
                  [] OTHER -> Odd
  BY DEF expandEnvTree, OverStrings
<1> HIDE DEF e, read
<1>2. CASE e[k] = String(read[body[k].s])
  BY <1>2 DEF String
<1>3. CASE e[k] = Map([l \in DOMAIN body[k].map |-> read[body[k].map[l]]])
  BY <1>3 DEF Map
<1> QED BY <1>1, <1>2, <1>3

\* src is the structure of body with over on top, and r what it renders to.
Rendering(src, r, body, over) ==
    /\ Shaped(body) /\ Shaped(over)
    /\ DOMAIN src = DOMAIN body \cup DOMAIN over
    /\ \A k \in DOMAIN src : src[k] = deepMerge(body, over)[k]
    /\ \A k \in DOMAIN src : src[k].kind # "odd"
    /\ r = renderTree(src)

TwoMaps(body, over, k) ==
    k \in DOMAIN body /\ body[k].kind = "map" /\ over[k].kind = "map"

\* Where the value at k, and at l below it, comes from.
Taken(body, over, k, l) ==
    IF k \in DOMAIN over /\ (over[k].kind = "map" => l \in DOMAIN over[k].map)
    THEN over ELSE body

LEMMA MergedValue ==
    ASSUME NEW src, NEW r, NEW body, NEW over, Rendering(src, r, body, over),
           NEW k \in DOMAIN src
    PROVE  \/ k \notin DOMAIN over /\ k \in DOMAIN body /\ src[k] = body[k]
           \/ k \in DOMAIN over /\ ~TwoMaps(body, over, k) /\ src[k] = over[k]
           \/ /\ k \in DOMAIN over /\ TwoMaps(body, over, k) /\ src[k].kind = "map"
              /\ DOMAIN src[k].map = DOMAIN body[k].map \cup DOMAIN over[k].map
              /\ \A l \in DOMAIN src[k].map :
                   src[k].map[l] = IF l \in DOMAIN over[k].map THEN over[k].map[l]
                                                              ELSE body[k].map[l]
<1> DEFINE both == [l \in DOMAIN body[k].map \cup DOMAIN over[k].map |->
                      IF l \in DOMAIN over[k].map THEN over[k].map[l] ELSE body[k].map[l]]
<1>1. /\ k \in DOMAIN body \cup DOMAIN over
      /\ src[k] = IF k \notin DOMAIN over THEN body[k]
                  ELSE IF TwoMaps(body, over, k) THEN Map(both) ELSE over[k]
  BY DEF Rendering, deepMerge, TwoMaps
<1>2. DOMAIN both = DOMAIN body[k].map \cup DOMAIN over[k].map
  OBVIOUS
<1>3. \A l \in DOMAIN both :
        both[l] = IF l \in DOMAIN over[k].map THEN over[k].map[l] ELSE body[k].map[l]
  OBVIOUS
<1> HIDE DEF both
<1>4. Map(both).kind = "map" /\ Map(both).map = both
  BY Values
<1> QED BY <1>1, <1>2, <1>3, <1>4

LEMMA MergedShape ==
    ASSUME NEW src, NEW r, NEW body, NEW over, Rendering(src, r, body, over),
           NEW k \in DOMAIN src
    PROVE  src[k].kind \in {"string", "map"}
<1>1. \A v : v \in {String(v.s), Odd, Map(v.map)} => v.kind \in {"string", "odd", "map"}
  BY Values
<1>2. /\ k \in DOMAIN body => body[k].kind \in {"string", "odd", "map"}
      /\ k \in DOMAIN over => over[k].kind \in {"string", "odd", "map"}
  BY <1>1 DEF Rendering, Shaped
<1>3. src[k].kind # "odd"
  BY DEF Rendering
<1> QED BY <1>2, <1>3, MergedValue

LEMMA RenderedFollows ==
    ASSUME NEW s
    PROVE  Follows(renderString(s), s)
BY DEF Follows, Typed, renderString, wholeAlertRef

LEMMA RenderedValue ==
    ASSUME NEW src, NEW r, NEW body, NEW over, Rendering(src, r, body, over),
           NEW k \in DOMAIN src
    PROVE  \/ /\ src[k].kind = "string" /\ r[k].kind = "string"
              /\ Follows(r[k].s, src[k].s)
           \/ /\ src[k].kind = "map" /\ r[k].kind = "map"
              /\ DOMAIN r[k].map = DOMAIN src[k].map
              /\ \A l \in DOMAIN r[k].map : Follows(r[k].map[l], src[k].map[l])
<1> DEFINE read == [s \in Strings(src) |-> renderString(s)]
           mapped == [l \in DOMAIN src[k].map |-> read[src[k].map[l]]]
<1>1. r[k] = CASE src[k].kind = "string" -> String(read[src[k].s])
               [] src[k].kind = "map" -> Map(mapped)
               [] OTHER -> Odd
  BY DEF Rendering, renderTree, OverStrings
<1>2. src[k].kind = "string" => Follows(read[src[k].s], src[k].s)
  <2>1. src[k].kind = "string" => src[k].s \in Strings(src)
    BY DEF Strings
  <2> QED BY <2>1, RenderedFollows
<1>3. DOMAIN mapped = DOMAIN src[k].map
  OBVIOUS
<1>4. ASSUME NEW l \in DOMAIN src[k].map
      PROVE  Follows(mapped[l], src[k].map[l])
  <2>1. src[k].map[l] \in Strings(src)
    BY DEF Strings
  <2>2. mapped[l] = renderString(src[k].map[l])
    BY <2>1
  <2> QED BY <2>2, RenderedFollows
<1> HIDE DEF read, mapped
<1>5. CASE src[k].kind = "string"
  <2>1. r[k] = String(read[src[k].s])
    BY <1>1, <1>5
  <2> QED BY <1>2, <1>5, <2>1, Values
<1>6. CASE src[k].kind = "map"
  <2>1. r[k] = Map(mapped)
    BY <1>1, <1>6
  <2>2. r[k].kind = "map" /\ r[k].map = mapped
    BY <2>1, Values
  <2> QED BY <1>3, <1>4, <1>6, <2>2
<1> QED BY <1>5, <1>6, MergedShape

LEMMA StringFollows ==
    ASSUME NEW src, NEW r, NEW body, NEW over, Rendering(src, r, body, over),
           NEW k \in DOMAIN src, r[k].kind = "string", NEW l
    PROVE  LET from == Taken(body, over, k, l)[k]
           IN  from.kind = "string" /\ Follows(r[k].s, from.s)
<1>1. src[k].kind = "string" /\ Follows(r[k].s, src[k].s)
  BY RenderedValue
<1>2. Taken(body, over, k, l)[k] = src[k]
  BY <1>1, MergedValue DEF Taken
<1> QED BY <1>1, <1>2

LEMMA MapFollows ==
    ASSUME NEW src, NEW r, NEW body, NEW over, Rendering(src, r, body, over),
           NEW k \in DOMAIN src, r[k].kind # "string"
    PROVE  /\ DOMAIN r[k].map = NestedKeys(body, k) \cup NestedKeys(over, k)
           /\ \A l \in DOMAIN r[k].map :
                LET from == Taken(body, over, k, l)[k]
                IN  l \in DOMAIN from.map /\ Follows(r[k].map[l], from.map[l])
<1>1. /\ src[k].kind = "map" /\ DOMAIN r[k].map = DOMAIN src[k].map
      /\ \A l \in DOMAIN r[k].map : Follows(r[k].map[l], src[k].map[l])
  BY RenderedValue
<1>2. SUFFICES
        /\ DOMAIN src[k].map = NestedKeys(body, k) \cup NestedKeys(over, k)
        /\ \A l \in DOMAIN src[k].map :
             LET from == Taken(body, over, k, l)[k]
             IN  l \in DOMAIN from.map /\ from.map[l] = src[k].map[l]
  BY <1>1
<1>3. CASE k \notin DOMAIN over /\ k \in DOMAIN body /\ src[k] = body[k]
  BY <1>3 DEF NestedKeys, Taken
<1>4. CASE k \in DOMAIN over /\ ~TwoMaps(body, over, k) /\ src[k] = over[k]
  <2>1. NestedKeys(body, k) = {}
    <3>1. CASE k \in DOMAIN body
      <4>1. body[k] \in {String(body[k].s), Odd, Map(body[k].map)}
        BY <3>1 DEF Rendering, Shaped
      <4>2. body[k].kind # "map"
        BY <1>1, <1>4, <3>1 DEF TwoMaps
      <4>3. body[k].map = << >>
        BY <4>1, <4>2, Values
      <4> QED BY <3>1, <4>3 DEF NestedKeys
    <3>2. CASE k \notin DOMAIN body
      BY <3>2 DEF NestedKeys
    <3> QED BY <3>1, <3>2
  <2>2. NestedKeys(over, k) = DOMAIN src[k].map
    BY <1>4 DEF NestedKeys
  <2>3. \A l \in DOMAIN src[k].map : Taken(body, over, k, l)[k] = src[k]
    BY <1>4 DEF Taken
  <2> QED BY <2>1, <2>2, <2>3
<1>5. CASE /\ k \in DOMAIN over /\ TwoMaps(body, over, k) /\ src[k].kind = "map"
           /\ DOMAIN src[k].map = DOMAIN body[k].map \cup DOMAIN over[k].map
           /\ \A l \in DOMAIN src[k].map :
                src[k].map[l] = IF l \in DOMAIN over[k].map THEN over[k].map[l]
                                                           ELSE body[k].map[l]
  <2>1. /\ NestedKeys(body, k) = DOMAIN body[k].map
        /\ NestedKeys(over, k) = DOMAIN over[k].map
    BY <1>5 DEF NestedKeys, TwoMaps
  <2>2. ASSUME NEW l \in DOMAIN src[k].map
        PROVE  LET from == Taken(body, over, k, l)[k]
               IN  l \in DOMAIN from.map /\ from.map[l] = src[k].map[l]
    <3>1. CASE l \in DOMAIN over[k].map
      BY <1>5, <3>1 DEF Taken
    <3>2. CASE l \notin DOMAIN over[k].map
      BY <1>5, <3>2 DEF Taken, TwoMaps
    <3> QED BY <3>1, <3>2
  <2> QED BY <1>5, <2>1, <2>2
<1> QED BY <1>3, <1>4, <1>5, MergedValue

\* What Body.Render takes is one of the two bodies, or the two merged.
LEMMA SourceRenders ==
    ASSUME NEW body, NEW recovery, NEW payload, Shaped(body), Shaped(recovery),
           NEW src, src = source(Compiled(body, recovery), payload),
           \A k \in DOMAIN src : src[k].kind # "odd"
    PROVE  Rendering(src, renderTree(src), body,
                     IF payload.recovered THEN recovery ELSE NoBody)
<1>1. DOMAIN NoBody = {} /\ Shaped(NoBody)
  BY DEF NoBody, Shaped
<1>2. /\ DOMAIN deepMerge(body, NoBody) = DOMAIN body
      /\ \A k \in DOMAIN body : deepMerge(body, NoBody)[k] = body[k]
  BY <1>1 DEF deepMerge
<1>3. CASE ~payload.recovered
  <2>1. src = body
    BY <1>3 DEF source, Compiled
  <2> QED BY <1>1, <1>2, <1>3, <2>1 DEF Rendering
<1>4. CASE payload.recovered
  <2> SUFFICES Rendering(src, renderTree(src), body, recovery)
    BY <1>4
  <2> DEFINE merged == deepMerge(body, recovery)
  <2>1. DOMAIN merged = DOMAIN body \cup DOMAIN recovery
    BY DEF deepMerge
  <2>2. CASE recovery # NoBody /\ merged # NoBody
    <3>1. src = merged
      BY <1>4, <2>2 DEF source, Compiled
    <3> QED BY <2>1, <3>1 DEF Rendering
  <2>3. CASE recovery = NoBody
    <3>1. src = body
      BY <2>3 DEF source, Compiled
    <3> QED BY <1>1, <1>2, <2>3, <3>1 DEF Rendering
  <2>4. CASE recovery # NoBody /\ merged = NoBody
    <3>1. src = body
      BY <2>4 DEF source, Compiled
    <3>2. DOMAIN body = {} /\ DOMAIN recovery = {}
      BY <1>1, <2>1, <2>4
    <3> QED BY <3>1, <3>2 DEF Rendering
  <2> QED BY <2>2, <2>3, <2>4
<1> QED BY <1>3, <1>4

LEMMA InitRequest == Init => RequestInv
<1> SUFFICES ASSUME Init PROVE Requested
  BY InitLoaded DEF RequestInv
<1> QED BY DEF Init, Requested

LEMMA StepRequest == RequestInv /\ [Next]_vars => RequestInv'
<1> SUFFICES ASSUME RequestInv, [Next]_vars PROVE Requested'
  BY StepLoaded DEF RequestInv
<1> USE DEF RequestInv
<1>1. CASE Load
  BY <1>1 DEF Load, Requested
<1>2. CASE buildRuntimes
  BY <1>2 DEF buildRuntimes, Requested
<1>3. CASE buildDispatchers
  BY <1>3 DEF buildDispatchers, Requested
<1>4. ASSUME NEW c \in DOMAIN bodies, NEW payload \in Payloads, Render(c, payload)
      PROVE  Requested'
  <2> DEFINE n == cfg.notifiers[c]
             src == source(bodies[c], payload)
  <2>1. /\ stage = "running" /\ stage' = stage /\ cfg' = cfg /\ bodies' = bodies
        /\ sent' = [notifier |-> c, payload |-> payload, ok |-> Renders(src, payload),
                    body |-> IF Renders(src, payload) THEN renderTree(src) ELSE NoBody]
    BY <1>4 DEF Render
  <2>2. c \in DOMAIN cfg.notifiers /\ bodies[c] = Compiled(n.body, n.recovery_body)
    BY <2>1 DEF Requested
  <2>3. Renders(src, payload) => \A k \in DOMAIN src : src[k].kind # "odd"
    BY DEF Renders
  <2> HIDE DEF n, src
  <2>4. /\ sent'.notifier = c /\ sent'.payload = payload /\ sent'.ok = Renders(src, payload)
        /\ Renders(src, payload) => sent'.body = renderTree(src)
    BY <2>1
  <2>5. src = source(Compiled(n.body, n.recovery_body), payload)
    BY <2>2 DEF src
  <2> QED BY <2>1, <2>2, <2>3, <2>4, <2>5 DEF Requested, n
<1>5. CASE UNCHANGED vars
  BY <1>5 DEF vars, Requested
<1> QED BY <1>1, <1>2, <1>3, <1>4, <1>5 DEF Next

LEMMA RequestedFollows == RequestInv => RequestFollowsBodies
<1> SUFFICES ASSUME RequestInv, sent # Nothing, sent.ok PROVE RequestFollowsBodies
  BY DEF RequestFollowsBodies
<1> DEFINE c == sent.notifier
           n == cfg.notifiers[c]
           src == source(Compiled(n.body, n.recovery_body), sent.payload)
           over == IF sent.payload.recovered THEN n.recovery_body ELSE NoBody
           r == sent.body
<1>1. /\ c \in DOMAIN cfg.notifiers /\ stage = "running"
      /\ \A k \in DOMAIN src : src[k].kind # "odd"
      /\ r = renderTree(src)
  BY DEF RequestInv, Requested
<1>2. ConfigFile(file) /\ cfg = applyDefaults(file)
  BY <1>1 DEF RequestInv, LoadedInv, Accepted
<1>3. /\ AlertConfig(file.notifiers[c])
      /\ n = NotifierExpanded(NotifierDefaults(file.notifiers[c]))
  BY <1>1, <1>2 DEF ConfigFile, applyDefaults
<1>4. /\ n.body = expandEnvTree(file.notifiers[c].body)
      /\ n.recovery_body = expandEnvTree(file.notifiers[c].recovery_body)
  BY <1>3, NotifierFields
<1>5. Shaped(n.body) /\ Shaped(n.recovery_body)
  BY <1>4, ExpandedShaped
<1> HIDE DEF src
<1>6. Rendering(src, r, n.body, over)
  <2>1. src = source(Compiled(n.body, n.recovery_body), sent.payload)
    BY DEF src
  <2> QED BY <1>1, <1>5, <2>1, SourceRenders
<1>7. DOMAIN src = DOMAIN r /\ DOMAIN r = DOMAIN n.body \cup DOMAIN over
  BY <1>6 DEF Rendering, renderTree, OverStrings
<1>8. \A k, l : Source(k, l) = Taken(n.body, over, k, l)
  <2>1. DOMAIN NoBody = {}
    BY DEF NoBody
  <2>2. CASE sent.payload.recovered
    BY <2>2 DEF Source, Overridden, Taken
  <2>3. CASE ~sent.payload.recovered
    BY <2>1, <2>3 DEF Source, Overridden, Taken
  <2> QED BY <2>2, <2>3
<1> HIDE DEF n, over, r
<1>9. ASSUME NEW k \in DOMAIN r, NEW l, r[k].kind = "string"
      PROVE  LET from == Source(k, l)[k]
             IN  from.kind = "string" /\ Follows(r[k].s, from.s)
  BY <1>6, <1>7, <1>8, <1>9, StringFollows
<1>10. ASSUME NEW k \in DOMAIN r, r[k].kind = "string"
       PROVE  LET from == Source(k, "")[k]
              IN  from.kind = "string" /\ Follows(r[k].s, from.s)
  BY <1>9, <1>10, Zenon
<1>11. ASSUME NEW k \in DOMAIN r, r[k].kind # "string"
       PROVE  /\ DOMAIN r[k].map = NestedKeys(n.body, k) \cup NestedKeys(over, k)
              /\ \A l \in DOMAIN r[k].map :
                   LET from == Source(k, l)[k]
                   IN  l \in DOMAIN from.map /\ Follows(r[k].map[l], from.map[l])
  BY <1>6, <1>7, <1>8, <1>11, MapFollows
<1> QED BY <1>7, <1>10, <1>11, Zenon DEF RequestFollowsBodies, n, over, r

(***************************************************************************)
(* What is sent says, key by key, what recovery_body says in a recovery and *)
(* what body says for the rest, and keeps the types, for bodies of any shape. *)
(***************************************************************************)
THEOREM RequestsFollow == Spec => []RequestFollowsBodies
BY InitRequest, StepRequest, RequestedFollows, PTL DEF Spec

=============================================================================
