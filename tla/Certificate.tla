---------------------------- MODULE Certificate ----------------------------
(***************************************************************************)
(* The verdict on a presented chain (evaluate and its helpers in           *)
(* internal/probe/probe.go, EffectiveNotAfter in internal/probe/result.go),*)
(* probed again and again while the certificates grow older, and what a    *)
(* scrape of /metrics says of it (internal/metrics/metrics.go).            *)
(*                                                                         *)
(* A certificate is its subject and issuer names, its expiry and whether   *)
(* it is signed with an algorithm Go refuses.  Time is in half days, the   *)
(* coarsest unit that tells a whole number of days from a broken one.      *)
(***************************************************************************)
EXTENDS Integers, Sequences, SequencesExt, FiniteSets, FiniteSetsExt

CONSTANTS
    Leaves,         \* leaf certificates the server may present first
    Others,         \* what it may present after it
    MaxOthers,      \* bound: at most so many
    TrustStores,    \* sets of roots the target may be configured with
    CriticalDays,
    WarningDays

CONSTANT MaxTime    \* bound: the clock stops here

Names == STRING
Certificates == [subject : Names, issuer : Names, notAfter : Int, weak : BOOLEAN]

ASSUME CertificateAssumption ==
    /\ Leaves \cup Others \cup UNION TrustStores \subseteq Certificates
    /\ {CriticalDays, WarningDays} \subseteq Int /\ CriticalDays <= WarningDays
    /\ MaxOthers \in Nat /\ MaxTime \in Nat

VARIABLES
    peers,     \* the chain the server presents, leaf first
    target,    \* what is configured for it, and whether its name matches
    now,
    result     \* of the last probe, if there was one

vars == << peers, target, now, result >>

\* caFile tells whether the ca_file, if any, can be read and holds a certificate.
Target == [insecure : BOOLEAN, nameMatches : BOOLEAN, caFile : BOOLEAN,
           roots : TrustStores]

-----------------------------------------------------------------------------
(***************************************************************************)
(* x509.Certificate.Verify, as far as evaluate depends on it: the leaf's   *)
(* expiry, then its name, then every live chain to a root whose signatures *)
(* can be checked, a root's own excepted.  A ca_file is read before all.   *)
(***************************************************************************)
Live(c, time) == time <= c.notAfter

IssuedBy(c, d) == c.issuer = d.subject

\* Paths through the presented certificates from the leaf, none twice.
Paths(chain) ==
    {p \in UNION {[1 .. n -> 1 .. Len(chain)] : n \in 1 .. Len(chain)} :
        /\ p[1] = 1
        /\ IsInjective(p)
        /\ \A i \in 1 .. Len(p) - 1 : IssuedBy(chain[p[i]], chain[p[i + 1]])}

Certs(chain, p) == [i \in DOMAIN p |-> chain[p[i]]]

Chains(chain, roots, time) ==
    LET candidates == {Certs(chain, p) : p \in Paths(chain)}
        anchored   == {c \in candidates : Last(c) \in roots}
                        \cup {Append(c, r) : c \in candidates, r \in roots}
    IN  {c \in anchored :
            /\ \A i \in 1 .. Len(c) - 1 : IssuedBy(c[i], c[i + 1]) /\ ~c[i].weak
            /\ \A i \in 1 .. Len(c) : Live(c[i], time)}

verifyErr(chain, t, time) ==
    IF ~t.caFile THEN "ca_file"
    ELSE IF ~Live(chain[1], time) THEN "expired"
    ELSE IF ~t.insecure /\ ~t.nameMatches THEN "hostname"
    ELSE IF Chains(chain, t.roots, time) = {} THEN "untrusted"
    ELSE "none"

-----------------------------------------------------------------------------
earliestNotAfter(chain) == Min({chain[i].notAfter : i \in DOMAIN chain})

\* Mutant: the verified chain whose earliest expiry is soonest.
verifyWorst(chain, t, time) ==
    CHOOSE worst \in Chains(chain, t.roots, time) :
        \A c \in Chains(chain, t.roots, time) :
            earliestNotAfter(worst) <= earliestNotAfter(c)

\* Of the verified chains, one whose earliest expiry is latest.
verify(chain, t, time) ==
    CHOOSE best \in Chains(chain, t.roots, time) :
        \A c \in Chains(chain, t.roots, time) :
            earliestNotAfter(c) <= earliestNotAfter(best)

(***************************************************************************)
(* The leaf, its issuer among the presented certificates, the issuer's     *)
(* issuer and so on, each time the first that was not used yet.            *)
(***************************************************************************)
Issuers(chain, p) ==
    {i \in 2 .. Len(chain) :
        /\ IssuedBy(chain[Last(p)], chain[i])
        /\ \A k \in DOMAIN p : p[k] # i}

WithIssuer(chain, p) ==
    LET c == chain[Last(p)]
    IN  IF c.issuer = c.subject \/ Issuers(chain, p) = {}
        THEN p ELSE Append(p, Min(Issuers(chain, p)))

leafChain(chain) ==
    LET Followed[n \in 0 .. Len(chain)] ==
            IF n = 0 THEN << 1 >> ELSE WithIssuer(chain, Followed[n - 1])
    IN  Certs(chain, Followed[Len(chain)])

Expired(chain, time) == \E i \in DOMAIN chain : time > chain[i].notAfter

weakSignatureCert(chain) ==
    \E i \in DOMAIN chain : chain[i].weak /\ chain[i].issuer # chain[i].subject

\* Truncated toward zero.
daysUntil(exp, time) ==
    IF exp >= time THEN (exp - time) \div 2 ELSE -((time - exp) \div 2)

\* Mutant: every presented certificate is considered.
rawPeers(chain, t, time) == chain

\* The certificates that the status and the expiry are drawn from.
scope(chain, t, time) ==
    IF verifyErr(chain, t, time) = "none" THEN verify(chain, t, time)
                                          ELSE leafChain(chain)

Verdict(status, severity, chain, t, time) ==
    LET effective == earliestNotAfter(scope(chain, t, time))
    IN  [status |-> status, severity |-> severity,
         verifyOK |-> verifyErr(chain, t, time) = "none",
         notAfter |-> effective, daysLeft |-> daysUntil(effective, time)]

\* An untrusted chain of a target that is not insecure.
TrustVerdict(chain, t, time) ==
    IF weakSignatureCert(chain)
    THEN Verdict("weak_signature", "critical", chain, t, time)
    ELSE Verdict("invalid", "emergency", chain, t, time)

DaysVerdict(chain, t, time) ==
    LET days == daysUntil(earliestNotAfter(scope(chain, t, time)), time)
    IN  IF days < CriticalDays THEN Verdict("expiring_soon", "critical", chain, t, time)
        ELSE IF days < WarningDays THEN Verdict("expiring_soon", "warning", chain, t, time)
        ELSE Verdict("ok", "ok", chain, t, time)

evaluate(chain, t, time) ==
    IF Expired(scope(chain, t, time), time)
    THEN Verdict("expired", "emergency", chain, t, time)
    ELSE IF verifyErr(chain, t, time) # "none" /\ ~t.insecure
    THEN TrustVerdict(chain, t, time)
    ELSE DaysVerdict(chain, t, time)

-----------------------------------------------------------------------------
(***************************************************************************)
(* The series that are derived from the last result at every scrape; a     *)
(* series that may be absent is a sequence.  There is no verified expiry    *)
(* without a verified chain, so the effective one is it when there is.     *)
(***************************************************************************)
severityValue(severity) ==
    CASE severity = "warning" -> 1 [] severity = "critical" -> 2
      [] severity = "emergency" -> 3 [] OTHER -> 0

\* Mutant: the effective expiry is exported whether or not the chain verifies.
CollectEffective(r, leaf) ==
    [success |-> IF r.status \in {"ok", "expiring_soon"} THEN 1 ELSE 0,
     severity |-> severityValue(r.severity), expiry |-> r.notAfter,
     verified |-> << r.notAfter >>, leaf |-> leaf.notAfter]

Collect(r, leaf) ==
    [success |-> IF r.status \in {"ok", "expiring_soon"} THEN 1 ELSE 0,
     severity |-> severityValue(r.severity), expiry |-> r.notAfter,
     verified |-> IF r.verifyOK THEN << r.notAfter >> ELSE << >>,
     leaf |-> leaf.notAfter]

-----------------------------------------------------------------------------
(***************************************************************************)
(* A server is set up once and probed every half day from then on.         *)
(***************************************************************************)
Presented ==
    {<< leaf >> \o rest :
        leaf \in Leaves,
        rest \in {q \in UNION {[1 .. n -> Others] : n \in 0 .. MaxOthers} : IsInjective(q)}}

Init ==
    /\ peers \in Presented
    /\ target \in Target
    /\ now = 0
    /\ result = evaluate(peers, target, now)

Probe ==
    /\ now < MaxTime
    /\ now' = now + 1
    /\ result' = evaluate(peers, target, now')
    /\ UNCHANGED << peers, target >>

Next == Probe

Spec == Init /\ [][Next]_vars

-----------------------------------------------------------------------------
(***************************************************************************)
(* Properties.                                                             *)
(***************************************************************************)
\* The presented certificates some path of issuers leads to from the leaf.
Reachable(chain) == {Last(p) : p \in Paths(chain)}

\* Those, in the order in which they are presented.
InOrder(S) ==
    CHOOSE f \in [1 .. Cardinality(S) -> S] :
        /\ Range(f) = S
        /\ \A i, j \in DOMAIN f : i < j => f[i] < f[j]

WithoutExtraneous(chain) == Certs(chain, InOrder(Reachable(chain)))

(***************************************************************************)
(* What chains to nothing has no say: a stale root or cross-sign that the  *)
(* leaf does not lead to changes no field of the verdict (the comment on   *)
(* scope in evaluate), as long as it is not signed with a weak algorithm.  *)
(***************************************************************************)
ExtraneousIgnored ==
    (\A i \in DOMAIN peers \ Reachable(peers) : ~peers[i].weak)
      => result = evaluate(WithoutExtraneous(peers), target, now)

(***************************************************************************)
(* A rule over the exported series tells what the alert decision told, to  *)
(* the same half day.  Expiry goes before trust, so an expired leaf or a   *)
(* chain it depends on is known by its date, whatever its name, signatures *)
(* and roots, and a failure without one is a trust error.  N days fire     *)
(* when less than N times 24 hours are left (ADR-0011): truncation and the *)
(* strict comparison never shift the boundary.  A verified expiry is never *)
(* that of a chain that no longer verifies, nor later than the leaf's own. *)
(***************************************************************************)
SeriesTellTheVerdict ==
    LET m    == Collect(result, peers[1])
        left == m.expiry - now
    IN  /\ result.status = "expired" <=> left < 0
        /\ ~Live(peers[1], now) => left < 0
        /\ result.status \in {"invalid", "weak_signature"} <=> m.success = 0 /\ left >= 0
        /\ m.success = 1 => /\ m.severity = 2 <=> left < 2 * CriticalDays
                            /\ m.severity = 0 <=> left >= 2 * WarningDays
        /\ m.success = 0 => m.severity >= 2
        /\ \A i \in DOMAIN m.verified :
              now <= m.verified[i] /\ m.verified[i] <= m.leaf

(***************************************************************************)
(* A server that is left alone never gets better by getting older, so a    *)
(* recovery always means that somebody changed something.  Not so for an   *)
(* insecure target: when the root of its verified chain expires, evaluate  *)
(* falls back on leafChain, which may lead another, longer-lived way.      *)
(***************************************************************************)
Rank == [s \in {"ok", "warning", "critical", "emergency"} |->
            CASE s = "ok" -> 0 [] s = "warning" -> 1 [] s = "critical" -> 2
              [] s = "emergency" -> 3]

NeverImproves ==
    [][target.insecure \/ Rank[result.severity] <= Rank[result'.severity]]_vars
=============================================================================
