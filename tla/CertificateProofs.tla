-------------------------- MODULE CertificateProofs --------------------------
(***************************************************************************)
(* Theorems about the verdict on a chain, for any certificates, chains of  *)
(* any length, any trust stores and thresholds.                            *)
(***************************************************************************)
EXTENDS Certificate, FiniteSetTheorems, WellFoundedInduction, TLAPS

\* What evaluate is given: a chain with a leaf, and a target.
IsChain(c) == c \in Seq(Certificates) /\ Len(c) >= 1

CurrentInv ==
    /\ IsChain(peers) /\ target \in Target /\ now \in Nat
    /\ result = evaluate(peers, target, now)

-----------------------------------------------------------------------------
LEMMA LeastNatural ==
    ASSUME NEW S, S \subseteq Nat, S # {}
    PROVE  \E m \in S : \A n \in S : m <= n
<1>1. IsWellFoundedOn(OpToRel(<, Nat), Nat)
  BY NatLessThanWellFounded
<1>2. PICK m \in S : \A n \in S : ~ (<< n, m >> \in OpToRel(<, Nat))
  BY <1>1, WFMin
<1>3. \A n \in S : << n, m >> \in OpToRel(<, Nat) <=> n < m
  BY DEF OpToRel
<1>4. \A n \in S : ~(n < m)
  BY <1>2, <1>3, Zenon
<1>5. \A n \in S : m <= n
  BY <1>4
<1> QED BY <1>5

LEMMA Induction ==
    ASSUME NEW S, 0 \in S, \A n \in Nat : n \in S => n + 1 \in S
    PROVE  \A n \in Nat : n \in S
<1>1. SUFFICES ASSUME Nat \ S # {} PROVE FALSE
  OBVIOUS
<1>2. PICK m \in Nat \ S : \A n \in Nat \ S : m <= n
  BY <1>1, LeastNatural
<1>3. m - 1 \in Nat /\ m - 1 \in S
  BY <1>2
<1> QED BY <1>2, <1>3

-----------------------------------------------------------------------------
(***************************************************************************)
(* The earliest expiry of a chain.                                         *)
(***************************************************************************)
LEMMA ChainFields ==
    ASSUME NEW c, IsChain(c)
    PROVE  /\ Len(c) \in Nat /\ DOMAIN c = 1..Len(c) /\ 1 \in DOMAIN c
           /\ \A i \in DOMAIN c : /\ c[i] \in Certificates /\ c[i].notAfter \in Int
                                  /\ c[i].weak \in BOOLEAN
<1>1. Len(c) \in Nat /\ DOMAIN c = 1..Len(c) /\ 1 \in 1..Len(c)
  BY DEF IsChain
<1>2. \A i \in DOMAIN c : c[i] \in Certificates
  BY <1>1 DEF IsChain
<1>3. \A d \in Certificates : d.notAfter \in Int /\ d.weak \in BOOLEAN
  BY DEF Certificates
<1> QED BY <1>1, <1>2, <1>3

LEMMA SomeLeast ==
    ASSUME NEW n \in Nat, n >= 1, NEW f, \A i \in 1..n : f[i] \in Int
    PROVE  \E i \in 1..n : \A j \in 1..n : f[i] <= f[j]
<1> DEFINE S == {m \in Nat : m + 1 <= n => \E i \in 1..(m + 1) : \A j \in 1..(m + 1) : f[i] <= f[j]}
<1>1. 0 \in S
  OBVIOUS
<1>2. ASSUME NEW m \in Nat, m \in S PROVE m + 1 \in S
  <2>1. SUFFICES ASSUME m + 2 <= n
                 PROVE  \E i \in 1..(m + 2) : \A j \in 1..(m + 2) : f[i] <= f[j]
    OBVIOUS
  <2>2. PICK i \in 1..(m + 1) : \A j \in 1..(m + 1) : f[i] <= f[j]
    BY <1>2, <2>1
  <2>3. /\ \A j \in 1..(m + 2) : j \in 1..(m + 1) \/ j = m + 2
        /\ i \in 1..(m + 2) /\ m + 2 \in 1..(m + 2) /\ f[i] \in Int /\ f[m + 2] \in Int
        /\ \A j \in 1..(m + 1) : f[j] \in Int
    BY <2>1
  <2>4. CASE f[i] <= f[m + 2]
    BY <2>2, <2>3, <2>4
  <2>5. CASE f[m + 2] < f[i]
    <3>1. \A j \in 1..(m + 1) : f[m + 2] <= f[j]
      BY <2>2, <2>3, <2>5
    <3> QED BY <3>1, <2>3
  <2> QED BY <2>3, <2>4, <2>5
<1> HIDE DEF S
<1>3. n - 1 \in S
  BY <1>1, <1>2, Induction
<1> QED BY <1>3 DEF S

LEMMA Earliest ==
    ASSUME NEW c, IsChain(c)
    PROVE  /\ earliestNotAfter(c) \in Int
           /\ \A i \in DOMAIN c : earliestNotAfter(c) <= c[i].notAfter
           /\ \E i \in DOMAIN c : earliestNotAfter(c) = c[i].notAfter
<1> DEFINE f == [i \in DOMAIN c |-> c[i].notAfter]
           S == {c[i].notAfter : i \in DOMAIN c}
<1>1. \A i \in 1..Len(c) : f[i] \in Int
  BY ChainFields
<1>2. Len(c) \in Nat /\ Len(c) >= 1 /\ DOMAIN c = 1..Len(c)
  BY ChainFields DEF IsChain
<1>3. PICK i \in 1..Len(c) : \A j \in 1..Len(c) : f[i] <= f[j]
  <2> HIDE DEF f
  <2> QED BY <1>1, <1>2, SomeLeast
<1>4. c[i].notAfter \in S /\ \A x \in S : c[i].notAfter <= x
  BY <1>2, <1>3
<1>5. earliestNotAfter(c) \in S /\ \A x \in S : earliestNotAfter(c) <= x
  BY <1>4 DEF earliestNotAfter, Min
<1> QED BY <1>5, ChainFields

LEMMA ExpiredIsEarliest ==
    ASSUME NEW c, IsChain(c), NEW time \in Int
    PROVE  Expired(c, time) <=> earliestNotAfter(c) < time
BY Earliest, ChainFields DEF Expired

LEMMA DaysBoundary ==
    ASSUME NEW exp \in Int, NEW time \in Int, NEW d \in Int
    PROVE  /\ daysUntil(exp, time) \in Int
           /\ time <= exp => (daysUntil(exp, time) < d <=> exp - time < 2 * d)
BY DEF daysUntil

-----------------------------------------------------------------------------
(***************************************************************************)
(* Verified chains, and the best of them.                                  *)
(***************************************************************************)
LEMMA PathFacts ==
    ASSUME NEW chain, IsChain(chain), NEW p \in Paths(chain)
    PROVE  /\ Len(p) \in Nat /\ Len(p) >= 1 /\ DOMAIN p = 1..Len(p) /\ p[1] = 1
           /\ \A i \in 1..Len(p) : p[i] \in DOMAIN chain
           /\ IsChain(Certs(chain, p)) /\ Len(Certs(chain, p)) = Len(p)
           /\ Certs(chain, p)[1] = chain[1]
<1>1. PICK n \in 1..Len(chain) : p \in [1..n -> 1..Len(chain)]
  BY DEF Paths
<1>2. Len(p) = n /\ DOMAIN p = 1..n /\ n \in Nat /\ n >= 1
  BY <1>1, ChainFields
<1>3. p[1] = 1
  BY DEF Paths
<1>4. \A i \in 1..n : p[i] \in DOMAIN chain /\ chain[p[i]] \in Certificates
  BY <1>1, ChainFields
<1>5. Certs(chain, p) = [i \in 1..n |-> chain[p[i]]]
  BY <1>2 DEF Certs
<1>6. Certs(chain, p) \in Seq(Certificates) /\ Len(Certs(chain, p)) = n
  BY <1>2, <1>4, <1>5
<1>7. Certs(chain, p)[1] = chain[1]
  BY <1>2, <1>3, <1>5
<1> QED BY <1>2, <1>3, <1>4, <1>6, <1>7 DEF IsChain

LEMMA ChainsAreLive ==
    ASSUME NEW chain, IsChain(chain), NEW roots \in SUBSET Certificates, NEW time \in Int,
           NEW c \in Chains(chain, roots, time)
    PROVE  IsChain(c) /\ c[1] = chain[1] /\ \A i \in DOMAIN c : time <= c[i].notAfter
<1> DEFINE candidates == {Certs(chain, p) : p \in Paths(chain)}
<1>1. \A d \in candidates : IsChain(d) /\ d[1] = chain[1]
  BY PathFacts
<1>2. c \in candidates \/ \E d \in candidates, r \in roots : c = Append(d, r)
  BY DEF Chains
<1> HIDE DEF candidates
<1>3. IsChain(c) /\ c[1] = chain[1]
  <2>1. CASE c \in candidates
    BY <2>1, <1>1
  <2>2. ASSUME NEW d \in candidates, NEW r \in roots, c = Append(d, r)
        PROVE  IsChain(c) /\ c[1] = chain[1]
    <3>1. d \in Seq(Certificates) /\ Len(d) >= 1 /\ Len(d) \in Nat /\ r \in Certificates
      BY <1>1 DEF IsChain
    <3>2. Append(d, r) \in Seq(Certificates) /\ Len(Append(d, r)) = Len(d) + 1
          /\ Append(d, r)[1] = d[1]
      BY <3>1
    <3> QED BY <2>2, <3>1, <3>2, <1>1 DEF IsChain
  <2> QED BY <1>2, <2>1, <2>2
<1>4. \A i \in 1..Len(c) : Live(c[i], time)
  BY DEF Chains
<1> QED BY <1>3, <1>4, ChainFields DEF Live

LEMMA ChainsShrink ==
    ASSUME NEW chain, IsChain(chain), NEW roots \in SUBSET Certificates, NEW time \in Int
    PROVE  Chains(chain, roots, time + 1) \subseteq Chains(chain, roots, time)
<1>1. ASSUME NEW c \in Chains(chain, roots, time + 1) PROVE c \in Chains(chain, roots, time)
  <2>1. IsChain(c) /\ \A i \in DOMAIN c : time + 1 <= c[i].notAfter
    BY ChainsAreLive
  <2>2. \A i \in 1..Len(c) : Live(c[i], time)
    BY <2>1, ChainFields DEF Live
  <2> QED BY <2>2 DEF Chains
<1> QED BY <1>1

LEMMA VerifyIsBest ==
    ASSUME NEW chain, IsChain(chain), NEW t \in Target, NEW time \in Int,
           Chains(chain, t.roots, time) # {}
    PROVE  /\ verify(chain, t, time) \in Chains(chain, t.roots, time)
           /\ \A c \in Chains(chain, t.roots, time) :
                earliestNotAfter(c) <= earliestNotAfter(verify(chain, t, time))
<1> DEFINE C == Chains(chain, t.roots, time)
           left(c) == chain[1].notAfter - earliestNotAfter(c)
           S == {left(c) : c \in C}
<1>1. t.roots \in SUBSET Certificates
  BY CertificateAssumption DEF Target
<1>2. \A c \in C : /\ earliestNotAfter(c) \in Int
                  /\ earliestNotAfter(c) <= chain[1].notAfter
  <2> SUFFICES ASSUME NEW c \in C PROVE /\ earliestNotAfter(c) \in Int
                                        /\ earliestNotAfter(c) <= chain[1].notAfter
    OBVIOUS
  <2>1. IsChain(c) /\ c[1] = chain[1]
    BY <1>1, ChainsAreLive
  <2>2. 1 \in DOMAIN c
    BY <2>1, ChainFields
  <2>3. earliestNotAfter(c) \in Int /\ earliestNotAfter(c) <= c[1].notAfter
    BY <2>1, <2>2, Earliest
  <2> QED BY <2>1, <2>3
<1>3. chain[1].notAfter \in Int
  BY ChainFields
<1> HIDE DEF C
<1>4. S \subseteq Nat /\ S # {}
  BY <1>2, <1>3 DEF C
<1> HIDE DEF S
<1>5. PICK m \in S : \A n \in S : m <= n
  BY <1>4, LeastNatural
<1>6. PICK b \in C : m = left(b)
  BY DEF S
<1>7. \A c \in C : left(b) <= left(c)
  BY <1>5, <1>6 DEF S
<1>8. \A c \in C : earliestNotAfter(c) <= earliestNotAfter(b)
  BY <1>7, <1>2, <1>3
<1> QED BY <1>8 DEF C, verify

-----------------------------------------------------------------------------
(***************************************************************************)
(* leafChain follows the issuers for as many rounds as there are           *)
(* certificates, and starts with the leaf.                                 *)
(***************************************************************************)
Follows(g, chain, n) ==
    g = [k \in 0..n |-> IF k = 0 THEN << 1 >> ELSE WithIssuer(chain, g[k - 1])]

LEMMA FollowsAt ==
    ASSUME NEW g, NEW chain, NEW n \in Nat, Follows(g, chain, n), NEW k \in 0..n
    PROVE  g[k] = IF k = 0 THEN << 1 >> ELSE WithIssuer(chain, g[k - 1])
<1> DEFINE F(f) == [j \in 0..n |-> IF j = 0 THEN << 1 >> ELSE WithIssuer(chain, f[j - 1])]
<1>1. g = F(g)
  BY DEF Follows
<1>2. F(g)[k] = IF k = 0 THEN << 1 >> ELSE WithIssuer(chain, g[k - 1])
  OBVIOUS
<1> HIDE DEF F
<1> QED BY <1>1, <1>2

LEMMA FollowsExists ==
    ASSUME NEW chain, NEW n \in Nat
    PROVE  \E g : Follows(g, chain, n)
<1> DEFINE S == {m \in Nat : \E g : Follows(g, chain, m)}
<1>1. 0 \in S
  <2> DEFINE g == [k \in 0..0 |-> << 1 >>]
  <2>1. g = [k \in 0..0 |-> IF k = 0 THEN << 1 >> ELSE WithIssuer(chain, g[k - 1])]
    OBVIOUS
  <2> HIDE DEF g
  <2>2. Follows(g, chain, 0)
    BY <2>1 DEF Follows
  <2> QED BY <2>2
<1>2. ASSUME NEW m \in Nat, m \in S PROVE m + 1 \in S
  <2>1. PICK g : Follows(g, chain, m)
    BY <1>2
  <2> DEFINE h == [k \in 0..(m + 1) |-> IF k = 0 THEN << 1 >> ELSE WithIssuer(chain, g[k - 1])]
  <2>2. \A k \in 0..m : h[k] = g[k]
    BY <2>1, FollowsAt
  <2>3. \A k \in 0..(m + 1) : k # 0 => h[k - 1] = g[k - 1]
    <3>1. \A k \in 0..(m + 1) : k # 0 => k - 1 \in 0..m
      OBVIOUS
    <3> HIDE DEF h
    <3> QED BY <2>2, <3>1
  <2>4. h = [k \in 0..(m + 1) |-> IF k = 0 THEN << 1 >> ELSE WithIssuer(chain, h[k - 1])]
    BY <2>3
  <2>5. Follows(h, chain, m + 1)
    BY <2>4 DEF Follows
  <2> QED BY <2>5
<1> HIDE DEF S
<1>3. n \in S
  BY <1>1, <1>2, Induction
<1> QED BY <1>3 DEF S

\* What leafChain has followed: indices of the chain, from the leaf on.
IsFollowed(chain, p) ==
    p \in Seq(DOMAIN chain) /\ Len(p) >= 1 /\ p[1] = 1

LEMMA WithIssuerFollows ==
    ASSUME NEW chain, IsChain(chain), NEW p, IsFollowed(chain, p)
    PROVE  IsFollowed(chain, WithIssuer(chain, p))
<1>1. CASE WithIssuer(chain, p) = p
  BY <1>1
<1>2. CASE Issuers(chain, p) # {} /\ WithIssuer(chain, p) = Append(p, Min(Issuers(chain, p)))
  <2>1. Issuers(chain, p) \subseteq DOMAIN chain /\ DOMAIN chain \subseteq Nat
    BY ChainFields DEF Issuers
  <2>2. PICK m \in Issuers(chain, p) : \A n \in Issuers(chain, p) : m <= n
    BY <1>2, <2>1, LeastNatural
  <2>3. Min(Issuers(chain, p)) \in DOMAIN chain
    BY <2>1, <2>2 DEF Min
  <2> QED BY <1>2, <2>3 DEF IsFollowed
<1> QED BY <1>1, <1>2 DEF WithIssuer

LEMMA LeafChainFacts ==
    ASSUME NEW chain, IsChain(chain)
    PROVE  IsChain(leafChain(chain)) /\ leafChain(chain)[1] = chain[1]
<1> DEFINE n == Len(chain)
           g == CHOOSE f : Follows(f, chain, n)
<1>1. n \in Nat
  BY ChainFields
<1>2. Follows(g, chain, n)
  BY <1>1, FollowsExists
<1>3. leafChain(chain) = Certs(chain, g[n])
  BY DEF leafChain, Follows
<1> HIDE DEF g, n
<1> DEFINE S == {m \in Nat : m \in 0..n => IsFollowed(chain, g[m])}
<1>4. 0 \in S
  <2>1. 0 \in 0..n => g[0] = << 1 >>
    BY <1>1, <1>2, FollowsAt
  <2>2. IsFollowed(chain, << 1 >>)
    BY ChainFields DEF IsFollowed
  <2> QED BY <2>1, <2>2
<1>5. ASSUME NEW m \in Nat, m \in S PROVE m + 1 \in S
  <2>1. SUFFICES ASSUME m + 1 \in 0..n PROVE IsFollowed(chain, g[m + 1])
    OBVIOUS
  <2>2. m \in 0..n /\ (m + 1) - 1 = m /\ m + 1 # 0
    BY <2>1, <1>1
  <2>3. g[m + 1] = WithIssuer(chain, g[m])
    BY <2>1, <2>2, <1>1, <1>2, FollowsAt
  <2>4. IsFollowed(chain, g[m])
    BY <1>5, <2>2
  <2> QED BY <2>3, <2>4, WithIssuerFollows
<1> HIDE DEF S
<1>6. n \in S
  BY <1>1, <1>4, <1>5, Induction
<1>7. IsFollowed(chain, g[n])
  BY <1>6, <1>1 DEF S
<1> DEFINE p == g[n]
<1> HIDE DEF p
<1>8. /\ p \in Seq(DOMAIN chain) /\ Len(p) \in Nat /\ Len(p) >= 1 /\ p[1] = 1
      /\ DOMAIN p = 1..Len(p)
  BY <1>7 DEF IsFollowed, p
<1>9. \A i \in DOMAIN p : chain[p[i]] \in Certificates
  BY <1>8, ChainFields
<1>10. Certs(chain, p) = [i \in 1..Len(p) |-> chain[p[i]]]
  BY <1>8 DEF Certs
<1>11. Certs(chain, p) \in Seq(Certificates) /\ Len(Certs(chain, p)) = Len(p)
       /\ Certs(chain, p)[1] = chain[1]
  BY <1>8, <1>9, <1>10
<1> QED BY <1>3, <1>8, <1>11 DEF IsChain, p

-----------------------------------------------------------------------------
(***************************************************************************)
(* evaluate.                                                               *)
(***************************************************************************)
Verified(chain, t, time) == verifyErr(chain, t, time) = "none"

LEMMA ScopeFacts ==
    ASSUME NEW chain, IsChain(chain), NEW t \in Target, NEW time \in Int
    PROVE  /\ IsChain(scope(chain, t, time)) /\ scope(chain, t, time)[1] = chain[1]
           /\ Verified(chain, t, time) =>
                /\ Live(chain[1], time)
                /\ Chains(chain, t.roots, time) # {}
                /\ scope(chain, t, time) = verify(chain, t, time)
                /\ scope(chain, t, time) \in Chains(chain, t.roots, time)
                /\ time <= earliestNotAfter(scope(chain, t, time))
           /\ ~Verified(chain, t, time) => scope(chain, t, time) = leafChain(chain)
<1>1. CASE Verified(chain, t, time)
  <2>1. Live(chain[1], time) /\ Chains(chain, t.roots, time) # {}
    BY <1>1 DEF Verified, verifyErr
  <2>2. scope(chain, t, time) = verify(chain, t, time)
    BY <1>1 DEF Verified, scope
  <2>3. scope(chain, t, time) \in Chains(chain, t.roots, time)
    BY <2>1, <2>2, VerifyIsBest
  <2>4. t.roots \in SUBSET Certificates
    BY CertificateAssumption DEF Target
  <2> DEFINE s == scope(chain, t, time)
  <2>5. IsChain(s) /\ s[1] = chain[1] /\ \A i \in DOMAIN s : time <= s[i].notAfter
    BY <2>3, <2>4, ChainsAreLive
  <2> HIDE DEF s
  <2>6. time <= earliestNotAfter(s)
    BY <2>5, Earliest
  <2> QED BY <1>1, <2>1, <2>2, <2>3, <2>5, <2>6 DEF s
<1>2. CASE ~Verified(chain, t, time)
  <2>1. scope(chain, t, time) = leafChain(chain)
    BY <1>2 DEF Verified, scope
  <2> QED BY <1>2, <2>1, LeafChainFacts
<1> QED BY <1>1, <1>2

\* The expiry and the days of a verdict, and when it is an expired one.
LEMMA ScopeExpiry ==
    ASSUME NEW chain, IsChain(chain), NEW t \in Target, NEW time \in Int
    PROVE  LET s == scope(chain, t, time)
               e == earliestNotAfter(s)
           IN  /\ e \in Int /\ e <= chain[1].notAfter /\ chain[1].notAfter \in Int
               /\ Expired(s, time) <=> e < time
               /\ Verified(chain, t, time) => time <= e
               /\ daysUntil(e, time) \in Int
               /\ \A d \in Int : time <= e => (daysUntil(e, time) < d <=> e - time < 2 * d)
<1> DEFINE s == scope(chain, t, time)
           e == earliestNotAfter(s)
<1>1. IsChain(s) /\ s[1] = chain[1] /\ (Verified(chain, t, time) => time <= e)
  BY ScopeFacts
<1> HIDE DEF s
<1>2. e \in Int /\ \A i \in DOMAIN s : e <= s[i].notAfter
  BY <1>1, Earliest
<1>3. e <= chain[1].notAfter /\ chain[1].notAfter \in Int
  BY <1>1, <1>2, ChainFields
<1>4. Expired(s, time) <=> e < time
  BY <1>1, ExpiredIsEarliest
<1> HIDE DEF e
<1>5. /\ daysUntil(e, time) \in Int
      /\ \A d \in Int : time <= e => (daysUntil(e, time) < d <=> e - time < 2 * d)
  BY <1>2, DaysBoundary
<1> QED BY <1>1, <1>2, <1>3, <1>4, <1>5 DEF e, s

\* The verdicts evaluate may give, and on what.
Gives(r, status, severity, chain, t, time) ==
    /\ r.status = status /\ r.severity = severity
    /\ r.verifyOK = Verified(chain, t, time)
    /\ r.notAfter = earliestNotAfter(scope(chain, t, time))

LEMMA EvaluateCases ==
    ASSUME NEW chain, NEW t, NEW time
    PROVE  LET r    == evaluate(chain, t, time)
               s    == scope(chain, t, time)
               days == daysUntil(earliestNotAfter(s), time)
               bad  == ~Verified(chain, t, time) /\ ~t.insecure
           IN  \/ /\ Expired(s, time)
                  /\ Gives(r, "expired", "emergency", chain, t, time)
               \/ /\ ~Expired(s, time) /\ bad /\ weakSignatureCert(chain)
                  /\ Gives(r, "weak_signature", "critical", chain, t, time)
               \/ /\ ~Expired(s, time) /\ bad /\ ~weakSignatureCert(chain)
                  /\ Gives(r, "invalid", "emergency", chain, t, time)
               \/ /\ ~Expired(s, time) /\ ~bad /\ days < CriticalDays
                  /\ Gives(r, "expiring_soon", "critical", chain, t, time)
               \/ /\ ~Expired(s, time) /\ ~bad /\ ~(days < CriticalDays) /\ days < WarningDays
                  /\ Gives(r, "expiring_soon", "warning", chain, t, time)
               \/ /\ ~Expired(s, time) /\ ~bad /\ ~(days < CriticalDays) /\ ~(days < WarningDays)
                  /\ Gives(r, "ok", "ok", chain, t, time)
<1>1. ASSUME NEW status, NEW severity
      PROVE  Gives(Verdict(status, severity, chain, t, time), status, severity, chain, t, time)
  BY DEF Gives, Verdict, Verified
<1> QED BY <1>1 DEF evaluate, TrustVerdict, DaysVerdict, Verified

-----------------------------------------------------------------------------
LEMMA PresentedAreChains == ASSUME NEW c \in Presented PROVE IsChain(c)
<1> DEFINE Rests == {q \in UNION {[1 .. n -> Others] : n \in 0 .. MaxOthers} : IsInjective(q)}
<1>1. PICK leaf \in Leaves, q \in Rests : c = << leaf >> \o q
  <2> DEFINE joined(leaf, q) == << leaf >> \o q
  <2>1. Presented = {joined(leaf, rest) : leaf \in Leaves, rest \in Rests}
    BY DEF Presented
  <2> HIDE DEF Rests, joined
  <2>2. \E leaf \in Leaves, q \in Rests : c = joined(leaf, q)
    BY <2>1
  <2> QED BY <2>2 DEF joined
<1>2. PICK n \in 0 .. MaxOthers : q \in [1 .. n -> Others]
  OBVIOUS
<1>3. leaf \in Certificates /\ Others \subseteq Certificates /\ n \in Nat
  BY CertificateAssumption
<1>4. << leaf >> \in Seq(Certificates) /\ Len(<< leaf >>) = 1
      /\ q \in Seq(Certificates) /\ Len(q) \in Nat
  BY <1>2, <1>3
<1> QED BY <1>1, <1>4 DEF IsChain

LEMMA CurrentInvariant == Spec => []CurrentInv
<1>1. Init => CurrentInv
  BY PresentedAreChains DEF Init, CurrentInv
<1>2. CurrentInv /\ [Next]_vars => CurrentInv'
  BY DEF CurrentInv, Next, Probe, vars
<1> QED BY <1>1, <1>2, PTL DEF Spec

(***************************************************************************)
(* Whatever a server presents, whichever roots are trusted and wherever    *)
(* the thresholds are: the exported series tell what evaluate decided, and *)
(* a threshold of N days fires when less than N times 24 hours are left.   *)
(***************************************************************************)
THEOREM SeriesAreTrue == Spec => []SeriesTellTheVerdict
<1>1. CurrentInv => SeriesTellTheVerdict
  <2> SUFFICES ASSUME CurrentInv PROVE SeriesTellTheVerdict
    OBVIOUS
  <2> DEFINE s == scope(peers, target, now)
             e == earliestNotAfter(s)
             days == daysUntil(e, now)
             ok == Verified(peers, target, now)
             m == Collect(result, peers[1])
             leaf == peers[1].notAfter
  <2>1. /\ e \in Int /\ e <= leaf /\ leaf \in Int /\ now \in Int
        /\ (Expired(s, now) <=> e < now) /\ (ok => now <= e)
        /\ now <= e => /\ days < CriticalDays <=> e - now < 2 * CriticalDays
                       /\ days < WarningDays <=> e - now < 2 * WarningDays
    BY ScopeExpiry, CertificateAssumption DEF CurrentInv
  <2>2. CriticalDays \in Int /\ WarningDays \in Int /\ CriticalDays <= WarningDays
    BY CertificateAssumption
  <2>3. /\ m.expiry = result.notAfter /\ m.leaf = leaf
        /\ m.success = (IF result.status \in {"ok", "expiring_soon"} THEN 1 ELSE 0)
        /\ m.severity = severityValue(result.severity)
        /\ m.verified = IF result.verifyOK THEN << result.notAfter >> ELSE << >>
    BY DEF Collect
  <2>4. result = evaluate(peers, target, now)
    BY DEF CurrentInv
  <2>5. Live(peers[1], now) <=> now <= leaf
    BY DEF Live
  <2> DEFINE Told(status, severity) ==
        result.status = status /\ result.severity = severity
        /\ result.verifyOK = ok /\ result.notAfter = e
  <2>6. \/ Expired(s, now) /\ Told("expired", "emergency")
        \/ ~Expired(s, now) /\ Told("weak_signature", "critical")
        \/ ~Expired(s, now) /\ Told("invalid", "emergency")
        \/ ~Expired(s, now) /\ days < CriticalDays /\ Told("expiring_soon", "critical")
        \/ /\ ~Expired(s, now) /\ ~(days < CriticalDays) /\ days < WarningDays
           /\ Told("expiring_soon", "warning")
        \/ /\ ~Expired(s, now) /\ ~(days < CriticalDays) /\ ~(days < WarningDays)
           /\ Told("ok", "ok")
    BY <2>4, EvaluateCases DEF Gives
  <2>7. /\ severityValue("warning") = 1 /\ severityValue("critical") = 2
        /\ severityValue("emergency") = 3 /\ severityValue("ok") = 0
    BY DEF severityValue
  <2> HIDE DEF s, e, days, ok, m, leaf
  <2>8. m.expiry = e /\ (result.status = "expired" <=> e < now)
    BY <2>1, <2>3, <2>6
  <2>9. result.status \in {"invalid", "weak_signature"} <=> m.success = 0 /\ ~(e < now)
    BY <2>1, <2>3, <2>6
  <2>10. m.success = 1 => /\ ~(e < now)
                          /\ m.severity = 2 <=> days < CriticalDays
                          /\ m.severity = 0 <=> ~(days < CriticalDays) /\ ~(days < WarningDays)
    BY <2>1, <2>3, <2>6, <2>7
  <2>11. m.success = 0 => m.severity \in {2, 3}
    BY <2>3, <2>6, <2>7
  <2>12. \A i \in DOMAIN m.verified : now <= m.verified[i] /\ m.verified[i] <= m.leaf
    BY <2>1, <2>3, <2>6
  <2>13. ASSUME m.success = 1
         PROVE  /\ m.severity = 2 <=> e - now < 2 * CriticalDays
                /\ m.severity = 0 <=> e - now >= 2 * WarningDays
    <3>1. /\ ~(e < now)
          /\ m.severity = 2 <=> days < CriticalDays
          /\ m.severity = 0 => ~(days < CriticalDays) /\ ~(days < WarningDays)
          /\ ~(days < CriticalDays) /\ ~(days < WarningDays) => m.severity = 0
      BY <2>10, <2>13
    <3>2. /\ days < CriticalDays <=> e - now < 2 * CriticalDays
          /\ days < WarningDays <=> e - now < 2 * WarningDays
      BY <2>1, <3>1
    <3>3. m.severity = 2 <=> e - now < 2 * CriticalDays
      BY <3>1, <3>2
    <3>4. CASE e - now >= 2 * WarningDays
      <4>1. ~(e - now < 2 * CriticalDays) /\ ~(e - now < 2 * WarningDays)
        BY <3>4, <2>1, <2>2
      <4>2. m.severity = 0
        BY <4>1, <3>1, <3>2
      <4> QED BY <3>3, <3>4, <4>2
    <3>5. CASE ~(e - now >= 2 * WarningDays)
      <4>1. e - now < 2 * WarningDays
        BY <3>5, <2>1, <2>2
      <4>2. ~(m.severity = 0)
        BY <4>1, <3>1, <3>2
      <4> QED BY <3>3, <3>5, <4>2
    <3> QED BY <3>4, <3>5
  <2>14. ~Live(peers[1], now) => e < now
    BY <2>1, <2>5
  <2>15. e < now <=> e - now < 0
    BY <2>1
  <2>16. ~(e < now) <=> e - now >= 0
    BY <2>1
  <2>17. m.success = 0 => m.severity >= 2
    BY <2>11
  <2> QED BY <2>8, <2>9, <2>12, <2>13, <2>14, <2>15, <2>16, <2>17 DEF SeriesTellTheVerdict, m
<1> QED BY <1>1, CurrentInvariant, PTL

-----------------------------------------------------------------------------
LEMMA StaysUnverified ==
    ASSUME NEW chain, IsChain(chain), NEW t \in Target, NEW time \in Int,
           Verified(chain, t, time + 1)
    PROVE  Verified(chain, t, time)
<1>1. /\ t.caFile /\ Live(chain[1], time + 1) /\ ~(~t.insecure /\ ~t.nameMatches)
      /\ Chains(chain, t.roots, time + 1) # {}
  BY DEF Verified, verifyErr
<1>2. t.roots \in SUBSET Certificates
  BY CertificateAssumption DEF Target
<1>3. Chains(chain, t.roots, time) # {}
  BY <1>1, <1>2, ChainsShrink
<1>4. Live(chain[1], time)
  BY <1>1, ChainFields DEF Live
<1> QED BY <1>1, <1>3, <1>4 DEF Verified, verifyErr

LEMMA RankValues ==
    Rank["ok"] = 0 /\ Rank["warning"] = 1 /\ Rank["critical"] = 2 /\ Rank["emergency"] = 3
BY DEF Rank

LEMMA NoBetterByAge ==
    ASSUME NEW chain, IsChain(chain), NEW t \in Target, NEW time \in Int, ~t.insecure
    PROVE  Rank[evaluate(chain, t, time).severity] <= Rank[evaluate(chain, t, time + 1).severity]
<1> DEFINE r1 == evaluate(chain, t, time)
           r2 == evaluate(chain, t, time + 1)
           s1 == scope(chain, t, time)
           s2 == scope(chain, t, time + 1)
           e1 == earliestNotAfter(s1)
           e2 == earliestNotAfter(s2)
           V1 == Verified(chain, t, time)
           V2 == Verified(chain, t, time + 1)
           x1 == Expired(s1, time)
           x2 == Expired(s2, time + 1)
           weak == weakSignatureCert(chain)
           critical1 == daysUntil(e1, time) < CriticalDays
           warning1  == daysUntil(e1, time) < WarningDays
           critical2 == daysUntil(e2, time + 1) < CriticalDays
           warning2  == daysUntil(e2, time + 1) < WarningDays
<1>1. time + 1 \in Int /\ CriticalDays \in Int /\ WarningDays \in Int
  BY CertificateAssumption
<1>2. /\ e1 \in Int /\ (x1 <=> e1 < time) /\ (V1 => time <= e1)
      /\ time <= e1 => /\ critical1 <=> e1 - time < 2 * CriticalDays
                       /\ warning1 <=> e1 - time < 2 * WarningDays
  BY <1>1, ScopeExpiry
<1>3. /\ e2 \in Int /\ (x2 <=> e2 < time + 1) /\ (V2 => time + 1 <= e2)
      /\ time + 1 <= e2 => /\ critical2 <=> e2 - (time + 1) < 2 * CriticalDays
                           /\ warning2 <=> e2 - (time + 1) < 2 * WarningDays
  BY <1>1, ScopeExpiry
<1>4. V2 => V1
  BY StaysUnverified
<1>5. ~V1 => s1 = s2
  BY <1>1, <1>4, ScopeFacts
<1>6. V2 => e2 <= e1
  <2> SUFFICES ASSUME V2 PROVE e2 <= e1
    OBVIOUS
  <2>1. s2 \in Chains(chain, t.roots, time + 1)
    BY <1>1, ScopeFacts
  <2>2. t.roots \in SUBSET Certificates
    BY CertificateAssumption DEF Target
  <2>3. s2 \in Chains(chain, t.roots, time)
    BY <2>1, <2>2, ChainsShrink
  <2>4. s1 = verify(chain, t, time)
    BY <1>4, ScopeFacts
  <2> QED BY <2>3, <2>4, VerifyIsBest
<1>7. \/ x1 /\ r1.severity = "emergency"
      \/ ~x1 /\ ~V1 /\ weak /\ r1.severity = "critical"
      \/ ~x1 /\ ~V1 /\ ~weak /\ r1.severity = "emergency"
      \/ ~x1 /\ V1 /\ critical1 /\ r1.severity = "critical"
      \/ ~x1 /\ V1 /\ ~critical1 /\ warning1 /\ r1.severity = "warning"
      \/ ~x1 /\ V1 /\ ~critical1 /\ ~warning1 /\ r1.severity = "ok"
  BY EvaluateCases DEF Gives
<1>8. \/ x2 /\ r2.severity = "emergency"
      \/ ~x2 /\ ~V2 /\ weak /\ r2.severity = "critical"
      \/ ~x2 /\ ~V2 /\ ~weak /\ r2.severity = "emergency"
      \/ ~x2 /\ V2 /\ critical2 /\ r2.severity = "critical"
      \/ ~x2 /\ V2 /\ ~critical2 /\ warning2 /\ r2.severity = "warning"
      \/ ~x2 /\ V2 /\ ~critical2 /\ ~warning2 /\ r2.severity = "ok"
  BY EvaluateCases DEF Gives
<1> SUFFICES Rank[r1.severity] <= Rank[r2.severity]
  OBVIOUS
<1> HIDE DEF r1, r2, s1, s2, e2, V1, V2, weak, critical1, critical2, warning1, warning2
<1>9. V1 => ~x1
  BY <1>2
<1>10. V2 => ~x2
  BY <1>3
<1>11. ~V1 /\ x1 => x2
  <2>1. ~V1 => e1 = e2
    BY <1>5 DEF e2
  <2> HIDE DEF e1, x1, x2
  <2> QED BY <2>1, <1>2, <1>3
<1> HIDE DEF e1, x1, x2
<1>12. V2 /\ critical1 => critical2
  BY <1>1, <1>2, <1>3, <1>4, <1>6
<1>13. V2 /\ warning1 => warning2
  BY <1>1, <1>2, <1>3, <1>4, <1>6
<1>14. CASE V2
  <2>1. V1 /\ ~x1 /\ ~x2
    BY <1>14, <1>4, <1>9, <1>10, Zenon
  <2>2. \/ r2.severity = "critical" /\ r1.severity \in {"critical", "warning", "ok"}
        \/ r2.severity = "warning" /\ r1.severity \in {"warning", "ok"}
        \/ r2.severity = "ok" /\ r1.severity = "ok"
    <3>1. CASE critical1
      BY <3>1, <2>1, <1>7, <1>8, <1>12, <1>14, Zenon
    <3>2. CASE ~critical1 /\ warning1
      BY <3>2, <2>1, <1>7, <1>8, <1>13, <1>14, Zenon
    <3>3. CASE ~critical1 /\ ~warning1
      BY <3>3, <2>1, <1>7, <1>8, <1>14, Zenon
    <3> QED BY <3>1, <3>2, <3>3, Zenon
  <2> QED BY <2>2, RankValues
<1>15. CASE ~V2
  <2>1. \/ r2.severity = "emergency" /\ r1.severity \in {"emergency", "critical", "warning", "ok"}
        \/ r2.severity = "critical" /\ r1.severity \in {"critical", "warning", "ok"}
    <3>1. CASE x2
      BY <3>1, <1>7, <1>8, <1>15, Zenon
    <3>2. CASE ~x2
      <4>1. x1 => V1 /\ ~x1
        BY <3>2, <1>9, <1>11, Zenon
      <4> QED BY <3>2, <4>1, <1>7, <1>8, <1>15, Zenon
    <3> QED BY <3>1, <3>2, Zenon
  <2> QED BY <2>1, RankValues
<1> QED BY <1>14, <1>15

(***************************************************************************)
(* A target that is not insecure never looks better by growing older:      *)
(* verified chains only get fewer, and the best of them no better; once    *)
(* none is left the chain is the same for ever, and so is its signature.   *)
(***************************************************************************)
THEOREM AgeNeverHelps == Spec => NeverImproves
<1>1. CurrentInv /\ [Next]_vars =>
        [target.insecure \/ Rank[result.severity] <= Rank[result'.severity]]_vars
  <2> SUFFICES ASSUME CurrentInv, Probe, ~target.insecure
               PROVE  Rank[result.severity] <= Rank[result'.severity]
    BY DEF Next
  <2>1. /\ IsChain(peers) /\ target \in Target /\ now \in Int
        /\ result = evaluate(peers, target, now)
    BY DEF CurrentInv
  <2>2. result' = evaluate(peers, target, now + 1)
    BY DEF Probe
  <2> QED BY <2>1, <2>2, NoBetterByAge
<1> QED BY <1>1, CurrentInvariant, PTL DEF Spec, NeverImproves

-----------------------------------------------------------------------------
(***************************************************************************)
(* A finite set of numbers can be put in order.                            *)
(***************************************************************************)
Enumerates(f, S) ==
    /\ f \in [1 .. Cardinality(S) -> S] /\ Range(f) = S
    /\ \A i, j \in DOMAIN f : i < j => f[i] < f[j]

LEMMA OneMore ==
    ASSUME NEW n \in Nat, NEW S \in SUBSET (1..(n + 1)), n + 1 \in S,
           NEW f, Enumerates(f, S \ {n + 1})
    PROVE  \E g : Enumerates(g, S)
<1> DEFINE k == Cardinality(S \ {n + 1})
           g == [i \in 1..(k + 1) |-> IF i <= k THEN f[i] ELSE n + 1]
<1>1. IsFiniteSet(S) /\ IsFiniteSet(S \ {n + 1})
  <2>1. IsFiniteSet(1..(n + 1))
    BY FS_Interval
  <2>2. S \ {n + 1} \in SUBSET (1..(n + 1))
    OBVIOUS
  <2> QED BY <2>1, <2>2, FS_Subset
<1>2. k \in Nat /\ Cardinality(S) = k + 1
  BY <1>1, FS_RemoveElement, FS_CardinalityType
<1>3. S \ {n + 1} \subseteq 1..n
  OBVIOUS
<1> HIDE DEF k
<1>4. f \in [1..k -> S \ {n + 1}] /\ \A x \in S \ {n + 1} : \E i \in 1..k : f[i] = x
  BY DEF Enumerates, Range, k
<1>5. \A i, j \in 1..k : i < j => f[i] < f[j]
  BY <1>4 DEF Enumerates, k
<1>6. g \in [1..(k + 1) -> S]
  BY <1>2, <1>4
<1>7. \A x \in S : \E i \in 1..(k + 1) : g[i] = x
  <2>1. g[k + 1] = n + 1
    BY <1>2
  <2>2. \A i \in 1..k : i \in 1..(k + 1) /\ g[i] = f[i]
    BY <1>2
  <2> HIDE DEF g
  <2>3. k + 1 \in 1..(k + 1)
    BY <1>2
  <2> QED BY <1>4, <2>1, <2>2, <2>3
<1>8. \A i, j \in 1..(k + 1) : i < j => g[i] < g[j]
  <2> SUFFICES ASSUME NEW i \in 1..(k + 1), NEW j \in 1..(k + 1), i < j PROVE g[i] < g[j]
    OBVIOUS
  <2>1. i \in 1..k /\ g[i] = f[i] /\ f[i] \in 1..n
    <3>1. i \in 1..k
      BY <1>2
    <3>2. g[i] = f[i]
      BY <3>1, <1>2
    <3>3. f[i] \in 1..n
      <4> HIDE DEF g
      <4> QED BY <3>1, <1>3, <1>4
    <3> QED BY <3>1, <3>2, <3>3
  <2>2. CASE j \in 1..k
    BY <2>1, <2>2, <1>2, <1>5
  <2>3. CASE j = k + 1
    BY <2>1, <2>3, <1>2
  <2> QED BY <2>2, <2>3, <1>2
<1>9. Range(g) = S
  BY <1>6, <1>7 DEF Range
<1> HIDE DEF g
<1> QED BY <1>2, <1>6, <1>8, <1>9 DEF Enumerates

LEMMA OrderExists ==
    ASSUME NEW n \in Nat, NEW S \in SUBSET (1..n)
    PROVE  Enumerates(InOrder(S), S)
<1> DEFINE N == {m \in Nat : \A T \in SUBSET (1..m) : \E f : Enumerates(f, T)}
<1>1. 0 \in N
  <2>1. SUFFICES ASSUME NEW T \in SUBSET (1..0) PROVE \E f : Enumerates(f, T)
    OBVIOUS
  <2>2. T = {} /\ Cardinality(T) = 0
    <3>1. T = {}
      OBVIOUS
    <3> QED BY <3>1, FS_EmptySet
  <2>3. [i \in 1..0 |-> i] \in [1..0 -> {}] /\ Range([i \in 1..0 |-> i]) = {}
    BY DEF Range
  <2>4. Enumerates([i \in 1..0 |-> i], T)
    BY <2>2, <2>3 DEF Enumerates
  <2> QED BY <2>4
<1>2. ASSUME NEW m \in Nat, m \in N PROVE m + 1 \in N
  <2>1. SUFFICES ASSUME NEW T \in SUBSET (1..(m + 1)) PROVE \E f : Enumerates(f, T)
    OBVIOUS
  <2>2. \A U \in SUBSET (1..m) : \E f : Enumerates(f, U)
    BY <1>2
  <2>3. CASE m + 1 \in T
    <3>1. T \ {m + 1} \in SUBSET (1..m)
      OBVIOUS
    <3>2. PICK f : Enumerates(f, T \ {m + 1})
      BY <2>2, <3>1
    <3> QED BY <2>3, <3>2, OneMore
  <2>4. CASE m + 1 \notin T
    <3>1. T \in SUBSET (1..m)
      BY <2>4
    <3> QED BY <2>2, <3>1
  <2> QED BY <2>3, <2>4
<1> HIDE DEF N
<1>3. n \in N
  BY <1>1, <1>2, Induction
<1>4. \E f : Enumerates(f, S)
  BY <1>3 DEF N
<1> QED BY <1>4 DEF InOrder, Enumerates

-----------------------------------------------------------------------------
(***************************************************************************)
(* Paths are the injective sequences of linked indices: none is longer     *)
(* than the chain, so Paths' bound on their length leaves none out.        *)
(***************************************************************************)
IsPath(chain, p) ==
    /\ p \in Seq(1..Len(chain)) /\ Len(p) >= 1 /\ p[1] = 1
    /\ \A i, j \in 1..Len(p) : p[i] = p[j] => i = j
    /\ \A i \in 1..Len(p) - 1 : IssuedBy(chain[p[i]], chain[p[i + 1]])

LEMMA InjectiveCount ==
    ASSUME NEW n \in Nat, NEW f, DOMAIN f = 1..n,
           \A i, j \in 1..n : f[i] = f[j] => i = j,
           NEW S, IsFiniteSet(S), \A i \in 1..n : f[i] \in S
    PROVE  n <= Cardinality(S)
<1> DEFINE g == [i \in 1..n |-> f[i]]
           T == {f[i] : i \in 1..n}
<1>1. g \in Bijection(1..n, T)
  BY DEF Bijection, Injection, Surjection, IsInjective
<1>2. IsFiniteSet(1..n) /\ Cardinality(1..n) = n
  BY FS_Interval
<1>3. ExistsBijection(1..n, T)
  BY <1>1 DEF ExistsBijection
<1>4. Cardinality(T) = n
  BY <1>2, <1>3, FS_Bijection
<1>5. T \in SUBSET S
  OBVIOUS
<1> HIDE DEF T
<1> QED BY <1>4, <1>5, FS_Subset

LEMMA PathsArePaths ==
    ASSUME NEW chain, IsChain(chain), NEW p
    PROVE  p \in Paths(chain) <=> IsPath(chain, p)
<1> DEFINE n == Len(chain)
<1>1. n \in Nat
  BY ChainFields
<1>2. ASSUME p \in Paths(chain) PROVE IsPath(chain, p)
  <2>1. PICK k \in 1..n : p \in [1..k -> 1..n]
    BY <1>2 DEF Paths
  <2>2. p \in Seq(1..n) /\ Len(p) = k /\ DOMAIN p = 1..k /\ k >= 1
    BY <2>1, <1>1
  <2>3. p[1] = 1 /\ IsInjective(p)
        /\ \A i \in 1..Len(p) - 1 : IssuedBy(chain[p[i]], chain[p[i + 1]])
    BY <1>2 DEF Paths
  <2> QED BY <2>2, <2>3 DEF IsPath, IsInjective
<1>3. ASSUME IsPath(chain, p) PROVE p \in Paths(chain)
  <2>1. /\ p \in Seq(1..n) /\ Len(p) >= 1 /\ Len(p) \in Nat /\ DOMAIN p = 1..Len(p)
        /\ \A i \in 1..Len(p) : p[i] \in 1..n
    BY <1>3 DEF IsPath
  <2>2. \A i, j \in 1..Len(p) : p[i] = p[j] => i = j
    BY <1>3 DEF IsPath
  <2>3. IsFiniteSet(1..n) /\ Cardinality(1..n) = n
    BY <1>1, FS_Interval
  <2> HIDE DEF n
  <2>4. Len(p) <= n
    <3>1. Len(p) <= Cardinality(1..n)
      BY <2>1, <2>2, <2>3, InjectiveCount
    <3> QED BY <3>1, <2>3
  <2>5. p \in [1..Len(p) -> 1..n] /\ Len(p) \in 1..n
    BY <2>1, <2>4, <1>1
  <2>6. IsInjective(p) /\ p[1] = 1
        /\ \A i \in 1..Len(p) - 1 : IssuedBy(chain[p[i]], chain[p[i + 1]])
    BY <1>3, <2>1, <2>2 DEF IsInjective, IsPath
  <2>7. p \in UNION {[1 .. k -> 1 .. n] : k \in 1 .. n}
    BY <2>5
  <2> QED BY <2>6, <2>7 DEF Paths, n
<1> QED BY <1>2, <1>3

LEMMA ReachableFacts ==
    ASSUME NEW chain, IsChain(chain)
    PROVE  Reachable(chain) \in SUBSET (1..Len(chain)) /\ 1 \in Reachable(chain)
<1>1. \A q \in Paths(chain) : Last(q) \in 1..Len(chain)
  <2>1. \A q \in Paths(chain) : Len(q) \in Nat /\ Len(q) >= 1 /\ q \in Seq(1..Len(chain))
    BY PathsArePaths DEF IsPath
  <2> QED BY <2>1 DEF Last
<1>2. IsPath(chain, << 1 >>)
  BY ChainFields DEF IsPath
<1>3. << 1 >> \in Paths(chain) /\ Last(<< 1 >>) = 1
  BY <1>2, PathsArePaths DEF Last
<1> QED BY <1>1, <1>3 DEF Reachable

\* What is on a path is reachable, and so is what can follow it.
LEMMA OnPath ==
    ASSUME NEW chain, IsChain(chain), NEW p, IsPath(chain, p)
    PROVE  /\ \A i \in 1..Len(p) : p[i] \in Reachable(chain)
           /\ Len(p) <= Cardinality(Reachable(chain))
           /\ \A i \in Issuers(chain, p) : IsPath(chain, Append(p, i))
<1>1. /\ p \in Seq(1..Len(chain)) /\ Len(p) \in Nat /\ Len(p) >= 1 /\ DOMAIN p = 1..Len(p)
      /\ \A i \in 1..Len(p) : p[i] \in 1..Len(chain)
      /\ Last(p) = p[Len(p)] /\ p[1] = 1
      /\ \A i, j \in 1..Len(p) : p[i] = p[j] => i = j
      /\ \A i \in 1..Len(p) - 1 : IssuedBy(chain[p[i]], chain[p[i + 1]])
  BY DEF IsPath, Last
<1>2. ASSUME NEW k \in 1..Len(p) PROVE p[k] \in Reachable(chain)
  <2> DEFINE q == [i \in 1..k |-> p[i]]
  <2>1. /\ q \in Seq(1..Len(chain)) /\ Len(q) = k /\ k \in Nat /\ k >= 1
        /\ \A i \in 1..k : q[i] = p[i] /\ i \in 1..Len(p)
    BY <1>1
  <2> HIDE DEF q
  <2>2. \A i \in 1..k - 1 : i \in 1..k /\ i + 1 \in 1..k /\ i \in 1..Len(p) - 1
    BY <1>1, <2>1
  <2>3. /\ q[1] = 1
        /\ \A i, j \in 1..Len(q) : q[i] = q[j] => i = j
        /\ \A i \in 1..Len(q) - 1 : IssuedBy(chain[q[i]], chain[q[i + 1]])
    BY <1>1, <2>1, <2>2
  <2>4. q \in Paths(chain)
    BY <2>1, <2>3, PathsArePaths DEF IsPath
  <2>5. Last(q) = p[k]
    BY <2>1 DEF Last
  <2> QED BY <2>4, <2>5 DEF Reachable
<1>3. IsFiniteSet(Reachable(chain))
  <2>1. IsFiniteSet(1..Len(chain))
    BY FS_Interval, ChainFields
  <2> QED BY <2>1, ReachableFacts, FS_Subset
<1>4. Len(p) <= Cardinality(Reachable(chain))
  BY <1>1, <1>2, <1>3, InjectiveCount
<1>5. ASSUME NEW i \in Issuers(chain, p) PROVE IsPath(chain, Append(p, i))
  <2> DEFINE q == Append(p, i)
  <2>1. /\ i \in 1..Len(chain) /\ IssuedBy(chain[p[Len(p)]], chain[i])
        /\ \A k \in 1..Len(p) : p[k] # i
    <3>1. /\ i \in 2..Len(chain) /\ IssuedBy(chain[Last(p)], chain[i])
          /\ \A k \in DOMAIN p : p[k] # i
      BY DEF Issuers
    <3>2. 2..Len(chain) \subseteq 1..Len(chain)
      BY ChainFields
    <3> QED BY <3>1, <3>2, <1>1
  <2>2. /\ q \in Seq(1..Len(chain)) /\ Len(q) = Len(p) + 1
        /\ \A k \in 1..Len(p) : q[k] = p[k]
        /\ q[Len(p) + 1] = i
    BY <1>1, <2>1
  <2> HIDE DEF q
  <2>3. \A k \in 1..Len(q) : k \in 1..Len(p) \/ k = Len(p) + 1
    BY <2>2, <1>1
  <2>4. \A k, l \in 1..Len(q) : q[k] = q[l] => k = l
    BY <1>1, <2>1, <2>2, <2>3
  <2>5. ASSUME NEW k \in 1..Len(q) - 1 PROVE IssuedBy(chain[q[k]], chain[q[k + 1]])
    <3>1. CASE k = Len(p)
      BY <3>1, <1>1, <2>1, <2>2
    <3>2. CASE k # Len(p)
      <4>1. k \in 1..Len(p) - 1 /\ k \in 1..Len(p) /\ k + 1 \in 1..Len(p)
        <5>1. Len(p) \in Nat /\ Len(q) = Len(p) + 1
          BY <1>1, <2>2
        <5> QED BY <5>1, <3>2
      <4> QED BY <4>1, <1>1, <2>2
    <3> QED BY <3>1, <3>2
  <2>6. q[1] = 1 /\ Len(q) >= 1
    BY <1>1, <2>2
  <2>7. IsPath(chain, q)
    BY <2>2, <2>4, <2>5, <2>6 DEF IsPath
  <2> QED BY <2>7 DEF q
<1> QED BY <1>2, <1>4, <1>5

-----------------------------------------------------------------------------
(***************************************************************************)
(* A chain and its core, the reachable certificates in their order: f is   *)
(* where the core's certificates are in the chain.                         *)
(***************************************************************************)
Core(chain, f) ==
    /\ IsChain(chain)
    /\ Enumerates(f, Reachable(chain))

Lift(f, q) == [i \in DOMAIN q |-> f[q[i]]]

LEMMA CoreExists ==
    ASSUME NEW chain, IsChain(chain)
    PROVE  Core(chain, InOrder(Reachable(chain)))
BY ReachableFacts, OrderExists, ChainFields DEF Core

LEMMA CoreFacts ==
    ASSUME NEW chain, NEW f, Core(chain, f)
    PROVE  LET m    == Cardinality(Reachable(chain))
               core == Certs(chain, f)
           IN  /\ m \in Nat /\ m >= 1 /\ m <= Len(chain)
               /\ f \in [1..m -> 1..Len(chain)] /\ f[1] = 1
               /\ \A x \in Reachable(chain) : \E k \in 1..m : f[k] = x
               /\ \A k \in 1..m : f[k] \in Reachable(chain)
               /\ \A i, j \in 1..m : (i < j <=> f[i] < f[j]) /\ (f[i] = f[j] => i = j)
               /\ IsChain(core) /\ Len(core) = m /\ DOMAIN core = 1..m
               /\ \A k \in 1..m : core[k] = chain[f[k]]
<1> DEFINE R == Reachable(chain)
           m == Cardinality(R)
           core == Certs(chain, f)
           n == Len(chain)
<1>1. IsChain(chain) /\ n \in Nat /\ R \in SUBSET (1..n) /\ 1 \in R
  BY ReachableFacts, ChainFields DEF Core
<1> HIDE DEF R, n
<1>2. IsFiniteSet(1..n) /\ Cardinality(1..n) = n
  BY <1>1, FS_Interval
<1>3. IsFiniteSet(R) /\ m \in Nat /\ m <= n
  <2>1. IsFiniteSet(R) /\ Cardinality(R) <= Cardinality(1..n)
    BY <1>1, <1>2, FS_Subset
  <2> QED BY <2>1, <1>2, FS_CardinalityType
<1>4. m # 0
  BY <1>1, <1>3, FS_EmptySet
<1> HIDE DEF m
<1>5. f \in [1..m -> R] /\ Range(f) = R /\ \A i, j \in 1..m : i < j => f[i] < f[j]
  BY DEF Core, Enumerates, R, m
<1>6. \A x \in R : \E k \in 1..m : f[k] = x
  BY <1>5 DEF Range
<1>7. \A k \in 1..m : f[k] \in R /\ f[k] \in 1..n
  BY <1>1, <1>5
<1>8. \A i, j \in 1..m : (i < j <=> f[i] < f[j]) /\ (f[i] = f[j] => i = j)
  <2> SUFFICES ASSUME NEW i \in 1..m, NEW j \in 1..m
               PROVE  (i < j <=> f[i] < f[j]) /\ (f[i] = f[j] => i = j)
    OBVIOUS
  <2>1. f[i] \in Int /\ f[j] \in Int /\ i \in Int /\ j \in Int
    BY <1>1, <1>3, <1>7
  <2>2. (i < j => f[i] < f[j]) /\ (j < i => f[j] < f[i])
    BY <1>5
  <2>3. i < j \/ i = j \/ j < i
    BY <2>1
  <2> QED BY <2>1, <2>2, <2>3
<1>9. f[1] = 1
  <2>1. PICK k \in 1..m : f[k] = 1
    BY <1>1, <1>6
  <2>2. 1 \in 1..m /\ f[1] \in 1..n
    BY <1>3, <1>4, <1>7
  <2>3. k = 1 \/ 1 < k
    BY <1>3
  <2>4. 1 < k => f[1] < 1
    BY <2>1, <2>2, <1>5
  <2> QED BY <2>1, <2>2, <2>3, <2>4, <1>1
<1>10. core = [k \in 1..m |-> chain[f[k]]]
  BY <1>5 DEF Certs
<1>11. \A k \in 1..m : chain[f[k]] \in Certificates
  BY <1>1, <1>7, ChainFields DEF n
<1>12. core \in Seq(Certificates) /\ Len(core) = m /\ DOMAIN core = 1..m
       /\ \A k \in 1..m : core[k] = chain[f[k]]
  BY <1>3, <1>10, <1>11
<1>13. IsChain(core) /\ m >= 1
  BY <1>3, <1>4, <1>12 DEF IsChain
<1>14. f \in [1..m -> 1..n]
  BY <1>5, <1>7
<1> HIDE DEF core
<1> QED BY <1>3, <1>6, <1>7, <1>8, <1>9, <1>12, <1>13, <1>14 DEF m, R, n, core

LEMMA SeqFields ==
    ASSUME NEW S, NEW q \in Seq(S)
    PROVE  Len(q) \in Nat /\ DOMAIN q = 1..Len(q) /\ \A i \in 1..Len(q) : q[i] \in S
OBVIOUS

LEMMA LiftFacts ==
    ASSUME NEW chain, NEW f, Core(chain, f), NEW q, q \in Seq(1..Cardinality(Reachable(chain)))
    PROVE  /\ Lift(f, q) \in Seq(1..Len(chain)) /\ Len(Lift(f, q)) = Len(q) /\ Len(q) \in Nat
           /\ DOMAIN q = 1..Len(q) /\ DOMAIN Lift(f, q) = 1..Len(q)
           /\ \A i \in 1..Len(q) : /\ q[i] \in 1..Cardinality(Reachable(chain))
                                 /\ Lift(f, q)[i] = f[q[i]]
                                 /\ Certs(chain, f)[q[i]] = chain[Lift(f, q)[i]]
           /\ Certs(Certs(chain, f), q) = Certs(chain, Lift(f, q))
<1> DEFINE m == Cardinality(Reachable(chain))
           core == Certs(chain, f)
           p == Lift(f, q)
<1>1. /\ m \in Nat /\ f \in [1..m -> 1..Len(chain)]
      /\ \A k \in 1..m : core[k] = chain[f[k]]
  BY CoreFacts
<1> HIDE DEF m, core
<1>2. q \in Seq(1..m) /\ Len(q) \in Nat /\ DOMAIN q = 1..Len(q) /\ \A i \in 1..Len(q) : q[i] \in 1..m
  BY SeqFields DEF m
<1>3. p = [i \in 1..Len(q) |-> f[q[i]]]
  BY <1>2 DEF Lift
<1>4. p \in Seq(1..Len(chain)) /\ Len(p) = Len(q) /\ DOMAIN p = 1..Len(q)
      /\ \A i \in 1..Len(q) : p[i] = f[q[i]]
  BY <1>1, <1>2, <1>3
<1> HIDE DEF p
<1>5. \A i \in 1..Len(q) : core[q[i]] = chain[p[i]]
  BY <1>1, <1>2, <1>4
<1>6. Certs(core, q) = Certs(chain, p)
  BY <1>2, <1>4, <1>5 DEF Certs
<1> QED BY <1>2, <1>4, <1>5, <1>6 DEF m, core, p

\* The core has the chain's paths.
LEMMA LiftPath ==
    ASSUME NEW chain, NEW f, Core(chain, f), NEW q, q \in Seq(1..Cardinality(Reachable(chain)))
    PROVE  IsPath(Certs(chain, f), q) <=> IsPath(chain, Lift(f, q))
<1> DEFINE m == Cardinality(Reachable(chain))
           core == Certs(chain, f)
           p == Lift(f, q)
<1>1. /\ m \in Nat /\ m >= 1 /\ f[1] = 1 /\ Len(core) = m
      /\ \A i, j \in 1..m : f[i] = f[j] => i = j
  BY CoreFacts
<1>2. /\ p \in Seq(1..Len(chain)) /\ Len(p) = Len(q) /\ Len(q) \in Nat
      /\ \A i \in 1..Len(q) : q[i] \in 1..m /\ p[i] = f[q[i]] /\ core[q[i]] = chain[p[i]]
  BY LiftFacts
<1>3. q \in Seq(1..m)
  OBVIOUS
<1> HIDE DEF m, core, p
<1>4. Len(q) >= 1 => (q[1] = 1 <=> p[1] = 1)
  <2> SUFFICES ASSUME Len(q) >= 1 PROVE q[1] = 1 <=> p[1] = 1
    OBVIOUS
  <2>1. 1 \in 1..Len(q) /\ 1 \in 1..m
    BY <1>1, <1>2
  <2> QED BY <2>1, <1>1, <1>2
<1>5. ASSUME NEW i \in 1..Len(q), NEW j \in 1..Len(q) PROVE q[i] = q[j] <=> p[i] = p[j]
  <2>1. q[i] \in 1..m /\ q[j] \in 1..m /\ p[i] = f[q[i]] /\ p[j] = f[q[j]]
    BY <1>2
  <2>2. f[q[i]] = f[q[j]] => q[i] = q[j]
    BY <1>1, <2>1
  <2> QED BY <2>1, <2>2
<1>6. \A i \in 1..Len(q) - 1 :
        IssuedBy(core[q[i]], core[q[i + 1]]) <=> IssuedBy(chain[p[i]], chain[p[i + 1]])
  <2>1. \A i \in 1..Len(q) - 1 : i \in 1..Len(q) /\ i + 1 \in 1..Len(q)
    BY <1>2
  <2> QED BY <2>1, <1>2
<1>7. IsPath(core, q) <=> IsPath(chain, p)
  BY <1>1, <1>2, <1>3, <1>4, <1>5, <1>6 DEF IsPath
<1> QED BY <1>7 DEF core, p

LEMMA SamePaths ==
    ASSUME NEW chain, NEW f, Core(chain, f)
    PROVE  {Certs(Certs(chain, f), q) : q \in Paths(Certs(chain, f))}
             = {Certs(chain, p) : p \in Paths(chain)}
<1> DEFINE m == Cardinality(Reachable(chain))
           core == Certs(chain, f)
<1>1. IsChain(chain) /\ IsChain(core) /\ Len(core) = m
      /\ \A x \in Reachable(chain) : \E k \in 1..m : f[k] = x
  BY CoreFacts DEF Core
<1>2. ASSUME NEW q \in Paths(core)
      PROVE  Lift(f, q) \in Paths(chain) /\ Certs(core, q) = Certs(chain, Lift(f, q))
  <2>1. IsPath(core, q)
    BY <1>1, PathsArePaths
  <2>2. q \in Seq(1..m)
    BY <2>1, <1>1 DEF IsPath
  <2>3. IsPath(chain, Lift(f, q)) /\ Certs(core, q) = Certs(chain, Lift(f, q))
    BY <2>1, <2>2, LiftPath, LiftFacts
  <2> QED BY <2>3, <1>1, PathsArePaths
<1>3. ASSUME NEW p \in Paths(chain)
      PROVE  \E q \in Paths(core) : Certs(core, q) = Certs(chain, p)
  <2>1. IsPath(chain, p)
    BY <1>1, PathsArePaths
  <2>2. p \in Seq(1..Len(chain)) /\ Len(p) \in Nat /\ DOMAIN p = 1..Len(p)
        /\ \A i \in 1..Len(p) : p[i] \in Reachable(chain)
    BY <2>1, <1>1, OnPath DEF IsPath
  <2> DEFINE at(x) == CHOOSE k \in 1..m : f[k] = x
             q == [i \in 1..Len(p) |-> at(p[i])]
  <2>3. \A x \in Reachable(chain) : at(x) \in 1..m /\ f[at(x)] = x
    BY <1>1
  <2> HIDE DEF at, m
  <2>4. q \in Seq(1..m) /\ DOMAIN q = 1..Len(p) /\ \A i \in 1..Len(p) : f[q[i]] = p[i]
    BY <2>2, <2>3
  <2> HIDE DEF q
  <2>5. Lift(f, q) = p
    BY <2>2, <2>4 DEF Lift
  <2>6. IsPath(core, q) /\ Certs(core, q) = Certs(chain, p)
    BY <2>1, <2>4, <2>5, LiftPath, LiftFacts DEF m
  <2> QED BY <2>6, <1>1, PathsArePaths
<1> HIDE DEF core
<1>4. {Certs(core, q) : q \in Paths(core)} = {Certs(chain, p) : p \in Paths(chain)}
  BY <1>2, <1>3
<1> QED BY <1>4 DEF core

LEMMA SameChains ==
    ASSUME NEW chain, NEW f, Core(chain, f), NEW t, NEW time
    PROVE  /\ Chains(Certs(chain, f), t.roots, time) = Chains(chain, t.roots, time)
           /\ verifyErr(Certs(chain, f), t, time) = verifyErr(chain, t, time)
           /\ verify(Certs(chain, f), t, time) = verify(chain, t, time)
<1>1. Chains(Certs(chain, f), t.roots, time) = Chains(chain, t.roots, time)
  <2> DEFINE anchored(C) == {c \in C : Last(c) \in t.roots}
                              \cup {Append(c, r) : c \in C, r \in t.roots}
             of(C) == {c \in anchored(C) :
                         /\ \A i \in 1 .. Len(c) - 1 : IssuedBy(c[i], c[i + 1]) /\ ~c[i].weak
                         /\ \A i \in 1 .. Len(c) : Live(c[i], time)}
  <2>1. Chains(chain, t.roots, time) = of({Certs(chain, p) : p \in Paths(chain)})
    BY DEF Chains
  <2>2. Chains(Certs(chain, f), t.roots, time)
          = of({Certs(Certs(chain, f), p) : p \in Paths(Certs(chain, f))})
    BY DEF Chains
  <2> HIDE DEF of
  <2> QED BY <2>1, <2>2, SamePaths
<1>2. Certs(chain, f)[1] = chain[1]
  BY CoreFacts
<1> QED BY <1>1, <1>2 DEF verifyErr, verify

-----------------------------------------------------------------------------
(***************************************************************************)
(* The core has the chain's leafChain: it follows the same issuers, since  *)
(* whatever issuer there is to follow is reachable, and the extra rounds   *)
(* for the certificates left out follow nothing.                           *)
(***************************************************************************)
LEMMA MinFacts ==
    ASSUME NEW S, S \subseteq Nat, S # {}
    PROVE  /\ Min(S) \in S
           /\ \A y \in S : Min(S) <= y
           /\ \A x \in S : (\A y \in S : x <= y) => Min(S) = x
<1>1. PICK m \in S : \A n \in S : m <= n
  BY LeastNatural
<1>2. Min(S) \in S /\ \A y \in S : Min(S) <= y
  BY <1>1 DEF Min
<1>3. ASSUME NEW x \in S, \A y \in S : x <= y PROVE Min(S) = x
  <2>1. x <= Min(S) /\ Min(S) <= x /\ x \in Nat /\ Min(S) \in Nat
    BY <1>2, <1>3
  <2> QED BY <2>1
<1> QED BY <1>2, <1>3

\* A path is extended to a path, by one certificate or by none.
LEMMA WithIssuerPath ==
    ASSUME NEW chain, IsChain(chain), NEW p, IsPath(chain, p)
    PROVE  /\ IsPath(chain, WithIssuer(chain, p))
           /\ \/ WithIssuer(chain, p) = p
              \/ Len(WithIssuer(chain, p)) = Len(p) + 1
<1>1. CASE WithIssuer(chain, p) = p
  BY <1>1
<1>2. CASE Issuers(chain, p) # {} /\ WithIssuer(chain, p) = Append(p, Min(Issuers(chain, p)))
  <2>1. Issuers(chain, p) \subseteq Nat
    BY ChainFields DEF Issuers
  <2>2. Min(Issuers(chain, p)) \in Issuers(chain, p)
    BY <1>2, <2>1, MinFacts
  <2>3. IsPath(chain, Append(p, Min(Issuers(chain, p))))
    BY <2>2, OnPath
  <2>4. p \in Seq(1..Len(chain))
    BY DEF IsPath
  <2>5. Len(Append(p, Min(Issuers(chain, p)))) = Len(p) + 1
    BY <2>4
  <2> QED BY <1>2, <2>3, <2>5
<1> QED BY <1>1, <1>2 DEF WithIssuer

LEMMA LiftIssuers ==
    ASSUME NEW chain, NEW f, Core(chain, f), NEW q, IsPath(Certs(chain, f), q)
    PROVE  /\ q \in Seq(1..Cardinality(Reachable(chain))) /\ IsPath(chain, Lift(f, q))
           /\ chain[Last(Lift(f, q))] = Certs(chain, f)[Last(q)]
           /\ Issuers(chain, Lift(f, q)) = {f[j] : j \in Issuers(Certs(chain, f), q)}
<1> DEFINE m == Cardinality(Reachable(chain))
           n == Len(chain)
           core == Certs(chain, f)
           p == Lift(f, q)
<1>1. /\ m \in Nat /\ m >= 1 /\ f[1] = 1 /\ Len(core) = m /\ f \in [1..m -> 1..n]
      /\ \A i, j \in 1..m : (i < j <=> f[i] < f[j]) /\ (f[i] = f[j] => i = j)
      /\ \A k \in 1..m : core[k] = chain[f[k]]
      /\ \A x \in Reachable(chain) : \E k \in 1..m : f[k] = x
      /\ IsChain(chain)
  BY CoreFacts DEF Core
<1>2. q \in Seq(1..m) /\ Len(q) >= 1
  BY <1>1 DEF IsPath
<1>3. /\ Len(p) = Len(q) /\ Len(q) \in Nat /\ p \in Seq(1..n)
      /\ DOMAIN q = 1..Len(q) /\ DOMAIN p = 1..Len(q)
      /\ \A i \in 1..Len(q) : q[i] \in 1..m /\ p[i] = f[q[i]] /\ core[q[i]] = chain[p[i]]
  BY <1>2, LiftFacts
<1>4. IsPath(chain, p)
  BY <1>2, LiftPath
<1>5. n \in Nat
  BY <1>1, ChainFields
<1> HIDE DEF m, n, core, p
<1>6. chain[Last(p)] = core[Last(q)]
  <2>1. Last(p) = p[Len(q)] /\ Last(q) = q[Len(q)] /\ Len(q) \in 1..Len(q)
    BY <1>2, <1>3 DEF Last
  <2> QED BY <2>1, <1>3
<1>7. ASSUME NEW j \in Issuers(core, q) PROVE f[j] \in Issuers(chain, p)
  <2>1. /\ j \in 2..m /\ IssuedBy(core[Last(q)], core[j])
        /\ \A k \in 1..Len(q) : q[k] # j
    BY <1>1, <1>3 DEF Issuers
  <2>2. j \in 1..m /\ 1 \in 1..m /\ 1 < j
    BY <2>1, <1>1
  <2>3. f[j] \in 1..n /\ 1 < f[j]
    BY <2>2, <1>1
  <2>4. f[j] \in 2..n
    BY <2>3, <1>5
  <2>5. \A k \in 1..Len(q) : p[k] # f[j]
    BY <2>1, <2>2, <1>1, <1>3
  <2>6. IssuedBy(chain[Last(p)], chain[f[j]])
    BY <2>1, <2>2, <1>1, <1>6
  <2> QED BY <2>4, <2>5, <2>6, <1>3 DEF Issuers, n
<1>8. ASSUME NEW i \in Issuers(chain, p) PROVE \E j \in Issuers(core, q) : f[j] = i
  <2>1. /\ i \in 2..n /\ IssuedBy(chain[Last(p)], chain[i])
        /\ \A k \in 1..Len(q) : p[k] # i
    BY <1>3 DEF Issuers, n
  <2>2. IsPath(chain, Append(p, i))
    BY <1>1, <1>4, OnPath
  <2>3. Len(Append(p, i)) = Len(q) + 1 /\ Append(p, i)[Len(q) + 1] = i
    BY <1>3, <2>1
  <2>4. Len(q) + 1 \in 1..Len(Append(p, i))
    BY <1>3, <2>3
  <2>5. i \in Reachable(chain)
    <3>1. \A k \in 1..Len(Append(p, i)) : Append(p, i)[k] \in Reachable(chain)
      BY <1>1, <2>2, OnPath
    <3>2. Append(p, i)[Len(q) + 1] \in Reachable(chain)
      BY <2>4, <3>1
    <3> QED BY <2>3, <3>2
  <2>6. PICK j \in 1..m : f[j] = i
    BY <1>1, <2>5
  <2>7. j # 1
    BY <2>1, <2>6, <1>1
  <2>8. j \in 2..m
    BY <2>6, <2>7, <1>1
  <2>9. \A k \in 1..Len(q) : q[k] # j
    BY <2>1, <2>6, <1>3
  <2>10. IssuedBy(core[Last(q)], core[j])
    BY <2>1, <2>6, <1>1, <1>6
  <2>11. j \in Issuers(core, q)
    BY <2>8, <2>9, <2>10, <1>1, <1>3 DEF Issuers
  <2> QED BY <2>6, <2>11
<1>9. Issuers(chain, p) = {f[j] : j \in Issuers(core, q)}
  BY <1>7, <1>8
<1> QED BY <1>2, <1>4, <1>6, <1>9 DEF m, core, p

LEMMA LiftStep ==
    ASSUME NEW chain, NEW f, Core(chain, f), NEW q, IsPath(Certs(chain, f), q)
    PROVE  WithIssuer(chain, Lift(f, q)) = Lift(f, WithIssuer(Certs(chain, f), q))
<1> DEFINE m == Cardinality(Reachable(chain))
           core == Certs(chain, f)
           p == Lift(f, q)
           I == Issuers(core, q)
           J == Issuers(chain, p)
<1>1. /\ m \in Nat /\ Len(core) = m /\ f \in [1..m -> 1..Len(chain)]
      /\ \A i, j \in 1..m : i < j <=> f[i] < f[j]
  BY CoreFacts
<1>2. q \in Seq(1..m) /\ chain[Last(p)] = core[Last(q)] /\ J = {f[j] : j \in I}
  BY LiftIssuers
<1>3. I \subseteq 1..m /\ J \subseteq Nat
  <2>1. I \subseteq 2..m
    BY <1>1 DEF Issuers
  <2>2. Len(chain) \in Nat
    BY ChainFields DEF Core
  <2>3. J \subseteq 2..Len(chain)
    BY DEF Issuers
  <2> HIDE DEF I, J, m
  <2> QED BY <2>1, <2>2, <2>3, <1>1
<1>4. CASE core[Last(q)].issuer = core[Last(q)].subject \/ I = {}
  <2>1. chain[Last(p)].issuer = chain[Last(p)].subject \/ J = {}
    <3> HIDE DEF core, p, I, J
    <3> QED BY <1>2, <1>4
  <2>2. WithIssuer(core, q) = q
    BY <1>4 DEF WithIssuer
  <2>3. WithIssuer(chain, p) = p
    BY <2>1 DEF WithIssuer
  <2> QED BY <2>2, <2>3
<1>5. CASE ~(core[Last(q)].issuer = core[Last(q)].subject \/ I = {})
  <2>1. ~(chain[Last(p)].issuer = chain[Last(p)].subject \/ J = {})
    <3> HIDE DEF core, p, I, J
    <3> QED BY <1>2, <1>5
  <2>2. WithIssuer(core, q) = Append(q, Min(I))
    BY <1>5 DEF WithIssuer
  <2>3. WithIssuer(chain, p) = Append(p, Min(J))
    BY <2>1 DEF WithIssuer
  <2> DEFINE x == Min(I)
  <2> HIDE DEF I, J, m
  <2>4. I # {} /\ J # {} /\ I \subseteq Nat
    BY <1>1, <1>3, <1>5, <2>1
  <2>5. x \in I /\ \A j \in I : x <= j
    BY <2>4, MinFacts
  <2> HIDE DEF x
  <2>6. f[x] \in J /\ x \in 1..m
    BY <1>2, <1>3, <2>5
  <2>7. ASSUME NEW y \in J PROVE f[x] <= y
    <3>1. PICK j \in I : y = f[j]
      BY <1>2
    <3>2. j \in 1..m /\ (x = j \/ x < j)
      BY <1>1, <1>3, <2>5, <2>6
    <3>3. f[x] = f[j] \/ f[x] < f[j]
      BY <1>1, <2>6, <3>2
    <3>4. f[x] \in Nat /\ f[j] \in Nat
      BY <1>1, <2>6, <3>2
    <3> QED BY <3>1, <3>3, <3>4
  <2>8. Min(J) = f[x]
    BY <1>3, <2>4, <2>6, <2>7, MinFacts
  <2>9. Lift(f, Append(q, x)) = Append(Lift(f, q), f[x])
    <3>1. Len(q) \in Nat /\ DOMAIN q = 1..Len(q) /\ \A i \in 1..Len(q) : q[i] \in 1..m
      BY <1>2, SeqFields
    <3>2. /\ Append(q, x) \in Seq(1..m) /\ Len(Append(q, x)) = Len(q) + 1
          /\ DOMAIN Append(q, x) = 1..(Len(q) + 1)
          /\ \A i \in 1..Len(q) : Append(q, x)[i] = q[i]
          /\ Append(q, x)[Len(q) + 1] = x
      BY <1>2, <2>6, <3>1
    <3>3. Lift(f, q) = [i \in 1..Len(q) |-> f[q[i]]]
      BY <3>1 DEF Lift
    <3>4. Lift(f, q) \in Seq(1..Len(chain)) /\ Len(Lift(f, q)) = Len(q)
      BY <1>2, LiftFacts DEF m
    <3>5. /\ Append(Lift(f, q), f[x]) = [i \in 1..(Len(q) + 1) |->
                                         IF i <= Len(q) THEN f[q[i]] ELSE f[x]]
      BY <3>1, <3>3, <3>4
    <3>6. Lift(f, Append(q, x)) = [i \in 1..(Len(q) + 1) |->
                                     IF i <= Len(q) THEN f[q[i]] ELSE f[x]]
      BY <3>1, <3>2 DEF Lift
    <3> QED BY <3>5, <3>6
  <2> QED BY <2>2, <2>3, <2>8, <2>9 DEF x
<1> QED BY <1>4, <1>5

\* After as many rounds as there are reachable certificates nothing changes.
LEMMA FollowedSettles ==
    ASSUME NEW chain, IsChain(chain), NEW g, Follows(g, chain, Len(chain))
    PROVE  LET m == Cardinality(Reachable(chain))
           IN  m <= Len(chain) => g[Len(chain)] = g[m]
<1> DEFINE n == Len(chain)
           m == Cardinality(Reachable(chain))
           Good(k) == /\ IsPath(chain, g[k])
                      /\ Len(g[k]) = k + 1 \/ WithIssuer(chain, g[k]) = g[k]
           S == {k \in Nat : k \in 0..n => Good(k)}
           T == {d \in Nat : m + d <= n => g[m + d] = g[m]}
<1> SUFFICES ASSUME m <= n PROVE g[n] = g[m]
  OBVIOUS
<1>1. n \in Nat /\ Follows(g, chain, n)
  BY ChainFields
<1>2. m \in Nat
  <2>1. IsFiniteSet(1..n)
    BY <1>1, FS_Interval
  <2> QED BY <2>1, ReachableFacts, FS_Subset, FS_CardinalityType
<1>3. g[0] = << 1 >>
  <2> HIDE DEF n
  <2> QED BY <1>1, FollowsAt
<1>4. ASSUME NEW k \in Nat, k + 1 \in 0..n PROVE k \in 0..n /\ g[k + 1] = WithIssuer(chain, g[k])
  <2> HIDE DEF n
  <2>1. k \in 0..n /\ (k + 1) - 1 = k /\ k + 1 # 0
    BY <1>1, <1>4
  <2> QED BY <1>1, <1>4, <2>1, FollowsAt
<1> HIDE DEF n, m
<1>5. 0 \in S
  <2>1. IsPath(chain, << 1 >>)
    BY ChainFields DEF IsPath
  <2>2. Len(g[0]) = 0 + 1
    BY <1>3
  <2>3. Good(0)
    BY <1>3, <2>1, <2>2
  <2> HIDE DEF Good
  <2> QED BY <2>3
<1>6. ASSUME NEW k \in Nat, k \in S PROVE k + 1 \in S
  <2>1. SUFFICES ASSUME k + 1 \in 0..n PROVE Good(k + 1)
    BY DEF S
  <2>2. Good(k) /\ g[k + 1] = WithIssuer(chain, g[k])
    BY <1>4, <1>6, <2>1
  <2>3. /\ IsPath(chain, g[k + 1])
        /\ g[k + 1] = g[k] \/ Len(g[k + 1]) = Len(g[k]) + 1
    BY <2>2, WithIssuerPath
  <2>4. CASE g[k + 1] = g[k]
    <3>1. WithIssuer(chain, g[k]) = g[k]
      BY <2>2, <2>4
    <3> QED BY <2>3, <2>4, <3>1
  <2>5. CASE Len(g[k + 1]) = Len(g[k]) + 1
    <3>1. CASE Len(g[k]) = k + 1
      BY <2>3, <2>5, <3>1
    <3>2. CASE WithIssuer(chain, g[k]) = g[k]
      <4>1. g[k + 1] = g[k]
        BY <2>2, <3>2
      <4> QED BY <2>3, <4>1, <3>2
    <3> QED BY <2>2, <3>1, <3>2
  <2> QED BY <2>3, <2>4, <2>5
<1>7. \A k \in 0..n : Good(k)
  <2> HIDE DEF S
  <2>1. \A k \in Nat : k \in S
    BY <1>5, <1>6, Induction
  <2> HIDE DEF Good
  <2> QED BY <2>1 DEF S
<1>8. WithIssuer(chain, g[m]) = g[m]
  <2>1. m \in 0..n
    BY <1>1, <1>2
  <2>2. IsPath(chain, g[m]) /\ (Len(g[m]) = m + 1 \/ WithIssuer(chain, g[m]) = g[m])
    BY <1>7, <2>1
  <2>3. Len(g[m]) <= m /\ Len(g[m]) \in Nat
    BY <2>2, OnPath DEF m, IsPath
  <2> QED BY <1>2, <2>2, <2>3
<1>9. 0 \in T
  BY <1>2
<1>10. ASSUME NEW d \in Nat, d \in T PROVE d + 1 \in T
  <2>1. SUFFICES ASSUME m + (d + 1) <= n PROVE g[m + (d + 1)] = g[m]
    BY DEF T
  <2>2. m + d \in Nat /\ m + d <= n /\ m + (d + 1) = (m + d) + 1 /\ (m + d) + 1 \in 0..n
    BY <1>1, <1>2, <2>1
  <2>3. g[m + d] = g[m]
    BY <1>10, <2>2
  <2>4. g[(m + d) + 1] = WithIssuer(chain, g[m + d])
    BY <1>4, <2>2
  <2> QED BY <1>8, <2>2, <2>3, <2>4
<1>11. n - m \in T
  <2>1. n - m \in Nat
    BY <1>1, <1>2
  <2> HIDE DEF T
  <2> QED BY <1>9, <1>10, <2>1, Induction
<1>12. m + (n - m) = n
  BY <1>1, <1>2
<1> QED BY <1>1, <1>11, <1>12 DEF T

LEMMA SameLeafChain ==
    ASSUME NEW chain, NEW f, Core(chain, f)
    PROVE  leafChain(Certs(chain, f)) = leafChain(chain)
<1> DEFINE n == Len(chain)
           m == Cardinality(Reachable(chain))
           core == Certs(chain, f)
           g == CHOOSE e : Follows(e, chain, n)
           h == CHOOSE e : Follows(e, core, m)
           S == {k \in Nat : k \in 0..m => IsPath(core, h[k]) /\ g[k] = Lift(f, h[k])}
<1>1. /\ m \in Nat /\ m >= 1 /\ m <= n /\ f[1] = 1 /\ IsChain(core) /\ Len(core) = m
      /\ IsChain(chain) /\ n \in Nat
  BY CoreFacts, ChainFields DEF Core
<1>2. Follows(g, chain, n) /\ Follows(h, core, m)
  <2>1. Follows(g, chain, n)
    BY <1>1, FollowsExists
  <2>2. Follows(h, core, m)
    BY <1>1, FollowsExists
  <2> QED BY <2>1, <2>2
<1>3. leafChain(chain) = Certs(chain, g[n]) /\ leafChain(core) = Certs(core, h[m])
  <2>1. leafChain(chain) = Certs(chain, g[n])
    BY DEF leafChain, Follows
  <2>2. leafChain(core) = Certs(core, (CHOOSE e : Follows(e, core, Len(core)))[Len(core)])
    BY DEF leafChain, Follows
  <2> HIDE DEF core, m, g
  <2>3. leafChain(core) = Certs(core, (CHOOSE e : Follows(e, core, m))[m])
    BY <1>1, <2>2
  <2> QED BY <2>1, <2>3
<1> HIDE DEF n, m, g, h, core
<1>4. 0 \in S
  <2>1. g[0] = << 1 >> /\ h[0] = << 1 >>
    BY <1>1, <1>2, FollowsAt
  <2>2. IsPath(core, << 1 >>)
    BY <1>1 DEF IsPath
  <2>3. Lift(f, << 1 >>) = << 1 >>
    BY <1>1 DEF Lift
  <2> QED BY <2>1, <2>2, <2>3
<1>5. ASSUME NEW k \in Nat, k \in S PROVE k + 1 \in S
  <2>1. SUFFICES ASSUME k + 1 \in 0..m
                 PROVE  IsPath(core, h[k + 1]) /\ g[k + 1] = Lift(f, h[k + 1])
    BY DEF S
  <2>2. /\ k \in 0..m /\ k + 1 \in 0..n /\ (k + 1) - 1 = k /\ k + 1 # 0
    BY <1>1, <2>1
  <2>3. IsPath(core, h[k]) /\ g[k] = Lift(f, h[k])
    BY <1>5, <2>2
  <2>4. g[k + 1] = WithIssuer(chain, g[k]) /\ h[k + 1] = WithIssuer(core, h[k])
    BY <1>1, <1>2, <2>1, <2>2, FollowsAt
  <2>5. WithIssuer(chain, Lift(f, h[k])) = Lift(f, WithIssuer(core, h[k]))
    BY <2>3, LiftStep DEF core
  <2>6. IsPath(core, WithIssuer(core, h[k]))
    BY <1>1, <2>3, WithIssuerPath
  <2> QED BY <2>3, <2>4, <2>5, <2>6
<1>6. IsPath(core, h[m]) /\ g[m] = Lift(f, h[m])
  <2> HIDE DEF S
  <2>1. m \in S
    BY <1>1, <1>4, <1>5, Induction
  <2> QED BY <1>1, <2>1 DEF S
<1>7. g[n] = g[m]
  BY <1>1, <1>2, FollowedSettles DEF n, m
<1>8. Certs(core, h[m]) = Certs(chain, Lift(f, h[m]))
  <2>1. h[m] \in Seq(1..m)
    BY <1>1, <1>6 DEF IsPath
  <2> QED BY <2>1, LiftFacts DEF core, m
<1>9. leafChain(core) = leafChain(chain)
  BY <1>3, <1>6, <1>7, <1>8
<1> QED BY <1>9 DEF core

(***************************************************************************)
(* What the leaf does not lead to may be presented or not, in any place    *)
(* and of any number: no field of the verdict changes, if nothing of it is *)
(* weakly signed.                                                          *)
(***************************************************************************)
THEOREM StraysAreIgnored == Spec => []ExtraneousIgnored
<1>1. CurrentInv => ExtraneousIgnored
  <2> SUFFICES ASSUME CurrentInv,
                      \A i \in DOMAIN peers \ Reachable(peers) : ~peers[i].weak
               PROVE  result = evaluate(WithoutExtraneous(peers), target, now)
    BY DEF ExtraneousIgnored
  <2> DEFINE f == InOrder(Reachable(peers))
             core == Certs(peers, f)
  <2>1. IsChain(peers) /\ result = evaluate(peers, target, now)
    BY DEF CurrentInv
  <2>2. Core(peers, f)
    BY <2>1, CoreExists
  <2> HIDE DEF f
  <2>3. verifyErr(core, target, now) = verifyErr(peers, target, now)
        /\ verify(core, target, now) = verify(peers, target, now)
    BY <2>2, SameChains
  <2>4. leafChain(core) = leafChain(peers)
    BY <2>2, SameLeafChain
  <2>5. weakSignatureCert(core) <=> weakSignatureCert(peers)
    <3> DEFINE m == Cardinality(Reachable(peers))
    <3>1. /\ DOMAIN core = 1..m /\ \A k \in 1..m : core[k] = peers[f[k]]
          /\ \A k \in 1..m : f[k] \in DOMAIN peers
          /\ \A x \in Reachable(peers) : \E k \in 1..m : f[k] = x
      BY <2>1, <2>2, CoreFacts, ChainFields
    <3> HIDE DEF core, m
    <3> QED BY <3>1 DEF weakSignatureCert
  <2> HIDE DEF core
  <2>6. scope(core, target, now) = scope(peers, target, now)
    BY <2>3, <2>4 DEF scope
  <2>7. \A status, severity : Verdict(status, severity, core, target, now)
                              = Verdict(status, severity, peers, target, now)
    BY <2>3, <2>6 DEF Verdict
  <2>8. TrustVerdict(core, target, now) = TrustVerdict(peers, target, now)
    BY <2>5, <2>7 DEF TrustVerdict
  <2>9. DaysVerdict(core, target, now) = DaysVerdict(peers, target, now)
    BY <2>6, <2>7 DEF DaysVerdict
  <2>10. evaluate(core, target, now) = evaluate(peers, target, now)
    BY <2>3, <2>6, <2>7, <2>8, <2>9 DEF evaluate
  <2> QED BY <2>1, <2>10 DEF WithoutExtraneous, core, f
<1> QED BY <1>1, CurrentInvariant, PTL

=============================================================================
