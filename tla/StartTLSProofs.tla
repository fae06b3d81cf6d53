--------------------------- MODULE StartTLSProofs ---------------------------
(***************************************************************************)
(* Theorems about StartTLS, for any limits on lines and bytes.             *)
(***************************************************************************)
EXTENDS StartTLS, SequenceTheorems, TLAPS

-----------------------------------------------------------------------------
(***************************************************************************)
(* The invariant.  While the dialog goes on the prober has taken exactly   *)
(* one reply for each stage behind it, and the server agreed to each.      *)
(***************************************************************************)
ReplyRecord == [answer : Answers, mentions : BOOLEAN, whole : BOOLEAN]

TypeOK ==
    /\ proto \in Protocols
    /\ stage \in Nat
    /\ lines \in 0 .. MaxLines
    /\ mentioned \in BOOLEAN
    /\ left \in 0 .. MaxBytes
    /\ outcome \in {"none", "tls", "unavailable", "unreachable"}
    /\ said \in Seq(ReplyRecord)
    /\ cut \in BOOLEAN

AgreedSoFar ==
    outcome = "none" =>
        /\ stage \in 1 .. Len(Dialog[proto])
        /\ Len(said) = stage - 1
        /\ \A i \in 1 .. Len(said) : Good(i)
        /\ proto = "smtp" /\ stage = 3 => said[2].mentions

OutcomeJustified ==
    TLSMeansAgreed /\ UnavailableMeansDeclined /\ UnreachableMeansFault

DialogInv == TypeOK /\ AgreedSoFar /\ OutcomeJustified

LEMMA Limits == MaxLines \in Nat \ {0} /\ MaxBytes \in Nat \ {0}
  BY StartTLSAssumption DEF StartTLSAssumption

-----------------------------------------------------------------------------
(***************************************************************************)
(* The dialogs: only the answer to the last command can mean no TLS.       *)
(***************************************************************************)
LEMMA DialogShape ==
    ASSUME NEW p \in Protocols
    PROVE  /\ Len(Dialog[p]) \in 1 .. 3
           /\ p = "smtp" => Len(Dialog[p]) = 3
           /\ \A i \in 1 .. Len(Dialog[p]) :
                Dialog[p][i] = IF i = Len(Dialog[p]) THEN "unavailable" ELSE "unreachable"
<1>1. CASE p = "smtp"
  <2>1. Dialog[p] = << "unreachable", "unreachable", "unavailable" >>
    BY <1>1 DEF Dialog
  <2> QED
    BY <1>1, <2>1
<1>2. CASE p = "postgres"
  <2>1. Dialog[p] = << "unavailable" >>
    BY <1>2 DEF Dialog
  <2> QED
    BY <1>2, <2>1
<1>3. CASE p \notin {"smtp", "postgres"}
  <2>1. Dialog[p] = << "unreachable", "unavailable" >>
    BY <1>3 DEF Dialog
  <2> QED
    BY <1>3, <2>1
<1> QED
  BY <1>1, <1>2, <1>3

\* What a judgement says of the reply it is made of.
LEMMA JudgedMeaning ==
    ASSUME TypeOK, AgreedSoFar, outcome = "none",
           NEW answer \in Answers, NEW mentions \in BOOLEAN
    PROVE  LET verdict == Judged(answer, mentions)
           IN  /\ verdict \in {"none", "tls", "unavailable", "unreachable"}
               /\ verdict = "none" =>
                    /\ answer = "good" /\ stage < Len(Dialog[proto])
                    /\ proto = "smtp" /\ stage = 2 => mentions
               /\ verdict = "tls" =>
                    /\ answer = "good" /\ stage = Len(Dialog[proto])
               /\ verdict = "unavailable" =>
                    \/ answer # "good" /\ stage = Len(Dialog[proto])
                    \/ answer = "good" /\ proto = "smtp" /\ stage = 2 /\ ~mentions
               /\ verdict = "unreachable" => answer # "good"
<1>1. /\ stage \in 1 .. Len(Dialog[proto])
      /\ Len(Dialog[proto]) \in 1 .. 3
      /\ Dialog[proto][stage] = IF stage = Len(Dialog[proto]) THEN "unavailable"
                                                              ELSE "unreachable"
  BY DialogShape DEF TypeOK, AgreedSoFar
<1> QED
  BY <1>1 DEF Judged, Declined, Final

\* A reply is put at the end of what was said, which stays as it was.
LEMMA SaidMore ==
    ASSUME TypeOK, NEW r \in ReplyRecord, said' = Append(said, r)
    PROVE  /\ said' \in Seq(ReplyRecord)
           /\ Len(said') = Len(said) + 1
           /\ said'[Len(said')] = r
           /\ \A i \in 1 .. Len(said) : said'[i] = said[i]
           /\ said' # << >>
           /\ DOMAIN said' = 1 .. Len(said) + 1
  BY DEF TypeOK

-----------------------------------------------------------------------------
LEMMA DialogInit == Init => DialogInv
<1> SUFFICES ASSUME Init PROVE DialogInv
  OBVIOUS
<1>1. proto \in Protocols /\ Len(Dialog[proto]) \in 1 .. 3
  BY DialogShape DEF Init
<1>2. said = << >> /\ said \in Seq(ReplyRecord) /\ Len(said) = 0
  BY DEF Init
<1>3. TypeOK
  <2>1. lines \in 0 .. MaxLines /\ left \in 0 .. MaxBytes /\ stage \in Nat
    BY Limits DEF Init
  <2> QED
    BY <1>1, <1>2, <2>1 DEF Init, TypeOK
<1>4. AgreedSoFar
  BY <1>1, <1>2 DEF Init, AgreedSoFar
<1> QED
  BY <1>3, <1>4 DEF Init, DialogInv, OutcomeJustified, TLSMeansAgreed,
     UnavailableMeansDeclined, UnreachableMeansFault

\* A reply that is judged, read to its end or not.
LEMMA JudgedStep ==
    ASSUME DialogInv, outcome = "none",
           NEW r \in ReplyRecord, r.whole \/ proto = "ftp",
           outcome' = Judged(r.answer, r.mentions),
           said' = Append(said, r),
           stage' = IF outcome' = "none" THEN stage + 1 ELSE stage,
           proto' = proto
    PROVE  /\ AgreedSoFar' /\ OutcomeJustified'
           /\ said' \in Seq(ReplyRecord) /\ stage' \in Nat
           /\ outcome' \in {"none", "tls", "unavailable", "unreachable"}
<1> DEFINE total == Len(Dialog[proto])
<1>1. TypeOK /\ AgreedSoFar
  BY DEF DialogInv
<1>2. /\ total \in 1 .. 3 /\ (proto = "smtp" => total = 3)
      /\ stage \in 1 .. total /\ Len(said) = stage - 1
      /\ \A i \in 1 .. Len(said) : said[i].answer = "good"
      /\ proto = "smtp" /\ stage = 3 => said[2].mentions
  BY <1>1, DialogShape DEF TypeOK, AgreedSoFar, Good
<1>3. /\ said' \in Seq(ReplyRecord)
      /\ Len(said') = stage
      /\ said'[stage] = r
      /\ \A i \in 1 .. stage - 1 : said'[i] = said[i]
      /\ said' # << >>
      /\ DOMAIN said' = 1 .. stage
  <2> HIDE DEF total
  <2> QED
    BY <1>1, <1>2, SaidMore
<1>4. \A i \in 1 .. stage - 1 : said'[i].answer = "good"
  BY <1>2, <1>3
<1>5. r.answer \in Answers /\ r.mentions \in BOOLEAN
  BY DEF ReplyRecord
<1>6. /\ outcome' \in {"none", "tls", "unavailable", "unreachable"}
      /\ outcome' = "none" =>
           /\ r.answer = "good" /\ stage < total
           /\ proto = "smtp" /\ stage = 2 => r.mentions
      /\ outcome' = "tls" => r.answer = "good" /\ stage = total
      /\ outcome' = "unavailable" =>
           \/ r.answer # "good" /\ stage = total
           \/ r.answer = "good" /\ proto = "smtp" /\ stage = 2 /\ ~r.mentions
      /\ outcome' = "unreachable" => r.answer # "good"
  BY <1>1, <1>5, JudgedMeaning
<1> HIDE DEF total
<1>7. AgreedSoFar'
  BY <1>2, <1>3, <1>4, <1>5, <1>6 DEF AgreedSoFar, Good, total, Dialog
<1>8. TLSMeansAgreed'
  <2> SUFFICES ASSUME outcome' = "tls" PROVE TLSMeansAgreed'
    BY DEF TLSMeansAgreed
  <2>1. r.answer = "good" /\ stage = total
    BY <1>6
  <2>2. \A i \in 1 .. stage : said'[i].answer = "good"
    BY <1>2, <1>3, <1>4, <2>1
  <2>3. proto = "smtp" => said'[2] = said[2] /\ stage = 3
    BY <1>2, <1>3, <2>1
  <2>4. proto = "smtp" => said'[2].mentions
    BY <1>2, <2>3
  <2> QED
    BY <1>3, <2>1, <2>2, <2>4 DEF TLSMeansAgreed, Good, total, Dialog
<1>9. UnavailableMeansDeclined'
  BY <1>2, <1>3, <1>4, <1>5, <1>6 DEF UnavailableMeansDeclined, Good, total, Dialog
<1>10. UnreachableMeansFault'
  BY <1>2, <1>3, <1>5, <1>6 DEF UnreachableMeansFault, Good
<1> QED
  BY <1>2, <1>3, <1>6, <1>7, <1>8, <1>9, <1>10 DEF OutcomeJustified

LEMMA DialogStep ==
    ASSUME DialogInv, [Next]_vars
    PROVE  DialogInv'
<1>1. TypeOK /\ AgreedSoFar /\ OutcomeJustified
  BY DEF DialogInv
\* Lines and parts of lines: the replies so far stay as they are.
<1>2. CASE Part \/ Continues
  <2>1. TypeOK'
    <3>1. lines' \in 0 .. MaxLines /\ left' \in 0 .. MaxBytes
      <4>1. /\ lines < MaxLines /\ left > 0
            /\ lines' = lines \/ lines' = lines + 1
            /\ left' = left - 1
        BY <1>2 DEF Part, Continues, MayRead
      <4> QED
        BY <1>1, <4>1, Limits DEF TypeOK
    <3>2. mentioned' \in BOOLEAN
      BY <1>1, <1>2, Zenon DEF Part, Continues, TypeOK
    <3> QED
      BY <1>1, <1>2, <3>1, <3>2 DEF Part, Continues, TypeOK
  <2>2. /\ outcome = "none"
        /\ UNCHANGED << proto, stage, outcome, said, cut >>
    BY <1>2 DEF Part, Continues, MayRead
  <2> QED
    BY <1>1, <2>1, <2>2 DEF DialogInv, AgreedSoFar, OutcomeJustified, Good,
       TLSMeansAgreed, UnavailableMeansDeclined, UnreachableMeansFault, Dialog
<1>3. ASSUME NEW answer \in Answers, Reply(answer) PROVE DialogInv'
  <2>1. PICK mentions \in BOOLEAN :
          /\ outcome' = Judged(answer, mentions)
          /\ said' = Append(said, [answer |-> answer, mentions |-> mentions,
                                   whole |-> TRUE])
    BY <1>1, <1>3 DEF Reply, TypeOK
  <2> DEFINE r == [answer |-> answer, mentions |-> mentions, whole |-> TRUE]
  <2>2. /\ r \in ReplyRecord /\ r.whole
        /\ outcome' = Judged(r.answer, r.mentions)
        /\ said' = Append(said, r)
    BY <2>1 DEF ReplyRecord
  <2>3. /\ outcome = "none" /\ proto' = proto
        /\ stage' = IF outcome' = "none" THEN stage + 1 ELSE stage
    BY <1>3 DEF Reply, MayRead
  <2>4. /\ AgreedSoFar' /\ OutcomeJustified'
        /\ said' \in Seq(ReplyRecord) /\ stage' \in Nat
        /\ outcome' \in {"none", "tls", "unavailable", "unreachable"}
    <3> HIDE DEF r
    <3> QED
      BY <2>2, <2>3, JudgedStep
  <2>5. lines' \in 0 .. MaxLines /\ left' \in 0 .. MaxBytes
    BY <1>1, <1>3, Limits DEF Reply, MayRead, TypeOK
  <2>6. mentioned' \in BOOLEAN
    BY <1>3 DEF Reply
  <2> QED
    BY <1>1, <1>3, <2>4, <2>5, <2>6, Zenon DEF Reply, TypeOK, DialogInv
<1>4. ASSUME NEW answer \in Answers, TakenForReply(answer) PROVE DialogInv'
  <2> DEFINE r == [answer |-> answer, mentions |-> FALSE, whole |-> FALSE]
  <2>1. r \in ReplyRecord
    BY DEF ReplyRecord
  <2>2. /\ proto = "ftp" /\ outcome = "none" /\ proto' = proto
        /\ outcome' = Judged(r.answer, r.mentions)
        /\ said' = Append(said, r)
    BY <1>4 DEF TakenForReply, MayRead
  <2>3. outcome' # "none"
    BY <1>1, <1>4, JudgedMeaning DEF TakenForReply, MayRead
  <2>4. stage' = IF outcome' = "none" THEN stage + 1 ELSE stage
    BY <1>4, <2>3 DEF TakenForReply
  <2>5. /\ AgreedSoFar' /\ OutcomeJustified'
        /\ said' \in Seq(ReplyRecord) /\ stage' \in Nat
        /\ outcome' \in {"none", "tls", "unavailable", "unreachable"}
    <3> HIDE DEF r
    <3> QED
      BY <2>1, <2>2, <2>4, JudgedStep
  <2>6. lines' \in 0 .. MaxLines /\ left' \in 0 .. MaxBytes
    BY <1>1, <1>4, Limits DEF TakenForReply, MayRead, TypeOK
  <2>7. mentioned' \in BOOLEAN
    BY <1>4 DEF TakenForReply
  <2> QED
    BY <1>1, <1>4, <2>5, <2>6, <2>7, Zenon DEF TakenForReply, TypeOK, DialogInv
\* A limit or a failure: unreachable, and the fault is there to see.
<1>5. CASE TooLong \/ Oversized \/ Fails
  <2>1. /\ outcome' = "unreachable"
        /\ UNCHANGED << proto, stage, lines, mentioned, left, said >>
    BY <1>5 DEF TooLong, Oversized, Fails
  <2>2. cut' \in BOOLEAN
    BY <1>1, <1>5, Zenon DEF TooLong, Oversized, Fails, TypeOK
  <2>3. cut' \/ left = 0 \/ lines = MaxLines
    <3>1. TooLong => lines = MaxLines
      BY <1>1, Limits DEF TooLong, TypeOK
    <3> QED
      BY <1>5, <3>1 DEF Oversized, Fails
  <2>4. TypeOK'
    BY <1>1, <2>1, <2>2 DEF TypeOK
  <2> QED
    BY <2>1, <2>3, <2>4 DEF DialogInv, AgreedSoFar, OutcomeJustified,
       TLSMeansAgreed, UnavailableMeansDeclined, UnreachableMeansFault
<1>6. CASE UNCHANGED vars
  BY <1>1, <1>6 DEF vars, DialogInv, TypeOK, AgreedSoFar, OutcomeJustified, Good,
     TLSMeansAgreed, UnavailableMeansDeclined, UnreachableMeansFault, Dialog
<1> QED
  BY <1>2, <1>3, <1>4, <1>5, <1>6 DEF Next, Talks

LEMMA DialogAlways == Spec => []DialogInv
<1>1. Init => DialogInv
  BY DialogInit
<1>2. DialogInv /\ [Next]_vars => DialogInv'
  BY DialogStep
<1> QED
  BY <1>1, <1>2, PTL DEF Spec

(***************************************************************************)
(* The handshake starts only after the server agreed to every command      *)
(* (starttls and the dialogs under it), for any limits.                    *)
(***************************************************************************)
THEOREM TLSIsAgreed == Spec => []TLSMeansAgreed
<1>1. DialogInv => TLSMeansAgreed
  BY DEF DialogInv, OutcomeJustified
<1> QED
  BY <1>1, DialogAlways, PTL

(***************************************************************************)
(* A server is called one without TLS only when it declined (what          *)
(* checkOnce makes of errTLSUnsupported), for any limits.                  *)
(***************************************************************************)
THEOREM UnavailableIsDeclined == Spec => []UnavailableMeansDeclined
<1>1. DialogInv => UnavailableMeansDeclined
  BY DEF DialogInv, OutcomeJustified
<1> QED
  BY <1>1, DialogAlways, PTL

(***************************************************************************)
(* A server is called unreachable only for a failure, a limit it reached   *)
(* or an answer it gave (readSMTPReply, readIMAPTagged), for any limits.   *)
(***************************************************************************)
THEOREM UnreachableIsFault == Spec => []UnreachableMeansFault
<1>1. DialogInv => UnreachableMeansFault
  BY DEF DialogInv, OutcomeJustified
<1> QED
  BY <1>1, DialogAlways, PTL
=============================================================================
