------------------------------ MODULE StartTLS ------------------------------
(***************************************************************************)
(* The plaintext dialog before a TLS handshake (internal/probe/starttls.go)*)
(* and the status that checkOnce (internal/probe/probe.go) makes of it.    *)
(*                                                                         *)
(* The server is the environment: at every read it may send part of a      *)
(* line, a line its reply goes on after, or the end of its reply; it may   *)
(* also fall silent or hang up.  A reply is the wanted one, another one,   *)
(* or garbled: too short to hold a code, or no letter of the protocol.     *)
(***************************************************************************)
EXTENDS Naturals, Sequences

CONSTANTS
    MaxLines,   \* maxContinuationLines
    MaxBytes    \* maxSTARTTLSBytes, in parts or lines

ASSUME StartTLSAssumption == {MaxLines, MaxBytes} \subseteq Nat \ {0}

VARIABLES
    proto,
    stage,     \* which reply of the dialog is awaited, from the greeting on
    lines,     \* lines of it that were read
    mentioned, \* one of them mentions STARTTLS
    left,      \* what may still be read
    outcome,   \* "tls", "unavailable", "unreachable"; "none" while it goes on
    said,      \* history: what the prober took for the server's replies
    cut        \* history: a read or write failed, or the deadline passed

vars == << proto, stage, lines, mentioned, left, outcome, said, cut >>

Protocols == {"smtp", "imap", "pop3", "ftp", "postgres"}
Answers == {"good", "bad", "garbled"}

(***************************************************************************)
(* For each reply of the dialog, what it means if it is not the wanted     *)
(* one: no TLS, or something else than this protocol.  smtp: the greeting, *)
(* EHLO, STARTTLS; postgres: SSLRequest; the others: the greeting and      *)
(* STARTTLS, STLS or AUTH TLS.                                             *)
(***************************************************************************)
Dialog == [p \in Protocols |->
    CASE p = "smtp"     -> << "unreachable", "unreachable", "unavailable" >>
      [] p = "postgres" -> << "unavailable" >>
      [] OTHER          -> << "unreachable", "unavailable" >>]

Final == stage = Len(Dialog[proto])

\* Replies that may take several lines: "250-" ones, and untagged ones of imap.
Spans == proto \in {"smtp", "ftp"} \/ (proto = "imap" /\ stage = 2)

\* pop3 looks at the prefix alone.
Declined(answer) ==
    IF answer = "garbled" /\ proto # "pop3" THEN "unreachable"
                                            ELSE Dialog[proto][stage]

Init ==
    /\ proto \in Protocols
    /\ stage = 1 /\ lines = 0 /\ mentioned = FALSE
    /\ left = MaxBytes
    /\ outcome = "none"
    /\ said = << >> /\ cut = FALSE

\* A line may be read: the reply has room for one, and so has the budget.
MayRead == outcome = "none" /\ lines < MaxLines /\ left > 0

-----------------------------------------------------------------------------
\* Bytes without a newline.
Part ==
    /\ MayRead /\ proto # "postgres"
    /\ left' = left - 1
    /\ UNCHANGED << proto, stage, lines, mentioned, outcome, said, cut >>

\* A line the reply goes on after.
Continues ==
    /\ MayRead /\ Spans
    /\ lines' = lines + 1
    /\ left' = left - 1
    /\ mentioned' \in {mentioned, TRUE}
    /\ UNCHANGED << proto, stage, outcome, said, cut >>

\* The outcome of a complete reply.
\* Mutant: the reply to the last command is not looked at.
JudgedUnseen(answer, mentions) ==
    IF Final THEN "tls"
    ELSE IF answer # "good" THEN Declined(answer)
    ELSE IF proto = "smtp" /\ stage = 2 /\ ~mentions THEN "unavailable"
    ELSE "none"

Judged(answer, mentions) ==
    IF answer # "good" THEN Declined(answer)
    ELSE IF proto = "smtp" /\ stage = 2 /\ ~mentions THEN "unavailable"
    ELSE IF Final THEN "tls"
    ELSE "none"

\* The last line of a reply; imap waits for a tagged one.
Reply(answer) ==
    /\ MayRead
    /\ ~(answer = "garbled" /\ proto = "imap" /\ stage = 2)
    /\ \E mentions \in {mentioned, TRUE} :
         /\ outcome' = Judged(answer, mentions)
         /\ said' = Append(said, [answer |-> answer, mentions |-> mentions,
                                  whole |-> TRUE])
    /\ stage' = IF outcome' = "none" THEN stage + 1 ELSE stage
    /\ lines' = 0
    /\ mentioned' = FALSE
    /\ left' = left - 1
    /\ UNCHANGED << proto, cut >>

(***************************************************************************)
(* Between the first and the last line of an ftp reply there may be lines  *)
(* of any text.  Read by the rule of smtp, the first one without a dash in *)
(* the fourth place is taken for the end of the reply.                     *)
(***************************************************************************)
TakenForReply(answer) ==
    /\ MayRead /\ proto = "ftp" /\ lines > 0
    /\ answer # "good"
    /\ outcome' = Judged(answer, FALSE)
    /\ said' = Append(said, [answer |-> answer, mentions |-> FALSE, whole |-> FALSE])
    /\ lines' = 0
    /\ mentioned' = FALSE
    /\ left' = left - 1
    /\ UNCHANGED << proto, stage, cut >>

\* Mutant: one line too few.
TooLongEarly ==
    /\ outcome = "none" /\ lines >= MaxLines - 1
    /\ outcome' = "unreachable"
    /\ UNCHANGED << proto, stage, lines, mentioned, left, said, cut >>

TooLong ==
    /\ outcome = "none" /\ lines >= MaxLines
    /\ outcome' = "unreachable"
    /\ UNCHANGED << proto, stage, lines, mentioned, left, said, cut >>

\* Mutant: a server that streams on counts as one without TLS.
OversizedUnavailable ==
    /\ outcome = "none" /\ left = 0
    /\ outcome' = "unavailable"
    /\ UNCHANGED << proto, stage, lines, mentioned, left, said, cut >>

\* Mutant: the budget is looked at between two lines of a reply only.
OversizedBetweenLines ==
    /\ outcome = "none" /\ left = 0 /\ lines > 0
    /\ outcome' = "unreachable"
    /\ UNCHANGED << proto, stage, lines, mentioned, left, said, cut >>

\* The budget is spent and no newline came.
Oversized ==
    /\ outcome = "none" /\ left = 0
    /\ outcome' = "unreachable"
    /\ UNCHANGED << proto, stage, lines, mentioned, left, said, cut >>

\* A read or a write fails: a reset, an end of file, the deadline.
Fails ==
    /\ outcome = "none"
    /\ outcome' = "unreachable"
    /\ cut' = TRUE
    /\ UNCHANGED << proto, stage, lines, mentioned, left, said >>

Talks ==
    \/ Part
    \/ Continues
    \/ \E answer \in Answers : Reply(answer) \/ TakenForReply(answer)

Next == Talks \/ TooLong \/ Oversized \/ Fails

Spec == Init /\ [][Next]_vars

(***************************************************************************)
(* Fairness.  The prober takes what is sent.  The server never falls       *)
(* silent, so the deadline of checkOnce is not what ends the dialog.       *)
(***************************************************************************)
FairSpec == Spec /\ WF_vars(Talks) /\ WF_vars(TooLong \/ Oversized)

-----------------------------------------------------------------------------
(***************************************************************************)
(* Properties.                                                             *)
(***************************************************************************)
Good(i) == said[i].answer = "good"

(***************************************************************************)
(* The handshake starts only on a connection whose server agreed to every  *)
(* command of the dialog and, for smtp, had advertised STARTTLS.           *)
(***************************************************************************)
TLSMeansAgreed ==
    outcome = "tls" =>
        /\ Len(said) = Len(Dialog[proto])
        /\ \A i \in DOMAIN said : Good(i)
        /\ (proto = "smtp") => said[2].mentions

(***************************************************************************)
(* tls_unavailable means that the server spoke the protocol, answered in   *)
(* full and does not do TLS: never that it hung up, fell silent or flooded *)
(* (the comments on errTLSUnsupported and errOversized).  Except of an ftp *)
(* server, whose answer may have been judged by a line in its middle.      *)
(***************************************************************************)
UnavailableMeansDeclined ==
    outcome = "unavailable" =>
        LET n == Len(said)
        IN  /\ n > 0 /\ \A i \in 1 .. n - 1 : Good(i)
            /\ said[n].whole \/ proto = "ftp"
            /\ \/ n = Len(Dialog[proto]) /\ ~Good(n)
               \/ n = 2 /\ Good(n) /\ proto = "smtp" /\ ~said[2].mentions

(***************************************************************************)
(* A server that answers well is not called unreachable for its length: a  *)
(* reply of exactly maxContinuationLines is read to its end.  Again, the   *)
(* answer of an ftp server may be a line from the middle of a good one.    *)
(***************************************************************************)
UnreachableMeansFault ==
    outcome = "unreachable" =>
        \/ cut \/ left = 0 \/ lines = MaxLines
        \/ said # << >> /\ ~Good(Len(said)) /\ (said[Len(said)].whole \/ proto = "ftp")

(***************************************************************************)
(* A server that talks on and on, in lines or without a single newline,    *)
(* cannot keep the negotiation going, nor grow what it holds, until the    *)
(* deadline: the limits end it.                                            *)
(***************************************************************************)
DialogEnds == <>(outcome # "none")
=============================================================================
