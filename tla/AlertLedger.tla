---------------------------- MODULE AlertLedger ----------------------------
(***************************************************************************)
(* What the alert manager promises of its tables: the reading on record    *)
(* for a target and what its notifiers were last told change as one (the   *)
(* comment of Store.Enqueue in internal/store/store.go, "either everything *)
(* commits or nothing does").  No memory, no handlers, no crashes.         *)
(***************************************************************************)
EXTENDS AlertPolicy

CONSTANTS
    Targets,
    Notifiers,
    Audience,      \* target -> the notifiers it can always reach
    MinSeverity    \* notifier -> min_severity

VARIABLES
    recorded,   \* target -> the reading on record
    told        \* target -> notifier -> the view last enqueued for it

vars == << recorded, told >>

Sees(c, r) == clampView(r, MinSeverity[c])

Init ==
    /\ recorded = [t \in Targets |-> Healthy]
    /\ told = [t \in Targets |-> [c \in Notifiers |-> Healthy]]

\* A problem is recorded together with a notice to all who see it, at least.
Announce(t) ==
    \E r \in Readings, fired \in SUBSET Notifiers :
        /\ \A c \in Audience[t] : Bad(Sees(c, r)) => c \in fired
        /\ recorded' = [recorded EXCEPT ![t] = r]
        /\ told' = [told EXCEPT ![t] =
                      [c \in Notifiers |-> IF c \in fired THEN Sees(c, r) ELSE @[c]]]

\* A reading that looks healthy to everybody may be recorded silently.
RecordSilently(t) ==
    \E r \in Readings :
        /\ \A c \in Audience[t] : ~Bad(Sees(c, r))
        /\ recorded' = [recorded EXCEPT ![t] = r]
        /\ UNCHANGED told

\* Targets that left the configuration.
Forget ==
    \E gone \in SUBSET Targets :
        /\ recorded' = [t \in Targets |-> IF t \in gone THEN Healthy ELSE recorded[t]]
        /\ UNCHANGED told

Next == Forget \/ \E t \in Targets : Announce(t) \/ RecordSilently(t)

Spec == Init /\ [][Next]_vars
=============================================================================
