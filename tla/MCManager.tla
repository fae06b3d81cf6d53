----------------------------- MODULE MCManager -----------------------------
(***************************************************************************)
(* Small instances of Manager.  Up to three notifiers, one per floor: an   *)
(* email that takes every alert, a chat from critical on, and a pager that *)
(* only takes emergencies.                                                 *)
(***************************************************************************)
EXTENDS Manager

CONSTANTS chat, pager, email

AllConfigured == {Targets}
\* Without the target the configuration lists others.
InAndOut      == {{}, Targets}

EveryNotifier == [t \in Targets |-> Notifiers]

Floors ==
    [c \in Notifiers |-> CASE c = pager -> "emergency"
                           [] c = chat  -> "critical"
                           [] c = email -> "warning"]

AllRecoveries == [c \in Notifiers |-> TRUE]
NotChat       == [c \in Notifiers |-> c # chat]

Streak1 == [t \in Targets |-> 1]
Streak2 == [t \in Targets |-> 2]
Streak3 == [t \in Targets |-> 3]

\* Tightens with severity; "never" is MaxDuration.
NeverAtWarning ==
    [t \in Targets |-> [s \in Severities \ {"ok"} |->
        CASE s = "warning"   -> MaxDuration
          [] s = "critical"  -> 2
          [] s = "emergency" -> 1]]

Soon     == Reading("expiring_soon", "warning")
VerySoon == Reading("expiring_soon", "critical")
Expired  == Reading("expired", "emergency")
Down     == Reading("unreachable", "critical")
NoTLS    == Reading("tls_unavailable", "critical")

Ladder     == {Healthy, Soon, VerySoon, Expired, Down, NoTLS}
UpDown     == {Healthy, Expired, Down}
AllClasses == {Healthy, Soon, Expired, Down, NoTLS}

NoFaults     == {}
EnqueueFault == {"enqueue"}
StateFaults  == {"enqueue", "alert_state"}
NotDecisive  == FaultKinds \ {"enqueue", "probe_log"}
=============================================================================
