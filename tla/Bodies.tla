------------------------------- MODULE Bodies -------------------------------
(***************************************************************************)
(* The message of a notifier (internal/alert/template.go) and the secrets  *)
(* in it (expandEnv in internal/config/config.go).  A string is read       *)
(* twice: for ${env.X} when the file is loaded, for ${alert.X} when an     *)
(* alert is rendered.                                                      *)
(*                                                                         *)
(* A string is a sequence of parts: text, references ${ns.name | format}   *)
(* that may be escaped by another $, and, once rendered, field values.     *)
(* What two neighbouring parts would spell together is left out.           *)
(***************************************************************************)
EXTENDS Naturals, Sequences, SequencesExt

CONSTANT Env    \* the environment: variable -> the string it is set to

Part == [kind : {"text", "ref", "value"}, escaped : BOOLEAN,
         ns : {"", "env", "alert", "other"}, name : STRING, format : STRING]

Text(t) == [kind |-> "text", escaped |-> FALSE, ns |-> "", name |-> t, format |-> ""]
Ref(ns, name, format) ==
    [kind |-> "ref", escaped |-> FALSE, ns |-> ns, name |-> name, format |-> format]
Escaped(p) == [p EXCEPT !.escaped = TRUE]    \* spelled $${...}
Decoded(p) == [p EXCEPT !.escaped = FALSE]
Value(field, format) == [Ref("alert", field, format) EXCEPT !.kind = "value"]

IsRef(p, ns) == p.kind = "ref" /\ p.ns = ns

\* Some of the fields of an alert, of every type there is.
alertFields == {"Host", "DaysLeft", "Recovered", "Cert.SANs"} \cup
               {"CheckedAt", "Cert.NotAfter"}
alertTimeFields == {"CheckedAt", "Cert.NotAfter"}
nativeType == [f \in alertFields |->
    CASE f = "DaysLeft" -> "number" [] f = "Recovered" -> "bool"
      [] f = "Cert.SANs" -> "list" [] OTHER -> "string"]

\* presetLayouts; a format with a % in it is a strftime pattern.
presetLayouts == {"human", "date"}
Understood(format) == format \in {"", "%Y"} \cup presetLayouts

-----------------------------------------------------------------------------
(***************************************************************************)
(* At load: expandEnv on a string, expandEnvTree on a body.                *)
(***************************************************************************)
\* The variables that are not set make the load fail.
Missing(s) == {p \in {s[i] : i \in DOMAIN s} :
                 IsRef(p, "env") /\ ~p.escaped /\ p.name \notin DOMAIN Env}

expandPart(p) ==
    IF ~IsRef(p, "env") THEN << p >>
    ELSE IF p.escaped THEN << Decoded(p) >>
    ELSE Env[p.name]

expandEnv(s) == FlattenSeq([i \in DOMAIN s |-> expandPart(s[i])])

(***************************************************************************)
(* A body is a YAML map; its values are strings, maps of strings (deeper   *)
(* ones add nothing), or odd: what JSON cannot carry, such as .nan or a    *)
(* map whose keys are not strings.                                         *)
(***************************************************************************)
String(s) == [kind |-> "string", s |-> s, map |-> << >>]
Odd       == [kind |-> "odd", s |-> << >>, map |-> << >>]
Map(m)    == [kind |-> "map", s |-> << >>, map |-> m]

Structure(body) ==
    \A k \in DOMAIN body :
        \/ body[k] = String(body[k].s) /\ body[k].s \in Seq(Part)
        \/ body[k] = Odd
        \/ body[k] = Map(body[k].map)
           /\ \A l \in DOMAIN body[k].map : body[k].map[l] \in Seq(Part)

Strings(body) ==
    {body[k].s : k \in {j \in DOMAIN body : body[j].kind = "string"}}
      \cup UNION {{body[k].map[l] : l \in DOMAIN body[k].map} : k \in DOMAIN body}

\* Replaces every string of a body by its reading, leaving the body's shape.
OverStrings(reading, body) ==
    [k \in DOMAIN body |->
        CASE body[k].kind = "string" -> String(reading[body[k].s])
          [] body[k].kind = "map" -> Map([l \in DOMAIN body[k].map |-> reading[body[k].map[l]]])
          [] OTHER -> Odd]

expandEnvTree(body) == OverStrings([s \in Strings(body) |-> expandEnv(s)], body)

-----------------------------------------------------------------------------
(***************************************************************************)
(* At startup: ParseBody checks every reference and renders a sample.      *)
(***************************************************************************)
checkRef(p) ==
    p.kind = "ref" /\ ~p.escaped =>
        /\ p.ns \in {"alert", "env"}
        /\ p.ns = "alert" =>
             p.name \in alertFields /\ (p.format # "" => p.name \in alertTimeFields)

validateRefs(body) ==
    \A s \in Strings(body) : \A i \in DOMAIN s : checkRef(s[i])

\* Mutant: a map in the override replaces the map below it.
deepMergeShallow(base, over) ==
    [k \in DOMAIN base \cup DOMAIN over |->
        IF k \in DOMAIN over THEN over[k] ELSE base[k]]

deepMerge(base, over) ==
    [k \in DOMAIN base \cup DOMAIN over |->
        IF k \notin DOMAIN over THEN base[k]
        ELSE IF k \in DOMAIN base /\ base[k].kind = "map" /\ over[k].kind = "map"
        THEN Map([l \in DOMAIN base[k].map \cup DOMAIN over[k].map |->
                    IF l \in DOMAIN over[k].map THEN over[k].map[l] ELSE base[k].map[l]])
        ELSE over[k]]

(***************************************************************************)
(* A payload: a recovery or not, and the timestamps that are zero, such as *)
(* those of a certificate that was never received.                         *)
(***************************************************************************)
Payloads == [recovered : BOOLEAN, zero : SUBSET alertTimeFields]
samplePayload == [recovered |-> FALSE, zero |-> {}]

\* resolveString, resolveNative and formatTime: a zero time is empty before
\* its format is looked at.
Resolves(p, payload) ==
    /\ p.name \in alertFields
    /\ IF p.name \in alertTimeFields
       THEN p.name \in payload.zero \/ Understood(p.format)
       ELSE p.format = ""

\* substitute for the namespace alert: the result is not looked at again.
substitute(p) ==
    IF ~IsRef(p, "alert") THEN p
    ELSE IF p.escaped THEN Decoded(p)
    ELSE Value(p.name, p.format)

wholeAlertRef(s) == Len(s) = 1 /\ IsRef(s[1], "alert") /\ ~s[1].escaped

renderString(s) ==
    [type  |-> IF wholeAlertRef(s) THEN nativeType[s[1].name] ELSE "string",
     parts |-> [i \in DOMAIN s |-> substitute(s[i])]]

renderTree(body) == OverStrings([s \in Strings(body) |-> renderString(s)], body)

\* Render fails on a reference that does not resolve, or in json.Marshal.
Renders(body, payload) ==
    /\ \A k \in DOMAIN body : body[k].kind # "odd"
    /\ \A s \in Strings(body) : \A i \in DOMAIN s :
         IsRef(s[i], "alert") /\ ~s[i].escaped => Resolves(s[i], payload)

NoBody == << >>     \* also: no recovery_body override

\* The structure that Render takes.
source(b, payload) ==
    IF payload.recovered /\ b.recovery # NoBody THEN b.recovery ELSE b.fire

\* len(recoveryBody) > 0 decides whether there is an override.
Compiled(body, recoveryBody) ==
    [fire |-> body,
     recovery |-> IF recoveryBody = NoBody THEN NoBody ELSE deepMerge(body, recoveryBody)]

\* Mutant: only the body of a firing alert is rendered as a sample.
ParseBodyFiring(body, recoveryBody) ==
    /\ body # NoBody
    /\ validateRefs(body) /\ validateRefs(recoveryBody)
    /\ Renders(body, samplePayload)

ParseBody(body, recoveryBody) ==
    /\ body # NoBody
    /\ validateRefs(body) /\ validateRefs(recoveryBody)
    /\ \A recovered \in BOOLEAN :
         Renders(source(Compiled(body, recoveryBody), [samplePayload EXCEPT !.recovered = recovered]),
                 samplePayload)
=============================================================================
