------------------------------ MODULE Validation ------------------------------
(***************************************************************************)
(* The validation of checks and of ad hoc checks (pkg/pb/                  *)
(* synthetic_monitoring/checks_extra.go).  The agent applies Check.Validate*)
(* to every check it is sent; AdHocCheck.Validate is there for others to   *)
(* call, the agent does not.                                               *)
(*                                                                         *)
(* Frequencies and timeouts are in seconds. The texts, the labels and the  *)
(* settings of a check are told apart as valid or not: "marker" is the     *)
(* reserved value __internal__, "long" is one longer than a label value,   *)
(* "bad" is refused by the rules of the check's type.                      *)
(***************************************************************************)
EXTENDS Integers, Sequences, FiniteSets

CONSTANTS
  Frequencies, Timeouts,
  SettingsSets,     \* sets of types: the settings a check comes with
  MaxScriptedSeconds

ASSUME ValidationAssumption == MaxScriptedSeconds \in Nat \ {0}

VARIABLES
  candidate,        \* a check the API sent
  verdict           \* what Validate said of it; "panic" when it did not return

validationVars == <<candidate, verdict>>

CheckTypes == <<"dns", "http", "ping", "tcp", "traceroute", "scripted", "multihttp",
                "grpc", "browser">>
K6Types == {"scripted", "multihttp", "browser"}

\* The first of the types that has settings; without any, it panics.
Type(c) ==
  LET types == SelectSeq(CheckTypes, LAMBDA t : t \in c.settings)
  IN IF types = <<>> THEN "panic" ELSE Head(types)

Class(type) ==
  CASE type \in {"dns", "http", "ping", "tcp", "traceroute", "grpc"} -> "PROTOCOL"
    [] type \in {"scripted", "multihttp"} -> "SCRIPTED"
    [] type = "browser" -> "BROWSER"

validateFrequency(c) ==
  LET minFrequency == CASE Type(c) = "traceroute" -> 120
                        [] Type(c) \in K6Types -> 60
                        [] OTHER -> 1
  IN c.frequency \in minFrequency..3600

Mut_validateTimeout(type, timeout, frequency) ==
  LET range == CASE type = "traceroute" -> <<30, 30>>
                 [] type \in K6Types -> <<1, MaxScriptedSeconds>>
                 [] OTHER -> <<1, 60>>
  IN timeout \in range[1]..range[2]

validateTimeout(type, timeout, frequency) ==
  LET range == CASE type = "traceroute" -> <<30, 30>>
                 [] type \in K6Types -> <<1, MaxScriptedSeconds>>
                 [] OTHER -> <<1, 60>>
  IN timeout \in range[1]..range[2] /\ timeout <= frequency

\* Names are unique, and each label is valid.
validateLabels(c) ==
  /\ \A i, j \in 1..Len(c.labels) : i # j => c.labels[i] # c.labels[j]
  /\ \A i \in 1..Len(c.labels) : c.labels[i] # "bad"

\* Exactly one type has settings, and they are valid.
ValidateSettings(c) == Cardinality(c.settings) = 1 /\ c.settingsValid

\* A target of a k6 check is any text.
validateTarget(c) == c.target = "bad" => Type(c) \in K6Types

\* The rules in their order: the first that is broken gives the error. Those for
\* the frequency and the timeout ask for the type first.
ValidateCheck(c) ==
  CASE c.tenant = 0 -> "tenant"
    [] c.probes = 0 -> "probes"
    [] c.target \in {"empty", "marker"} -> "target"
    [] c.job \in {"empty", "marker"} -> "job"
    [] Type(c) = "panic" -> "panic"
    [] ~validateFrequency(c) -> "frequency"
    [] ~validateTimeout(Type(c), c.timeout, c.frequency) -> "timeout"
    [] ~validateLabels(c) -> "labels"
    [] ~ValidateSettings(c) -> "settings"
    [] c.target = "long" \/ ~validateTarget(c) -> "target value"
    [] OTHER -> "nil"

\* An ad hoc check has no frequency, job or labels, and its target may be long.
ValidateAdHoc(c) ==
  CASE c.tenant < 0 -> "tenant"
    [] c.probes = 0 -> "probes"
    [] c.target \in {"empty", "marker"} -> "target"
    [] Type(c) = "panic" -> "panic"
    [] ~validateTimeout(Type(c), c.timeout, c.timeout) -> "timeout"
    [] ~ValidateSettings(c) -> "settings"
    [] ~validateTarget(c) -> "target value"
    [] OTHER -> "nil"

------------------------------------------------------------------------------

Good == [kind |-> "check", tenant |-> 1, probes |-> 1, target |-> "good", job |-> "good",
         labels |-> <<"a", "b">>, settings |-> {"ping"}, settingsValid |-> TRUE,
         frequency |-> 60, timeout |-> 30]

ValidationInit == candidate = Good /\ verdict = "none"

\* Checks of every type, frequency and timeout, and those with one thing wrong.
Candidates ==
  {[Good EXCEPT !.kind = k, !.settings = s, !.frequency = f, !.timeout = t] :
     k \in {"check", "adhoc"}, s \in SettingsSets, f \in Frequencies, t \in Timeouts}
  \cup {[Good EXCEPT !.tenant = t, !.target = g, !.settings = s] :
          t \in {-1, 0}, g \in {"good", "long"}, s \in SettingsSets}
  \cup {[Good EXCEPT !.kind = k, !.settings = s, !.target = t, !.job = j] :
          k \in {"check", "adhoc"}, s \in SettingsSets,
          t \in {"empty", "marker", "long", "bad"}, j \in {"good", "empty", "marker"}}
  \cup {[Good EXCEPT !.labels = l, !.settingsValid = v, !.probes = p] :
          l \in {<<>>, <<"a", "a">>, <<"a", "bad">>}, v \in BOOLEAN, p \in {0, 1}}

Validate ==
  /\ verdict = "none"
  /\ \E c \in Candidates :
       /\ candidate' = c
       /\ verdict' = IF c.kind = "check" THEN ValidateCheck(c) ELSE ValidateAdHoc(c)

------------------------------------------------------------------------------
(* Properties                                                              *)

\* What the rest of the agent relies on, of a check that is valid: one type, so
\* that Type does not depend on its order; a timeout, without which no k6 runner
\* runs a script, that is over before the check is due again, and that the tenant
\* manager's tokens outlast; and a job and a target that are not the reserved
\* one. Validate returns for every check whose settings are of a known type.
ValidChecksRun ==
  /\ verdict = "nil" =>
       /\ candidate.settings = {Type(candidate)}
       /\ candidate.timeout > 0 /\ candidate.timeout <= MaxScriptedSeconds
       /\ candidate.kind = "check" => candidate.timeout <= candidate.frequency
       /\ Class(Type(candidate)) = "PROTOCOL" => candidate.timeout <= 60
       /\ "marker" \notin {candidate.target} \cup
            (IF candidate.kind = "check" THEN {candidate.job} ELSE {})
  /\ verdict = "panic" => candidate.settings = {}
==============================================================================
