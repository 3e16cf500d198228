----------------------------- MODULE PushErrors -----------------------------
(***************************************************************************)
(* How the v2 publisher classifies the outcome of one remote write:        *)
(* prom.Client.StoreStream turns the outcome into a Go error, and          *)
(* parsePublishError turns that error into one of eight kinds              *)
(* (internal/pusher/v2/errors.go, internal/pkg/prom/prom.go).              *)
(*                                                                         *)
(* A Go error is the sequence of its layers, outermost first; <<>> is nil. *)
(* Only layers whose type has an Unwrap method let errors.Is and           *)
(* errors.Unwrap reach what is below them.                                 *)
(***************************************************************************)
EXTENDS Naturals, Sequences, TLC

CONSTANT Codes    \* the HTTP status codes a remote may answer with

ASSUME CodesAssumption == Codes \subseteq Nat

Kinds == {"NoError", "Network", "Payload", "Wait",
          "Tenant", "Fatal", "Terminated", "Limit"}

\* What the first line of a response body says, as far as the table looks.
Texts == {"other", "issue with this instance", "max-series-per-user",
          "limit: 0", "Maximum active stream"}

\* Why client.Do may fail without an HTTP response.
Causes == {"context.Canceled", "context.DeadlineExceeded", "connection"}

Answer(c, t) == [type |-> "http", code |-> c, text |-> t]
Failure(c)   == [type |-> "io", cause |-> c]
BadURL       == [type |-> "url"]

\* Everything one call of StoreStream may meet.
Outcomes == {Answer(c, t) : c \in Codes, t \in Texts}
            \cup {Failure(c) : c \in Causes} \cup {BadURL}

-----------------------------------------------------------------------------
(* The errors of internal/pkg/prom.                                        *)

Layer(name)       == [layer |-> name]
HttpError(c, t)   == [layer |-> "HttpError", code |-> c, text |-> t]
recoverableError  == Layer("recoverableError")

\* Client.StoreStream: the error it returns for an outcome.
StoreStream(o) ==
  CASE o.type = "url" -> <<Layer("url.Error")>>
    [] o.type = "io"  -> <<recoverableError, Layer("url.Error"), Layer(o.cause)>>
    [] o.type = "http" /\ o.code \div 100 = 2 -> <<>>
    [] o.type = "http" /\ o.code \div 100 = 5 ->
         <<recoverableError, HttpError(o.code, o.text), Layer("fundamental")>>
    [] OTHER -> <<HttpError(o.code, o.text), Layer("fundamental")>>

\* recoverableError embeds the error interface, which has no Unwrap.
UnwrapSeesThrough(l) == l # recoverableError

\* The layers errors.Is and GetHttpStatusCode can visit.
Chain(err) ==
  {err[i] : i \in {j \in DOMAIN err : \A k \in 1..(j-1) : UnwrapSeesThrough(err[k])}}

Is(err, name) == Layer(name) \in Chain(err)

\* The HttpError that GetHttpStatusCode finds, as a set of at most one layer.
GetHttpStatusCode(err) == {l \in Chain(err) : l.layer = "HttpError"}

-----------------------------------------------------------------------------
(* internal/pusher/v2/errors.go                                            *)

\* The entries of httpCodeMappings for one code, and for a class of codes.
codeKind == (401 :> "Tenant") @@ (408 :> "Network") @@ (429 :> "Wait")
            @@ [c \in {403, 404, 405} |-> "Fatal"]
classKind == <<"Network", "NoError", "Fatal", "Payload", "Network">>

\* Mutation of httpCodeMappings: the class of a code wins over the code.
Mut_httpCodeMappings(code) ==
  IF code \div 100 \in DOMAIN classKind THEN classKind[code \div 100]
  ELSE IF code \in DOMAIN codeKind THEN codeKind[code] ELSE "Fatal"

\* The kind for a status code, before the alternatives.
httpCodeMappings(code) ==
  IF code \in DOMAIN codeKind THEN codeKind[code]
  ELSE IF code \div 100 \in DOMAIN classKind THEN classKind[code \div 100] ELSE "Fatal"

\* alternatives: the code and text pairs that get another kind.
alternatives == { <<500, "issue with this instance", "Tenant">>,
                  <<400, "max-series-per-user", "Fatal">>,
                  <<429, "limit: 0", "Fatal">>,
                  <<429, "Maximum active stream", "Limit">> }

AlternativeKinds(code, text) ==
  {k \in Kinds : <<code, text, k>> \in alternatives}

parsePublishError(err) ==
  IF err = <<>> THEN "NoError"
  ELSE IF Is(err, "context.Canceled") THEN "Terminated"
  ELSE IF Is(err, "context.DeadlineExceeded") \/ GetHttpStatusCode(err) = {} THEN "Network"
  ELSE LET h   == CHOOSE l \in GetHttpStatusCode(err) : TRUE
           alt == AlternativeKinds(h.code, h.text)
       IN  IF alt # {} THEN CHOOSE k \in alt : TRUE ELSE httpCodeMappings(h.code)

IsRetriable(kind) == kind = "Network"

\* The kind queue.push sees for an outcome of its remote write.
PushKind(o) == parsePublishError(StoreStream(o))
=============================================================================
