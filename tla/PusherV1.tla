------------------------------- MODULE PusherV1 -------------------------------
(***************************************************************************)
(* The first publisher (internal/pusher/v1/pusher.go), for one tenant: a   *)
(* goroutine for each payload, and the client they share, made from the    *)
(* credentials the tenant manager gives. A payload has logs and metrics, or*)
(* one of them.                                                            *)
(***************************************************************************)
EXTENDS Integers, FiniteSets

CONSTANTS
  Payloads,
  PartsOf,          \* of each payload
  MaxRotations      \* bound: changes of the tenant's credentials

ASSUME PusherV1Assumption ==
  PartsOf \in [Payloads -> (SUBSET {"logs", "metrics"}) \ {{}}] /\ MaxRotations \in Nat

VARIABLES
  rightCreds,       \* the credentials the remote accepts
  givenCreds,       \* those the tenant manager gives, which may be older
  client,           \* the credentials of the cached client; 0: there is none
  publishing,       \* where each goroutine is
  retry, newClient, using, parts,
  accepted,         \* times the remote accepted a part
  pushCounter, failedCounter

v1Vars == <<rightCreds, givenCreds, client, publishing, retry, newClient, using, parts,
            accepted, pushCounter, failedCounter>>

NoParts == [p \in Payloads |-> [part \in {"logs", "metrics"} |-> 0]]

V1Init ==
  /\ rightCreds = 1 /\ givenCreds = 1 /\ client = 0
  /\ publishing = [p \in Payloads |-> "new"]
  /\ retry = [p \in Payloads |-> 2]
  /\ newClient = [p \in Payloads |-> FALSE]
  /\ using = [p \in Payloads |-> 0]
  /\ parts = PartsOf
  /\ accepted = NoParts /\ pushCounter = NoParts /\ failedCounter = NoParts

Goto(p, place) == publishing' = [publishing EXCEPT ![p] = place]

\* FailedCounter for the parts that are left.
CountFailed(p, left) ==
  failedCounter' = [failedCounter EXCEPT ![p] =
    [part \in DOMAIN @ |-> @[part] + (IF part \in left THEN 1 ELSE 0)]]

\* The end of an attempt, with what it leaves.
NextAttempt(p, left) ==
  IF left = {} \/ retry[p] = 1
  THEN Goto(p, "done") /\ CountFailed(p, left) /\ UNCHANGED retry
  ELSE Goto(p, "client") /\ retry' = [retry EXCEPT ![p] = @ - 1] /\ UNCHANGED failedCounter

------------------------------------------------------------------------------

PublishV1(p) ==
  /\ publishing[p] = "new" /\ Goto(p, "client")
  /\ UNCHANGED <<rightCreds, givenCreds, client, retry, newClient, using, parts,
                 accepted, pushCounter, failedCounter>>

\* getClient, while it has the mutex.
getClient(p) ==
  /\ publishing[p] = "client"
  /\ IF newClient[p] THEN client' = 0 /\ Goto(p, "tenant") /\ UNCHANGED using
     ELSE IF client # 0 THEN using' = [using EXCEPT ![p] = client] /\ Goto(p, "logs") /\ UNCHANGED client
     ELSE Goto(p, "tenant") /\ UNCHANGED <<client, using>>
  /\ UNCHANGED <<rightCreds, givenCreds, retry, newClient, parts, accepted,
                 pushCounter, failedCounter>>

\* The tenant manager answers, and updateClient makes the client, or either fails.
GetTenantV1(p) ==
  /\ publishing[p] = "tenant"
  /\ \/ /\ using' = [using EXCEPT ![p] = givenCreds]
        /\ Goto(p, "update") /\ UNCHANGED failedCounter
     \/ Goto(p, "done") /\ CountFailed(p, parts[p]) /\ UNCHANGED using
  /\ UNCHANGED <<rightCreds, givenCreds, client, retry, newClient, parts, accepted, pushCounter>>

\* The end of updateClient: it may store credentials older than those that
\* another goroutine has stored since.
updateClient(p) ==
  /\ publishing[p] = "update"
  /\ client' = using[p] /\ Goto(p, "logs")
  /\ UNCHANGED <<rightCreds, givenCreds, retry, newClient, using, parts, accepted,
                 pushCounter, failedCounter>>

Mut_Pushed(p, part, left) ==
  /\ pushCounter' = [pushCounter EXCEPT ![p][part] = @ + 1]
  /\ parts' = IF part = "metrics" THEN [parts EXCEPT ![p] = left] ELSE parts

Pushed(p, part, left) ==
  /\ pushCounter' = [pushCounter EXCEPT ![p][part] = @ + 1]
  /\ parts' = [parts EXCEPT ![p] = left]

\* pushEvents or pushMetrics, if the part is left: the remote accepts it, refuses
\* the credentials, which ends the attempt, or something else fails, perhaps
\* after the remote had accepted it: then the other part is tried all the same.
Push(p, part) ==
  /\ publishing[p] = part
  /\ \/ /\ part \notin parts[p]
        /\ UNCHANGED <<newClient, parts, accepted, pushCounter>>
        /\ IF part = "logs" THEN Goto(p, "metrics") /\ UNCHANGED <<retry, failedCounter>>
           ELSE NextAttempt(p, parts[p])
     \/ /\ part \in parts[p] /\ using[p] = rightCreds
        /\ Pushed(p, part, parts[p] \ {part})
        /\ accepted' = [accepted EXCEPT ![p][part] = @ + 1]
        /\ UNCHANGED newClient
        /\ IF part = "logs" THEN Goto(p, "metrics") /\ UNCHANGED <<retry, failedCounter>>
           ELSE NextAttempt(p, parts[p] \ {part})
     \/ /\ part \in parts[p] /\ using[p] # rightCreds
        /\ newClient' = [newClient EXCEPT ![p] = TRUE]
        /\ NextAttempt(p, parts[p])
        /\ UNCHANGED <<parts, accepted, pushCounter>>
     \/ /\ part \in parts[p]
        /\ \/ UNCHANGED accepted
           \/ using[p] = rightCreds /\ accepted' = [accepted EXCEPT ![p][part] = @ + 1]
        /\ UNCHANGED <<newClient, parts, pushCounter>>
        /\ IF part = "logs" THEN Goto(p, "metrics") /\ UNCHANGED <<retry, failedCounter>>
           ELSE NextAttempt(p, parts[p])
  /\ UNCHANGED <<rightCreds, givenCreds, client, using>>

RotateCredentials ==
  /\ rightCreds <= MaxRotations /\ rightCreds' = rightCreds + 1
  /\ UNCHANGED <<givenCreds, client, publishing, retry, newClient, using, parts, accepted,
                 pushCounter, failedCounter>>

\* The tenant manager fetches the tenant again, or is sent it.
ManagerRefreshes ==
  /\ givenCreds # rightCreds /\ givenCreds' = rightCreds
  /\ UNCHANGED <<rightCreds, client, publishing, retry, newClient, using, parts, accepted,
                 pushCounter, failedCounter>>

V1Next ==
  \/ RotateCredentials \/ ManagerRefreshes
  \/ \E p \in Payloads :
       \/ PublishV1(p) \/ getClient(p) \/ GetTenantV1(p) \/ updateClient(p)
       \/ Push(p, "logs") \/ Push(p, "metrics")

------------------------------------------------------------------------------
(* Properties                                                              *)

\* Whatever fails, in whichever attempt, and though an attempt is cut short by
\* refused credentials, a part is counted exactly once when publish returns, as
\* pushed or as failed, and as pushed only if the remote accepted it.
V1Accounted ==
  \A p \in Payloads : \A part \in {"logs", "metrics"} :
    /\ pushCounter[p][part] <= accepted[p][part]
    /\ pushCounter[p][part] + failedCounter[p][part] <= 1
    /\ publishing[p] = "done" /\ part \in PartsOf[p] =>
         pushCounter[p][part] + failedCounter[p][part] = 1
==============================================================================
