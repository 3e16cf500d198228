---------------------------- MODULE MCPushErrors ----------------------------
(***************************************************************************)
(* The classification of PushErrors checked over every outcome: one push   *)
(* after another, each meeting any outcome.                                *)
(***************************************************************************)
EXTENDS PushErrors

VARIABLE o    \* the outcome of the last push

MCCodes == {100, 101, 200, 204, 299, 301, 304} \cup 400..431 \cup {451, 499}
           \cup 500..511 \cup {599, 600}

Init == o \in Outcomes
Next == o' \in Outcomes
Spec == Init /\ [][Next]_o

\* The outcomes the code takes for something else than its documentation, its
\* tests or its comments do: publisher.md:153 calls 422 retriable, the test at
\* errors_test.go:64 expects an issue with the instance to refresh the tenant,
\* the comment at errors.go:160-162 a cancelled request to end the push, and
\* the one at prom.go:399-400 calls an unparsable URL not recoverable.
Disputed == {Answer(422, t) : t \in Texts}
            \cup {Answer(500, "issue with this instance"), Failure("context.Canceled"), BadURL}

\* Where code, documentation and tests agree, the batch is kept for another
\* attempt exactly when no answer came, or the remote said 1xx, 408 or 5xx
\* (StoreStream, parsePublishError). A transient failure never costs the data,
\* and a permanent refusal never blocks what is queued behind it.
RetriedIffTransient ==
  o \notin Disputed =>
    (IsRetriable(PushKind(o)) <=>
       (o.type = "http" => o.code \div 100 \in {1, 5} \/ o.code = 408))

\* The test "500 from grafana instance" (errors_test.go:64) expects the tenant
\* to be refreshed when the remote reports an issue with the instance.
InstanceIssueRefreshesTenant ==
  o = Answer(500, "issue with this instance") => PushKind(o) = "Tenant"
=============================================================================
