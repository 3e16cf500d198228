-------------------------------- MODULE AdHoc --------------------------------
(***************************************************************************)
(* The ad hoc check handler (internal/adhoc/adhoc.go): the loop of Run     *)
(* that registers the probe, asks for the stream of requests and reads it, *)
(* a goroutine for each request that probes once and publishes the result, *)
(* and the tenant manager that receives the tenants that come along.       *)
(***************************************************************************)
EXTENDS Integers, Sequences

CONSTANTS
  Requests,
  Refused,          \* requests the runner factory returns an error for
  WithTenant,       \* requests that carry a tenant
  MaxBackoff,       \* bound: the backoff's attempts that are told apart
  AdHocMaxFaults    \* bound: failures of the API and of the connection

ASSUME AdHocAssumption ==
  /\ Refused \subseteq Requests /\ WithTenant \subseteq Requests
  /\ MaxBackoff \in Nat \ {0} /\ AdHocMaxFaults \in Nat

VARIABLES
  handling,      \* where Run is
  handlerEnd,    \* what Run returned
  attempts,      \* of the backoff
  stopping,      \* the agent's context is done
  receiving,     \* the tenant manager receives from tenantCh
  requests,      \* the messages of the stream, sent and not received
  streamEnd,     \* how the stream ended
  progress,      \* of each request
  adhocFaults

adhocVars == <<handling, handlerEnd, attempts, stopping, receiving, requests,
               streamEnd, progress, adhocFaults>>

\* What a call of the API may fail with: a gRPC code, or the message
\* "transport is closing", or an error that is not a status.
Failures == {"unknown", "Canceled", "transport is closing", "Unavailable",
             "PermissionDenied", "Unimplemented", "Internal"}

AdHocInit ==
  /\ handling = "register" /\ handlerEnd = "running" /\ attempts = 0
  /\ stopping = FALSE /\ receiving = TRUE /\ requests = <<>> /\ streamEnd = "open"
  /\ progress = [r \in Requests |-> "new"] /\ adhocFaults = 0

StreamOpen == handling \in {"recv", "tenant"} /\ streamEnd = "open"

AdHocFault == adhocFaults < AdHocMaxFaults /\ adhocFaults' = adhocFaults + 1

------------------------------------------------------------------------------
(* Run: what it does with the error of loop                                *)

grpcErrorHandler(failure) ==
  CASE failure = "Canceled"             -> "canceled"
    [] failure = "transport is closing" -> "closing"
    [] failure = "Unavailable"          -> "idle"
    [] failure \in {"PermissionDenied", "Unimplemented"} -> "fatal"
    [] OTHER                            -> "other"

\* nil and a cancellation end Run, and so does a refusal, which also ends the
\* agent: it is the errgroup's error. Otherwise it goes on, at once when the
\* other end went away, else after the backoff.
AfterLoop(err) ==
  /\ handling' = CASE err = "closing" -> "register"
                   [] err \in {"idle", "other"} -> "backoff"
                   [] OTHER -> "done"
  /\ handlerEnd' = CASE err \in {"nil", "canceled"} -> "nil"
                     [] err = "fatal" -> "fatal"
                     [] OTHER -> handlerEnd
  /\ attempts' = CASE err = "closing" -> 0
                   [] err = "idle" -> 1
                   [] err = "other" -> IF attempts < MaxBackoff THEN attempts + 1 ELSE attempts
                   [] OTHER -> attempts
  /\ stopping' = (stopping \/ err = "fatal")

Mut_BackoffEnds ==
  /\ handling = "backoff" /\ stopping
  /\ handling' = "done" /\ handlerEnd' = "canceled"
  /\ UNCHANGED <<attempts, stopping, receiving, requests, streamEnd, progress, adhocFaults>>

\* sleepCtx: its timer, or the context.
BackoffEnds ==
  /\ handling = "backoff"
  /\ \/ handling' = "register" /\ UNCHANGED handlerEnd
     \/ stopping /\ handling' = "done" /\ handlerEnd' = "canceled"
  /\ UNCHANGED <<attempts, stopping, receiving, requests, streamEnd, progress, adhocFaults>>

------------------------------------------------------------------------------
(* loop                                                                    *)

NoCallChange == UNCHANGED <<receiving, requests, streamEnd, progress>>

\* RegisterProbe answers with status OK.
RegisterAdHoc ==
  /\ handling = "register" /\ ~stopping
  /\ handling' = "request"
  /\ UNCHANGED <<handlerEnd, attempts, stopping, adhocFaults>> /\ NoCallChange

\* It fails, or answers with another status; after a shutdown, it is canceled.
RegisterAdHocFails ==
  /\ handling = "register"
  /\ \/ stopping /\ AfterLoop(grpcErrorHandler("Canceled")) /\ UNCHANGED adhocFaults
     \/ /\ AdHocFault
        /\ \E e \in {grpcErrorHandler(f) : f \in Failures} \cup {"fatal", "other"} :
             AfterLoop(e)
  /\ NoCallChange

\* GetAdHocChecks opens a stream.
RequestAdHoc ==
  /\ handling = "request" /\ ~stopping
  /\ handling' = "recv" /\ requests' = <<>> /\ streamEnd' = "open"
  /\ UNCHANGED <<handlerEnd, attempts, stopping, receiving, progress, adhocFaults>>

RequestAdHocFails ==
  /\ handling = "request"
  /\ \/ stopping /\ AfterLoop(grpcErrorHandler("Canceled")) /\ UNCHANGED adhocFaults
     \/ AdHocFault /\ \E f \in Failures : AfterLoop(grpcErrorHandler(f))
  /\ NoCallChange

------------------------------------------------------------------------------
(* processAdHocChecks                                                      *)

\* The select sees the context done, through the stream's or its own.
ContextSeen ==
  /\ handling = "recv" /\ stopping
  /\ \E err \in {"nil", "canceled"} : AfterLoop(err)
  /\ UNCHANGED adhocFaults /\ NoCallChange

\* handleAdHocCheck: the runner is created and started, unless the factory
\* refuses; then the tenant is sent, which waits for the manager. The context
\* may be done since the select looked at it.
ReceiveRequest ==
  /\ handling = "recv" /\ requests # <<>>
  /\ LET r == Head(requests) IN
     /\ progress' = [progress EXCEPT ![r] = IF r \in Refused THEN "refused" ELSE "probing"]
     /\ handling' = IF r \in WithTenant \ Refused THEN "tenant" ELSE "recv"
  /\ requests' = Tail(requests)
  /\ UNCHANGED <<handlerEnd, attempts, stopping, receiving, streamEnd, adhocFaults>>

TenantSent ==
  /\ handling = "tenant" /\ receiving
  /\ handling' = "recv"
  /\ UNCHANGED <<handlerEnd, attempts, stopping, receiving, requests, streamEnd,
                 progress, adhocFaults>>

\* Recv fails once the messages are read. Its error is returned as it is, and
\* no status error is one of those Run looks for: "other". So is that of a
\* shutdown.
ReceiveFails ==
  /\ handling = "recv"
  /\ \/ requests = <<>> /\ streamEnd = "EOF" /\ AfterLoop("nil")
     \/ requests = <<>> /\ streamEnd \in Failures /\ AfterLoop("other")
     \/ stopping /\ AfterLoop("other")
  /\ UNCHANGED adhocFaults /\ NoCallChange

------------------------------------------------------------------------------
(* The runners, and the rest of the agent                                  *)

\* Mutant: the runner is bound to the stream.
Mut_RunnerPublishes(r) ==
  /\ progress[r] = "probing" /\ StreamOpen
  /\ progress' = [progress EXCEPT ![r] = "published"]
  /\ UNCHANGED <<handling, handlerEnd, attempts, stopping, receiving, requests,
                 streamEnd, adhocFaults>>

\* runner.Run: the probe ends, by itself or with its context, and the result
\* is published.
RunnerPublishes(r) ==
  /\ progress[r] = "probing"
  /\ progress' = [progress EXCEPT ![r] = "published"]
  /\ UNCHANGED <<handling, handlerEnd, attempts, stopping, receiving, requests,
                 streamEnd, adhocFaults>>

\* The agent exits when the members of its errgroup have returned, Run among
\* them, and the runners are not.
AgentExits ==
  /\ stopping /\ handling = "done" /\ \E r \in Requests : progress[r] = "probing"
  /\ progress' = [r \in Requests |-> IF progress[r] = "probing" THEN "abandoned" ELSE progress[r]]
  /\ UNCHANGED <<handling, handlerEnd, attempts, stopping, receiving, requests,
                 streamEnd, adhocFaults>>

StopAdHoc ==
  /\ ~stopping /\ stopping' = TRUE
  /\ UNCHANGED <<handling, handlerEnd, attempts, receiving, requests, streamEnd,
                 progress, adhocFaults>>

\* The tenant manager's run returns when the context is done.
ManagerStops ==
  /\ stopping /\ receiving /\ receiving' = FALSE
  /\ UNCHANGED <<handling, handlerEnd, attempts, stopping, requests, streamEnd,
                 progress, adhocFaults>>

------------------------------------------------------------------------------
(* The API                                                                 *)

SendRequest(r) ==
  /\ StreamOpen /\ progress[r] = "new"
  /\ progress' = [progress EXCEPT ![r] = "sent"]
  /\ requests' = Append(requests, r)
  /\ UNCHANGED <<handling, handlerEnd, attempts, stopping, receiving, streamEnd, adhocFaults>>

\* The stream ends, by the server or with the connection: then what was not
\* received is lost.
EndStream ==
  /\ StreamOpen /\ AdHocFault
  /\ \/ /\ streamEnd' \in {"EOF"} \cup Failures
        /\ UNCHANGED <<requests, progress>>
     \/ /\ streamEnd' = "Unavailable" /\ requests' = <<>>
        /\ progress' = [r \in Requests |-> IF progress[r] = "sent" THEN "lost" ELSE progress[r]]
  /\ UNCHANGED <<handling, handlerEnd, attempts, stopping, receiving>>

HandlerSteps ==
  \/ BackoffEnds \/ RegisterAdHoc \/ RegisterAdHocFails \/ RequestAdHoc
  \/ RequestAdHocFails \/ ContextSeen \/ ReceiveRequest \/ TenantSent \/ ReceiveFails

AdHocNext ==
  \/ HandlerSteps \/ StopAdHoc \/ ManagerStops \/ AgentExits \/ EndStream
  \/ \E r \in Requests : RunnerPublishes(r) \/ SendRequest(r)

\* The goroutines run for as long as the agent does, the API's calls return,
\* probes end by their timeout and timers fire.
AdHocFairness ==
  /\ WF_adhocVars(HandlerSteps)
  /\ \A r \in Requests : WF_adhocVars(RunnerPublishes(r))

------------------------------------------------------------------------------
(* Properties                                                              *)

\* The send on tenantCh does not look at the context: when the manager has
\* returned, the handler stays there.
StuckOnTenant == handling = "tenant" /\ ~receiving

\* A request that reached the agent is received, though requests wait for the
\* tenants of those before them and streams end, unless Run has ended or is
\* stuck; and the result of every probe that was started is published, though
\* the stream it came from or Run itself has ended, unless the agent exits first.
AdHocAnswered ==
  \A r \in Requests :
    /\ progress[r] = "sent" ~>
         (progress[r] # "sent" \/ handlerEnd # "running" \/ StuckOnTenant)
    /\ progress[r] = "probing" ~> progress[r] \in {"published", "abandoned"}

\* Run comes back to an open stream whatever the API does, for as long as it has
\* not ended; and it ends, or is stuck, after a shutdown.
AdHocReconnects ==
  /\ []<>(StreamOpen \/ handlerEnd # "running" \/ StuckOnTenant)
  /\ stopping ~> (handlerEnd # "running" \/ StuckOnTenant)
==============================================================================
