------------------------------- MODULE K6Runner -------------------------------
(***************************************************************************)
(* Running a k6 script remotely (internal/k6runner/http.go): HttpRunner    *)
(* asks a remote runner and retries until its context ends.                *)
(***************************************************************************)
EXTENDS Integers, FiniteSetsExt

CONSTANTS
  Deadline,         \* of the context of Run, from its start
  CheckTimeout,
  GraceTime,
  Backoff

ASSUME K6Assumption ==
  /\ Deadline \in Nat \ {0} /\ CheckTimeout \in Nat \ {0}
  /\ GraceTime \in Nat /\ Backoff \in Nat \ {0}

VARIABLES
  k6Now,            \* since the start of Run
  k6Run,            \* where Run is
  attemptStart,     \* of the attempt
  backoffWait,      \* the backoff
  waitTimer,        \* when waitTimer fires
  k6Attempts,
  k6Requests,       \* the metric Requests
  lateAttempts      \* attempts that began after the deadline

k6Vars == <<k6Now, k6Run, attemptStart, backoffWait, waitTimer, k6Attempts,
            k6Requests, lateAttempts>>

K6Init ==
  /\ k6Now = 0 /\ k6Run = "request"
  /\ attemptStart = 0 /\ backoffWait = Backoff /\ waitTimer = 0
  /\ k6Attempts = 1 /\ k6Requests = 0 /\ lateAttempts = 0

\* The request's own deadline, or that of Run.
RequestEnd == Min({Deadline, attemptStart + CheckTimeout + GraceTime})

\* A readable answer (200, 408, 422, 500), or an error that is not retried: 400,
\* or an answer that cannot be decoded, which it also is when the context ends
\* while its body is read.
Answered ==
  /\ k6Run = "request" /\ attemptStart < RequestEnd
  /\ k6Run' \in IF k6Now < RequestEnd THEN {"response", "error"} ELSE {"error"}
  /\ k6Requests' = k6Requests + 1
  /\ UNCHANGED <<k6Now, attemptStart, backoffWait, waitTimer, k6Attempts, lateAttempts>>

Mut_Retryable ==
  /\ k6Run = "request"
  /\ k6Requests' = k6Requests + 1
  /\ waitTimer' = k6Now
  /\ k6Run' = "wait"
  /\ UNCHANGED <<k6Now, attemptStart, backoffWait, k6Attempts, lateAttempts>>

\* Another status, or the request fails, at any time and at its end by the
\* context. The time it took is part of the wait.
Retryable ==
  /\ k6Run = "request"
  /\ k6Requests' = k6Requests + 1
  /\ waitTimer' = k6Now + Max({0, backoffWait - (k6Now - attemptStart)})
  /\ k6Run' = "wait"
  /\ UNCHANGED <<k6Now, attemptStart, backoffWait, k6Attempts, lateAttempts>>

\* The select takes either branch when both are ready.
TimerFires ==
  /\ k6Run = "wait" /\ k6Now >= waitTimer
  /\ k6Run' = "request" /\ attemptStart' = k6Now /\ k6Attempts' = k6Attempts + 1
  /\ \E jitter \in 0..Backoff - 1 : backoffWait' = backoffWait + Backoff + jitter
  /\ lateAttempts' = lateAttempts + (IF k6Now >= Deadline THEN 1 ELSE 0)
  /\ UNCHANGED <<k6Now, waitTimer, k6Requests>>

RetriesExhausted ==
  /\ k6Run = "wait" /\ k6Now >= Deadline
  /\ k6Run' = "exhausted"
  /\ UNCHANGED <<k6Now, attemptStart, backoffWait, waitTimer, k6Attempts,
                 k6Requests, lateAttempts>>

\* Time passes, but not beyond what Run waits for.
K6Tick ==
  /\ \/ k6Run = "request" /\ k6Now < RequestEnd
     \/ k6Run = "wait" /\ k6Now < waitTimer /\ k6Now < Deadline
  /\ k6Now' = k6Now + 1
  /\ UNCHANGED <<k6Run, attemptStart, backoffWait, waitTimer, k6Attempts,
                 k6Requests, lateAttempts>>

K6Next == Answered \/ Retryable \/ TimerFires \/ RetriesExhausted \/ K6Tick

------------------------------------------------------------------------------
(* Properties                                                              *)

\* The loop has no count of attempts: only the context ends it, and the select
\* may take the timer when both are ready. Still at most one attempt begins after
\* the deadline, since the wait after it is not zero; and each attempt is counted
\* once when Run has returned.
RetriesEnd ==
  /\ lateAttempts <= 1
  /\ k6Run \in {"response", "error", "exhausted"} => k6Requests = k6Attempts
==============================================================================
