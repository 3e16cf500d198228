----------------------------- MODULE PushQueue -----------------------------
(***************************************************************************)
(* One queue of the v2 publisher (internal/pusher/v2/queue.go): producers  *)
(* call insert, one goroutine runs push, and the two meet at q.data under  *)
(* dataMutex and at the one-slot condition channel q.pending.              *)
(*                                                                         *)
(* pc is where the push goroutine is:                                      *)
(*   "off"      push is not running (not started yet, or it returned)      *)
(*   "select"   in the select of ctx.Done and WaitC                        *)
(*   "get"      it received from WaitC and has not called get yet          *)
(*   "store"    in client.StoreStream with the batch records               *)
(*   "backoff"  sleeping in backoff.wait after a requeue                   *)
(* What a tenant pusher does when push returns is the module Publisher;    *)
(* here the environment may cancel the context and start push again.       *)
(***************************************************************************)
EXTENDS Integers, Sequences, FiniteSets, Functions, PushErrors

CONSTANTS MaxPushBytes,    \* options.maxPushBytes
          MaxQueuedBytes,  \* options.maxQueuedBytes, 0 disables the limit
          MaxQueuedTime,   \* options.maxQueuedTime, 0 disables the limit
          MaxRetries,      \* options.maxRetries
          Sizes,           \* the encoded sizes of records
          Answers,         \* the outcomes of StoreStream, see PushErrors
          MaxRecords,      \* bound: records ever inserted
          MaxTime,         \* bound: ticks of the clock
          MaxRuns          \* bound: calls of push

ASSUME OptionsAssumption ==
  /\ MaxPushBytes \in Nat /\ MaxQueuedBytes \in Nat /\ MaxQueuedTime \in Nat
  /\ MaxRetries \in Nat /\ Sizes \subseteq Nat
  /\ MaxRecords \in Nat /\ MaxTime \in Nat /\ MaxRuns \in Nat

VARIABLES data, pending,                         \* the queue
          pc, records, retrying, left, ctxDone,  \* the push goroutine
          now, inserted, runs,                   \* clock and bounded counters
          freed,     \* how often the buffer of each record went back to the pool
          sent,      \* how often each record was sent by this call of push
          metrics    \* the publisher's counters, for this queue

vars == <<data, pending, pc, records, retrying, left, ctxDone,
          now, inserted, runs, freed, sent, metrics>>

Entry == [id : 1..MaxRecords, size : Sizes, ts : 0..MaxTime]

Counters == {"push", "error", "retries", "failed", "dropped"}
Metrics == [Counters -> Nat]

Ids(s) == {s[i].id : i \in DOMAIN s}
Bytes(s) ==
  LET upTo[i \in 0..Len(s)] == IF i = 0 THEN 0 ELSE upTo[i - 1] + s[i].size
  IN  upTo[Len(s)]
Drop(s, k) == SubSeq(s, k + 1, Len(s))

QueueTypeOK == data \in Seq(Entry) /\ records \in Seq(Entry)

FlagTypeOK ==
  /\ pending \in BOOLEAN /\ retrying \in BOOLEAN /\ ctxDone \in BOOLEAN
  /\ pc \in {"off", "select", "get", "store", "backoff"}

CounterTypeOK ==
  /\ left \in 0..MaxRetries
  /\ now \in 0..MaxTime /\ inserted \in 0..MaxRecords /\ runs \in 0..MaxRuns
  /\ freed \in [1..MaxRecords -> Nat] /\ sent \in [1..MaxRecords -> Nat]
  /\ metrics \in Metrics

\* The types of the variables, and the range of the retry counter.
TypeOK == QueueTypeOK /\ FlagTypeOK /\ CounterTypeOK

-----------------------------------------------------------------------------
(* The limits. Each returns how many of the oldest records it removes.     *)

\* The newest i whose suffix is over the limit goes, with everything older.
limitBytes(s) ==
  LET over == {i \in DOMAIN s : Bytes(Drop(s, i - 1)) > MaxQueuedBytes} IN
  IF MaxQueuedBytes = 0 \/ over = {} THEN 0
  ELSE CHOOSE i \in over : \A j \in over : j <= i

Expired(e) == e.ts < now - MaxQueuedTime

\* sort.Search: an index where Expired turns false, counted from 0.
Search(s) ==
  CHOOSE idx \in 0..Len(s) : /\ idx > 0      => Expired(s[idx])
                             /\ idx < Len(s) => ~Expired(s[idx + 1])

limitAgeApplies(s) == s # <<>> /\ MaxQueuedTime > 0 /\ Expired(s[1])

\* How many records limitAge removes...
limitAge(s) == IF limitAgeApplies(s) /\ Search(s) < Len(s) THEN Search(s) ELSE 0

\* ... and how many it says it removed.
limitAgeReported(s) == IF limitAgeApplies(s) THEN Len(s) - Search(s) ELSE 0

\* f with one more for every record whose id is in S.
Bump(f, S) == [i \in DOMAIN f |-> f[i] + (IF i \in S THEN 1 ELSE 0)]

\* The metrics m with n more in the given counters.
Add(m, counters, n) == [c \in DOMAIN m |-> m[c] + (IF c \in counters THEN n ELSE 0)]

\* q.data := s, then applyLimits and Signal, in that order under dataMutex.
SetDataAndSignal(s, m) ==
  LET b  == limitBytes(s)
      s1 == Drop(s, b)
      a  == limitAge(s1)
  IN  /\ data' = Drop(s1, a)
      /\ freed' = Bump(freed, Ids(SubSeq(s, 1, b)) \cup Ids(SubSeq(s1, 1, a)))
      /\ metrics' = Add(m, {"dropped"}, b + limitAgeReported(s1))
      /\ pending' = TRUE

-----------------------------------------------------------------------------
Init ==
  /\ data = <<>> /\ pending = FALSE
  /\ pc = "off" /\ records = <<>> /\ retrying = FALSE /\ left = MaxRetries
  /\ ctxDone = FALSE
  /\ now = 0 /\ inserted = 0 /\ runs = 0
  /\ freed = [i \in 1..MaxRecords |-> 0] /\ sent = [i \in 1..MaxRecords |-> 0]
  /\ metrics = [c \in Counters |-> 0]

Tick == /\ now < MaxTime
        /\ now' = now + 1
        /\ UNCHANGED <<data, pending, pc, records, retrying, left, ctxDone,
                       inserted, runs, freed, sent, metrics>>

\* A producer: tenantPusher.publish calls insert with an encoded request.
insert(size) ==
  /\ inserted < MaxRecords
  /\ inserted' = inserted + 1
  /\ SetDataAndSignal(Append(data, [id |-> inserted + 1, size |-> size, ts |-> now]),
                      metrics)
  /\ UNCHANGED <<pc, records, retrying, left, ctxDone, now, runs, sent>>

\* Another member of the errgroup failed, or the agent is shutting down.
Cancel == /\ pc # "off" /\ ~ctxDone
          /\ ctxDone' = TRUE
          /\ UNCHANGED <<data, pending, pc, records, retrying, left,
                         now, inserted, runs, freed, sent, metrics>>

\* push is called and builds its client.
PushStart ==
  /\ pc = "off" /\ runs < MaxRuns
  /\ runs' = runs + 1
  /\ pc' = "select" /\ left' = MaxRetries /\ retrying' = FALSE /\ ctxDone' = FALSE
  /\ sent' = [i \in DOMAIN sent |-> 0]
  /\ UNCHANGED <<data, pending, records, now, inserted, freed, metrics>>

\* push is called and returns at once: ClientFromRemoteInfo fails, which is
\* not counted, or prom.NewClient does, which is.
PushStartFails ==
  /\ pc = "off" /\ runs < MaxRuns
  /\ runs' = runs + 1
  /\ \E n \in {0, 1} : metrics' = Add(metrics, {"failed"}, n)
  /\ UNCHANGED <<data, pending, pc, records, retrying, left, ctxDone,
                 now, inserted, freed, sent>>

\* The select chooses ctx.Done; so does the select inside backoff.wait.
PushReturnsCtxErr ==
  /\ pc \in {"select", "backoff"} /\ ctxDone
  /\ pc' = "off"
  /\ UNCHANGED <<data, pending, records, retrying, left, ctxDone,
                 now, inserted, runs, freed, sent, metrics>>

\* The select chooses WaitC.
WaitC == /\ pc = "select" /\ pending
         /\ pending' = FALSE /\ pc' = "get"
         /\ UNCHANGED <<data, records, retrying, left, ctxDone,
                        now, inserted, runs, freed, sent, metrics>>

\* How many records fit in one request: the first, and then while they fit.
BatchLen(s) ==
  CHOOSE n \in 1..Len(s) :
    /\ n > 1 => ~(Bytes(SubSeq(s, 1, n)) > MaxPushBytes)
    /\ n < Len(s) => Bytes(SubSeq(s, 1, n + 1)) > MaxPushBytes

\* Mutation of SignalRest: what stays in the queue is not signalled again.
Mut_SignalRest(n) == pending

\* q.pending after get has taken n records.
SignalRest(n) == pending \/ n < Len(data)

\* Mutation of RetriesLeft: every batch starts with a full retry budget.
Mut_RetriesLeft == MaxRetries

\* retries.reset, unless this is a retry.
RetriesLeft == IF retrying THEN left ELSE MaxRetries

\* get returns a batch and StoreStream is called with it.
get ==
  LET n == BatchLen(data) IN
  /\ pc = "get" /\ data # <<>>
  /\ records' = SubSeq(data, 1, n) /\ data' = Drop(data, n)
  /\ pending' = SignalRest(n)
  /\ sent' = Bump(sent, Ids(SubSeq(data, 1, n)))
  /\ left' = RetriesLeft
  /\ retrying' = FALSE /\ pc' = "store"
  /\ UNCHANGED <<ctxDone, now, inserted, runs, freed, metrics>>

\* get returns nothing: back to the select, with retrying as it was.
getEmpty ==
  /\ pc = "get" /\ data = <<>>
  /\ pc' = "select"
  /\ UNCHANGED <<data, pending, records, retrying, left, ctxDone,
                 now, inserted, runs, freed, sent, metrics>>

\* A request is only cancelled by the context it was given.
MayHappen(o) == o \in Answers /\ (o = Failure("context.Canceled") => ctxDone)

\* Mutation of requeue: the batch goes behind what arrived meanwhile.
Mut_requeue(m) == SetDataAndSignal(data \o records, m)

requeue(m) == SetDataAndSignal(records \o data, m)

\* retriesCounter.retry.
CanRetry == left > 0

\* StoreStream failed with a retriable error and there are retries left.
StoreRetried(o) ==
  /\ pc = "store" /\ MayHappen(o) /\ IsRetriable(PushKind(o)) /\ CanRetry
  /\ requeue(Add(metrics, {"error", "retries"}, Len(records)))
  /\ left' = left - 1 /\ retrying' = TRUE /\ records' = <<>> /\ pc' = "backoff"
  /\ UNCHANGED <<ctxDone, now, inserted, runs, sent>>

\* What push counts the records of a batch as when it is done with them.
ResultCounters(kind) ==
  CASE kind = "NoError"    -> {"push"}
    [] kind = "Network"    -> {"error", "failed"}
    [] kind = "Terminated" -> {}
    [] OTHER               -> {"error"}

\* The kinds that end push; its caller decides what to do about them.
EndsPush(kind) == kind \in {"Tenant", "Fatal", "Wait", "Terminated"}

\* Mutation of ReturnAll: the buffers of an undelivered batch are leaked.
Mut_ReturnAll(kind) == IF kind = "NoError" THEN Bump(freed, Ids(records)) ELSE freed

\* pool.returnAll: the batch is published or given up, its buffers are free.
ReturnAll(kind) == Bump(freed, Ids(records))

\* StoreStream returned and push is done with the batch, one way or another.
StoreDone(o) ==
  LET kind == PushKind(o) IN
  /\ pc = "store" /\ MayHappen(o) /\ ~(IsRetriable(kind) /\ CanRetry)
  /\ freed' = ReturnAll(kind)
  /\ metrics' = Add(metrics, ResultCounters(kind), Len(records))
  /\ records' = <<>>
  /\ pc' = (IF EndsPush(kind) THEN "off" ELSE "select")
  /\ UNCHANGED <<data, pending, retrying, left, ctxDone, now, inserted, runs, sent>>

\* The back-off timer fires.
BackoffElapsed ==
  /\ pc = "backoff"
  /\ pc' = "select"
  /\ UNCHANGED <<data, pending, records, retrying, left, ctxDone,
                 now, inserted, runs, freed, sent, metrics>>

PushStep == \/ PushReturnsCtxErr \/ WaitC \/ get \/ getEmpty \/ BackoffElapsed
            \/ \E o \in Answers : StoreRetried(o) \/ StoreDone(o)

Next == \/ Tick \/ Cancel \/ PushStart \/ PushStartFails \/ PushStep
        \/ \E size \in Sizes : insert(size)

Spec == Init /\ [][Next]_vars

\* The goroutine runs, the timers fire and every request is answered or
\* times out (prom.Client gives it five seconds).
FairSpec == Spec /\ WF_vars(PushStep)
-----------------------------------------------------------------------------
(* Properties.                                                             *)

\* No wake-up is lost: whenever records are queued, either the condition is
\* signalled or push has taken the signal and is about to call get. It has to
\* survive requeues, partial batches, and push returning and being restarted.
NoStrandedData == data # <<>> => pending \/ pc = "get"

Before(x, y) == x.id < y.id /\ x.ts <= y.ts
Ordered(s) == \A i, j \in DOMAIN s : i < j => Before(s[i], s[j])

\* Batch and queue together hold the records oldest first, in the order they
\* were inserted: what limitAge's binary search relies on ("data is
\* chronologically sorted"), and what requeueing in front must preserve.
Chronological == Ordered(records \o data)

\* A buffer goes back to the pool exactly once, when its record is neither
\* queued nor in flight any more: none is reused while it can still be sent,
\* returned twice, or leaked.
BufferOwnership ==
  \A i \in 1..MaxRecords :
    freed[i] = IF i <= inserted /\ i \notin Ids(records \o data) THEN 1 ELSE 0

\* The limits hold at every step. One call of push sends a record at most
\* MaxRetries + 1 times, although each retry sends whatever is at the front of
\* the queue by then; and the queue stays within its bytes after every insert and
\* every requeue, even though the batch in flight is not counted while away.
WithinLimits ==
  /\ \A i \in 1..MaxRecords : sent[i] <= MaxRetries + 1
  /\ MaxQueuedBytes > 0 => Bytes(data) <= MaxQueuedBytes

\* Every record the queue is done with shows up in the counters: published,
\* dropped, or an error that was not retried, unless a record expired.
Accounted == metrics.push + metrics.dropped + metrics.error - metrics.retries
MetricsAccount ==
  [][ MaxQueuedTime = 0 \/ (\A e \in Range(records \o data) : ~Expired(e)) =>
        Cardinality({i \in 1..MaxRecords : freed'[i] # freed[i]}) = Accounted' - Accounted ]_vars

\* drop_total is the "Total number of results dropped by type"
\* (internal/pusher/metrics.go:105): with any limits, what left the queue
\* without an answer is what drop_total counts.
DroppedIsCounted ==
  metrics.dropped = SumFunction(freed) - metrics.push - (metrics.error - metrics.retries)

\* A queued record does not stay queued while push runs: it is published,
\* given up or dropped, or push returns.
Drains ==
  \A i \in 1..MaxRecords :
    (pc # "off" /\ i \in Ids(data)) ~> (i \notin Ids(records \o data) \/ pc = "off")

\* The queue is a FIFO that makes room by dropping its oldest records only,
\* and has at most one batch in flight (module DropOldestFifo).
Fifo == INSTANCE DropOldestFifo WITH Record <- Entry, queued <- data, flight <- records
FifoSpec == Fifo!Spec
=============================================================================
