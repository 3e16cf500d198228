------------------------------ MODULE Publisher ------------------------------
(***************************************************************************)
(* The v2 publisher (internal/pusher/v2/publisher.go, tenant_pusher.go):   *)
(* goroutines that call Publish, the handlers map they share, and one      *)
(* runHandler goroutine per installed tenant pusher.                       *)
(*                                                                         *)
(* A payload handler is a pointer, so a handler here carries what makes it *)
(* unique: the tenant pusher p it was made from or wraps, and the run n of *)
(* p that produced it. A queue is the set of records in it and the set in  *)
(* flight: what DropOldestFifo promises, without the order.                *)
(***************************************************************************)
EXTENDS Integers, FiniteSets, Functions

CONSTANTS Tenants, Clients,
          MaxPayloads,   \* bound: payloads ever published, and pushers created
          MaxRuns        \* bound: runs of one tenant pusher

ASSUME BoundsAssumption ==
  MaxPayloads \in Nat /\ MaxRuns \in Nat \ {0} /\ Tenants # {}

Pushers  == 1..MaxPayloads
Payloads == 1..MaxPayloads
Queues   == {"metrics", "logs"}
Members  == Queues \cup {"idle", "lifetime"}    \* of the errgroup
AnyTenant == CHOOSE t \in Tenants : TRUE          \* where none is set yet
None     == [kind |-> "none", p |-> 0, n |-> 0]  \* the nil handler

Handler == [kind : {"tenant", "delay", "discard"}, p : Pushers, n : 0..MaxRuns]
Errors  == {"none", "canceled", "idle", "other", "Wait", "Tenant", "lifetime", "Fatal"}

VARIABLES
  handlers,              \* tenant -> Handler or None
  created, tenantOf,     \* tenant pushers installed so far, and whose they are
  pc, h, next,           \* runHandler: where it is, its handler, run's result
  member, err, runs,     \* runPushers: its goroutines, first error, calls
  queued, flight,        \* the two queues of each tenant pusher
  pushCounter, lastValue,  \* activity, and what idleChecker last saw of it
  at, ref, pay, dest,    \* Publish: where it is, its handler, payload, tenant
  payloads, ctxDone      \* payloads so far; the publisher's context

runnerVars == <<pc, h, next>>
groupVars  == <<member, err, runs, lastValue>>
queueVars  == <<queued, flight>>
clientVars == <<at, ref, pay, dest, payloads>>
vars == <<handlers, created, tenantOf, runnerVars, groupVars, queueVars,
          pushCounter, clientVars, ctxDone>>

RunnerTypeOK ==
  /\ handlers \in [Tenants -> Handler \cup {None}]
  /\ created \in 0..MaxPayloads /\ tenantOf \in [Pushers -> Tenants]
  /\ pc \in [Pushers -> {"unborn", "run", "swap", "done"}]
  /\ h \in [Pushers -> Handler \cup {None}] /\ next \in [Pushers -> Handler \cup {None}]

GroupTypeOK ==
  /\ member \in [Pushers -> [Members -> {"off", "start", "up"}]]
  /\ err \in [Pushers -> Errors] /\ runs \in [Pushers -> 0..MaxRuns]
  /\ pushCounter \in [Pushers -> Nat] /\ lastValue \in [Pushers -> Nat]

QueueTypeOK ==
  /\ queued \in [Pushers -> [Queues -> SUBSET Payloads]]
  /\ flight \in [Pushers -> [Queues -> SUBSET Payloads]]

ClientTypeOK ==
  /\ at \in [Clients -> {"idle", "create", "publish", "metrics", "logs"}]
  /\ ref \in [Clients -> Handler \cup {None}]
  /\ pay \in [Clients -> 0..MaxPayloads] /\ dest \in [Clients -> Tenants]
  /\ payloads \in 0..MaxPayloads

\* The types, in particular: the errors run gets are the ones it knows.
TypeOK == /\ RunnerTypeOK /\ GroupTypeOK /\ QueueTypeOK /\ ClientTypeOK
          /\ ctxDone \in BOOLEAN

Init ==
  /\ handlers = [t \in Tenants |-> None]
  /\ created = 0 /\ tenantOf = [p \in Pushers |-> AnyTenant]
  /\ pc = [p \in Pushers |-> "unborn"]
  /\ h = [p \in Pushers |-> None] /\ next = [p \in Pushers |-> None]
  /\ member = [p \in Pushers |-> [m \in Members |-> "off"]]
  /\ err = [p \in Pushers |-> "none"] /\ runs = [p \in Pushers |-> 0]
  /\ queued = [p \in Pushers |-> [q \in Queues |-> {}]]
  /\ flight = [p \in Pushers |-> [q \in Queues |-> {}]]
  /\ pushCounter = [p \in Pushers |-> 0] /\ lastValue = [p \in Pushers |-> 0]
  /\ at = [c \in Clients |-> "idle"] /\ ref = [c \in Clients |-> None]
  /\ pay = [c \in Clients |-> 0] /\ dest = [c \in Clients |-> AnyTenant]
  /\ payloads = 0 /\ ctxDone = FALSE

TenantPusher(p)     == [kind |-> "tenant", p |-> p, n |-> 0]
DelayPusher(p, n)   == [kind |-> "delay", p |-> p, n |-> n]
DiscardPusher(p, n) == [kind |-> "discard", p |-> p, n |-> n]

-----------------------------------------------------------------------------
(* publisherImpl                                                           *)

\* Publish returns: its locals are gone.
PublishReturns(c) ==
  /\ at' = [at EXCEPT ![c] = "idle"] /\ ref' = [ref EXCEPT ![c] = None]
  /\ pay' = [pay EXCEPT ![c] = 0] /\ dest' = [dest EXCEPT ![c] = AnyTenant]

\* getHandler, at the start of Publish.
Publish(c, t) ==
  /\ at[c] = "idle" /\ payloads < MaxPayloads
  /\ payloads' = payloads + 1
  /\ pay' = [pay EXCEPT ![c] = payloads + 1] /\ dest' = [dest EXCEPT ![c] = t]
  /\ ref' = [ref EXCEPT ![c] = handlers[t]]
  /\ at' = [at EXCEPT ![c] = IF handlers[t] = None THEN "create" ELSE "publish"]
  /\ UNCHANGED <<handlers, created, tenantOf, runnerVars, groupVars, queueVars,
                 pushCounter, ctxDone>>

\* Mutation of SlotFree: the new handler is installed without looking again.
Mut_SlotFree(t) == TRUE

\* replaceHandler(t, nil, new) looks at the slot again under the lock.
SlotFree(t) == handlers[t] = None

\* newTenantPusher and replaceHandler(nil, new) install it: start runHandler.
PublishInstalls(c) ==
  LET p == created + 1 IN
  /\ at[c] = "create" /\ SlotFree(dest[c]) /\ created < MaxPayloads
  /\ created' = p
  /\ tenantOf' = [tenantOf EXCEPT ![p] = dest[c]]
  /\ handlers' = [handlers EXCEPT ![dest[c]] = TenantPusher(p)]
  /\ h' = [h EXCEPT ![p] = TenantPusher(p)] /\ pc' = [pc EXCEPT ![p] = "run"]
  /\ ref' = [ref EXCEPT ![c] = TenantPusher(p)] /\ at' = [at EXCEPT ![c] = "publish"]
  /\ UNCHANGED <<next, groupVars, queueVars, pushCounter, pay, dest, payloads, ctxDone>>

\* Somebody else installed one meanwhile: use theirs, forget the new pusher.
PublishAdopts(c) ==
  /\ at[c] = "create" /\ ~SlotFree(dest[c])
  /\ ref' = [ref EXCEPT ![c] = handlers[dest[c]]] /\ at' = [at EXCEPT ![c] = "publish"]
  /\ UNCHANGED <<handlers, created, tenantOf, runnerVars, groupVars, queueVars,
                 pushCounter, pay, dest, payloads, ctxDone>>

\* discardPusher.publish: counted as dropped.
publishDiscards(c) ==
  /\ at[c] = "publish" /\ ref[c].kind = "discard"
  /\ PublishReturns(c)
  /\ UNCHANGED <<handlers, created, tenantOf, runnerVars, groupVars, queueVars,
                 pushCounter, payloads, ctxDone>>

\* tenantPusher.publish, directly or through delayPusher: note the activity...
publishCounts(c) ==
  /\ at[c] = "publish" /\ ref[c].kind # "discard"
  /\ pushCounter' = [pushCounter EXCEPT ![ref[c].p] = @ + 1]
  /\ at' = [at EXCEPT ![c] = "metrics"]
  /\ UNCHANGED <<handlers, created, tenantOf, runnerVars, groupVars, queueVars,
                 ref, pay, dest, payloads, ctxDone>>

\* ... then insert what there is into the queue q. The limits of the queue may
\* drop any of what it holds.
publishInserts(c, q) ==
  LET p == ref[c].p IN
  /\ at[c] = q
  /\ \/ \E left \in SUBSET (queued[p][q] \cup {pay[c]}) :
          queued' = [queued EXCEPT ![p][q] = left]
     \/ UNCHANGED queued    \* the payload has nothing of this type
  /\ IF q = "metrics" THEN at' = [at EXCEPT ![c] = "logs"] /\ UNCHANGED <<ref, pay, dest>>
                      ELSE PublishReturns(c)
  /\ UNCHANGED <<handlers, created, tenantOf, runnerVars, groupVars, flight,
                 pushCounter, payloads, ctxDone>>

\* runHandler: replaceHandler(t, h, next), and the loop goes on with what it
\* returns unless that is nil or the slot was not h's ("tenant hijacked").
Swap(p) ==
  LET t  == tenantOf[p]
      ok == handlers[t] = h[p]
  IN  /\ pc[p] = "swap"
      /\ handlers' = IF ok THEN [handlers EXCEPT ![t] = next[p]] ELSE handlers
      /\ h' = [h EXCEPT ![p] = IF ok THEN next[p] ELSE handlers[t]]
      /\ pc' = [pc EXCEPT ![p] = IF ok /\ next[p] # None THEN "run" ELSE "done"]
      /\ next' = [next EXCEPT ![p] = None]
      /\ UNCHANGED <<created, tenantOf, groupVars, queueVars, pushCounter,
                     clientVars, ctxDone>>

\* A handler's run returns n.
RunReturns(p, n) == /\ next' = [next EXCEPT ![p] = n]
                    /\ pc' = [pc EXCEPT ![p] = "swap"]

Running(p, kind) == pc[p] = "run" /\ h[p].kind = kind

-----------------------------------------------------------------------------
(* delayPusher.run, discardPusher.run                                      *)

\* Mutation of delayResults: the timer is never waited for.
Mut_delayResults(p) == IF ctxDone THEN {None} ELSE {}

\* The timer fires, or ctx.Done is ready: the select takes either.
delayResults(p) == {TenantPusher(p)} \cup (IF ctxDone THEN {None} ELSE {})

delayRun(p) ==
  /\ Running(p, "delay") /\ \E n \in delayResults(p) : RunReturns(p, n)
  /\ UNCHANGED <<handlers, created, tenantOf, h, groupVars, queueVars, pushCounter,
                 clientVars, ctxDone>>

\* Mutation of discardResult: the tenant pusher resumes by itself.
Mut_discardResult(p) == TenantPusher(p)

\* Whether the timer fires or ctx is done: no next handler.
discardResult(p) == None

discardRun(p) ==
  /\ Running(p, "discard") /\ RunReturns(p, discardResult(p))
  /\ UNCHANGED <<handlers, created, tenantOf, h, groupVars, queueVars, pushCounter,
                 clientVars, ctxDone>>

-----------------------------------------------------------------------------
(* tenantPusher.run and runPushers                                         *)

AllOff == [m \in Members |-> "off"]

\* Between runs of p no member of its group exists and err is "none".
Starting(p) == Running(p, "tenant") /\ member[p] = AllOff /\ err[p] = "none"

\* GetTenant fails: counted, errKindFatal, so run returns a discardPusher.
GetTenantFails(p) ==
  /\ Starting(p) /\ runs[p] < MaxRuns
  /\ runs' = [runs EXCEPT ![p] = @ + 1]
  /\ RunReturns(p, DiscardPusher(p, runs[p] + 1))
  /\ UNCHANGED <<handlers, created, tenantOf, h, member, err, lastValue, queueVars,
                 pushCounter, clientVars, ctxDone>>

\* GetTenant succeeds and the errgroup starts its four goroutines.
runPushers(p) ==
  /\ Starting(p) /\ runs[p] < MaxRuns
  /\ runs' = [runs EXCEPT ![p] = @ + 1]
  /\ member' = [member EXCEPT ![p] = [m \in Members |-> "start"]]
  /\ UNCHANGED <<handlers, created, tenantOf, runnerVars, err, lastValue, queueVars,
                 pushCounter, clientVars, ctxDone>>

\* Mutation of GroupCancelled: the group's context has no parent.
Mut_GroupCancelled(p) == err[p] # "none"

\* The group's context: cancelled by its parent or by the first error.
GroupCancelled(p) == ctxDone \/ err[p] # "none"

\* A delay is followed by another run, so the last run ends some other way.
Possible(p, e) == e \in {"Wait", "Tenant", "lifetime"} => runs[p] < MaxRuns

\* Goroutine m of the group returns e; the first error is the group's.
MemberReturns(p, m, e) ==
  /\ Possible(p, e)
  /\ member' = [member EXCEPT ![p][m] = "off"]
  /\ err' = [err EXCEPT ![p] = IF @ = "none" THEN e ELSE @]

\* The goroutine gets past its first statements: push has its client,
\* idleChecker has read the counter.
MemberUp(p, m) ==
  /\ member[p][m] = "start"
  /\ member' = [member EXCEPT ![p][m] = "up"]
  /\ lastValue' = IF m = "idle" THEN [lastValue EXCEPT ![p] = pushCounter[p]] ELSE lastValue
  /\ UNCHANGED <<handlers, created, tenantOf, runnerVars, err, runs, queueVars,
                 pushCounter, clientVars, ctxDone>>

\* push returns before its loop: the remote's URL does not parse ("other"),
\* or prom.NewClient fails.
PushStartFails(p, q) ==
  /\ member[p][q] = "start"
  /\ \E e \in {"other", "Fatal"} : MemberReturns(p, q, e)
  /\ UNCHANGED <<handlers, created, tenantOf, runnerVars, runs, lastValue, queueVars,
                 pushCounter, clientVars, ctxDone>>

\* A select of the member sees ctx.Done. push only looks between batches.
MemberCtxDone(p, m) ==
  /\ member[p][m] = "up" /\ GroupCancelled(p)
  /\ m \in Queues => flight[p][m] = {}
  /\ MemberReturns(p, m, "canceled")
  /\ UNCHANGED <<handlers, created, tenantOf, runnerVars, runs, lastValue, queueVars,
                 pushCounter, clientVars, ctxDone>>

\* idleChecker's ticker fires.
idleChecker(p) ==
  /\ member[p]["idle"] = "up"
  /\ IF pushCounter[p] = lastValue[p]
     THEN MemberReturns(p, "idle", "idle") /\ UNCHANGED lastValue
     ELSE lastValue' = [lastValue EXCEPT ![p] = pushCounter[p]] /\ UNCHANGED <<member, err>>
  /\ UNCHANGED <<handlers, created, tenantOf, runnerVars, runs, queueVars, pushCounter,
                 clientVars, ctxDone>>

maxLifetimeChecker(p) ==
  /\ member[p]["lifetime"] = "up"
  /\ MemberReturns(p, "lifetime", "lifetime")
  /\ UNCHANGED <<handlers, created, tenantOf, runnerVars, runs, lastValue, queueVars,
                 pushCounter, clientVars, ctxDone>>

\* queue.push takes a batch.
Take(p, q) ==
  /\ member[p][q] = "up" /\ flight[p][q] = {}
  /\ \E batch \in SUBSET queued[p][q] \ {{}} :
       /\ flight' = [flight EXCEPT ![p][q] = batch]
       /\ queued' = [queued EXCEPT ![p][q] = @ \ batch]
  /\ UNCHANGED <<handlers, created, tenantOf, runnerVars, groupVars, pushCounter,
                 clientVars, ctxDone>>

\* The batch was delivered, refused, or retried too often: all counted.
Settle(p, q) ==
  /\ flight[p][q] # {}
  /\ flight' = [flight EXCEPT ![p][q] = {}]
  /\ UNCHANGED <<handlers, created, tenantOf, runnerVars, groupVars, queued, pushCounter,
                 clientVars, ctxDone>>

\* The batch is requeued after a retriable error; the limits may drop some.
Requeue(p, q) ==
  /\ flight[p][q] # {}
  /\ flight' = [flight EXCEPT ![p][q] = {}]
  /\ \E left \in SUBSET (queued[p][q] \cup flight[p][q]) :
       queued' = [queued EXCEPT ![p][q] = left]
  /\ UNCHANGED <<handlers, created, tenantOf, runnerVars, groupVars, pushCounter,
                 clientVars, ctxDone>>

\* The kinds of push errors that end push.
EndKinds == {"Wait", "Tenant", "Fatal"}

\* The answer ends push: the batch is counted as an error and forgotten.
PushEnds(p, q) ==
  /\ flight[p][q] # {}
  /\ \E e \in EndKinds : MemberReturns(p, q, e)
  /\ flight' = [flight EXCEPT ![p][q] = {}]
  /\ UNCHANGED <<handlers, created, tenantOf, runnerVars, runs, lastValue, queued,
                 pushCounter, clientVars, ctxDone>>

\* tenantPusher.run: the handler for the group's error.
NextHandler(p) ==
  CASE err[p] \in {"Wait", "Tenant", "lifetime"} -> DelayPusher(p, runs[p])
    [] err[p] = "Fatal" -> DiscardPusher(p, runs[p])
    [] OTHER -> None

\* Mutation of GroupReturned: the first error is enough.
Mut_GroupReturned(p) == err[p] # "none"

\* g.Wait returns when every goroutine of the group has.
GroupReturned(p) == err[p] # "none" /\ member[p] = AllOff

runReturns(p) ==
  /\ Running(p, "tenant") /\ GroupReturned(p)
  /\ RunReturns(p, NextHandler(p))
  /\ err' = [err EXCEPT ![p] = "none"] /\ lastValue' = [lastValue EXCEPT ![p] = 0]
  /\ UNCHANGED <<handlers, created, tenantOf, h, member, runs, queueVars,
                 pushCounter, clientVars, ctxDone>>

\* The agent shuts down: the publisher's context is cancelled.
Shutdown == /\ ~ctxDone /\ ctxDone' = TRUE
            /\ UNCHANGED <<handlers, created, tenantOf, runnerVars, groupVars, queueVars,
                           pushCounter, clientVars>>

-----------------------------------------------------------------------------
ClientStep(c) == \/ PublishInstalls(c) \/ PublishAdopts(c)
                 \/ publishDiscards(c) \/ publishCounts(c)
                 \/ \E q \in Queues : publishInserts(c, q)

QueueStep(p, q) == \/ PushStartFails(p, q) \/ Take(p, q)
                   \/ Settle(p, q) \/ Requeue(p, q) \/ PushEnds(p, q)

\* What the goroutine of p, the ones it waits for and their timers do.
RunnerStep(p) == \/ Swap(p) \/ delayRun(p) \/ discardRun(p)
                 \/ GetTenantFails(p) \/ runPushers(p) \/ runReturns(p)
                 \/ \E m \in Members : MemberUp(p, m) \/ MemberCtxDone(p, m)

Next == \/ \E c \in Clients : ClientStep(c) \/ \E t \in Tenants : Publish(c, t)
        \/ \E p \in Pushers : \/ RunnerStep(p) \/ idleChecker(p) \/ maxLifetimeChecker(p)
                              \/ \E q \in Queues : QueueStep(p, q)
        \/ Shutdown

Spec == Init /\ [][Next]_vars

\* Goroutines make progress and their timers fire; a request is answered or
\* times out. Go's select picks one of the ready cases at random, so one that
\* is ready over and over is taken: ctx.Done against more data, after which
\* push returns.
PublisherFairness ==
  /\ \A c \in Clients : WF_vars(ClientStep(c))
  /\ \A p \in Pushers : /\ WF_vars(RunnerStep(p))
                        /\ \A m \in Members : SF_vars(MemberCtxDone(p, m))
                        /\ \A q \in Queues : WF_vars(Settle(p, q) \/ Requeue(p, q) \/ PushEnds(p, q))

-----------------------------------------------------------------------------
(* Properties.                                                             *)

Alive(p) == pc[p] \in {"run", "swap"}

\* Slots and runHandler goroutines match one to one: a live runner's handler
\* is what its tenant's slot holds, and an occupied slot has a live runner.
\* So a tenant never has two runners, no handler found by getHandler is
\* without one, and replaceHandler never reports "tenant hijacked".
SlotOwnership ==
  /\ \A p \in Pushers : Alive(p) => handlers[tenantOf[p]] = h[p] /\ h[p].p = p
  /\ \A t \in Tenants : handlers[t] # None =>
       \E p \in Pushers : Alive(p) /\ tenantOf[p] = t /\ h[p] = handlers[t]

\* A tenant has at most one remote write per type in progress, also while one
\* pusher is torn down and the next one starts: runPushers waits for both
\* queues before the slot is released, so samples are not sent out of order.
OneWriterPerTenant ==
  \A p1, p2 \in Pushers : \A q \in Queues :
    flight[p1][q] # {} /\ flight[p2][q] # {} /\ tenantOf[p1] = tenantOf[p2] => p1 = p2

\* Publish is "infallible from the caller's point of view; errors are absorbed
\* and reflected in metrics" (docs/architecture/publisher.md:70): the queue a
\* record is put into is one that a goroutine pushes, now or after a delay.
PublishReachesRunner ==
  [][ \A c \in Clients, p \in Pushers, q \in Queues :
        at[c] = q /\ ref[c].p = p /\ pay[c] \in queued'[p][q] \ queued[p][q] =>
          Alive(p) /\ h[p].kind # "discard" ]_vars

\* The slots follow the state machine of module TenantSlots.
SlotKind == [t \in Tenants |-> handlers[t].kind]
Slots == INSTANCE TenantSlots WITH slot <- SlotKind
SlotsSpec == Slots!Spec

\* A tenant that is delayed or discarded is served again: its slot goes back
\* to a tenant pusher, or is cleared for the next payload to fill.
PausesEnd == \A t \in Tenants :
  handlers[t].kind \in {"delay", "discard"} ~> handlers[t].kind \in {"tenant", "none"}

\* Cancelling the publisher's context ends every runner and empties every slot.
ShutdownCompletes ==
  ctxDone ~> /\ \A p \in Pushers : ~Alive(p)
             /\ \A t \in Tenants : handlers[t] = None
=============================================================================
