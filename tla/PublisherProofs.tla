--------------------------- MODULE PublisherProofs ---------------------------
(***************************************************************************)
(* Proofs about Publisher for any number of tenants, clients, payloads and *)
(* runs: types, SlotOwnership, OneWriterPerTenant.                         *)
(***************************************************************************)
EXTENDS Publisher, TLAPS

\* A Publish under way has its payload, and once it is past creating it has a
\* handler to publish to.
ClientOK ==
  \A c \in Clients : /\ at[c] # "idle" => pay[c] \in Payloads
                     /\ at[c] \in {"publish", "metrics", "logs"} => ref[c] \in Handler

TInv == TypeOK /\ ClientOK

LEMMA HandlerFacts ==
  /\ None \notin Handler
  /\ \A p \in Pushers : TenantPusher(p) \in Handler
  /\ \A p \in Pushers, n \in 0..MaxRuns : /\ DelayPusher(p, n) \in Handler
                                          /\ DiscardPusher(p, n) \in Handler
BY BoundsAssumption DEF Handler, None, TenantPusher, DelayPusher, DiscardPusher

LEMMA InitTInv == Init => TInv
<1> SUFFICES ASSUME Init PROVE TInv
  OBVIOUS
<1>1. AnyTenant \in Tenants
  BY BoundsAssumption DEF AnyTenant
<1>2. RunnerTypeOK
  BY <1>1, BoundsAssumption DEF Init, RunnerTypeOK
<1>3. GroupTypeOK
  BY BoundsAssumption DEF Init, GroupTypeOK, Errors
<1>4. QueueTypeOK
  BY DEF Init, QueueTypeOK
<1>5. ClientTypeOK
  BY <1>1, BoundsAssumption DEF Init, ClientTypeOK
<1>6. ClientOK
  BY DEF Init, ClientOK
<1>7. ctxDone \in BOOLEAN
  BY Zenon DEF Init
<1> QED  BY <1>2, <1>3, <1>4, <1>5, <1>6, <1>7, Zenon DEF TInv, TypeOK

\* What a step leaves alone keeps its type.
LEMMA UnchangedTypes ==
  ASSUME TInv
  PROVE  /\ UNCHANGED <<handlers, created, tenantOf, runnerVars>> => RunnerTypeOK'
         /\ UNCHANGED <<groupVars, pushCounter>> => GroupTypeOK'
         /\ UNCHANGED queueVars => QueueTypeOK'
         /\ UNCHANGED clientVars => ClientTypeOK' /\ ClientOK'
         /\ UNCHANGED ctxDone => (ctxDone \in BOOLEAN)'
<1>1. UNCHANGED <<handlers, created, tenantOf, runnerVars>> => RunnerTypeOK'
  BY DEF TInv, TypeOK, RunnerTypeOK, runnerVars
<1>2. UNCHANGED <<groupVars, pushCounter>> => GroupTypeOK'
  BY DEF TInv, TypeOK, GroupTypeOK, groupVars
<1>3. UNCHANGED queueVars => QueueTypeOK'
  BY DEF TInv, TypeOK, QueueTypeOK, queueVars
<1>4. UNCHANGED clientVars => ClientTypeOK' /\ ClientOK'
  BY DEF TInv, TypeOK, ClientTypeOK, ClientOK, clientVars
<1>5. UNCHANGED ctxDone => (ctxDone \in BOOLEAN)'
  BY Zenon DEF TInv, TypeOK
<1> QED  BY <1>1, <1>2, <1>3, <1>4, <1>5, Zenon

LEMMA ClientStepTInv ==
  ASSUME TInv, NEW c \in Clients
  PROVE  /\ \A t \in Tenants : Publish(c, t) => TInv'
         /\ ClientStep(c) => TInv'
<1> USE BoundsAssumption, HandlerFacts, UnchangedTypes
<1>1. AnyTenant \in Tenants
  BY DEF AnyTenant
<1>2. ASSUME NEW t \in Tenants, Publish(c, t) PROVE TInv'
  <2>1. ClientTypeOK' /\ ClientOK'
    BY <1>2 DEF Publish, TInv, TypeOK, ClientTypeOK, ClientOK, Payloads, RunnerTypeOK
  <2> QED  BY <1>2, <2>1 DEF Publish, TInv, TypeOK
<1>3. CASE PublishInstalls(c)
  <2>1. created + 1 \in Pushers
    BY <1>3 DEF PublishInstalls, Pushers, TInv, TypeOK, RunnerTypeOK
  <2>2. RunnerTypeOK'
    BY <1>3, <2>1 DEF PublishInstalls, TInv, TypeOK, RunnerTypeOK, ClientTypeOK, Pushers
  <2>3. ClientTypeOK' /\ ClientOK'
    BY <1>3, <2>1 DEF PublishInstalls, TInv, TypeOK, ClientTypeOK, ClientOK
  <2> QED  BY <1>3, <2>2, <2>3 DEF PublishInstalls, TInv, TypeOK
<1>4. CASE PublishAdopts(c)
  <2>1. ClientTypeOK' /\ ClientOK'
    BY <1>4 DEF PublishAdopts, SlotFree, TInv, TypeOK, ClientTypeOK, ClientOK, RunnerTypeOK
  <2> QED  BY <1>4, <2>1 DEF PublishAdopts, TInv, TypeOK
<1>5. ASSUME PublishReturns(c), UNCHANGED payloads PROVE ClientTypeOK' /\ ClientOK'
  BY <1>1, <1>5 DEF PublishReturns, TInv, TypeOK, ClientTypeOK, ClientOK
<1>6. CASE publishDiscards(c)
  BY <1>5, <1>6 DEF publishDiscards, TInv, TypeOK
<1>7. CASE publishCounts(c)
  <2>1. ClientTypeOK' /\ ClientOK'
    BY <1>7 DEF publishCounts, TInv, TypeOK, ClientTypeOK, ClientOK
  <2>2. GroupTypeOK'
    BY <1>7 DEF publishCounts, TInv, TypeOK, GroupTypeOK, groupVars
  <2> QED  BY <1>7, <2>1, <2>2 DEF publishCounts, TInv, TypeOK
<1>8. ASSUME NEW q \in Queues, publishInserts(c, q) PROVE TInv'
  <2>1. QueueTypeOK'
    <3>1. ref[c].p \in Pushers /\ pay[c] \in Payloads
      BY <1>8 DEF publishInserts, TInv, ClientOK, Queues, Handler
    <3>2. CASE UNCHANGED queued
      BY <1>8, <3>2 DEF publishInserts, TInv, TypeOK, QueueTypeOK
    <3>3. ASSUME NEW left \in SUBSET (queued[ref[c].p][q] \cup {pay[c]}),
                 queued' = [queued EXCEPT ![ref[c].p][q] = left]
          PROVE  QueueTypeOK'
      <4>1. left \in SUBSET Payloads
        BY <3>1 DEF TInv, TypeOK, QueueTypeOK
      <4> QED  BY <1>8, <3>1, <3>3, <4>1 DEF publishInserts, TInv, TypeOK, QueueTypeOK
    <3> QED  BY <1>8, <3>2, <3>3, Zenon DEF publishInserts
  <2>2. ClientTypeOK' /\ ClientOK'
    <3>1. CASE q = "metrics"
      BY <1>8, <3>1 DEF publishInserts, TInv, TypeOK, ClientTypeOK, ClientOK
    <3>2. CASE q # "metrics"
      BY <1>5, <1>8, <3>2 DEF publishInserts
    <3> QED  BY <3>1, <3>2
  <2> QED  BY <1>8, <2>1, <2>2 DEF publishInserts, TInv, TypeOK
<1> QED  BY <1>2, <1>3, <1>4, <1>6, <1>7, <1>8 DEF ClientStep

LEMMA MemberReturnsTypes ==
  ASSUME TInv, NEW p \in Pushers, NEW m \in Members, NEW e \in Errors,
         MemberReturns(p, m, e), UNCHANGED <<runs, lastValue, pushCounter>>
  PROVE  GroupTypeOK'
BY DEF MemberReturns, TInv, TypeOK, GroupTypeOK

LEMMA RunReturnsTypes ==
  ASSUME TInv, NEW p \in Pushers, NEW n \in Handler \cup {None},
         RunReturns(p, n), UNCHANGED <<handlers, created, tenantOf, h>>
  PROVE  RunnerTypeOK'
BY DEF RunReturns, TInv, TypeOK, RunnerTypeOK

LEMMA RunnerStepTInv ==
  ASSUME TInv, NEW p \in Pushers, RunnerStep(p)
  PROVE  TInv'
<1> USE BoundsAssumption, HandlerFacts, UnchangedTypes
<1>1. CASE Swap(p)
  <2>1. RunnerTypeOK'
    BY <1>1 DEF Swap, TInv, TypeOK, RunnerTypeOK
  <2> QED  BY <1>1, <2>1 DEF Swap, TInv, TypeOK
<1>2. CASE delayRun(p)
  <2>1. RunnerTypeOK'
    BY <1>2, RunReturnsTypes DEF delayRun, delayResults
  <2> QED  BY <1>2, <2>1 DEF delayRun, TInv, TypeOK
<1>3. CASE discardRun(p)
  <2>1. RunnerTypeOK'
    BY <1>3, RunReturnsTypes DEF discardRun, discardResult
  <2> QED  BY <1>3, <2>1 DEF discardRun, TInv, TypeOK
<1>4. CASE GetTenantFails(p)
  <2>1. runs[p] + 1 \in 0..MaxRuns
    BY <1>4 DEF GetTenantFails, TInv, TypeOK, GroupTypeOK
  <2>2. RunnerTypeOK'
    BY <1>4, <2>1, RunReturnsTypes DEF GetTenantFails
  <2>3. GroupTypeOK'
    BY <1>4, <2>1 DEF GetTenantFails, TInv, TypeOK, GroupTypeOK
  <2> QED  BY <1>4, <2>2, <2>3 DEF GetTenantFails, TInv, TypeOK
<1>5. CASE runPushers(p)
  <2>1. GroupTypeOK'
    BY <1>5 DEF runPushers, TInv, TypeOK, GroupTypeOK
  <2> QED  BY <1>5, <2>1 DEF runPushers, TInv, TypeOK
<1>6. CASE runReturns(p)
  <2>1. NextHandler(p) \in Handler \cup {None}
    BY DEF NextHandler, TInv, TypeOK, GroupTypeOK
  <2>2. RunnerTypeOK'
    BY <1>6, <2>1, RunReturnsTypes DEF runReturns
  <2>3. GroupTypeOK'
    BY <1>6 DEF runReturns, TInv, TypeOK, GroupTypeOK, Errors
  <2> QED  BY <1>6, <2>2, <2>3 DEF runReturns, TInv, TypeOK
<1>7. ASSUME NEW m \in Members, MemberUp(p, m) PROVE TInv'
  <2>1. GroupTypeOK'
    BY <1>7 DEF MemberUp, TInv, TypeOK, GroupTypeOK
  <2> QED  BY <1>7, <2>1 DEF MemberUp, TInv, TypeOK
<1>8. ASSUME NEW m \in Members, MemberCtxDone(p, m) PROVE TInv'
  <2>1. GroupTypeOK'
    BY <1>8, MemberReturnsTypes DEF MemberCtxDone, Errors
  <2> QED  BY <1>8, <2>1 DEF MemberCtxDone, TInv, TypeOK
<1> QED  BY <1>1, <1>2, <1>3, <1>4, <1>5, <1>6, <1>7, <1>8 DEF RunnerStep

LEMMA CheckerTInv ==
  ASSUME TInv, NEW p \in Pushers, idleChecker(p) \/ maxLifetimeChecker(p)
  PROVE  TInv'
<1> USE UnchangedTypes
<1>1. CASE idleChecker(p)
  <2>1. GroupTypeOK'
    BY <1>1, MemberReturnsTypes, Zenon
       DEF idleChecker, Errors, Members, TInv, TypeOK, GroupTypeOK
  <2> QED  BY <1>1, <2>1 DEF idleChecker, TInv, TypeOK
<1>2. CASE maxLifetimeChecker(p)
  <2>1. GroupTypeOK'
    BY <1>2, MemberReturnsTypes DEF maxLifetimeChecker, Errors, Members
  <2> QED  BY <1>2, <2>1 DEF maxLifetimeChecker, TInv, TypeOK
<1> QED  BY <1>1, <1>2

LEMMA QueueStepTInv ==
  ASSUME TInv, NEW p \in Pushers, NEW q \in Queues, QueueStep(p, q)
  PROVE  TInv'
<1> USE UnchangedTypes
<1>0. q \in Members
  BY DEF Members
<1>1. CASE PushStartFails(p, q)
  <2>1. GroupTypeOK'
    BY <1>0, <1>1, MemberReturnsTypes DEF PushStartFails, Errors
  <2> QED  BY <1>1, <2>1 DEF PushStartFails, TInv, TypeOK
<1>2. CASE Take(p, q)
  <2>1. QueueTypeOK'
    BY <1>2 DEF Take, TInv, TypeOK, QueueTypeOK
  <2> QED  BY <1>2, <2>1 DEF Take, TInv, TypeOK
<1>3. CASE Settle(p, q)
  <2>1. QueueTypeOK'
    BY <1>3 DEF Settle, TInv, TypeOK, QueueTypeOK
  <2> QED  BY <1>3, <2>1 DEF Settle, TInv, TypeOK
<1>4. CASE Requeue(p, q)
  <2>1. QueueTypeOK'
    BY <1>4 DEF Requeue, TInv, TypeOK, QueueTypeOK
  <2> QED  BY <1>4, <2>1 DEF Requeue, TInv, TypeOK
<1>5. CASE PushEnds(p, q)
  <2>1. GroupTypeOK'
    BY <1>0, <1>5, MemberReturnsTypes DEF PushEnds, EndKinds, Errors
  <2>2. QueueTypeOK'
    BY <1>5 DEF PushEnds, TInv, TypeOK, QueueTypeOK
  <2> QED  BY <1>5, <2>1, <2>2 DEF PushEnds, TInv, TypeOK
<1> QED  BY <1>1, <1>2, <1>3, <1>4, <1>5 DEF QueueStep

LEMMA NextTInv == TInv /\ [Next]_vars => TInv'
<1> SUFFICES ASSUME TInv, [Next]_vars PROVE TInv'
  OBVIOUS
<1>1. CASE Shutdown
  <2>1. (ctxDone \in BOOLEAN)'
    BY <1>1, Zenon DEF Shutdown
  <2> QED  BY <1>1, <2>1, UnchangedTypes DEF Shutdown, TInv, TypeOK
<1>2. CASE UNCHANGED vars
  BY <1>2, UnchangedTypes DEF vars, TInv, TypeOK
<1> QED  BY <1>1, <1>2, ClientStepTInv, RunnerStepTInv, CheckerTInv, QueueStepTInv DEF Next

\* Every variable of the publisher keeps its type: in particular handlers only
\* ever holds real handlers or nil, and no record appears from nowhere.
THEOREM TypeCorrect == Spec => []TypeOK
<1>1. Spec => []TInv
  BY InitTInv, NextTInv, PTL DEF Spec
<1>2. TInv => TypeOK
  BY DEF TInv
<1> QED  BY <1>1, <1>2, PTL

-----------------------------------------------------------------------------
(* Slots and runners.                                                      *)

\* A runner works on its own pusher's handlers only: the one it will install
\* next is derived from the pusher it was started for.
NextOwn == \A p \in Pushers : pc[p] = "swap" => next[p] = None \/ next[p].p = p

\* Pushers that are not created yet have no runner.
FreshUnborn == \A p \in Pushers : p > created => ~Alive(p)

\* The goroutines of a group exist only while run is in runPushers.
GroupRuns == \A p \in Pushers, m \in Members :
               member[p][m] # "off" => Running(p, "tenant")

\* A batch is in flight only while its push goroutine is in its loop.
FlightUp == \A p \in Pushers, q \in Queues : flight[p][q] # {} => member[p][q] = "up"

\* The inductive invariant behind SlotOwnership and OneWriterPerTenant.
SInv == TInv /\ SlotOwnership /\ NextOwn /\ FreshUnborn /\ GroupRuns /\ FlightUp

LEMMA InitSInv == Init => SInv
<1> SUFFICES ASSUME Init PROVE SInv
  OBVIOUS
<1>1. \A p \in Pushers : pc[p] = "unborn"
  BY DEF Init
<1>2. SlotOwnership /\ NextOwn /\ FreshUnborn
  BY <1>1 DEF Init, SlotOwnership, NextOwn, FreshUnborn, Alive
<1>3. GroupRuns /\ FlightUp
  BY DEF Init, GroupRuns, FlightUp
<1> QED  BY <1>2, <1>3, InitTInv DEF SInv

\* Steps that touch neither the slots nor the runners.
LEMMA UnchangedSlots ==
  ASSUME SInv, UNCHANGED <<handlers, created, tenantOf, runnerVars>>
  PROVE  SlotOwnership' /\ NextOwn' /\ FreshUnborn'
BY DEF SInv, SlotOwnership, NextOwn, FreshUnborn, Alive, runnerVars

\* Two live runners never serve the same tenant.
LEMMA RunnerUnique ==
  ASSUME SInv, NEW p1 \in Pushers, NEW p2 \in Pushers,
         Alive(p1), Alive(p2), tenantOf[p1] = tenantOf[p2]
  PROVE  p1 = p2
BY DEF SInv, SlotOwnership

\* A handler's run returns a handler of its own pusher, or nil.
LEMMA RunReturnsSlots ==
  ASSUME SInv, NEW p \in Pushers, NEW n, n = None \/ n.p = p, pc[p] = "run",
         RunReturns(p, n), UNCHANGED <<handlers, created, tenantOf, h>>
  PROVE  SlotOwnership' /\ NextOwn' /\ FreshUnborn'
<1>1. \A p2 \in Pushers : Alive(p2)' <=> Alive(p2)
  BY DEF RunReturns, Alive, SInv, TInv, TypeOK, RunnerTypeOK
<1>2. SlotOwnership'
  BY <1>1 DEF SInv, SlotOwnership
<1>3. NextOwn'
  BY DEF RunReturns, SInv, NextOwn, TInv, TypeOK, RunnerTypeOK
<1>4. FreshUnborn'
  BY <1>1 DEF SInv, FreshUnborn
<1> QED  BY <1>2, <1>3, <1>4

\* It also leaves no goroutine of the group behind.
LEMMA RunReturnsGroup ==
  ASSUME SInv, NEW p \in Pushers, NEW n, member[p] = AllOff,
         RunReturns(p, n), UNCHANGED <<h, member>>
  PROVE  GroupRuns'
<1>1. \A m \in Members : member[p][m] = "off"
  BY DEF AllOff
<1> QED  BY <1>1 DEF RunReturns, SInv, GroupRuns, Running, TInv, TypeOK, RunnerTypeOK

LEMMA ClientStepSInv ==
  ASSUME SInv, NEW c \in Clients
  PROVE  /\ \A t \in Tenants : Publish(c, t) => SInv'
         /\ ClientStep(c) => SInv'
<1>0. UNCHANGED <<member, flight, pc, h>> => GroupRuns' /\ FlightUp'
  BY DEF SInv, GroupRuns, FlightUp, Running
<1>t. /\ \A t \in Tenants : Publish(c, t) => TInv'
      /\ ClientStep(c) => TInv'
  BY ClientStepTInv DEF SInv
<1>1. ASSUME NEW t \in Tenants, Publish(c, t) PROVE SInv'
  BY <1>1, <1>0, <1>t, UnchangedSlots, Zenon DEF Publish, SInv, runnerVars, groupVars, queueVars
<1>2. CASE PublishInstalls(c)
  <2>0. created \in Nat /\ created + 1 \in Pushers
    BY <1>2, BoundsAssumption DEF PublishInstalls, Pushers, SInv, TInv, TypeOK, RunnerTypeOK
  <2>p. PICK p \in Pushers : p = created + 1
    BY <2>0
  <2>1. p > created /\ ~Alive(p)
    BY <2>0, <2>p DEF SInv, FreshUnborn
  <2>2. \A m \in Members : member[p][m] = "off"
    BY <2>1 DEF SInv, GroupRuns, Running, Alive
  <2>3. \A p2 \in Pushers : tenantOf[p2] = dest[c] => ~Alive(p2)
    <3> SUFFICES ASSUME NEW p2 \in Pushers, tenantOf[p2] = dest[c], Alive(p2) PROVE FALSE
      OBVIOUS
    <3>1. h[p2] = None /\ h[p2].p = p2
      BY <1>2 DEF PublishInstalls, SlotFree, SInv, SlotOwnership
    <3> QED  BY <3>1 DEF None, Pushers
  <2>4. \A p2 \in Pushers : p2 # p => /\ (Alive(p2)' <=> Alive(p2))
                                      /\ h'[p2] = h[p2] /\ tenantOf'[p2] = tenantOf[p2]
    BY <1>2, <2>p DEF PublishInstalls, Alive, SInv, TInv, TypeOK, RunnerTypeOK
  <2>5. /\ Alive(p)' /\ tenantOf'[p] = dest[c] /\ h'[p] = TenantPusher(p)
        /\ TenantPusher(p).p = p /\ dest[c] \in Tenants
        /\ handlers' = [handlers EXCEPT ![dest[c]] = TenantPusher(p)]
    <3>1. dest[c] \in Tenants
      BY DEF SInv, TInv, TypeOK, ClientTypeOK
    <3>2. tenantOf'[p] = dest[c] /\ h'[p] = TenantPusher(p) /\ pc'[p] = "run"
      BY <1>2, <2>p DEF PublishInstalls, SInv, TInv, TypeOK, RunnerTypeOK
    <3>3. handlers' = [handlers EXCEPT ![dest[c]] = TenantPusher(p)]
      BY <1>2, <2>p DEF PublishInstalls
    <3> QED  BY <3>1, <3>2, <3>3 DEF Alive, TenantPusher
  <2>6. SlotOwnership'
    <3>1. ASSUME NEW p2 \in Pushers, Alive(p2)'
          PROVE  (handlers[tenantOf[p2]] = h[p2] /\ h[p2].p = p2)'
      <4>1. CASE p2 = p
        BY <4>1, <2>5 DEF SInv, TInv, TypeOK, RunnerTypeOK
      <4>2. CASE p2 # p
        <5>1. Alive(p2) /\ tenantOf[p2] # dest[c] /\ tenantOf[p2] \in Tenants
          BY <3>1, <4>2, <2>3, <2>4 DEF SInv, TInv, TypeOK, RunnerTypeOK
        <5>2. handlers[tenantOf[p2]] = h[p2] /\ h[p2].p = p2
          BY <5>1 DEF SInv, SlotOwnership
        <5> QED  BY <5>1, <5>2, <4>2, <2>4, <2>5 DEF SInv, TInv, TypeOK, RunnerTypeOK
      <4> QED  BY <4>1, <4>2
    <3>2. ASSUME NEW t \in Tenants, handlers'[t] # None
          PROVE  \E p2 \in Pushers : (Alive(p2) /\ tenantOf[p2] = t /\ h[p2] = handlers[t])'
      <4>1. CASE t = dest[c]
        BY <4>1, <2>1, <2>5 DEF SInv, TInv, TypeOK, RunnerTypeOK
      <4>2. CASE t # dest[c]
        <5>1. handlers'[t] = handlers[t]
          BY <4>2, <2>5 DEF SInv, TInv, TypeOK, RunnerTypeOK
        <5>2. PICK p2 \in Pushers : Alive(p2) /\ tenantOf[p2] = t /\ h[p2] = handlers[t]
          BY <3>2, <5>1 DEF SInv, SlotOwnership
        <5>3. p2 # p
          BY <5>2, <2>1
        <5> QED  BY <5>1, <5>2, <5>3, <2>4
      <4> QED  BY <4>1, <4>2
    <3> QED  BY <3>1, <3>2 DEF SlotOwnership
  <2>7. NextOwn'
    BY <1>2, <2>p DEF PublishInstalls, NextOwn, SInv, TInv, TypeOK, RunnerTypeOK
  <2>8. FreshUnborn'
    BY <1>2, <2>0, <2>p, <2>4 DEF PublishInstalls, FreshUnborn, SInv, Pushers
  <2>9. GroupRuns'
    <3>1. member' = member
      BY <1>2 DEF PublishInstalls, groupVars
    <3>2. ASSUME NEW p2 \in Pushers, p2 # p PROVE pc'[p2] = pc[p2] /\ h'[p2] = h[p2]
      <4>1. pc' = [pc EXCEPT ![p] = "run"]
        BY <1>2, <2>p DEF PublishInstalls
      <4>2. pc \in [Pushers -> {"unborn", "run", "swap", "done"}]
        BY Zenon DEF SInv, TInv, TypeOK, RunnerTypeOK
      <4> QED  BY <2>4, <3>2, <4>1, <4>2
    <3>3. ASSUME NEW p2 \in Pushers, NEW m \in Members, member'[p2][m] # "off"
          PROVE  Running(p2, "tenant")'
      <4>1. p2 # p
        BY <2>2, <3>1, <3>3
      <4>2. Running(p2, "tenant")
        BY <3>1, <3>3, Zenon DEF SInv, GroupRuns
      <4> QED  BY <3>2, <4>1, <4>2 DEF Running
    <3> QED  BY <3>3 DEF GroupRuns
  <2>10. FlightUp'
    BY <1>2 DEF PublishInstalls, FlightUp, SInv, groupVars, queueVars
  <2> QED  BY <1>2, <1>t, <2>6, <2>7, <2>8, <2>9, <2>10 DEF SInv, ClientStep
<1>3. CASE PublishAdopts(c)
  BY <1>3, <1>0, <1>t, UnchangedSlots, Zenon
     DEF PublishAdopts, SInv, runnerVars, groupVars, queueVars, ClientStep
<1>4. CASE publishDiscards(c)
  BY <1>4, <1>0, <1>t, UnchangedSlots
     DEF publishDiscards, SInv, runnerVars, groupVars, queueVars, ClientStep
<1>5. CASE publishCounts(c)
  BY <1>5, <1>0, <1>t, UnchangedSlots
     DEF publishCounts, SInv, runnerVars, groupVars, queueVars, ClientStep
<1>6. ASSUME NEW q \in Queues, publishInserts(c, q) PROVE SInv'
  BY <1>6, <1>0, <1>t, UnchangedSlots, Zenon
     DEF publishInserts, SInv, runnerVars, groupVars, queueVars, ClientStep
<1> QED  BY <1>1, <1>2, <1>3, <1>4, <1>5, <1>6 DEF ClientStep

\* runHandler always finds its own handler in the slot.
LEMMA SwapSucceeds ==
  ASSUME SInv, NEW p \in Pushers, Swap(p)
  PROVE  handlers[tenantOf[p]] = h[p]
BY DEF SInv, SlotOwnership, Swap, Alive

LEMMA SwapSInv ==
  ASSUME SInv, NEW p \in Pushers, Swap(p)
  PROVE  SInv'
<1> DEFINE t0 == tenantOf[p]
<1>1. /\ handlers' = [handlers EXCEPT ![t0] = next[p]]
      /\ h' = [h EXCEPT ![p] = next[p]]
      /\ pc' = [pc EXCEPT ![p] = IF next[p] # None THEN "run" ELSE "done"]
  BY SwapSucceeds, Zenon DEF Swap
<1>2. /\ pc[p] = "swap" /\ Alive(p) /\ t0 \in Tenants
      /\ (next[p] = None \/ next[p].p = p)
      /\ UNCHANGED <<created, tenantOf, member, flight>>
  BY DEF Swap, Alive, SInv, NextOwn, TInv, TypeOK, RunnerTypeOK, groupVars, queueVars
<1>3. \A p2 \in Pushers : p2 # p => /\ (Alive(p2)' <=> Alive(p2)) /\ h'[p2] = h[p2]
                                    /\ (Alive(p2) => tenantOf[p2] # t0)
  BY <1>1, <1>2, RunnerUnique DEF Alive, SInv, TInv, TypeOK, RunnerTypeOK
<1>4. (Alive(p)' <=> next[p] # None) /\ h'[p] = next[p]
  BY <1>1 DEF Alive, SInv, TInv, TypeOK, RunnerTypeOK
<1>5. \A t \in Tenants : handlers'[t] = IF t = t0 THEN next[p] ELSE handlers[t]
  BY <1>1 DEF SInv, TInv, TypeOK, RunnerTypeOK
<1>6. SlotOwnership'
  <2>1. ASSUME NEW p2 \in Pushers, Alive(p2)'
        PROVE  (handlers[tenantOf[p2]] = h[p2] /\ h[p2].p = p2)'
    <3>1. CASE p2 = p
      BY <2>1, <3>1, <1>2, <1>4, <1>5
    <3>2. CASE p2 # p
      <4>1. Alive(p2) /\ h'[p2] = h[p2] /\ tenantOf[p2] # t0 /\ tenantOf'[p2] = tenantOf[p2]
        BY <2>1, <3>2, <1>2, <1>3
      <4>2. handlers[tenantOf[p2]] = h[p2] /\ h[p2].p = p2
        BY <4>1 DEF SInv, SlotOwnership
      <4>3. tenantOf[p2] \in Tenants
        BY DEF SInv, TInv, TypeOK, RunnerTypeOK
      <4>4. handlers'[tenantOf[p2]] = handlers[tenantOf[p2]]
        BY <1>5, <4>1, <4>3
      <4> QED  BY <4>1, <4>2, <4>4
    <3> QED  BY <3>1, <3>2
  <2>2. ASSUME NEW t \in Tenants, handlers'[t] # None
        PROVE  \E p2 \in Pushers : (Alive(p2) /\ tenantOf[p2] = t /\ h[p2] = handlers[t])'
    <3>1. CASE t = t0
      BY <2>2, <3>1, <1>2, <1>4, <1>5
    <3>2. CASE t # t0
      <4>1. PICK p2 \in Pushers : Alive(p2) /\ tenantOf[p2] = t /\ h[p2] = handlers[t]
        BY <2>2, <3>2, <1>5 DEF SInv, SlotOwnership
      <4> QED  BY <4>1, <3>2, <1>2, <1>3, <1>5
    <3> QED  BY <3>1, <3>2
  <2> QED  BY <2>1, <2>2 DEF SlotOwnership
<1>7. NextOwn'
  BY <1>1 DEF Swap, SInv, NextOwn, TInv, TypeOK, RunnerTypeOK
<1>8. FreshUnborn'
  BY <1>2, <1>3 DEF SInv, FreshUnborn
<1>9. FlightUp'
  BY <1>1, <1>2 DEF SInv, FlightUp
<1>10. GroupRuns'
  <2>1. \A p2 \in Pushers : Running(p2, "tenant") => Running(p2, "tenant")'
    BY <1>1, <1>2, <1>3 DEF Running, SInv, TInv, TypeOK, RunnerTypeOK
  <2> QED  BY <1>1, <1>2, <2>1 DEF SInv, GroupRuns
<1>11. TInv'
  BY RunnerStepTInv DEF SInv, RunnerStep
<1> QED  BY <1>6, <1>7, <1>8, <1>9, <1>10, <1>11 DEF SInv

\* One goroutine of a group goes on, or returns with nothing in flight.
LEMMA MemberSInv ==
  ASSUME SInv, NEW p \in Pushers, NEW m \in Members, NEW s \in {"off", "up"},
         member[p][m] # "off", member' = [member EXCEPT ![p][m] = s],
         m \in Queues => flight'[p][m] = {} \/ s = "up",
         \A p2 \in Pushers, q \in Queues : flight'[p2][q] # {} => flight[p2][q] # {},
         UNCHANGED <<handlers, created, tenantOf, runnerVars>>, TInv'
  PROVE  SInv'
<1>0. \A p2 \in Pushers, m2 \in Members : member'[p2][m2] # "off" => member[p2][m2] # "off"
  BY DEF SInv, TInv, TypeOK, GroupTypeOK
<1>1. GroupRuns'
  BY <1>0 DEF SInv, GroupRuns, Running, runnerVars
<1>2. FlightUp'
  <2> SUFFICES ASSUME NEW p2 \in Pushers, NEW q \in Queues, flight'[p2][q] # {}
               PROVE  member'[p2][q] = "up"
    BY DEF FlightUp
  <2>1. member[p2][q] = "up"
    BY Zenon DEF SInv, FlightUp
  <2>2. member \in [Pushers -> [Members -> {"off", "start", "up"}]] /\ q \in Members
    BY Zenon DEF SInv, TInv, TypeOK, GroupTypeOK, Members
  <2>3. CASE p2 = p /\ q = m
    BY <2>2, <2>3
  <2>4. CASE p2 # p \/ q # m
    BY <2>1, <2>2, <2>4
  <2> QED  BY <2>3, <2>4
<1> QED  BY <1>1, <1>2, UnchangedSlots DEF SInv

LEMMA RunnerStepSInv ==
  ASSUME SInv, NEW p \in Pushers, RunnerStep(p)
  PROVE  SInv'
<1>0. TInv'
  BY RunnerStepTInv DEF SInv
<1>f. UNCHANGED <<member, flight>> => FlightUp'
  BY DEF SInv, FlightUp
<1>off. Running(p, "delay") \/ Running(p, "discard") => member[p] = AllOff
  BY DEF SInv, GroupRuns, Running, AllOff, TInv, TypeOK, GroupTypeOK
<1>own. \A n \in Nat : /\ TenantPusher(p).p = p /\ DelayPusher(p, n).p = p
                       /\ DiscardPusher(p, n).p = p
  BY DEF TenantPusher, DelayPusher, DiscardPusher
<1>1. CASE Swap(p)
  BY <1>1, SwapSInv
<1>2. CASE delayRun(p)
  BY <1>2, <1>0, <1>f, <1>off, <1>own, RunReturnsSlots, RunReturnsGroup, Zenon
     DEF delayRun, delayResults, Running, groupVars, queueVars, SInv
<1>3. CASE discardRun(p)
  BY <1>3, <1>0, <1>f, <1>off, RunReturnsSlots, RunReturnsGroup, Zenon
     DEF discardRun, discardResult, Running, groupVars, queueVars, SInv
<1>4. CASE GetTenantFails(p)
  <2>1. runs[p] + 1 \in Nat
    BY DEF SInv, TInv, TypeOK, GroupTypeOK
  <2> QED  BY <1>4, <1>0, <1>f, <1>own, <2>1, RunReturnsSlots, RunReturnsGroup
              DEF GetTenantFails, Starting, Running, queueVars, SInv
<1>5. CASE runPushers(p)
  <2>1. GroupRuns'
    BY <1>5 DEF runPushers, Starting, Running, SInv, GroupRuns, runnerVars, TInv, TypeOK, GroupTypeOK
  <2>2. FlightUp'
    BY <1>5 DEF runPushers, Starting, AllOff, SInv, FlightUp, queueVars, TInv, TypeOK, GroupTypeOK, Members
  <2> QED  BY <1>5, <1>0, <2>1, <2>2, UnchangedSlots DEF runPushers, SInv
<1>6. CASE runReturns(p)
  <2>1. NextHandler(p) = None \/ NextHandler(p).p = p
    <3>1. runs[p] \in Nat
      BY DEF SInv, TInv, TypeOK, GroupTypeOK
    <3> QED  BY <3>1, <1>own DEF NextHandler
  <2> QED  BY <1>6, <1>0, <1>f, <2>1, RunReturnsSlots, RunReturnsGroup, Zenon
              DEF runReturns, GroupReturned, Running, queueVars, SInv
<1>7. ASSUME NEW m \in Members, MemberUp(p, m) PROVE SInv'
  BY <1>7, <1>0, MemberSInv, Zenon DEF MemberUp, queueVars
<1>8. ASSUME NEW m \in Members, MemberCtxDone(p, m) PROVE SInv'
  BY <1>8, <1>0, MemberSInv, Zenon DEF MemberCtxDone, MemberReturns, queueVars
<1> QED  BY <1>1, <1>2, <1>3, <1>4, <1>5, <1>6, <1>7, <1>8 DEF RunnerStep

LEMMA CheckerSInv ==
  ASSUME SInv, NEW p \in Pushers, idleChecker(p) \/ maxLifetimeChecker(p)
  PROVE  SInv'
<1>0. TInv'
  BY CheckerTInv DEF SInv
<1>1. CASE idleChecker(p) /\ pushCounter[p] = lastValue[p]
  BY <1>1, <1>0, MemberSInv DEF idleChecker, MemberReturns, queueVars, Members, Queues
<1>2. CASE idleChecker(p) /\ pushCounter[p] # lastValue[p]
  <2>1. UNCHANGED <<member, flight, pc, h>>
    BY <1>2, Zenon DEF idleChecker, runnerVars, queueVars
  <2>2. GroupRuns'
    BY <2>1 DEF SInv, GroupRuns, Running
  <2>3. FlightUp'
    BY <2>1 DEF SInv, FlightUp
  <2> QED  BY <1>2, <1>0, <2>2, <2>3, UnchangedSlots, Zenon DEF idleChecker, SInv
<1>3. CASE maxLifetimeChecker(p)
  BY <1>3, <1>0, MemberSInv, Zenon DEF maxLifetimeChecker, MemberReturns, queueVars, Members, Queues
<1> QED  BY <1>1, <1>2, <1>3

LEMMA QueueStepSInv ==
  ASSUME SInv, NEW p \in Pushers, NEW q \in Queues, QueueStep(p, q)
  PROVE  SInv'
<1>0. TInv' /\ q \in Members
  BY QueueStepTInv DEF SInv, Members
<1>g. UNCHANGED <<member, runnerVars>> => GroupRuns'
  BY DEF SInv, GroupRuns, Running, runnerVars
<1>1. CASE PushStartFails(p, q)
  <2>1. flight[p][q] = {}
    BY <1>1 DEF PushStartFails, SInv, FlightUp
  <2> QED  BY <1>1, <1>0, <2>1, MemberSInv, Zenon DEF PushStartFails, MemberReturns, queueVars
<1>2. CASE Take(p, q)
  <2>0. /\ member' = member /\ member[p][q] = "up"
        /\ \A p2 \in Pushers, r \in Queues : p2 # p \/ r # q => flight'[p2][r] = flight[p2][r]
    <3>1. member' = member /\ member[p][q] = "up"
      BY <1>2 DEF Take, groupVars
    <3>2. PICK batch : flight' = [flight EXCEPT ![p][q] = batch]
      BY <1>2, Zenon DEF Take
    <3>3. flight \in [Pushers -> [Queues -> SUBSET Payloads]]
      BY Zenon DEF SInv, TInv, TypeOK, QueueTypeOK
    <3> QED  BY <3>1, <3>2, <3>3
  <2>1. FlightUp'
    BY <2>0 DEF SInv, FlightUp
  <2> QED  BY <1>2, <1>0, <1>g, <2>1, UnchangedSlots DEF Take, SInv, groupVars
<1>3. CASE Settle(p, q)
  <2>1. FlightUp'
    BY <1>3 DEF Settle, SInv, FlightUp, groupVars, TInv, TypeOK, QueueTypeOK
  <2> QED  BY <1>3, <1>0, <1>g, <2>1, UnchangedSlots DEF Settle, SInv, groupVars
<1>4. CASE Requeue(p, q)
  <2>1. FlightUp'
    BY <1>4, Zenon DEF Requeue, SInv, FlightUp, groupVars, TInv, TypeOK, QueueTypeOK
  <2> QED  BY <1>4, <1>0, <1>g, <2>1, UnchangedSlots DEF Requeue, SInv, groupVars
<1>5. CASE PushEnds(p, q)
  <2>1. /\ member[p][q] # "off" /\ flight'[p][q] = {}
        /\ \A p2 \in Pushers, q2 \in Queues : flight'[p2][q2] # {} => flight[p2][q2] # {}
    BY <1>5 DEF PushEnds, SInv, FlightUp, TInv, TypeOK, QueueTypeOK
  <2> QED  BY <1>5, <1>0, <2>1, MemberSInv, Zenon DEF PushEnds, EndKinds, MemberReturns
<1> QED  BY <1>1, <1>2, <1>3, <1>4, <1>5 DEF QueueStep

LEMMA NextSInv == SInv /\ [Next]_vars => SInv'
<1> SUFFICES ASSUME SInv, [Next]_vars PROVE SInv'
  OBVIOUS
<1>1. CASE Shutdown \/ UNCHANGED vars
  <2>1. TInv'
    BY <1>1, NextTInv DEF SInv, Next
  <2>2. UNCHANGED <<handlers, created, tenantOf, runnerVars, groupVars, queueVars>>
    BY <1>1 DEF Shutdown, vars
  <2>3. GroupRuns'
    BY <2>2 DEF SInv, GroupRuns, Running, runnerVars, groupVars
  <2>4. FlightUp'
    BY <2>2 DEF SInv, FlightUp, groupVars, queueVars
  <2> QED  BY <2>1, <2>2, <2>3, <2>4, UnchangedSlots DEF SInv
<1> QED  BY <1>1, ClientStepSInv, RunnerStepSInv, CheckerSInv, QueueStepSInv DEF Next

LEMMA SpecSInv == Spec => []SInv
BY InitSInv, NextSInv, PTL DEF Spec

\* For any number of tenants, clients and payloads, slots and runHandler
\* goroutines match one to one: no tenant has two runners, and no handler that
\* Publish finds is without one.
THEOREM SlotsAreOwned == Spec => []SlotOwnership
<1>1. SInv => SlotOwnership
  BY DEF SInv
<1> QED  BY <1>1, SpecSInv, PTL

\* A tenant never has two remote writes of one type in progress, not even one
\* of an old pusher and one of its successor.
THEOREM WritersAreUnique == Spec => []OneWriterPerTenant
<1>1. SInv => OneWriterPerTenant
  <2> SUFFICES ASSUME SInv, NEW p1 \in Pushers, NEW p2 \in Pushers, NEW q \in Queues,
                      flight[p1][q] # {}, flight[p2][q] # {}, tenantOf[p1] = tenantOf[p2]
               PROVE  p1 = p2
    BY DEF OneWriterPerTenant
  <2>1. Alive(p1) /\ Alive(p2)
    BY DEF SInv, FlightUp, GroupRuns, Running, Alive, Members
  <2> QED  BY <2>1, RunnerUnique
<1> QED  BY <1>1, SpecSInv, PTL

\* "unable to swap handler, tenant hijacked" (publisher.go:78) is never logged:
\* whenever a runner swaps handlers the slot holds its own.
NeverHijacked == [][ \A p \in Pushers : Swap(p) => handlers[tenantOf[p]] = h[p] ]_vars

THEOREM SwapsSucceed == Spec => NeverHijacked
<1>1. SInv /\ [Next]_vars => [ \A p \in Pushers : Swap(p) => handlers[tenantOf[p]] = h[p] ]_vars
  BY SwapSucceeds
<1> QED  BY <1>1, SpecSInv, PTL DEF Spec, NeverHijacked

-----------------------------------------------------------------------------
(* The slots implement TenantSlots.                                        *)

\* What a runner is about to install is a legal successor of what it ran.
NextAllowed ==
  \A p \in Pushers : pc[p] = "swap" => <<h[p].kind, next[p].kind>> \in Slots!Arrows

\* A run that returns n leaves NextAllowed true if n is a legal successor.
LEMMA RunReturnsAllowed ==
  ASSUME TInv, NextAllowed, NEW p \in Pushers, NEW n, RunReturns(p, n),
         <<h[p].kind, n.kind>> \in Slots!Arrows, UNCHANGED h
  PROVE  NextAllowed'
BY DEF RunReturns, NextAllowed, TInv, TypeOK, RunnerTypeOK

LEMMA NextAllowedInductive == TInv /\ NextAllowed /\ [Next]_vars => NextAllowed'
<1> SUFFICES ASSUME TInv, NextAllowed, [Next]_vars PROVE NextAllowed'
  OBVIOUS
<1>0. UNCHANGED runnerVars => NextAllowed'
  BY DEF runnerVars, NextAllowed
<1>1. ASSUME NEW c \in Clients, PublishInstalls(c) PROVE NextAllowed'
  BY <1>1 DEF PublishInstalls, NextAllowed, TInv, TypeOK, RunnerTypeOK
<1>2. ASSUME NEW p \in Pushers, Swap(p) PROVE NextAllowed'
  BY <1>2 DEF Swap, NextAllowed, TInv, TypeOK, RunnerTypeOK
<1>3. ASSUME NEW p \in Pushers, delayRun(p) PROVE NextAllowed'
  BY <1>3, RunReturnsAllowed DEF delayRun, delayResults, Running, Slots!Arrows,
     TenantPusher, None
<1>4. ASSUME NEW p \in Pushers, discardRun(p) PROVE NextAllowed'
  BY <1>4, RunReturnsAllowed DEF discardRun, discardResult, Running, Slots!Arrows, None
<1>5. ASSUME NEW p \in Pushers, GetTenantFails(p) PROVE NextAllowed'
  BY <1>5, RunReturnsAllowed DEF GetTenantFails, Starting, Running, Slots!Arrows, DiscardPusher
<1>6. ASSUME NEW p \in Pushers, runReturns(p) PROVE NextAllowed'
  <2>1. NextHandler(p).kind \in {"delay", "discard", "none"}
    BY DEF NextHandler, DelayPusher, DiscardPusher, None
  <2> QED  BY <1>6, <2>1, RunReturnsAllowed DEF runReturns, Running, Slots!Arrows
<1>7. ASSUME NEW c \in Clients,
             \/ \E t \in Tenants : Publish(c, t)
             \/ PublishAdopts(c) \/ publishDiscards(c) \/ publishCounts(c)
             \/ \E q \in Queues : publishInserts(c, q)
      PROVE  NextAllowed'
  BY <1>7, <1>0 DEF Publish, PublishAdopts, publishDiscards, publishCounts, publishInserts
<1>8. ASSUME NEW p \in Pushers,
             \/ runPushers(p) \/ idleChecker(p) \/ maxLifetimeChecker(p)
             \/ \E m \in Members : MemberUp(p, m) \/ MemberCtxDone(p, m)
             \/ \E q \in Queues : QueueStep(p, q)
      PROVE  NextAllowed'
  BY <1>8, <1>0, Zenon DEF runPushers, idleChecker, maxLifetimeChecker, MemberUp, MemberCtxDone,
     QueueStep, PushStartFails, Take, Settle, Requeue, PushEnds
<1>9. CASE Shutdown \/ UNCHANGED vars
  BY <1>9, <1>0 DEF Shutdown, vars
<1> QED  BY <1>1, <1>2, <1>3, <1>4, <1>5, <1>6, <1>7, <1>8, <1>9
            DEF Next, ClientStep, RunnerStep

\* A step of the publisher moves at most one slot, along an arrow.
LEMMA SlotStep == SInv /\ NextAllowed /\ [Next]_vars => [Slots!Next]_SlotKind
<1> SUFFICES ASSUME SInv, NextAllowed, [Next]_vars, handlers' # handlers
             PROVE  Slots!Next
  BY DEF SlotKind
<1>0. handlers \in [Tenants -> Handler \cup {None}]
  BY DEF SInv, TInv, TypeOK, RunnerTypeOK
<1>1. ASSUME NEW t \in Tenants, NEW n, handlers' = [handlers EXCEPT ![t] = n],
             <<handlers[t].kind, n.kind>> \in Slots!Arrows
      PROVE  Slots!Next
  <2>1. SlotKind' = [SlotKind EXCEPT ![t] = n.kind]
    BY <1>0, <1>1, Zenon DEF SlotKind
  <2>2. SlotKind[t] = handlers[t].kind
    BY DEF SlotKind
  <2>3. PICK a \in Slots!Arrows : a = <<handlers[t].kind, n.kind>>
    BY <1>1
  <2>4. SlotKind[t] = a[1] /\ SlotKind' = [SlotKind EXCEPT ![t] = a[2]]
    BY <2>1, <2>2, <2>3
  <2>5. Slots!Move(t)
    BY <2>4, Zenon DEF Slots!Move
  <2> QED  BY <2>5 DEF Slots!Next
<1>2. ASSUME NEW c \in Clients, PublishInstalls(c) PROVE Slots!Next
  <2>1. /\ dest[c] \in Tenants /\ handlers[dest[c]].kind = "none"
        /\ TenantPusher(created + 1).kind = "tenant"
    <3>1. dest[c] \in Tenants
      BY DEF SInv, TInv, TypeOK, ClientTypeOK
    <3>2. handlers[dest[c]] = None
      BY <1>2, Zenon DEF PublishInstalls, SlotFree
    <3>3. None.kind = "none"
      BY DEF None
    <3>4. TenantPusher(created + 1).kind = "tenant"
      BY DEF TenantPusher
    <3> QED  BY <3>1, <3>2, <3>3, <3>4, Zenon
  <2> QED  BY <1>1, <1>2, <2>1, Zenon DEF PublishInstalls, Slots!Arrows
<1>3. ASSUME NEW p \in Pushers, Swap(p) PROVE Slots!Next
  <2>1. /\ tenantOf[p] \in Tenants /\ handlers[tenantOf[p]] = h[p]
        /\ handlers' = [handlers EXCEPT ![tenantOf[p]] = next[p]]
        /\ <<h[p].kind, next[p].kind>> \in Slots!Arrows
    BY <1>3, SwapSucceeds, Zenon DEF Swap, NextAllowed, SInv, TInv, TypeOK, RunnerTypeOK
  <2> QED  BY <1>1, <2>1, Zenon
<1>4. ASSUME NEW c \in Clients, ClientStep(c) PROVE Slots!Next
  BY <1>2, <1>4 DEF ClientStep, PublishAdopts, publishDiscards, publishCounts, publishInserts
<1>5. ASSUME NEW p \in Pushers, RunnerStep(p) PROVE Slots!Next
  <2>1. Swap(p)
    BY <1>5 DEF RunnerStep, delayRun, discardRun, GetTenantFails, runPushers, runReturns,
       MemberUp, MemberCtxDone
  <2> QED  BY <1>3, <2>1
<1>6. ~\E c \in Clients, t \in Tenants : Publish(c, t)
  BY DEF Publish
<1>7. ~\E p \in Pushers : idleChecker(p) \/ maxLifetimeChecker(p)
  BY Zenon DEF idleChecker, maxLifetimeChecker
<1>8. ~\E p \in Pushers, q \in Queues : QueueStep(p, q)
  <2> SUFFICES ASSUME NEW p \in Pushers, NEW q \in Queues, QueueStep(p, q) PROVE handlers' = handlers
    OBVIOUS
  <2>1. CASE PushStartFails(p, q) \/ Take(p, q) \/ Settle(p, q)
    BY <2>1 DEF PushStartFails, Take, Settle
  <2>2. CASE Requeue(p, q) \/ PushEnds(p, q)
    BY <2>2 DEF Requeue, PushEnds
  <2> QED  BY <2>1, <2>2 DEF QueueStep
<1>9. ~Shutdown /\ ~UNCHANGED vars
  BY DEF Shutdown, vars
<1> QED  BY <1>4, <1>5, <1>6, <1>7, <1>8, <1>9 DEF Next

\* The publisher implements the slot state machine for any number of tenants:
\* a fatal error is sat out before the tenant gets another pusher.
THEOREM ImplementsSlots == Spec => SlotsSpec
<1>1. Init => Slots!Init
  <2>1. None.kind = "none"
    BY DEF None
  <2> HIDE DEF None
  <2> QED  BY <2>1 DEF Init, Slots!Init, SlotKind
<1>2. Init => NextAllowed
  BY DEF Init, NextAllowed
<1>3. SInv => TInv
  BY DEF SInv
<1> QED  BY <1>1, <1>2, <1>3, NextAllowedInductive, SlotStep, SpecSInv, PTL
            DEF Spec, SlotsSpec, Slots!Spec
=============================================================================
