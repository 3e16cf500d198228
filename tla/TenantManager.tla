---------------------------- MODULE TenantManager ----------------------------
(***************************************************************************)
(* The tenant manager (internal/tenants/manager.go) for one tenant, over   *)
(* the cache of internal/cache: goroutines that call GetTenant, the run    *)
(* goroutine that stores the tenants pushed on tenantCh, and the API they  *)
(* both come from.                                                         *)
(*                                                                         *)
(* A tenant is its Modified stamp and its secret store; a zero stands for  *)
(* an empty field. The cache serialises with gob, which does not send zero *)
(* fields and leaves the ones it does not receive as they are: decode.     *)
(***************************************************************************)
EXTENDS Integers, FiniteSets

CONSTANTS
  Callers,
  Timeout, Jitter,        \* NewManager's timeout, and the longest jitter
  MaxScriptedTimeout,
  TTL,                    \* of a cache entry stored without one; 0: none
  TokenLife,              \* for how long the API makes a store's token valid
  StoreKinds,             \* what secret stores the tenant may have
  MaxModified, MaxClock,  \* bounds: changes of the tenant, passing of time
  MaxPushed,              \* bound: tenants on their way to tenantCh
  MaxFaults               \* bound: failures of the cache

ASSUME TenantsAssumption ==
  /\ Timeout \in Nat /\ Jitter \in Nat /\ MaxScriptedTimeout \in Nat
  /\ TTL \in Nat /\ TokenLife \in Nat /\ MaxModified \in Nat \ {0}
  /\ MaxClock \in Nat /\ MaxPushed \in Nat /\ MaxFaults \in Nat
  /\ StoreKinds \subseteq {"nil", "incomplete", "lasting", "expiring"}
  /\ StoreKinds # {}

Tenant == [modified : Nat, store : {"nil", "set"}, token : Nat, expiry : Nat]
NoTenant == [modified |-> 0, store |-> "nil", token |-> 0, expiry |-> 0]
NotCached == [tenant |-> NoTenant, validUntil |-> 0]    \* a zero cachedTenant
NoEntry == [tenant |-> NoTenant, validUntil |-> 0, expires |-> 0]

VARIABLES
  clock,
  apiTenant,             \* Modified and kind of store of the tenant at the API
  pushed,                \* tenants sent to the agent, not yet handled
  cache,                 \* the tenant's entry
  faults,                \* of the cache, so far
  step, began, cached, answer, origin,  \* GetTenant, per caller
  floor                  \* Modified of the entry a call began with, unless lost

callVars == <<step, began, cached, answer, origin>>
tenantVars == <<clock, apiTenant, pushed, cache, faults, callVars, floor>>

Steps   == {"idle", "lock", "recheck", "fetch", "store", "done"}
Origins == {"none", "cache", "stale", "api", "error"}

\* The types.
TenantsTypeOK ==
  /\ clock \in 0..MaxClock /\ faults \in Nat
  /\ apiTenant \in [modified : Nat \ {0}, kind : StoreKinds]
  /\ pushed \subseteq Tenant
  /\ cache \in [tenant : Tenant, validUntil : Nat, expires : Nat]
  /\ step \in [Callers -> Steps] /\ began \in [Callers -> Nat]
  /\ cached \in [Callers -> [tenant : Tenant, validUntil : Nat]]
  /\ answer \in [Callers -> Tenant] /\ origin \in [Callers -> Origins]
  /\ floor \in [Callers -> Nat]

TenantsInit ==
  /\ clock = 0 /\ pushed = {} /\ cache = NoEntry /\ faults = 0
  /\ apiTenant \in [modified : {1}, kind : StoreKinds]
  /\ step = [c \in Callers |-> "idle"] /\ began = [c \in Callers |-> 0]
  /\ cached = [c \in Callers |-> NotCached]
  /\ answer = [c \in Callers |-> NoTenant] /\ origin = [c \in Callers |-> "none"]
  /\ floor = [c \in Callers |-> 0]

------------------------------------------------------------------------------
(* The API                                                                 *)

\* The tenant as the API sends it now: it mints the token of an expiring store.
ApiAnswer ==
  LET k == apiTenant.kind IN
  [modified |-> apiTenant.modified,
   store    |-> IF k = "nil" THEN "nil" ELSE "set",
   token    |-> IF k \in {"lasting", "expiring"} THEN apiTenant.modified ELSE 0,
   expiry   |-> IF k = "expiring" THEN clock + TokenLife ELSE 0]

\* The tenant changes.
ApiChange ==
  /\ apiTenant.modified < MaxModified
  /\ apiTenant' \in [modified : {apiTenant.modified + 1}, kind : StoreKinds]
  /\ UNCHANGED <<clock, pushed, cache, faults, callVars, floor>>

\* The API sends the tenant, with a batch of changes or with an ad hoc check.
ApiPush ==
  /\ Cardinality(pushed) < MaxPushed
  /\ pushed' = pushed \cup {ApiAnswer}
  /\ UNCHANGED <<clock, apiTenant, cache, faults, callVars, floor>>

------------------------------------------------------------------------------
(* The cache                                                               *)

Present == cache # NoEntry /\ clock < cache.expires
Never == MaxClock + 1
Fault == faults < MaxFaults /\ faults' = faults + 1

decode(data, dest) ==
  [tenant |->
     [modified |-> data.tenant.modified,
      store  |-> IF data.tenant.store = "nil" THEN dest.tenant.store ELSE "set",
      token  |-> IF data.tenant.token = 0 THEN dest.tenant.token ELSE data.tenant.token,
      expiry |-> IF data.tenant.expiry = 0 THEN dest.tenant.expiry ELSE data.tenant.expiry],
   validUntil |-> data.validUntil]

\* Get(dest, found, out): cache.Get into dest finds the entry or not, and leaves
\* out in dest.
Get(dest, found, out) ==
  \/ Present /\ found = "hit" /\ out = decode(cache, dest) /\ UNCHANGED faults
  \/ ~Present /\ found = "miss" /\ out = dest /\ UNCHANGED faults
  \/ Fault /\ found = "miss" /\ out = dest

\* cache.Set with expiration 0.
Put(t, validUntil) ==
  cache' = [tenant |-> t, validUntil |-> validUntil,
            expires |-> IF TTL = 0 THEN Never ELSE clock + TTL]
Set(t, validUntil) == \/ Put(t, validUntil) /\ UNCHANGED faults
                      \/ Fault /\ UNCHANGED cache

NoFloor == [c \in Callers |-> 0]

\* The entry is evicted, or the server that holds it restarts.
Evict ==
  /\ Fault /\ cache # NoEntry
  /\ cache' = NoEntry /\ floor' = NoFloor
  /\ UNCHANGED <<clock, apiTenant, pushed, callVars>>

\* Time passes, and may end the entry.
TenantsTick ==
  /\ clock < MaxClock /\ clock' = clock + 1
  /\ floor' = IF cache.expires <= clock' THEN NoFloor ELSE floor
  /\ UNCHANGED <<apiTenant, pushed, cache, faults, callVars>>

------------------------------------------------------------------------------
(* The manager                                                             *)

isSecretStoreConfigured(t) == t.store = "set" /\ t.token # 0

Mut_MutexFree == \A c \in Callers : step[c] \notin {"recheck", "fetch", "store", "done"}

\* getFetchMutex: who is past Lock holds it until the call returns.
MutexFree == \A c \in Callers : step[c] \notin {"recheck", "fetch", "store"}

Least(a, b) == IF a < b THEN a ELSE b

Mut_calculateValidUntil(t) ==
  {clock + Timeout + j : j \in 0..Jitter}

\* The times calculateValidUntil may give, one for each jitter.
calculateValidUntil(t) ==
  IF t.store = "set" /\ ~isSecretStoreConfigured(t) THEN {clock}
  ELSE IF t.store = "set" /\ t.expiry > 0
  THEN LET delta == t.expiry - clock IN
       {IF delta < 0 THEN clock
        ELSE IF delta < MaxScriptedTimeout THEN t.expiry
        ELSE clock + Least(delta - MaxScriptedTimeout, Timeout)}
  ELSE {clock + Timeout + j : j \in 0..Jitter}

Mut_updateTenant(t) ==
  /\ MutexFree
  /\ pushed' = pushed \ {t}
  /\ \E u \in calculateValidUntil(t) : Set(t, u)
  /\ UNCHANGED <<clock, apiTenant, callVars, floor>>

\* run receives a pushed tenant, in any order: the checks and the ad hoc
\* streams share tenantCh. updateTenant holds the mutex throughout, and stores
\* a tenant newer than the cached one, or one it could not compare.
updateTenant(t) ==
  LET skipped == Present /\ cache.tenant.modified >= t.modified IN
  /\ MutexFree
  /\ pushed' = pushed \ {t}
  /\ \/ skipped /\ UNCHANGED <<cache, faults, floor>>
     \/ /\ ~skipped /\ UNCHANGED floor
        /\ \E u \in calculateValidUntil(t) : Set(t, u)
     \/ /\ skipped /\ Fault /\ floor' = NoFloor
        /\ \E u \in calculateValidUntil(t) : Put(t, u)
  /\ UNCHANGED <<clock, apiTenant, callVars>>

\* Caller c's GetTenant returns t, and forgets its variables.
Returns(c, t, from) ==
  /\ step' = [step EXCEPT ![c] = "done"]
  /\ answer' = [answer EXCEPT ![c] = t] /\ origin' = [origin EXCEPT ![c] = from]
  /\ began' = [began EXCEPT ![c] = 0] /\ cached' = [cached EXCEPT ![c] = NotCached]

\* GetTenant reads the time, then the cache.
GetCached(c) ==
  /\ step[c] = "idle"
  /\ floor' = [floor EXCEPT ![c] = IF Present THEN cache.tenant.modified ELSE 0]
  /\ \E found \in {"hit", "miss"}, out \in {NotCached, decode(cache, NotCached)} :
       /\ Get(NotCached, found, out)
       /\ IF found = "hit" /\ out.validUntil > clock
          THEN Returns(c, out.tenant, "cache")
          ELSE /\ step' = [step EXCEPT ![c] = "lock"]
               /\ began' = [began EXCEPT ![c] = clock]
               /\ cached' = [cached EXCEPT ![c] = out]
               /\ UNCHANGED <<answer, origin>>
  /\ UNCHANGED <<clock, apiTenant, pushed, cache>>

Lock(c) ==
  /\ step[c] = "lock" /\ MutexFree
  /\ step' = [step EXCEPT ![c] = "recheck"]
  /\ UNCHANGED <<clock, apiTenant, pushed, cache, faults, began, cached,
                 answer, origin, floor>>

\* The second look at the cache, into the same variable and with the first
\* time. After a miss, nothing reads the variable again.
GetAgain(c) ==
  /\ step[c] = "recheck"
  /\ \E found \in {"hit", "miss"}, out \in {cached[c], decode(cache, cached[c])} :
       /\ Get(cached[c], found, out)
       /\ IF found = "hit" /\ out.validUntil > began[c]
          THEN Returns(c, out.tenant, "cache")
          ELSE /\ step' = [step EXCEPT ![c] = "fetch"]
               /\ began' = [began EXCEPT ![c] = 0]
               /\ cached' = [cached EXCEPT ![c] = IF found = "hit" THEN out ELSE NotCached]
               /\ UNCHANGED <<answer, origin>>
  /\ UNCHANGED <<clock, apiTenant, pushed, cache, floor>>

\* The API answers; its answer is on its way.
Fetched(c) ==
  /\ step[c] = "fetch"
  /\ step' = [step EXCEPT ![c] = "store"]
  /\ answer' = [answer EXCEPT ![c] = ApiAnswer]
  /\ cached' = [cached EXCEPT ![c] = NotCached]
  /\ UNCHANGED <<clock, apiTenant, pushed, cache, faults, began, origin, floor>>

Mut_FetchFailed(c) ==
  /\ step[c] = "fetch"
  /\ Returns(c, cached[c].tenant, "stale")
  /\ UNCHANGED <<clock, apiTenant, pushed, cache, faults, floor>>

\* The request fails, for any reason; what the cache still had is returned.
FetchFailed(c) ==
  /\ step[c] = "fetch"
  /\ IF cached[c] # NotCached THEN Returns(c, cached[c].tenant, "stale")
     ELSE Returns(c, NoTenant, "error")
  /\ UNCHANGED <<clock, apiTenant, pushed, cache, faults, floor>>

\* The answer is stored, whatever the cache holds, and returned.
Store(c) ==
  /\ step[c] = "store"
  /\ \E u \in calculateValidUntil(answer[c]) : Set(answer[c], u)
  /\ Returns(c, answer[c], "api")
  /\ UNCHANGED <<clock, apiTenant, pushed, floor>>

\* The caller is done with the answer, and may call again.
CallAgain(c) ==
  /\ step[c] = "done"
  /\ step' = [step EXCEPT ![c] = "idle"]
  /\ answer' = [answer EXCEPT ![c] = NoTenant]
  /\ origin' = [origin EXCEPT ![c] = "none"] /\ floor' = [floor EXCEPT ![c] = 0]
  /\ UNCHANGED <<clock, apiTenant, pushed, cache, faults, began, cached>>

GetTenant(c) == \/ GetCached(c) \/ Lock(c) \/ GetAgain(c) \/ Fetched(c)
                \/ FetchFailed(c) \/ Store(c)

TenantsNext ==
  \/ ApiChange \/ ApiPush \/ Evict \/ TenantsTick
  \/ \E t \in pushed : updateTenant(t)
  \/ \E c \in Callers : GetTenant(c) \/ CallAgain(c)

TenantsSpec == TenantsInit /\ [][TenantsNext]_tenantVars

\* The mutex hands over to those who wait, and a request ends with an answer
\* or with an error: gRPC's keep-alive sees to it.
TenantsFairness ==
  \A c \in Callers : /\ SF_tenantVars(Lock(c))
                     /\ WF_tenantVars(GetAgain(c)) /\ WF_tenantVars(Store(c))
                     /\ WF_tenantVars(Fetched(c) \/ FetchFailed(c))

------------------------------------------------------------------------------
(* Properties                                                              *)

\* A push and a fetch for the tenant, in any order and however late, never
\* replace what is cached by something older: updateTenant compares, and the
\* fetch, which does not, holds the mutex from before the API answers.
CacheNeverOlder ==
  [][Present /\ cache' # NoEntry /\ faults' = faults
       => cache'.tenant.modified >= cache.tenant.modified]_tenantVars

\* Whatever path GetTenant takes, it returns nothing older than the entry it
\* could have read when it was called, unless that entry was lost meanwhile.
NeverOlderAnswer ==
  \A c \in Callers : step[c] = "done" /\ origin[c] # "error"
                       => answer[c].modified >= floor[c]

\* While an entry counts as valid, a scripted check that uses its secret store
\* has a token, and one that lasts for the longest script, unless the token
\* was too short for that when it came: calculateValidUntil.
ValidHasToken ==
  LET t == cache.tenant IN
  cache # NoEntry /\ cache.validUntil > clock /\ t.store = "set"
    => /\ t.token # 0
       /\ t.expiry # 0 => \/ t.expiry - clock > MaxScriptedTimeout
                          \/ cache.validUntil = t.expiry

\* Calls end, though they queue for the mutex with one another and with the
\* pushed tenants.
CallsReturn == \A c \in Callers : step[c] = "lock" ~> step[c] = "done"
==============================================================================
