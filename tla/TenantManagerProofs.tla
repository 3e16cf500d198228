------------------------- MODULE TenantManagerProofs -------------------------
(***************************************************************************)
(* Proofs about the tenant manager (module TenantManager), for any number  *)
(* of callers, any times and any faults of the cache: what is cached and   *)
(* what GetTenant returns never goes back in time, and a valid entry has a *)
(* token.                                                                  *)
(***************************************************************************)
EXTENDS TenantManager, TLAPS

Holding == {"recheck", "fetch", "store"}
Entry == [tenant : Tenant, validUntil : Nat, expires : Nat]

\* The mutex has one holder.
Exclusion == \A c, d \in Callers : step[c] \in Holding /\ step[d] \in Holding => c = d

\* Nothing the agent has is newer than the API.
ApiIsNewest ==
  /\ cache.tenant.modified <= apiTenant.modified
  /\ \A t \in pushed : t.modified <= apiTenant.modified

\* An answer that is about to be stored is not older than what it replaces: who
\* holds the mutex asked after the entry was stored.
AnswerIsNewer ==
  \A c \in Callers : step[c] = "store" =>
    /\ cache.tenant.modified <= answer[c].modified
    /\ answer[c].modified <= apiTenant.modified

\* An entry that a call has seen is still there, or there is a newer one.
FloorIsCached ==
  \A c \in Callers : floor[c] # 0 => Present /\ floor[c] <= cache.tenant.modified

\* So is the entry that a call falls back to when its request fails.
StaleIsNewer ==
  \A c \in Callers : step[c] = "fetch" /\ cached[c] # NotCached =>
    floor[c] <= cached[c].tenant.modified

\* ValidHasToken, told of the time until which an entry is valid.
TokenLasts(entry, now) ==
  entry # NoEntry /\ entry.validUntil > now /\ entry.tenant.store = "set" =>
    /\ entry.tenant.token # 0
    /\ entry.tenant.expiry # 0 =>
         \/ entry.validUntil + MaxScriptedTimeout <= entry.tenant.expiry
         \/ entry.validUntil = entry.tenant.expiry

TenantsInv ==
  /\ TenantsTypeOK /\ Exclusion /\ ApiIsNewest /\ AnswerIsNewer /\ FloorIsCached
  /\ StaleIsNewer /\ NeverOlderAnswer /\ TokenLasts(cache, clock)

\* The times calculateValidUntil gives are times, and such that the token lasts.
LEMMA ValidUntil ==
  ASSUME NEW t \in Tenant, NEW u \in calculateValidUntil(t), clock \in 0..MaxClock
  PROVE  /\ u \in Nat
         /\ u > clock /\ t.store = "set" =>
              /\ t.token # 0
              /\ t.expiry # 0 => u + MaxScriptedTimeout <= t.expiry \/ u = t.expiry
  BY TenantsAssumption DEF Tenant, calculateValidUntil, isSecretStoreConfigured, Least

\* What cache.Set leaves.
LEMMA PutEntry ==
  ASSUME NEW t \in Tenant, NEW u \in calculateValidUntil(t), clock \in 0..MaxClock, Put(t, u)
  PROVE  /\ cache' \in Entry /\ cache'.tenant = t /\ cache' # NoEntry
         /\ clock < cache'.expires /\ TokenLasts(cache', clock)
  <1>1. /\ u \in Nat
        /\ u > clock /\ t.store = "set" =>
             /\ t.token # 0
             /\ t.expiry # 0 => u + MaxScriptedTimeout <= t.expiry \/ u = t.expiry
    BY ValidUntil
  <1> DEFINE e == IF TTL = 0 THEN Never ELSE clock + TTL
  <1>2. e \in Nat /\ clock < e
    BY TenantsAssumption DEF Never
  <1>3. cache' = [tenant |-> t, validUntil |-> u, expires |-> e]
    BY DEF Put
  <1> HIDE DEF e
  <1>4. cache'.tenant = t /\ cache'.validUntil = u /\ cache'.expires = e /\ cache' \in Entry
    BY <1>1, <1>2, <1>3 DEF Entry
  <1>5. cache' # NoEntry
    BY <1>2, <1>4 DEF NoEntry
  <1> QED
    BY <1>1, <1>2, <1>4, <1>5 DEF TokenLasts

\* What cache.Get leaves in its destination has the stamp of the entry.
LEMMA Decoded ==
  ASSUME NEW data \in Entry, NEW dest \in [tenant : Tenant, validUntil : Nat]
  PROVE  /\ decode(data, dest) \in [tenant : Tenant, validUntil : Nat]
         /\ decode(data, dest).tenant.modified = data.tenant.modified
  BY DEF decode, Entry, Tenant

\* The API answers with a tenant of its current stamp.
LEMMA ApiAnswers ==
  ASSUME TenantsTypeOK
  PROVE  ApiAnswer \in Tenant /\ ApiAnswer.modified = apiTenant.modified
  BY TenantsAssumption DEF TenantsTypeOK, ApiAnswer, Tenant

\* The invariant holds initially.
LEMMA TenantsInitInv == TenantsInit => TenantsInv
  <1> SUFFICES ASSUME TenantsInit PROVE TenantsInv
    OBVIOUS
  <1>1. TenantsTypeOK
    BY TenantsAssumption DEF TenantsInit, TenantsTypeOK, NoEntry, NotCached, NoTenant, Tenant,
                             Steps, Origins
  <1>2. /\ Exclusion /\ ApiIsNewest /\ AnswerIsNewer /\ FloorIsCached
        /\ StaleIsNewer /\ NeverOlderAnswer /\ TokenLasts(cache, clock)
    BY <1>1 DEF TenantsInit, TenantsTypeOK, Exclusion, Holding, ApiIsNewest, AnswerIsNewer,
                FloorIsCached, StaleIsNewer, NeverOlderAnswer, TokenLasts, NoEntry, NoTenant
  <1> QED
    BY <1>1, <1>2 DEF TenantsInv

------------------------------------------------------------------------------
(* Each action preserves the invariant                                     *)

\* The API's tenant only gets newer.
LEMMA ApiChangeInv ==
  ASSUME TenantsInv, ApiChange
  PROVE  TenantsInv'
  <1>1. TenantsTypeOK'
    BY TenantsAssumption DEF TenantsInv, TenantsTypeOK, callVars, ApiChange
  <1>2. /\ apiTenant.modified \in Nat /\ apiTenant'.modified = apiTenant.modified + 1
        /\ UNCHANGED <<clock, pushed, cache, faults, step, began, cached, answer, origin, floor>>
    BY DEF TenantsInv, TenantsTypeOK, ApiChange, callVars
  <1>3. ApiIsNewest' /\ AnswerIsNewer'
    BY <1>2 DEF TenantsInv, TenantsTypeOK, Tenant, ApiIsNewest, AnswerIsNewer
  <1>4. /\ Exclusion' /\ FloorIsCached' /\ StaleIsNewer' /\ NeverOlderAnswer'
        /\ TokenLasts(cache, clock)'
    BY <1>2 DEF TenantsInv, Exclusion, FloorIsCached, StaleIsNewer, NeverOlderAnswer,
                TokenLasts, Present
  <1> QED
    BY <1>1, <1>3, <1>4 DEF TenantsInv

\* What is pushed is what the API has.
LEMMA ApiPushInv ==
  ASSUME TenantsInv, ApiPush
  PROVE  TenantsInv'
  <1>1. TenantsTypeOK'
    BY TenantsAssumption, ApiAnswers
    DEF TenantsInv, TenantsTypeOK, callVars, ApiPush
  <1>2. /\ Exclusion' /\ ApiIsNewest' /\ AnswerIsNewer' /\ FloorIsCached'
        /\ StaleIsNewer' /\ NeverOlderAnswer' /\ TokenLasts(cache, clock)'
    BY TenantsAssumption, ApiAnswers
    DEF TenantsInv, TenantsTypeOK, Exclusion, Holding, ApiIsNewest, AnswerIsNewer,
                FloorIsCached, StaleIsNewer, NeverOlderAnswer, TokenLasts, Present, callVars, ApiPush
  <1> QED
    BY <1>1, <1>2 DEF TenantsInv

\* A lost entry lowers every floor.
LEMMA EvictInv ==
  ASSUME TenantsInv, Evict
  PROVE  TenantsInv'
  <1>1. TenantsTypeOK'
    BY TenantsAssumption
    DEF TenantsInv, TenantsTypeOK, callVars, Evict, Fault, NoFloor, NoEntry, NoTenant, Tenant
  <1>2. /\ Exclusion' /\ ApiIsNewest' /\ AnswerIsNewer' /\ FloorIsCached'
        /\ StaleIsNewer' /\ NeverOlderAnswer' /\ TokenLasts(cache, clock)'
    BY TenantsAssumption
    DEF TenantsInv, TenantsTypeOK, Exclusion, Holding, ApiIsNewest, AnswerIsNewer,
                FloorIsCached, StaleIsNewer, NeverOlderAnswer, TokenLasts, Present, callVars, Evict, NoFloor, NoEntry, NoTenant, Tenant
  <1> QED
    BY <1>1, <1>2 DEF TenantsInv

\* Time ends entries, and lowers the floors with them.
LEMMA TickInv ==
  ASSUME TenantsInv, TenantsTick
  PROVE  TenantsInv'
  <1>1. TenantsTypeOK'
    BY TenantsAssumption
    DEF TenantsInv, TenantsTypeOK, callVars, TenantsTick, NoFloor
  <1>2. /\ Exclusion' /\ ApiIsNewest' /\ AnswerIsNewer' /\ FloorIsCached'
        /\ StaleIsNewer' /\ NeverOlderAnswer' /\ TokenLasts(cache, clock)'
    BY TenantsAssumption
    DEF TenantsInv, TenantsTypeOK, Exclusion, Holding, ApiIsNewest, AnswerIsNewer,
                FloorIsCached, StaleIsNewer, NeverOlderAnswer, TokenLasts, Present, callVars, TenantsTick, NoFloor, Tenant
  <1> QED
    BY <1>1, <1>2 DEF TenantsInv

\* The mutex is free when it is taken.
LEMMA LockInv ==
  ASSUME TenantsInv, NEW c \in Callers, Lock(c)
  PROVE  TenantsInv'
  <1>1. TenantsTypeOK'
    BY TenantsAssumption
    DEF TenantsInv, TenantsTypeOK, callVars, Lock, Steps
  <1>2. /\ Exclusion' /\ ApiIsNewest' /\ AnswerIsNewer' /\ FloorIsCached'
        /\ StaleIsNewer' /\ NeverOlderAnswer' /\ TokenLasts(cache, clock)'
    BY TenantsAssumption
    DEF TenantsInv, TenantsTypeOK, Exclusion, Holding, ApiIsNewest, AnswerIsNewer,
                FloorIsCached, StaleIsNewer, NeverOlderAnswer, TokenLasts, Present, callVars, Lock, MutexFree
  <1> QED
    BY <1>1, <1>2 DEF TenantsInv

\* The API's answer is as new as anything.
LEMMA FetchedInv ==
  ASSUME TenantsInv, NEW c \in Callers, Fetched(c)
  PROVE  TenantsInv'
  <1>1. TenantsTypeOK'
    BY TenantsAssumption, ApiAnswers
    DEF TenantsInv, TenantsTypeOK, callVars, Fetched, Steps, NotCached, NoTenant, Tenant
  <1>2. /\ Exclusion' /\ ApiIsNewest' /\ AnswerIsNewer' /\ FloorIsCached'
        /\ StaleIsNewer' /\ NeverOlderAnswer' /\ TokenLasts(cache, clock)'
    BY TenantsAssumption, ApiAnswers
    DEF TenantsInv, TenantsTypeOK, Exclusion, Holding, ApiIsNewest, AnswerIsNewer,
                FloorIsCached, StaleIsNewer, NeverOlderAnswer, TokenLasts, Present, callVars, Fetched
  <1> QED
    BY <1>1, <1>2 DEF TenantsInv

\* A caller forgets the answer.
LEMMA CallAgainInv ==
  ASSUME TenantsInv, NEW c \in Callers, CallAgain(c)
  PROVE  TenantsInv'
  <1>1. TenantsTypeOK'
    BY TenantsAssumption
    DEF TenantsInv, TenantsTypeOK, callVars, CallAgain, Steps, Origins, NoTenant, Tenant
  <1>2. /\ Exclusion' /\ ApiIsNewest' /\ AnswerIsNewer' /\ FloorIsCached'
        /\ StaleIsNewer' /\ NeverOlderAnswer' /\ TokenLasts(cache, clock)'
    BY TenantsAssumption
    DEF TenantsInv, TenantsTypeOK, Exclusion, Holding, ApiIsNewest, AnswerIsNewer,
                FloorIsCached, StaleIsNewer, NeverOlderAnswer, TokenLasts, Present, callVars, CallAgain
  <1> QED
    BY <1>1, <1>2 DEF TenantsInv

\* What a call that returns leaves of its variables.
LEMMA Returned ==
  ASSUME TenantsInv, NEW c \in Callers, NEW t \in Tenant, NEW from \in Origins,
         Returns(c, t, from)
  PROVE  /\ step' \in [Callers -> Steps] /\ began' \in [Callers -> Nat]
         /\ cached' \in [Callers -> [tenant : Tenant, validUntil : Nat]]
         /\ answer' \in [Callers -> Tenant] /\ origin' \in [Callers -> Origins]
         /\ step'[c] = "done" /\ answer'[c] = t /\ origin'[c] = from
         /\ \A d \in Callers \ {c} : /\ step'[d] = step[d] /\ cached'[d] = cached[d]
                                     /\ answer'[d] = answer[d] /\ origin'[d] = origin[d]
  <1>1. NotCached \in [tenant : Tenant, validUntil : Nat]
    BY DEF NotCached, NoTenant, Tenant
  <1> QED
    BY <1>1 DEF TenantsInv, TenantsTypeOK, Returns, Steps

\* A request that fails falls back to an entry that is new enough.
LEMMA FetchFailedInv ==
  ASSUME TenantsInv, NEW c \in Callers, FetchFailed(c)
  PROVE  TenantsInv'
  <1>1. PICK t \in Tenant, from \in Origins :
          Returns(c, t, from) /\ (from # "error" => floor[c] <= t.modified)
    <2>1. CASE cached[c] # NotCached
      <3>1. Returns(c, cached[c].tenant, "stale") /\ floor[c] <= cached[c].tenant.modified
        BY <2>1 DEF TenantsInv, StaleIsNewer, FetchFailed
      <3>2. cached[c].tenant \in Tenant /\ "stale" \in Origins
        BY DEF TenantsInv, TenantsTypeOK, Origins
      <3> QED
        BY <3>1, <3>2
    <2>2. CASE cached[c] = NotCached
      <3>1. Returns(c, NoTenant, "error") /\ NoTenant \in Tenant /\ "error" \in Origins
        BY <2>2 DEF FetchFailed, NoTenant, Tenant, Origins
      <3> QED
        BY <3>1
    <2> QED
      BY <2>1, <2>2
  <1>2. UNCHANGED <<clock, apiTenant, pushed, cache, faults, floor>>
    BY DEF FetchFailed
  <1>3. /\ step'[c] = "done" /\ answer'[c] = t /\ origin'[c] = from
        /\ \A d \in Callers \ {c} : /\ step'[d] = step[d] /\ cached'[d] = cached[d]
                                    /\ answer'[d] = answer[d] /\ origin'[d] = origin[d]
    BY <1>1, Returned
  <1>4. TenantsTypeOK'
    BY <1>1, <1>2, Returned DEF TenantsInv, TenantsTypeOK
  <1>5. Exclusion'
    BY <1>3 DEF TenantsInv, Exclusion, Holding
  <1>6. ApiIsNewest' /\ FloorIsCached' /\ TokenLasts(cache, clock)'
    BY <1>2 DEF TenantsInv, ApiIsNewest, FloorIsCached, TokenLasts, Present
  <1>7. AnswerIsNewer' /\ StaleIsNewer'
    BY <1>2, <1>3 DEF TenantsInv, AnswerIsNewer, StaleIsNewer
  <1>8. NeverOlderAnswer'
    BY <1>1, <1>2, <1>3 DEF TenantsInv, TenantsTypeOK, Tenant, NeverOlderAnswer
  <1> QED
    BY <1>4, <1>5, <1>6, <1>7, <1>8 DEF TenantsInv

\* cache.Get, into a destination of the right type.
LEMMA Got ==
  ASSUME TenantsInv, NEW dest \in [tenant : Tenant, validUntil : Nat],
         NEW found \in {"hit", "miss"}, NEW out, Get(dest, found, out)
  PROVE  /\ faults' \in Nat /\ out \in [tenant : Tenant, validUntil : Nat]
         /\ found = "hit" => Present /\ out.tenant.modified = cache.tenant.modified
  <1>1. faults \in Nat /\ cache \in Entry
    BY DEF TenantsInv, TenantsTypeOK, Entry
  <1> QED
    BY <1>1, Decoded DEF Get, Fault

\* The first look at the cache: a call's floor is the entry it could read.
LEMMA GetCachedInv ==
  ASSUME TenantsInv, NEW c \in Callers, GetCached(c)
  PROVE  TenantsInv'
  <1>1. NotCached \in [tenant : Tenant, validUntil : Nat]
    BY DEF NotCached, NoTenant, Tenant
  <1>2. PICK found \in {"hit", "miss"}, out \in {NotCached, decode(cache, NotCached)} :
          /\ Get(NotCached, found, out)
          /\ IF found = "hit" /\ out.validUntil > clock
             THEN Returns(c, out.tenant, "cache")
             ELSE /\ step' = [step EXCEPT ![c] = "lock"]
                  /\ began' = [began EXCEPT ![c] = clock]
                  /\ cached' = [cached EXCEPT ![c] = out]
                  /\ UNCHANGED <<answer, origin>>
    BY DEF GetCached
  <1>3. /\ UNCHANGED <<clock, apiTenant, pushed, cache>>
        /\ floor' = [floor EXCEPT ![c] = IF Present THEN cache.tenant.modified ELSE 0]
        /\ floor \in [Callers -> Nat] /\ cache.tenant.modified \in Nat
    BY DEF GetCached, TenantsInv, TenantsTypeOK, Tenant
  <1>4. /\ floor' \in [Callers -> Nat]
        /\ floor'[c] # 0 => Present /\ floor'[c] <= cache.tenant.modified
        /\ \A d \in Callers \ {c} : floor'[d] = floor[d]
    BY <1>3
  <1>5. /\ faults' \in Nat /\ out \in [tenant : Tenant, validUntil : Nat]
        /\ found = "hit" => Present /\ out.tenant.modified = cache.tenant.modified
    BY <1>1, <1>2, Got
  <1>6. /\ TenantsTypeOK'
        /\ step'[c] = "lock" \/ (step'[c] = "done" /\ floor'[c] <= answer'[c].modified)
        /\ \A d \in Callers \ {c} : /\ step'[d] = step[d] /\ cached'[d] = cached[d]
                                    /\ answer'[d] = answer[d] /\ origin'[d] = origin[d]
    <2>1. CASE found = "hit" /\ out.validUntil > clock
      <3>1. Returns(c, out.tenant, "cache") /\ out.tenant \in Tenant /\ "cache" \in Origins
        BY <1>2, <1>5, <2>1 DEF Origins
      <3>2. floor'[c] = out.tenant.modified
        BY <1>3, <1>5, <2>1
      <3>3. TenantsTypeOK'
        BY <1>3, <1>4, <1>5, <3>1, Returned DEF TenantsInv, TenantsTypeOK
      <3> QED
        BY <1>3, <3>1, <3>2, <3>3, Returned
    <2>2. CASE ~(found = "hit" /\ out.validUntil > clock)
      <3>1. /\ step' = [step EXCEPT ![c] = "lock"] /\ began' = [began EXCEPT ![c] = clock]
            /\ cached' = [cached EXCEPT ![c] = out] /\ UNCHANGED <<answer, origin>>
        BY <1>2, <2>2
      <3>2. TenantsTypeOK'
        BY <1>3, <1>4, <1>5, <3>1 DEF TenantsInv, TenantsTypeOK, Steps
      <3> QED
        BY <3>1, <3>2 DEF TenantsInv, TenantsTypeOK
    <2> QED
      BY <2>1, <2>2
  <1>7. Exclusion'
    BY <1>6 DEF TenantsInv, Exclusion, Holding
  <1>8. ApiIsNewest' /\ TokenLasts(cache, clock)'
    BY <1>3 DEF TenantsInv, ApiIsNewest, TokenLasts
  <1>9. FloorIsCached'
    BY <1>3, <1>4 DEF TenantsInv, FloorIsCached, Present
  <1>10. AnswerIsNewer' /\ StaleIsNewer'
    BY <1>3, <1>4, <1>6 DEF TenantsInv, AnswerIsNewer, StaleIsNewer
  <1>11. NeverOlderAnswer'
    BY <1>4, <1>6 DEF TenantsInv, NeverOlderAnswer
  <1> QED
    BY <1>6, <1>7, <1>8, <1>9, <1>10, <1>11 DEF TenantsInv

\* The second look, with the mutex: what it finds is not below the floor.
LEMMA GetAgainInv ==
  ASSUME TenantsInv, NEW c \in Callers, GetAgain(c)
  PROVE  TenantsInv'
  <1>1. /\ cached[c] \in [tenant : Tenant, validUntil : Nat] /\ floor[c] \in Nat
        /\ NotCached \in [tenant : Tenant, validUntil : Nat] /\ cache.tenant.modified \in Nat
    BY DEF TenantsInv, TenantsTypeOK, NotCached, NoTenant, Tenant
  <1>2. PICK found \in {"hit", "miss"}, out \in {cached[c], decode(cache, cached[c])} :
          /\ Get(cached[c], found, out)
          /\ IF found = "hit" /\ out.validUntil > began[c]
             THEN Returns(c, out.tenant, "cache")
             ELSE /\ step' = [step EXCEPT ![c] = "fetch"]
                  /\ began' = [began EXCEPT ![c] = 0]
                  /\ cached' = [cached EXCEPT ![c] = IF found = "hit" THEN out ELSE NotCached]
                  /\ UNCHANGED <<answer, origin>>
    BY DEF GetAgain
  <1>3. step[c] = "recheck" /\ UNCHANGED <<clock, apiTenant, pushed, cache, floor>>
    BY DEF GetAgain
  <1>4. /\ faults' \in Nat /\ out \in [tenant : Tenant, validUntil : Nat]
        /\ found = "hit" => floor[c] <= out.tenant.modified
    <2>1. /\ faults' \in Nat /\ out \in [tenant : Tenant, validUntil : Nat]
          /\ found = "hit" => out.tenant.modified = cache.tenant.modified
      BY <1>1, <1>2, Got
    <2> QED
      BY <1>1, <2>1 DEF TenantsInv, FloorIsCached
  <1>5. /\ TenantsTypeOK'
        /\ \/ step'[c] = "done" /\ floor[c] <= answer'[c].modified
           \/ step'[c] = "fetch" /\ (cached'[c] # NotCached => floor[c] <= cached'[c].tenant.modified)
        /\ \A d \in Callers \ {c} : /\ step'[d] = step[d] /\ cached'[d] = cached[d]
                                    /\ answer'[d] = answer[d] /\ origin'[d] = origin[d]
    <2>1. CASE found = "hit" /\ out.validUntil > began[c]
      <3>1. Returns(c, out.tenant, "cache") /\ out.tenant \in Tenant /\ "cache" \in Origins
        BY <1>2, <1>4, <2>1 DEF Origins
      <3>2. TenantsTypeOK'
        BY <1>3, <1>4, <3>1, Returned DEF TenantsInv, TenantsTypeOK
      <3> QED
        BY <1>4, <2>1, <3>1, <3>2, Returned
    <2>2. CASE ~(found = "hit" /\ out.validUntil > began[c])
      <3>1. PICK kept \in {out, NotCached} :
              /\ step' = [step EXCEPT ![c] = "fetch"] /\ began' = [began EXCEPT ![c] = 0]
              /\ cached' = [cached EXCEPT ![c] = kept] /\ UNCHANGED <<answer, origin>>
              /\ kept = NotCached \/ found = "hit"
        BY <1>2, <2>2
      <3>2. TenantsTypeOK'
        BY <1>1, <1>3, <1>4, <3>1 DEF TenantsInv, TenantsTypeOK, Steps
      <3> QED
        BY <1>4, <3>1, <3>2 DEF TenantsInv, TenantsTypeOK
    <2> QED
      BY <2>1, <2>2
  <1>6. Exclusion'
    BY <1>3, <1>5 DEF TenantsInv, Exclusion, Holding
  <1>7. ApiIsNewest' /\ TokenLasts(cache, clock)' /\ FloorIsCached'
    BY <1>3 DEF TenantsInv, ApiIsNewest, TokenLasts, FloorIsCached, Present
  <1>8. AnswerIsNewer' /\ StaleIsNewer'
    BY <1>3, <1>5 DEF TenantsInv, AnswerIsNewer, StaleIsNewer
  <1>9. NeverOlderAnswer'
    BY <1>3, <1>5 DEF TenantsInv, NeverOlderAnswer
  <1> QED
    BY <1>5, <1>6, <1>7, <1>8, <1>9 DEF TenantsInv

\* An answer is stored over an entry that is not newer.
LEMMA StoreInv ==
  ASSUME TenantsInv, NEW c \in Callers, Store(c)
  PROVE  TenantsInv'
  <1>1. /\ answer[c] \in Tenant /\ answer[c].modified \in Nat /\ cache.tenant.modified \in Nat
        /\ clock \in 0..MaxClock /\ faults \in Nat /\ floor \in [Callers -> Nat]
        /\ apiTenant.modified \in Nat
    BY DEF TenantsInv, TenantsTypeOK, Tenant
  <1>2. /\ step[c] = "store" /\ UNCHANGED <<clock, apiTenant, pushed, floor>>
        /\ Returns(c, answer[c], "api") /\ "api" \in Origins
    BY DEF Store, Origins
  <1>3. /\ cache.tenant.modified <= answer[c].modified
        /\ answer[c].modified <= apiTenant.modified
    BY <1>2 DEF TenantsInv, AnswerIsNewer
  <1>4. PICK u \in calculateValidUntil(answer[c]) : Set(answer[c], u)
    BY DEF Store
  <1>5. /\ cache' \in Entry /\ faults' \in Nat /\ TokenLasts(cache', clock)
        /\ cache.tenant.modified <= cache'.tenant.modified
        /\ cache'.tenant.modified <= answer[c].modified
        /\ cache' = cache \/ (cache' # NoEntry /\ clock < cache'.expires)
    <2>1. CASE Put(answer[c], u) /\ UNCHANGED faults
      BY <1>1, <1>3, <1>4, <2>1, PutEntry
    <2>2. CASE Fault /\ UNCHANGED cache
      BY <1>1, <1>3, <2>2 DEF TenantsInv, TenantsTypeOK, Entry, Fault
    <2> QED
      BY <1>4, <2>1, <2>2 DEF Set
  <1>6. /\ step'[c] = "done" /\ answer'[c] = answer[c]
        /\ \A d \in Callers \ {c} : /\ step'[d] = step[d] /\ cached'[d] = cached[d]
                                    /\ answer'[d] = answer[d] /\ origin'[d] = origin[d]
    BY <1>1, <1>2, Returned
  <1>7. TenantsTypeOK'
    BY <1>1, <1>2, <1>5, Returned DEF TenantsInv, TenantsTypeOK, Entry
  <1>8. Exclusion'
    BY <1>6 DEF TenantsInv, Exclusion, Holding
  <1>9. ApiIsNewest' /\ TokenLasts(cache, clock)'
    <2>1. cache'.tenant.modified \in Nat
      BY <1>5 DEF Entry, Tenant
    <2>2. cache'.tenant.modified <= apiTenant.modified
      BY <1>1, <1>3, <1>5, <2>1
    <2> QED
      BY <1>2, <1>5, <2>2 DEF TenantsInv, ApiIsNewest, TokenLasts
  <1>10. FloorIsCached'
    BY <1>1, <1>2, <1>5 DEF TenantsInv, FloorIsCached, Present, Entry, Tenant
  <1>11. AnswerIsNewer' /\ StaleIsNewer'
    BY <1>2, <1>6 DEF TenantsInv, AnswerIsNewer, StaleIsNewer, Exclusion, Holding
  <1>12. NeverOlderAnswer'
    <2>1. floor[c] <= answer[c].modified
      BY <1>1, <1>3 DEF TenantsInv, FloorIsCached
    <2> QED
      BY <1>2, <1>6, <2>1 DEF TenantsInv, NeverOlderAnswer
  <1> QED
    BY <1>7, <1>8, <1>9, <1>10, <1>11, <1>12 DEF TenantsInv

\* A pushed tenant is stored when it is newer than the entry, or when there is
\* none to compare it with; then no floor is left.
LEMMA UpdateTenantInv ==
  ASSUME TenantsInv, NEW t \in pushed, updateTenant(t)
  PROVE  TenantsInv'
  <1>1. /\ t \in Tenant /\ t.modified \in Nat /\ cache.tenant.modified \in Nat
        /\ clock \in 0..MaxClock /\ faults \in Nat /\ floor \in [Callers -> Nat]
        /\ apiTenant.modified \in Nat /\ t.modified <= apiTenant.modified /\ cache \in Entry
    BY DEF TenantsInv, TenantsTypeOK, Tenant, ApiIsNewest, Entry
  <1>2. /\ MutexFree /\ pushed' = pushed \ {t}
        /\ UNCHANGED <<clock, apiTenant, step, began, cached, answer, origin>>
    BY DEF updateTenant, callVars
  <1>3. /\ cache' \in Entry /\ faults' \in Nat /\ TokenLasts(cache', clock)
        /\ cache'.tenant.modified <= apiTenant.modified
        /\ \/ floor' = floor /\ cache' = cache
           \/ floor' = NoFloor
           \/ /\ floor' = floor /\ cache' # NoEntry /\ clock < cache'.expires
              /\ Present => cache.tenant.modified <= cache'.tenant.modified
    <2>1. ASSUME NEW u \in calculateValidUntil(t), Put(t, u)
          PROVE  /\ cache' \in Entry /\ cache'.tenant = t /\ cache' # NoEntry
                 /\ clock < cache'.expires /\ TokenLasts(cache', clock)
      BY <1>1, <2>1, PutEntry
    <2>2. TokenLasts(cache, clock) /\ cache.tenant.modified <= apiTenant.modified
      BY DEF TenantsInv, ApiIsNewest
    <2>3. CASE UNCHANGED <<cache, faults, floor>>
      BY <1>1, <2>2, <2>3
    <2>4. CASE /\ ~(Present /\ cache.tenant.modified >= t.modified) /\ UNCHANGED floor
               /\ \E u \in calculateValidUntil(t) : Set(t, u)
      <3>1. PICK u \in calculateValidUntil(t) : Set(t, u)
        BY <2>4
      <3>2. CASE Put(t, u) /\ UNCHANGED faults
        <4>1. Present => cache.tenant.modified <= t.modified
          BY <1>1, <2>4
        <4> QED
          BY <1>1, <2>1, <2>4, <3>2, <4>1
      <3>3. CASE Fault /\ UNCHANGED cache
        BY <1>1, <2>2, <2>4, <3>3 DEF Fault
      <3> QED
        BY <3>1, <3>2, <3>3 DEF Set
    <2>5. CASE /\ Fault /\ floor' = NoFloor
               /\ \E u \in calculateValidUntil(t) : Put(t, u)
      BY <1>1, <2>1, <2>5 DEF Fault
    <2> QED
      BY <2>3, <2>4, <2>5 DEF updateTenant
  <1>4. floor' \in [Callers -> Nat] /\ \A d \in Callers : floor'[d] <= floor[d]
    BY <1>1, <1>3 DEF NoFloor
  <1>5. TenantsTypeOK'
    BY <1>1, <1>2, <1>3, <1>4 DEF TenantsInv, TenantsTypeOK, Entry
  <1>6. Exclusion'
    BY <1>2 DEF TenantsInv, Exclusion
  <1>7. ApiIsNewest' /\ TokenLasts(cache, clock)'
    BY <1>2, <1>3 DEF TenantsInv, ApiIsNewest, TokenLasts
  <1>8. FloorIsCached'
    BY <1>1, <1>2, <1>3, <1>4 DEF TenantsInv, FloorIsCached, Present, NoFloor, Entry, Tenant
  <1>9. AnswerIsNewer' /\ StaleIsNewer'
    BY <1>2 DEF AnswerIsNewer, StaleIsNewer, MutexFree
  <1>10. NeverOlderAnswer'
    <2> SUFFICES ASSUME NEW d \in Callers, step[d] = "done", origin[d] # "error"
                 PROVE  floor'[d] <= answer[d].modified
      BY <1>2 DEF NeverOlderAnswer
    <2>1. floor[d] <= answer[d].modified /\ answer[d].modified \in Nat
      BY DEF TenantsInv, TenantsTypeOK, Tenant, NeverOlderAnswer
    <2> QED
      BY <1>1, <1>4, <2>1
  <1> QED
    BY <1>5, <1>6, <1>7, <1>8, <1>9, <1>10 DEF TenantsInv

\* The invariant is preserved by every step.
LEMMA TenantsStepInv == TenantsInv /\ [TenantsNext]_tenantVars => TenantsInv'
  <1> SUFFICES ASSUME TenantsInv, [TenantsNext]_tenantVars PROVE TenantsInv'
    OBVIOUS
  <1>1. CASE UNCHANGED tenantVars
    BY <1>1 DEF TenantsInv, TenantsTypeOK, Exclusion, ApiIsNewest, AnswerIsNewer, FloorIsCached,
                StaleIsNewer, NeverOlderAnswer, TokenLasts, Present, tenantVars, callVars
  <1>2. ASSUME NEW c \in Callers, GetTenant(c) PROVE TenantsInv'
    BY <1>2, GetCachedInv, LockInv, GetAgainInv, FetchedInv, FetchFailedInv, StoreInv, Zenon
    DEF GetTenant
  <1> QED
    BY <1>1, <1>2, ApiChangeInv, ApiPushInv, EvictInv, TickInv, UpdateTenantInv, CallAgainInv, Zenon
    DEF TenantsNext

------------------------------------------------------------------------------

\* The invariant always holds.
LEMMA TenantsInvariant == TenantsSpec => []TenantsInv
  BY TenantsInitInv, TenantsStepInv, PTL DEF TenantsSpec

\* The variables keep their types.
THEOREM TenantsTypeCorrect == TenantsSpec => []TenantsTypeOK
  <1>1. TenantsInv => TenantsTypeOK
    BY DEF TenantsInv
  <1> QED
    BY <1>1, TenantsInvariant, PTL

\* Whatever path GetTenant takes, it returns nothing older than the entry it
\* could have read when it was called.
THEOREM AnswersNeverOlder == TenantsSpec => []NeverOlderAnswer
  <1>1. TenantsInv => NeverOlderAnswer
    BY DEF TenantsInv
  <1> QED
    BY <1>1, TenantsInvariant, PTL

\* A valid entry's token outlasts the longest script, unless it came too short.
THEOREM TokensLast == TenantsSpec => []ValidHasToken
  <1>1. TenantsInv => ValidHasToken
    BY TenantsAssumption DEF TenantsInv, TenantsTypeOK, TokenLasts, ValidHasToken, Tenant
  <1> QED
    BY <1>1, TenantsInvariant, PTL

\* Pushes and fetches, in any order, never replace an entry by an older one.
THEOREM CacheOnlyAdvances == TenantsSpec => CacheNeverOlder
  <1>1. TenantsInv /\ [TenantsNext]_tenantVars =>
          [Present /\ cache' # NoEntry /\ faults' = faults
             => cache'.tenant.modified >= cache.tenant.modified]_tenantVars
    <2> SUFFICES ASSUME TenantsInv, TenantsNext, Present, cache' # NoEntry, faults' = faults
                 PROVE  cache'.tenant.modified >= cache.tenant.modified
      OBVIOUS
    <2>1. cache.tenant.modified \in Nat /\ faults \in Nat /\ ~Fault
      BY DEF TenantsInv, TenantsTypeOK, Tenant, Fault
    <2>2. ASSUME NEW t \in pushed, updateTenant(t)
          PROVE  cache'.tenant.modified >= cache.tenant.modified
      <3>1. t.modified \in Nat
        BY DEF TenantsInv, TenantsTypeOK, Tenant
      <3> QED
        BY <2>1, <2>2, <3>1 DEF updateTenant, Set, Put
    <2>3. ASSUME NEW c \in Callers, Store(c)
          PROVE  cache'.tenant.modified >= cache.tenant.modified
      <3>1. cache.tenant.modified <= answer[c].modified /\ answer[c].modified \in Nat
        BY <2>3 DEF TenantsInv, TenantsTypeOK, Tenant, AnswerIsNewer, Store
      <3>2. PICK u \in calculateValidUntil(answer[c]) : Set(answer[c], u)
        BY <2>3 DEF Store
      <3>3. Put(answer[c], u)
        BY <2>1, <3>2, Zenon DEF Set
      <3> QED
        BY <2>1, <3>1, <3>3 DEF Put
    <2>4. CASE cache' = cache
      BY <2>1, <2>4
    <2>5. ASSUME NEW c \in Callers, GetTenant(c), ~Store(c)
          PROVE  cache' = cache
      BY <2>5, Zenon DEF GetTenant, GetCached, Lock, GetAgain, Fetched, FetchFailed
    <2>6. ASSUME ApiChange \/ ApiPush \/ TenantsTick \/ \E c \in Callers : CallAgain(c)
          PROVE  cache' = cache
      BY <2>6, Zenon DEF ApiChange, ApiPush, TenantsTick, CallAgain
    <2>7. ~Evict
      BY <2>1 DEF Evict
    <2> QED
      BY <2>2, <2>3, <2>4, <2>5, <2>6, <2>7, Zenon DEF TenantsNext
  <1> QED
    BY <1>1, TenantsInvariant, PTL DEF TenantsSpec, CacheNeverOlder
==============================================================================
