--------------------------- MODULE TelemetryProofs ---------------------------
(***************************************************************************)
(* Proofs, for any numbers of scrapers, keys, executions and ticks, that   *)
(* the telemetry of a region loses no execution (module Telemetry).        *)
(***************************************************************************)
EXTENDS Telemetry, TLAPS

\* A region has one pusher at most, the one in the map.
OnePusher ==
  /\ created = pusher
  /\ \A p \in Pushers : p # pusher =>
       telemetry[p] = NoCounts /\ message[p] = NoCounts /\ running[p] = "no"

\* A goroutine that reports an execution has counted it as started.
ReportsStarted == \A s \in Scrapers : reporting[s] # "idle" => started > 0

\* What was sent is what was counted, at some time before.
SentWasCounted == \A p \in Pushers : AtMost(message[p], telemetry[p])

\* What the shutdown owes was counted, and nothing is owed before it.
OwedWasCounted ==
  /\ AtMost(owed, executed)
  /\ telemetryCtx = "live" =>
       owed = NoCounts /\ \A p \in Pushers : running[p] \in {"no", "ticking"}

TelemetryInv ==
  /\ TelemetryTypeOK /\ OnePusher /\ ReportsStarted /\ NoExecutionLost
  /\ SentWasCounted /\ OwedWasCounted /\ FinalMessageComplete

\* The counters with one more execution of k.
More(f, k) == [f EXCEPT ![k] = @ + 1]

\* One more execution keeps counters counters, and never lowers them.
LEMMA MoreCounts ==
  ASSUME NEW f \in [Keys -> Nat], NEW k \in Keys
  PROVE  More(f, k) \in [Keys -> Nat] /\ AtMost(f, More(f, k))
  BY DEF More, AtMost

\* AtMost is transitive on counters.
LEMMA AtMostTrans ==
  ASSUME NEW f \in [Keys -> Nat], NEW g \in [Keys -> Nat], NEW d \in [Keys -> Nat],
         AtMost(f, g), AtMost(g, d)
  PROVE  AtMost(f, d)
  BY DEF AtMost

\* AtMost is reflexive, and no counters are below none.
LEMMA AtMostBasics ==
  ASSUME NEW f \in [Keys -> Nat]
  PROVE  AtMost(f, f) /\ AtMost(NoCounts, f) /\ NoCounts \in [Keys -> Nat]
  BY DEF AtMost, NoCounts

\* The invariant holds initially.
LEMMA TelemetryInitInv == TelemetryInit => TelemetryInv
  BY TelemetryAssumption, AtMostBasics
  DEF TelemetryInit, TelemetryInv, TelemetryTypeOK, OnePusher, ReportsStarted,
      NoExecutionLost, SentWasCounted, OwedWasCounted, FinalMessageComplete, NoCounts, AtMost,
      Pushers

\* What RegionPusher.AddExecution preserves, when the region has its pusher.
LEMMA CountPreserves ==
  ASSUME TelemetryInv, pusher # 0, NEW k \in Keys, Count(pusher, k),
         UNCHANGED <<pusher, created, running, message, owed>>
  PROVE  /\ telemetry' \in [Pushers -> [Keys -> Nat]] /\ executed' \in [Keys -> Nat]
         /\ telemetryCtx' \in {telemetryCtx, "crashed"}
         /\ OnePusher' /\ NoExecutionLost' /\ SentWasCounted' /\ OwedWasCounted'
         /\ FinalMessageComplete'
  <1>1. pusher \in Pushers /\ telemetry \in [Pushers -> [Keys -> Nat]]
        /\ message \in [Pushers -> [Keys -> Nat]] /\ executed \in [Keys -> Nat]
        /\ owed \in [Keys -> Nat] /\ executed = telemetry[pusher]
    <2>1. pusher \in Pushers
      BY TelemetryAssumption DEF TelemetryInv, TelemetryTypeOK, Pushers
    <2> QED
      BY <2>1, Zenon DEF TelemetryInv, TelemetryTypeOK, NoExecutionLost
  <1>2. telemetryCtx' \in {telemetryCtx, "crashed"}
    BY Zenon DEF Count
  <1>3. /\ telemetry' \in [Pushers -> [Keys -> Nat]] /\ executed' \in [Keys -> Nat]
        /\ AtMost(executed, executed')
        /\ telemetry'[pusher] = executed'
        /\ \A p \in Pushers : p # pusher => telemetry'[p] = telemetry[p]
    <2>1. CASE UNCHANGED <<telemetry, executed>>
      BY <1>1, <2>1, AtMostBasics
    <2>2. CASE /\ telemetry' = [telemetry EXCEPT ![pusher] = More(telemetry[pusher], k)]
               /\ executed' = More(executed, k)
      <3>1. /\ telemetry' \in [Pushers -> [Keys -> Nat]] /\ executed' \in [Keys -> Nat]
            /\ AtMost(executed, executed')
        BY <1>1, <2>2, MoreCounts
      <3> QED
        BY <1>1, <2>2, <3>1
    <2> QED
      BY <1>1, <2>1, <2>2, Zenon DEF Count, More
  <1>4. telemetry'[pusher] = executed' /\ \A p \in Pushers : p # pusher => telemetry'[p] = telemetry[p]
    BY <1>3
  <1>5. OnePusher' /\ NoExecutionLost'
    BY <1>1, <1>4 DEF TelemetryInv, OnePusher, NoExecutionLost
  <1>6. SentWasCounted'
    <2> SUFFICES ASSUME NEW p \in Pushers PROVE AtMost(message[p], telemetry'[p])
      BY DEF SentWasCounted, AtMost
    <2>1. AtMost(message[p], telemetry[p])
      BY DEF TelemetryInv, SentWasCounted
    <2>2. CASE p = pusher
      BY <1>1, <1>3, <1>4, <2>1, <2>2, AtMostTrans
    <2> QED
      BY <1>4, <2>1, <2>2
  <1>7. OwedWasCounted'
    <2>1. AtMost(owed, executed')
      BY <1>1, <1>3, AtMostTrans DEF TelemetryInv, OwedWasCounted
    <2> QED
      BY <1>2, <2>1 DEF TelemetryInv, OwedWasCounted, AtMost
  <1>8. FinalMessageComplete'
    BY DEF TelemetryInv, FinalMessageComplete, AtMost
  <1> QED
    BY <1>2, <1>3, <1>5, <1>6, <1>7, <1>8

\* The first execution of the region creates its pusher; nothing was counted, and
\* so nothing was owed, before.
LEMMA CreatePreserves ==
  ASSUME TelemetryInv, pusher = 0, NEW s \in Scrapers, Create(s)
  PROVE  TelemetryInv'
  <1> USE TelemetryAssumption
  <1>1. /\ 1 \in Pushers /\ created = 0 /\ execution[s] \in Keys
        /\ telemetry \in [Pushers -> [Keys -> Nat]] /\ executed = NoCounts
        /\ \A p \in Pushers : telemetry[p] = NoCounts /\ message[p] = NoCounts /\ running[p] = "no"
    <2>1. created = 0 /\ started > 0 /\ started \in 0..MaxExecutions
      BY DEF TelemetryInv, TelemetryTypeOK, OnePusher, ReportsStarted, Create
    <2>2. 1 \in Pushers
      BY <2>1 DEF Pushers
    <2> QED
      BY <2>1, <2>2 DEF TelemetryInv, TelemetryTypeOK, OnePusher, NoExecutionLost, Pushers
  <1>2. PICK counts \in {NoCounts, More(NoCounts, execution[s])} :
           /\ telemetry' = [telemetry EXCEPT ![1] = counts] /\ executed' = counts
           /\ telemetryCtx' \in {telemetryCtx, "crashed"}
    <2>1. created + 1 = 1 /\ telemetry[1] = NoCounts
      BY <1>1
    <2>2. Count(1, execution[s])
      BY <2>1, Zenon DEF Create
    <2>3. CASE execution[s] \notin Unsplittable
      BY <1>1, <2>1, <2>2, <2>3, Zenon DEF Count, More
    <2>4. CASE execution[s] \in Unsplittable
      <3>1. telemetry = [telemetry EXCEPT ![1] = NoCounts]
        BY <1>1, <2>1
      <3> QED
        BY <1>1, <2>2, <2>4, <3>1, Zenon DEF Count
    <2> QED
      BY <2>3, <2>4
  <1>a. /\ created' = 1 /\ pusher' = 1
        /\ UNCHANGED <<execution, started, message, ticks, owed>>
        /\ reporting' = [reporting EXCEPT ![s] = "idle"]
    <2>1. created + 1 = 1
      BY <1>1
    <2> QED
      BY <2>1, Zenon DEF Create
  <1>3. PICK r \in {"ticking", "final"} : running' = [running EXCEPT ![1] = r]
                                          /\ (r = "final" => telemetryCtx = "done")
    BY <1>1 DEF Create
  <1>4. NoCounts \in [Keys -> Nat] /\ executed' \in [Keys -> Nat]
    BY <1>1, <1>2, <1>a, AtMostBasics, MoreCounts
  <1>5. TelemetryTypeOK'
    BY <1>1, <1>2, <1>a, <1>3, <1>4 DEF TelemetryInv, TelemetryTypeOK, Pushers
  <1>6. OnePusher' /\ ReportsStarted' /\ NoExecutionLost'
    BY <1>1, <1>2, <1>a, <1>3 DEF TelemetryInv, TelemetryTypeOK, OnePusher, ReportsStarted, NoExecutionLost
  <1>7. SentWasCounted'
    <2>1. \A p \in Pushers : message'[p] = NoCounts /\ telemetry'[p] \in [Keys -> Nat]
      BY <1>1, <1>2, <1>a, <1>4
    <2> QED
      BY <2>1, AtMostBasics DEF SentWasCounted, AtMost
  <1>8. AtMost(owed, NoCounts)
    BY <1>1 DEF TelemetryInv, OwedWasCounted
  <1>9. OwedWasCounted'
    <2>1. AtMost(owed, executed')
      BY <1>2, <1>a, <1>4, <1>8, AtMostTrans, AtMostBasics DEF TelemetryInv, TelemetryTypeOK
    <2> QED
      BY <1>1, <1>2, <1>a, <1>3, <2>1 DEF TelemetryInv, TelemetryTypeOK, OwedWasCounted, AtMost
  <1>10. FinalMessageComplete'
    BY <1>1, <1>2, <1>a, <1>8 DEF FinalMessageComplete, AtMost
  <1> QED
    BY <1>5, <1>6, <1>7, <1>9, <1>10 DEF TelemetryInv

\* The invariant is preserved by every step.
LEMMA TelemetryStepInv == TelemetryInv /\ [TelemetryNext]_telemetryVars => TelemetryInv'
  <1> SUFFICES ASSUME TelemetryInv, [TelemetryNext]_telemetryVars PROVE TelemetryInv'
    OBVIOUS
  <1> USE TelemetryAssumption
  <1>1. ASSUME NEW s \in Scrapers, NEW k \in Keys, Execute(s, k) PROVE TelemetryInv'
    <2>1. TelemetryTypeOK'
      BY <1>1 DEF TelemetryInv, TelemetryTypeOK, Execute
    <2>2. ReportsStarted'
      BY <1>1 DEF TelemetryInv, TelemetryTypeOK, ReportsStarted, Execute
    <2>3. /\ OnePusher' /\ NoExecutionLost' /\ SentWasCounted' /\ OwedWasCounted'
          /\ FinalMessageComplete'
      BY <1>1 DEF TelemetryInv, OnePusher, NoExecutionLost, SentWasCounted, OwedWasCounted,
                  FinalMessageComplete, AtMost, Execute
    <2> QED
      BY <2>1, <2>2, <2>3 DEF TelemetryInv
  <1>2. ASSUME NEW s \in Scrapers, Lookup(s) PROVE TelemetryInv'
    <2>1. CASE pusher # 0
      <3>1. execution[s] \in Keys /\ Count(pusher, execution[s])
        BY <1>2, <2>1 DEF TelemetryInv, TelemetryTypeOK, Lookup
      <3>2. /\ telemetry' \in [Pushers -> [Keys -> Nat]] /\ executed' \in [Keys -> Nat]
            /\ telemetryCtx' \in {telemetryCtx, "crashed"}
            /\ OnePusher' /\ NoExecutionLost' /\ SentWasCounted' /\ OwedWasCounted'
            /\ FinalMessageComplete'
        BY <1>2, <2>1, <3>1, CountPreserves DEF Lookup
      <3>3. TelemetryTypeOK' /\ ReportsStarted'
        BY <1>2, <2>1, <3>2 DEF TelemetryInv, TelemetryTypeOK, ReportsStarted, Lookup
      <3> QED
        BY <3>2, <3>3 DEF TelemetryInv
    <2>2. CASE pusher = 0
      <3>1. TelemetryTypeOK' /\ ReportsStarted'
        BY <1>2, <2>2 DEF TelemetryInv, TelemetryTypeOK, ReportsStarted, Lookup
      <3>2. /\ OnePusher' /\ NoExecutionLost' /\ SentWasCounted' /\ OwedWasCounted'
            /\ FinalMessageComplete'
        BY <1>2, <2>2 DEF TelemetryInv, OnePusher, NoExecutionLost, SentWasCounted,
                          OwedWasCounted, FinalMessageComplete, AtMost, Lookup
      <3> QED
        BY <3>1, <3>2 DEF TelemetryInv
    <2> QED
      BY <2>1, <2>2
  <1>3. ASSUME NEW s \in Scrapers, Create(s) PROVE TelemetryInv'
    <2>1. CASE pusher # 0
      <3>1. execution[s] \in Keys /\ Count(pusher, execution[s])
        BY <1>3, <2>1 DEF TelemetryInv, TelemetryTypeOK, Create
      <3>2. /\ telemetry' \in [Pushers -> [Keys -> Nat]] /\ executed' \in [Keys -> Nat]
            /\ telemetryCtx' \in {telemetryCtx, "crashed"}
            /\ OnePusher' /\ NoExecutionLost' /\ SentWasCounted' /\ OwedWasCounted'
            /\ FinalMessageComplete'
        BY <1>3, <2>1, <3>1, CountPreserves DEF Create
      <3>3. TelemetryTypeOK' /\ ReportsStarted'
        BY <1>3, <2>1, <3>2 DEF TelemetryInv, TelemetryTypeOK, ReportsStarted, Create
      <3> QED
        BY <3>2, <3>3 DEF TelemetryInv
    <2>2. CASE pusher = 0
      BY <1>3, <2>2, CreatePreserves
    <2> QED
      BY <2>1, <2>2
  <1>4. ASSUME NEW p \in Pushers, Tick(p) PROVE TelemetryInv'
    <2>1. TelemetryTypeOK' /\ ReportsStarted' /\ NoExecutionLost' /\ OwedWasCounted'
      BY <1>4 DEF TelemetryInv, TelemetryTypeOK, ReportsStarted, NoExecutionLost,
                  OwedWasCounted, AtMost, Tick
    <2>2. OnePusher' /\ FinalMessageComplete'
      BY <1>4 DEF TelemetryInv, TelemetryTypeOK, OnePusher, FinalMessageComplete, AtMost, Tick
    <2>3. SentWasCounted'
      BY <1>4, AtMostBasics DEF TelemetryInv, TelemetryTypeOK, SentWasCounted, AtMost, Tick
    <2> QED
      BY <2>1, <2>2, <2>3 DEF TelemetryInv
  <1>5. ASSUME NEW p \in Pushers, FinalMessage(p) PROVE TelemetryInv'
    <2>1. TelemetryTypeOK' /\ ReportsStarted' /\ NoExecutionLost' /\ OwedWasCounted'
      BY <1>5 DEF TelemetryInv, TelemetryTypeOK, ReportsStarted, NoExecutionLost,
                  OwedWasCounted, AtMost, FinalMessage
    <2>2. p = pusher /\ telemetry[p] = executed
      BY <1>5 DEF TelemetryInv, OnePusher, NoExecutionLost, Pushers, FinalMessage
    <2>3. OnePusher'
      BY <1>5, <2>2 DEF TelemetryInv, TelemetryTypeOK, OnePusher, FinalMessage
    <2>4. FinalMessageComplete'
      BY <1>5, <2>2 DEF TelemetryInv, TelemetryTypeOK, OwedWasCounted, FinalMessageComplete,
                        AtMost, FinalMessage
    <2>5. SentWasCounted'
      BY <1>5, AtMostBasics DEF TelemetryInv, TelemetryTypeOK, SentWasCounted, AtMost, FinalMessage
    <2> QED
      BY <2>1, <2>3, <2>4, <2>5 DEF TelemetryInv
  <1>6. ASSUME NEW p \in Pushers, FinalPushed(p) PROVE TelemetryInv'
    <2>1. TelemetryTypeOK' /\ ReportsStarted' /\ NoExecutionLost' /\ SentWasCounted'
      BY <1>6 DEF TelemetryInv, TelemetryTypeOK, ReportsStarted, NoExecutionLost,
                  SentWasCounted, AtMost, FinalPushed
    <2>2. OnePusher' /\ OwedWasCounted' /\ FinalMessageComplete'
      BY <1>6 DEF TelemetryInv, TelemetryTypeOK, OnePusher, OwedWasCounted,
                  FinalMessageComplete, AtMost, FinalPushed
    <2> QED
      BY <2>1, <2>2 DEF TelemetryInv
  <1>7. CASE StopTelemetry
    <2>1. /\ TelemetryTypeOK' /\ OnePusher' /\ ReportsStarted' /\ NoExecutionLost'
          /\ SentWasCounted' /\ FinalMessageComplete'
      BY <1>7 DEF TelemetryInv, TelemetryTypeOK, OnePusher, ReportsStarted, NoExecutionLost,
                  SentWasCounted, OwedWasCounted, FinalMessageComplete, AtMost, StopTelemetry
    <2>2. OwedWasCounted'
      BY <1>7, AtMostBasics DEF TelemetryInv, TelemetryTypeOK, OwedWasCounted, AtMost, StopTelemetry
    <2> QED
      BY <2>1, <2>2 DEF TelemetryInv
  <1>8. CASE UNCHANGED telemetryVars
    BY <1>8 DEF TelemetryInv, TelemetryTypeOK, OnePusher, ReportsStarted, NoExecutionLost,
                SentWasCounted, OwedWasCounted, FinalMessageComplete, AtMost, telemetryVars
  <1> QED
    BY <1>1, <1>2, <1>3, <1>4, <1>5, <1>6, <1>7, <1>8, Zenon DEF TelemetryNext

\* The invariant always holds.
LEMMA TelemetryInvariant == TelemetrySpec => []TelemetryInv
  BY TelemetryInitInv, TelemetryStepInv, PTL DEF TelemetrySpec

\* The variables keep their types; in particular there is a counter for every
\* pusher that is created, and a region never has more than executions.
THEOREM TelemetryTypeCorrect == TelemetrySpec => []TelemetryTypeOK
  <1>1. TelemetryInv => TelemetryTypeOK
    BY DEF TelemetryInv
  <1> QED
    BY <1>1, TelemetryInvariant, PTL

\* However many scrapers race to create the region's pusher, no execution is
\* counted by one that is not in the map of AddExecution.
THEOREM ExecutionsAreKept == TelemetrySpec => []NoExecutionLost
  <1>1. TelemetryInv => NoExecutionLost
    BY DEF TelemetryInv
  <1> QED
    BY <1>1, TelemetryInvariant, PTL

\* The last message of a shutdown has every execution counted before it.
THEOREM FinalMessagesAreComplete == TelemetrySpec => []FinalMessageComplete
  <1>1. TelemetryInv => FinalMessageComplete
    BY DEF TelemetryInv
  <1> QED
    BY <1>1, TelemetryInvariant, PTL

\* Messages are cumulative: none has less than the one before it.
THEOREM MessagesNeverShrink == TelemetrySpec => MessagesGrow
  <1>1. TelemetryInv /\ [TelemetryNext]_telemetryVars =>
          [\A p \in Pushers : AtMost(message[p], message'[p])]_telemetryVars
    <2> SUFFICES ASSUME TelemetryInv, TelemetryNext, NEW p \in Pushers
                 PROVE  AtMost(message[p], message'[p])
      OBVIOUS
    <2>1. /\ message \in [Pushers -> [Keys -> Nat]] /\ telemetry \in [Pushers -> [Keys -> Nat]]
          /\ AtMost(message[p], telemetry[p])
      BY DEF TelemetryInv, TelemetryTypeOK, SentWasCounted
    <2>2. message' = message \/ \E q \in Pushers : message' = [message EXCEPT ![q] = telemetry[q]]
      BY DEF TelemetryNext, Execute, Lookup, Create, Tick, FinalMessage, FinalPushed, StopTelemetry
    <2>3. message'[p] \in {message[p], telemetry[p]}
      BY <2>1, <2>2
    <2> QED
      BY <2>1, <2>3, AtMostBasics
  <1> QED
    BY <1>1, TelemetryInvariant, PTL DEF TelemetrySpec, MessagesGrow
==============================================================================
