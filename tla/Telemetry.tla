------------------------------ MODULE Telemetry ------------------------------
(***************************************************************************)
(* The telemetry of executions, for one region (internal/telemetry): the   *)
(* scrapers call Telemeter.AddExecution, the first of them creates the     *)
(* region's pusher, and the pusher sends the counters at every tick and    *)
(* once more when the agent shuts down.                                    *)
(*                                                                         *)
(* A key stands for a tenant, a check class and the cost attribution       *)
(* labels; of an execution's counters only the number of executions is     *)
(* kept, which the durations follow.  Labels that serializeCALs writes     *)
(* alike are one key.                                                      *)
(***************************************************************************)
EXTENDS Integers

CONSTANTS
  Scrapers,         \* goroutines that report executions
  Keys,
  Unsplittable,     \* the keys deserializeCals fails on: a value has a comma
  MaxExecutions,    \* bound: executions reported
  MaxPushes         \* bound: ticks, over all pushers

ASSUME TelemetryAssumption == MaxExecutions \in Nat /\ MaxPushes \in Nat /\ Keys \ Unsplittable # {}

NoCounts == [k \in Keys |-> 0]
Pushers == 1..MaxExecutions     \* in the order they are created

VARIABLES
  reporting,       \* where AddExecution is, of each scraper
  execution,       \* the key it reports
  started,         \* executions, so far
  executed,        \* executions counted, ever, by key
  pusher, created, \* the region's entry of t.pushers; pushers created
  telemetry,       \* the counters of each pusher
  running,         \* of each pusher: "no", "ticking", "final", "stopped"
  message,         \* of each pusher: the last message next() made
  ticks,
  telemetryCtx,    \* the agent's context, or "crashed" when the agent is gone
  owed             \* executed, when the context was done

telemetryVars == <<reporting, execution, started, executed, pusher, created, telemetry,
                   running, message, ticks, telemetryCtx, owed>>

\* The types.
TelemetryTypeOK ==
  /\ reporting \in [Scrapers -> {"idle", "read", "write"}]
  /\ execution \in [Scrapers -> Keys] /\ started \in 0..MaxExecutions
  /\ executed \in [Keys -> Nat] /\ owed \in [Keys -> Nat]
  /\ created \in 0..MaxExecutions /\ pusher \in 0..created
  /\ telemetry \in [Pushers -> [Keys -> Nat]] /\ message \in [Pushers -> [Keys -> Nat]]
  /\ running \in [Pushers -> {"no", "ticking", "final", "stopped"}]
  /\ ticks \in 0..MaxPushes /\ telemetryCtx \in {"live", "done", "crashed"}

TelemetryInit ==
  /\ reporting = [s \in Scrapers |-> "idle"] /\ execution \in [Scrapers -> Keys]
  /\ started = 0 /\ executed = NoCounts /\ owed = NoCounts /\ pusher = 0 /\ created = 0
  /\ telemetry = [p \in Pushers |-> NoCounts] /\ message = [p \in Pushers |-> NoCounts]
  /\ running = [p \in Pushers |-> "no"] /\ ticks = 0 /\ telemetryCtx = "live"

AtMost(f, g) == \A k \in Keys : f[k] <= g[k]

------------------------------------------------------------------------------
(* Telemeter.AddExecution                                                  *)

\* RegionPusher.AddExecution, under telemetryMu. The first execution of a key
\* that cannot be split panics before anything is counted, and nothing recovers:
\* there is no second one.
Count(p, k) ==
  \/ /\ k \notin Unsplittable
     /\ telemetry' = [telemetry EXCEPT ![p] = [telemetry[p] EXCEPT ![k] = @ + 1]]
     /\ executed' = [executed EXCEPT ![k] = @ + 1]
     /\ UNCHANGED telemetryCtx
  \/ /\ k \in Unsplittable
     /\ telemetryCtx' = "crashed"
     /\ UNCHANGED <<telemetry, executed>>

\* An execution ends, and its scraper calls AddExecution.
Execute(s, k) ==
  /\ reporting[s] = "idle" /\ started < MaxExecutions
  /\ started' = started + 1
  /\ reporting' = [reporting EXCEPT ![s] = "read"]
  /\ execution' = [execution EXCEPT ![s] = k]
  /\ UNCHANGED <<executed, pusher, created, telemetry, running, message, ticks,
                 telemetryCtx, owed>>

\* Under the read lock: the pusher is found, or its absence.
Lookup(s) ==
  /\ reporting[s] = "read"
  /\ IF pusher # 0
     THEN Count(pusher, execution[s]) /\ reporting' = [reporting EXCEPT ![s] = "idle"]
     ELSE /\ reporting' = [reporting EXCEPT ![s] = "write"]
          /\ UNCHANGED <<telemetry, executed, telemetryCtx>>
  /\ UNCHANGED <<execution, started, pusher, created, running, message, ticks, owed>>

Mut_Create(s) ==
  /\ reporting[s] = "write" /\ created < MaxExecutions
  /\ reporting' = [reporting EXCEPT ![s] = "idle"]
  /\ created' = created + 1 /\ pusher' = created + 1
  /\ running' = [running EXCEPT ![created + 1] = "ticking"]
  /\ Count(created + 1, execution[s])
  /\ UNCHANGED <<execution, started, message, ticks, owed>>

\* Under the write lock: another scraper may have created the pusher since.
\* If not, NewRegionPusher starts its goroutine, which after a shutdown may
\* make its last message before the execution is counted.
Create(s) ==
  /\ reporting[s] = "write"
  /\ reporting' = [reporting EXCEPT ![s] = "idle"]
  /\ IF pusher # 0
     THEN Count(pusher, execution[s]) /\ UNCHANGED <<pusher, created, running>>
     ELSE /\ created' = created + 1 /\ pusher' = created + 1
          /\ \E r \in {"ticking"} \cup (IF telemetryCtx = "done" THEN {"final"} ELSE {}) :
               running' = [running EXCEPT ![created + 1] = r]
          /\ Count(created + 1, execution[s])
  /\ UNCHANGED <<execution, started, message, ticks, owed>>

------------------------------------------------------------------------------
(* RegionPusher.run                                                        *)

Mut_Tick(p) ==
  /\ running[p] = "ticking" /\ ticks < MaxPushes
  /\ ticks' = ticks + 1
  /\ message' = [message EXCEPT ![p] = [k \in Keys |-> telemetry[p][k] - message[p][k]]]
  /\ UNCHANGED <<reporting, execution, started, executed, pusher, created, telemetry, running,
                 telemetryCtx, owed>>

\* The ticker: next copies the counters and a goroutine of its own pushes
\* them, however long that takes and whether or not it succeeds.
Tick(p) ==
  /\ running[p] = "ticking" /\ ticks < MaxPushes
  /\ ticks' = ticks + 1
  /\ message' = [message EXCEPT ![p] = telemetry[p]]
  /\ UNCHANGED <<reporting, execution, started, executed, pusher, created, telemetry, running,
                 telemetryCtx, owed>>

Mut_FinalMessage(p) ==
  /\ running[p] = "ticking" /\ telemetryCtx = "done"
  /\ running' = [running EXCEPT ![p] = "final"]
  /\ UNCHANGED <<reporting, execution, started, executed, pusher, created, telemetry, message,
                 ticks, telemetryCtx, owed>>

\* The context is done: the last message.
FinalMessage(p) ==
  /\ running[p] = "ticking" /\ telemetryCtx = "done"
  /\ running' = [running EXCEPT ![p] = "final"]
  /\ message' = [message EXCEPT ![p] = telemetry[p]]
  /\ UNCHANGED <<reporting, execution, started, executed, pusher, created, telemetry, ticks,
                 telemetryCtx, owed>>

\* Its push, which the shutdown does not cancel, has returned.
FinalPushed(p) ==
  /\ running[p] = "final"
  /\ running' = [running EXCEPT ![p] = "stopped"]
  /\ UNCHANGED <<reporting, execution, started, executed, pusher, created, telemetry, message,
                 ticks, telemetryCtx, owed>>

StopTelemetry ==
  /\ telemetryCtx = "live" /\ telemetryCtx' = "done" /\ owed' = executed
  /\ UNCHANGED <<reporting, execution, started, executed, pusher, created, telemetry, running,
                 message, ticks>>

\* The agent is there until it crashes.
TelemetryNext ==
  /\ telemetryCtx # "crashed"
  /\ \/ \E s \in Scrapers : \/ \E k \in Keys : Execute(s, k)
                            \/ Lookup(s) \/ Create(s)
     \/ \E p \in Pushers : Tick(p) \/ FinalMessage(p) \/ FinalPushed(p)
     \/ StopTelemetry

TelemetrySpec == TelemetryInit /\ [][TelemetryNext]_telemetryVars

------------------------------------------------------------------------------
(* Properties                                                              *)

\* Every execution is counted by the pusher of the region, none by one that
\* another goroutine replaced while the lock changed hands.
NoExecutionLost ==
  executed = IF pusher = 0 THEN NoCounts ELSE telemetry[pusher]

\* The counters sent never decrease: a push that fails, or that arrives after
\* the next one, loses nothing.
MessagesGrow == [][\A p \in Pushers : AtMost(message[p], message'[p])]_telemetryVars

\* The last message has every execution counted before the shutdown.
FinalMessageComplete ==
  \A p \in Pushers : running[p] \in {"final", "stopped"} => AtMost(owed, message[p])
==============================================================================
