------------------------------ MODULE Scraper ------------------------------
(***************************************************************************)
(* One scraper: the goroutine that probes a target every frequency, keeps  *)
(* the series alive between two probes by republishing the last payload,   *)
(* and ends them with stale markers when it is stopped                     *)
(* (internal/scraper/scraper.go: Run, tickWithOffset, scrapeHandler).      *)
(*                                                                         *)
(* Time is counted in milliseconds, of which an instance has a few.  A     *)
(* payload is the probe it came from (the tick that started it), the       *)
(* timestamp of its samples and what it carries: samples and logs, samples *)
(* only, or stale markers.                                                 *)
(***************************************************************************)
EXTENDS Integers, Sequences

CONSTANTS
  Frequencies,          \* what check.Frequency may be
  Offsets,              \* what check.Offset may be; 0 means none
  maxPublishInterval,
  minPublishGap,
  MaxWork,              \* bound: the longest a scrape takes
  MaxTime               \* bound: how far the clock runs

ASSUME TimesAssumption ==
  /\ Frequencies \subseteq Nat \ {0}
  /\ Offsets \subseteq Nat
  /\ maxPublishInterval \in Nat \ {0}
  /\ minPublishGap \in Nat \ {0}
  /\ MaxWork \in Nat
  /\ MaxTime \in Nat

VARIABLES
  frequency,   \* of the check
  now,         \* the clock
  pc,          \* where tickWithOffset is
  offsetAt,    \* when the offset timer fires
  workAt,      \* the next tick of workTicker, or NoTick
  idleAt,      \* the next tick of inactivityTicker, or NoTick
  lastTick,    \* the tick that started the last probe
  payload,     \* scrapeHandler.payload
  sm,          \* scrapeHandler.sm
  reported,    \* the states "check entered ..." was logged for, in order
  stopped,     \* the stop channel is closed
  cancelled,   \* the context is done
  metrics,     \* the counters of scrapes, errors and telemetry executions
  published    \* every payload given to the publisher, in order

vars == <<frequency, now, pc, offsetAt, workAt, idleAt, lastTick, payload, sm,
          reported, stopped, cancelled, metrics, published>>

clockVars  == <<frequency, offsetAt>>
signals    == <<stopped, cancelled>>
tickVars   == <<workAt, idleAt, lastTick>>
resultVars == <<payload, sm, reported, metrics, published>>

NoTick    == 0
NoPayload == [probe |-> 0, at |-> 0, carries |-> "nothing"]
Payloads  == [probe : Nat, at : Nat, carries : {"logs", "samples", "markers", "nothing"}]
Places    == {"begin", "offset", "work", "select", "done"}

\* How a collection ends: the probe succeeded, it failed (errCheckFailed), or
\* there is no data (a limit could not be read, metrics not gathered, ...).
Outcomes == {"pass", "fail", "error"}

TypeOK ==
  /\ frequency \in Frequencies
  /\ now \in Nat /\ offsetAt \in Nat
  /\ pc \in Places
  /\ workAt \in Nat /\ idleAt \in Nat /\ lastTick \in Nat
  /\ payload \in Payloads
  /\ sm \in [passes : Nat, failures : Nat, threshold : {0}]
  /\ reported \in Seq({"PASS", "FAIL"})
  /\ stopped \in BOOLEAN /\ cancelled \in BOOLEAN
  /\ metrics \in [scrapes : Nat, checkErrors : Nat, collectorErrors : Nat, executions : Nat]
  /\ published \in Seq(Payloads)

\* Run draws an offset at random when the check has none.
RunOffsets(f, o) ==
  IF o = 0 THEN 0 .. (IF f < maxPublishInterval THEN f ELSE maxPublishInterval) - 1 ELSE {o}

\* The agent has been up for a while when it starts a scraper.
Init ==
  /\ frequency \in Frequencies
  /\ now = 1
  /\ pc = "begin"
  /\ \E o \in Offsets : \E d \in RunOffsets(frequency, o) : offsetAt = now + d
  /\ workAt = NoTick /\ idleAt = NoTick
  /\ lastTick = 0
  /\ payload = NoPayload
  /\ sm = [passes |-> 0, failures |-> 0, threshold |-> 0]
  /\ reported = <<>>
  /\ stopped = FALSE /\ cancelled = FALSE
  /\ metrics = [scrapes |-> 0, checkErrors |-> 0, collectorErrors |-> 0, executions |-> 0]
  /\ published = <<>>

-----------------------------------------------------------------------------
(* The environment: the clock, the Updater and the agent's context.        *)

\* What a select of tickWithOffset is waiting for has happened.
Due(at) == at # NoTick /\ at <= now
Ready ==
  \/ pc = "begin"
  \/ pc \in {"offset", "select"} /\ (stopped \/ cancelled)
  \/ pc = "offset" /\ Due(offsetAt)
  \/ pc = "select" /\ (Due(workAt) \/ Due(idleAt))

Advance ==
  /\ now < MaxTime
  /\ pc = "work" => now - lastTick < MaxWork
  /\ now' = now + 1
  /\ UNCHANGED <<clockVars, pc, tickVars, signals, resultVars>>

Stop ==
  /\ ~stopped
  /\ stopped' = TRUE
  /\ UNCHANGED <<clockVars, now, pc, tickVars, cancelled, resultVars>>

Cancel ==
  /\ ~cancelled
  /\ cancelled' = TRUE
  /\ UNCHANGED <<clockVars, now, pc, tickVars, stopped, resultVars>>

-----------------------------------------------------------------------------
(* scrapeHandler                                                           *)

isPassing(s) == s.passes > s.threshold
isFailing(s) == s.failures > s.threshold

smFail(s) == [s EXCEPT !.passes = 0, !.failures = @ + 1]

smPass(s) == [s EXCEPT !.passes = @ + 1, !.failures = 0]

\* The callback of fail and pass, which logs the state entered.
smReport(old, new) ==
  IF isFailing(new) /\ ~isFailing(old) THEN <<"FAIL">>
  ELSE IF isPassing(new) /\ ~isPassing(old) THEN <<"PASS">> ELSE <<>>

\* Mutant: a failed probe has no data either.
Mut_collectData(t, outcome) ==
  IF outcome # "pass" THEN NoPayload
  ELSE [probe |-> t, at |-> t, carries |-> "logs"]

\* collectData: a failed probe has data, a fatal error has none.
collectData(t, outcome) ==
  IF outcome = "error" THEN NoPayload
  ELSE [probe |-> t, at |-> t, carries |-> "logs"]

scrape(outcome) ==
  LET collected == collectData(lastTick, outcome)
      next == CASE outcome = "pass" -> smPass(sm)
                [] outcome = "fail" -> smFail(sm)
                [] outcome = "error" -> sm
  IN
  /\ payload' = collected
  /\ sm' = next
  /\ reported' = reported \o smReport(sm, next)
  /\ metrics' = [scrapes         |-> metrics.scrapes + 1,
                 checkErrors     |-> metrics.checkErrors + (IF outcome = "fail" THEN 1 ELSE 0),
                 collectorErrors |-> metrics.collectorErrors + (IF outcome = "error" THEN 1 ELSE 0),
                 executions      |-> metrics.executions + (IF outcome = "error" THEN 0 ELSE 1)]
  /\ published' = IF outcome = "error" THEN published ELSE Append(published, collected)

\* Mutant: the samples keep their timestamps.
Mut_Redated(p, t) == [p EXCEPT !.carries = "samples"]

\* Mutant: the logs are kept.
Mut_RedatedKeepsLogs(p, t) == [p EXCEPT !.at = t]

\* New timestamps, no logs.
Redated(p, t) == [p EXCEPT !.at = t, !.carries = "samples"]

republish(t) ==
  IF payload = NoPayload THEN UNCHANGED <<payload, published>>
  ELSE /\ payload' = Redated(payload, t)
       /\ published' = Append(published, Redated(payload, t))

\* Every sample becomes a stale marker, one millisecond after t.
StaleMarkers(p, t) == [p EXCEPT !.at = t + 1, !.carries = "markers"]

\* Mutant: a payload without logs is taken for an empty one.
Mut_cleanup(t) ==
  IF payload.carries # "logs" THEN UNCHANGED <<payload, published>>
  ELSE /\ published' = Append(published, StaleMarkers(payload, t))
       /\ payload' = NoPayload

cleanup(t) ==
  IF payload = NoPayload THEN UNCHANGED <<payload, published>>
  ELSE /\ published' = Append(published, StaleMarkers(payload, t))
       /\ payload' = NoPayload

-----------------------------------------------------------------------------
(* tickWithOffset                                                          *)

Return ==
  /\ pc' = "done"
  /\ UNCHANGED <<clockVars, now, tickVars, signals, resultVars>>

\* The first select: a scraper cancelled before it started does nothing.
CheckCancelled ==
  /\ pc = "begin"
  /\ \/ (stopped \/ cancelled) /\ Return
     \/ /\ ~stopped /\ ~cancelled
        /\ pc' = "offset"
        /\ UNCHANGED <<clockVars, now, tickVars, signals, resultVars>>

\* The second select: nothing has been published, so there is no clean up.
OffsetInterrupted == pc = "offset" /\ (stopped \/ cancelled) /\ Return

StartWork(t) ==
  /\ lastTick' = t
  /\ pc' = "work"

OffsetTimer ==
  /\ pc = "offset" /\ Due(offsetAt)
  /\ StartWork(offsetAt)
  /\ UNCHANGED <<clockVars, now, workAt, idleAt, signals, resultVars>>

\* Mutant: no inactivity ticker.
Mut_NewTickers ==
  /\ workAt' = now + frequency
  /\ idleAt' = NoTick

\* The tickers are created when the first probe is over; the inactivity ticker
\* only if a probe is not due before it would fire.
NewTickers ==
  /\ workAt' = now + frequency
  /\ idleAt' = IF frequency > maxPublishInterval THEN now + maxPublishInterval ELSE NoTick

\* The end of work(ctx, t).  Neither a stop nor a cancellation interrupts it.
WorkDone(outcome) ==
  /\ pc = "work"
  /\ scrape(outcome)
  /\ IF workAt = NoTick THEN NewTickers ELSE UNCHANGED <<workAt, idleAt>>
  /\ pc' = "select"
  /\ UNCHANGED <<clockVars, now, lastTick, signals>>

\* A ticker delivers the tick that was due first and drops the ones missed
\* since: its next tick is the first multiple of its period after now.
NextTick(at, period) == now + period - ((now - at) % period)

WorkTick ==
  /\ pc = "select" /\ Due(workAt)
  /\ StartWork(workAt)
  /\ workAt' = NextTick(workAt, frequency)
  /\ UNCHANGED <<clockVars, now, idleAt, signals, resultVars>>

\* Not too close to the last probe, nor to the next.
MayRepublish(t) ==
  /\ t - lastTick >= minPublishGap
  /\ lastTick + frequency - t >= minPublishGap

InactivityTick ==
  /\ pc = "select" /\ Due(idleAt)
  /\ idleAt' = NextTick(idleAt, maxPublishInterval)
  /\ IF MayRepublish(idleAt) THEN republish(idleAt) ELSE UNCHANGED <<payload, published>>
  /\ UNCHANGED <<clockVars, now, pc, workAt, lastTick, signals, sm, reported, metrics>>

\* Mutant: return only if there is something to clean up.
Mut_StopSelected ==
  /\ pc = "select" /\ stopped /\ payload # NoPayload
  /\ cleanup(lastTick)
  /\ pc' = "done"
  /\ UNCHANGED <<clockVars, now, tickVars, signals, sm, reported, metrics>>

StopSelected ==
  /\ pc = "select" /\ stopped
  /\ cleanup(lastTick)
  /\ pc' = "done"
  /\ UNCHANGED <<clockVars, now, tickVars, signals, sm, reported, metrics>>

\* No clean up if the context is cancelled.
CancelSelected == pc = "select" /\ cancelled /\ Return

Scrape == \E outcome \in Outcomes : WorkDone(outcome)

\* A step of the goroutine.
Run ==
  \/ CheckCancelled \/ OffsetInterrupted \/ OffsetTimer
  \/ Scrape \/ WorkTick \/ InactivityTick
  \/ StopSelected \/ CancelSelected

Next == Run \/ Advance \/ Stop \/ Cancel

Spec == Init /\ [][Next]_vars

\* The goroutine may run late without limit in Spec.  On a host that keeps up,
\* it runs before the clock moves on.
PromptNext == Run \/ (Advance /\ ~Ready) \/ Stop \/ Cancel

PromptSpec == Init /\ [][PromptNext]_vars /\ WF_vars(Run) /\ WF_vars(Advance /\ ~Ready)

-----------------------------------------------------------------------------
(* Properties                                                              *)

\* Prometheus takes samples of a series in order only.  Whatever ticks were
\* late or dropped, the samples of a probe or of a republication are newer
\* than everything published before them (scrape, republish, tickWithOffset).
TimestampsIncrease ==
  \A j \in 1..Len(published) : published[j].carries # "markers" =>
    \A i \in 1..(j - 1) : published[i].at < published[j].at

\* A scraper that is stopped after a probe with data ends the series of that
\* probe, however often they were republished: their stale markers are the last
\* thing published, once (tickWithOffset, cleanup).  Nothing is claimed of a
\* stop after a probe without data: scrape has dropped the payload by then and
\* cleanup has nothing to mark.
SeriesEnded ==
  LET n == Len(published) IN
  pc = "done" /\ ~cancelled /\ (\E i \in 1..n : published[i].probe = lastTick) =>
    /\ published[n].carries = "markers" /\ published[n].probe = lastTick
    /\ \A i \in 1..(n - 1) : published[i].carries # "markers"

\* The logs of a probe are published once, however often its samples are.
LogsOnce ==
  \A i, j \in 1..Len(published) :
    published[i].carries = "logs" /\ published[j].carries = "logs" /\ i # j =>
      published[i].probe # published[j].probe

\* On a host that keeps up, the last samples of a check whose last probe gathered
\* data are never older than a republishing interval, a gap and two probes, even
\* though tickWithOffset skips the tick next to a probe.  A probe counts twice:
\* the tickers start when the first probe is over, so the first tick may come
\* that late, and so may the second probe, while MayRepublish expects it one
\* frequency after the start of the first.
StaysFresh ==
  pc = "select" /\ ~Ready /\ payload # NoPayload =>
    now - published[Len(published)].at <= maxPublishInterval + minPublishGap + 2 * MaxWork

\* An execution is billed exactly when the data of its probe is published:
\* never for a dropped result, a republication or a stale marker.
ExecutionsPublished ==
  LET fresh == {i \in 1..Len(published) : published[i].carries = "logs"}
      upTo[n \in 0..Len(published)] ==
        IF n = 0 THEN 0 ELSE upTo[n - 1] + (IF n \in fresh THEN 1 ELSE 0)
  IN  /\ metrics.executions = upTo[Len(published)]
      /\ metrics.scrapes = metrics.executions + metrics.collectorErrors

\* A scraper that is stopped or cancelled ends, whatever it was doing.
StopEnds == stopped \/ cancelled ~> pc = "done"

\* docs/architecture/scraper.md:190-192: cleanup's timestamp is such that "the
\* marker is strictly after the last real point".
MarkersAfterLastSample ==
  \A j \in 1..Len(published) : published[j].carries = "markers" =>
    \A i \in 1..(j - 1) : published[i].at < published[j].at
=============================================================================
