--------------------------- MODULE ScraperProofs ---------------------------
(***************************************************************************)
(* Proofs about Scraper for every frequency, offset, interval and gap, and *)
(* for a goroutine that may run late without limit.                        *)
(***************************************************************************)
EXTENDS Scraper, TLAPS

\* Where the loop is, the ticker of probes, and the payload held.
LoopInv ==
  /\ lastTick <= now
  /\ offsetAt # NoTick
  /\ pc \in {"begin", "offset"} => published = <<>> /\ lastTick = 0 /\ workAt = NoTick
  /\ pc = "select" => workAt # NoTick
  /\ workAt # NoTick => workAt >= lastTick + frequency
  /\ pc = "select" /\ payload # NoPayload => payload.probe = lastTick

\* While a probe runs, everything published is older than its tick.  Between
\* probes, it is either no newer than the last probe, or a republication: then
\* it is older than the next tick of inactivity and a gap before the next probe.
OrderInv ==
  \A i \in 1..Len(published) :
    /\ pc = "work" => published[i].at < lastTick /\ published[i].probe < lastTick
    /\ pc = "select" =>
         /\ published[i].probe <= lastTick
         /\ \/ published[i].at <= lastTick
            \/ /\ published[i].at < idleAt
               /\ published[i].at <= lastTick + frequency - minPublishGap

\* The inductive invariant.
Inv == TypeOK /\ LoopInv /\ OrderInv /\ TimestampsIncrease /\ LogsOnce

\* The next tick of a ticker is a whole number of periods later.
LEMMA NextTickLater ==
  ASSUME NEW at \in Nat, NEW period \in Nat \ {0}, now \in Nat, at <= now
  PROVE  /\ NextTick(at, period) \in Nat
         /\ NextTick(at, period) > now
         /\ NextTick(at, period) >= at + period
<1> DEFINE d == now - at
           r == d % period
<1>1. d \in Nat
  OBVIOUS
<1>2. r \in 0..(period - 1)
  BY <1>1
<1>3. r <= d
  BY <1>1
<1> QED
  BY <1>1, <1>2, <1>3 DEF NextTick

-----------------------------------------------------------------------------
(* Type correctness                                                        *)

\* What a collection, a republication and a clean up put into a payload is one.
LEMMA PayloadTypes ==
  ASSUME NEW t \in Nat, NEW p \in Payloads
  PROVE  /\ NoPayload \in Payloads
         /\ \A outcome \in Outcomes : collectData(t, outcome) \in Payloads
         /\ Redated(p, t) \in Payloads
         /\ StaleMarkers(p, t) \in Payloads
<1>1. NoPayload \in Payloads /\ \A outcome \in Outcomes : collectData(t, outcome) \in Payloads
  BY DEF NoPayload, Payloads, collectData
<1>2. Redated(p, t) \in Payloads
  BY Zenon DEF Payloads, Redated
<1>3. ASSUME NEW n \in Nat PROVE [p EXCEPT !.at = n, !.carries = "markers"] \in Payloads
  BY Zenon DEF Payloads
<1>4. StaleMarkers(p, t) \in Payloads
  <2>1. t + 1 \in Nat
    OBVIOUS
  <2> QED
    BY <1>3, <2>1, Zenon DEF StaleMarkers
<1> QED
  BY <1>1, <1>2, <1>4

\* The states of the check state machine.
SM == [passes : Nat, failures : Nat, threshold : {0}]

\* Its counters stay naturals.
LEMMA SMTypes ==
  ASSUME NEW s \in SM
  PROVE  smPass(s) \in SM /\ smFail(s) \in SM
<1>1. s.passes + 1 \in Nat /\ s.failures + 1 \in Nat
  BY DEF SM
<1>2. ASSUME NEW m \in Nat, NEW n \in Nat
      PROVE  [s EXCEPT !.passes = m, !.failures = n] \in SM
  BY Zenon DEF SM
<1> QED
  BY <1>1, <1>2, Zenon DEF smPass, smFail

\* The counters of a scraper.
Counters == [scrapes : Nat, checkErrors : Nat, collectorErrors : Nat, executions : Nat]

\* The whole of scrape keeps the types of what it changes.
LEMMA ScrapeTypes ==
  ASSUME lastTick \in Nat, payload \in Payloads, sm \in SM, metrics \in Counters,
         reported \in Seq({"PASS", "FAIL"}), published \in Seq(Payloads),
         NEW outcome \in Outcomes, scrape(outcome)
  PROVE  /\ payload' \in Payloads
         /\ sm' \in SM
         /\ reported' \in Seq({"PASS", "FAIL"})
         /\ metrics' \in Counters
         /\ published' \in Seq(Payloads)
<1>1. collectData(lastTick, outcome) \in Payloads
  BY PayloadTypes, Zenon
<1>2. payload' \in Payloads /\ published' \in Seq(Payloads)
  <2> HIDE DEF collectData
  <2> QED  BY <1>1 DEF scrape
<1>3. sm' \in SM
  BY SMTypes DEF scrape, Outcomes
<1>4. reported' \in Seq({"PASS", "FAIL"})
  <2>1. PICK new : reported' = reported \o smReport(sm, new)
    BY Zenon DEF scrape
  <2>2. smReport(sm, new) \in {<<>>, <<"PASS">>, <<"FAIL">>}
    BY Zenon DEF smReport
  <2>3. <<>> \in Seq({"PASS", "FAIL"}) /\ <<"PASS">> \in Seq({"PASS", "FAIL"}) /\ <<"FAIL">> \in Seq({"PASS", "FAIL"})
    OBVIOUS
  <2>4. smReport(sm, new) \in Seq({"PASS", "FAIL"})
    BY <2>2, <2>3, Zenon
  <2> HIDE DEF smReport
  <2> QED  BY <2>1, <2>4
<1>5. metrics' \in Counters
  <2>1. PICK a \in {0, 1}, b \in {0, 1}, c \in {0, 1} :
          metrics' = [scrapes |-> metrics.scrapes + 1, checkErrors |-> metrics.checkErrors + a,
                      collectorErrors |-> metrics.collectorErrors + b,
                      executions |-> metrics.executions + c]
    <3> DEFINE a == IF outcome = "fail" THEN 1 ELSE 0
               b == IF outcome = "error" THEN 1 ELSE 0
               c == IF outcome = "error" THEN 0 ELSE 1
    <3>1. a \in {0, 1} /\ b \in {0, 1} /\ c \in {0, 1}
      OBVIOUS
    <3>2. metrics' = [scrapes |-> metrics.scrapes + 1, checkErrors |-> metrics.checkErrors + a,
                      collectorErrors |-> metrics.collectorErrors + b,
                      executions |-> metrics.executions + c]
      BY Zenon DEF scrape
    <3> HIDE DEF a, b, c
    <3> QED  BY <3>1, <3>2, Zenon
  <2>2. /\ metrics.scrapes + 1 \in Nat /\ metrics.checkErrors + a \in Nat
        /\ metrics.collectorErrors + b \in Nat /\ metrics.executions + c \in Nat
    <3>1. /\ metrics.scrapes \in Nat /\ metrics.checkErrors \in Nat
          /\ metrics.collectorErrors \in Nat /\ metrics.executions \in Nat
      BY Zenon DEF Counters
    <3>2. ASSUME NEW n \in Nat, NEW m \in {0, 1} PROVE n + m \in Nat
      OBVIOUS
    <3>3. 1 \in {0, 1}
      OBVIOUS
    <3> QED  BY <3>1, <3>2, <3>3, <2>1, Zenon
  <2>3. ASSUME NEW i \in Nat, NEW j \in Nat, NEW k \in Nat, NEW l \in Nat
        PROVE  [scrapes |-> i, checkErrors |-> j, collectorErrors |-> k, executions |-> l] \in Counters
    BY DEF Counters
  <2> QED  BY <2>1, <2>2, <2>3, Zenon
<1> QED
  BY <1>2, <1>3, <1>4, <1>5

\* Every step of the scraper and of its environment keeps the types.
LEMMA TypeStep == TypeOK /\ [Next]_vars => TypeOK'
<1> SUFFICES ASSUME TypeOK, [Next]_vars PROVE TypeOK'
  OBVIOUS
<1> USE TimesAssumption
<1>0. /\ now \in Nat /\ frequency \in Nat \ {0} /\ workAt \in Nat /\ idleAt \in Nat /\ lastTick \in Nat
      /\ payload \in Payloads /\ sm \in SM /\ reported \in Seq({"PASS", "FAIL"})
      /\ metrics \in Counters /\ published \in Seq(Payloads)
  BY Zenon DEF TypeOK, SM, Counters
<1>1. CASE Advance
  BY <1>1 DEF TypeOK, Advance, clockVars, tickVars, signals, resultVars
<1>2. CASE Stop
  BY <1>2 DEF TypeOK, Stop, clockVars, tickVars, resultVars
<1>3. CASE Cancel
  BY <1>3 DEF TypeOK, Cancel, clockVars, tickVars, resultVars
<1>4. CASE CheckCancelled
  BY <1>4 DEF TypeOK, CheckCancelled, Return, Places, clockVars, tickVars, signals, resultVars
<1>5. CASE OffsetInterrupted \/ CancelSelected
  BY <1>5, Zenon DEF TypeOK, OffsetInterrupted, CancelSelected, Return, Places, clockVars, tickVars, signals, resultVars
<1>6. CASE OffsetTimer
  BY <1>6 DEF TypeOK, OffsetTimer, StartWork, Places, clockVars, signals, resultVars
<1>7. CASE Scrape
  <2> PICK outcome \in Outcomes : WorkDone(outcome)
    BY <1>7 DEF Scrape
  <2>1. scrape(outcome)
    BY DEF WorkDone
  <2>2. workAt' \in Nat /\ idleAt' \in Nat
    BY <1>0 DEF WorkDone, NewTickers, NoTick
  <2>3. /\ payload' \in Payloads /\ sm' \in SM /\ reported' \in Seq({"PASS", "FAIL"})
        /\ metrics' \in Counters /\ published' \in Seq(Payloads)
    BY <1>0, <2>1, ScrapeTypes, Zenon
  <2> QED
    BY <2>2, <2>3, Zenon DEF TypeOK, WorkDone, Places, SM, Counters, clockVars, signals
<1>8. CASE WorkTick
  <2>1. workAt' \in Nat
    BY <1>8, NextTickLater DEF TypeOK, WorkTick, Due
  <2> QED
    BY <1>8, <2>1 DEF TypeOK, WorkTick, StartWork, Places, clockVars, signals, resultVars
<1>9. CASE InactivityTick
  <2>1. idleAt' \in Nat
    BY <1>9, NextTickLater DEF TypeOK, InactivityTick, Due
  <2>2. payload' \in Payloads /\ published' \in Seq(Payloads)
    <3> DEFINE p == Redated(payload, idleAt)
    <3>1. p \in Payloads
      BY <1>0, PayloadTypes
    <3>2. \/ payload' = payload /\ published' = published
          \/ payload' = p /\ published' = Append(published, p)
      BY <1>9, Zenon DEF InactivityTick, republish
    <3> HIDE DEF p
    <3> QED  BY <1>0, <3>1, <3>2
  <2> QED
    BY <1>9, <2>1, <2>2 DEF TypeOK, InactivityTick, clockVars, signals
<1>10. CASE StopSelected
  <2>1. payload' \in Payloads /\ published' \in Seq(Payloads)
    BY <1>0, <1>10, PayloadTypes DEF StopSelected, cleanup
  <2> QED
    BY <1>10, <2>1 DEF TypeOK, StopSelected, Places, clockVars, tickVars, signals
<1>11. CASE UNCHANGED vars
  BY <1>11 DEF TypeOK, vars
<1> QED
  BY <1>1, <1>2, <1>3, <1>4, <1>5, <1>6, <1>7, <1>8, <1>9, <1>10, <1>11 DEF Next, Run

-----------------------------------------------------------------------------
(* What a step publishes                                                   *)

\* A probe's data: its samples have the time of its tick.
PublishesProbe(p) ==
  /\ pc = "work" /\ p.at = lastTick /\ p.probe = lastTick

\* A republication: between two probes, and not near either.
PublishesAgain(p) ==
  /\ pc = "select" /\ pc' = "select"
  /\ p.at = idleAt /\ p.probe = lastTick /\ p.carries = "samples"
  /\ idleAt > lastTick /\ idleAt <= lastTick + frequency - minPublishGap
  /\ idleAt' > idleAt /\ lastTick' = lastTick /\ frequency' = frequency

\* Stale markers: the last thing a scraper does.
PublishesMarkers(p) ==
  /\ pc = "select" /\ pc' = "done" /\ p.probe = lastTick /\ p.carries = "markers"

\* Facts about the variables that are not Boolean, for the SMT solver.
NumbersOK ==
  /\ now \in Nat /\ frequency \in Nat \ {0} /\ offsetAt \in Nat
  /\ workAt \in Nat /\ idleAt \in Nat /\ lastTick \in Nat
  /\ payload \in Payloads /\ published \in Seq(Payloads)

\* They follow from the type invariant.
LEMMA Numbers == TypeOK => NumbersOK
BY TimesAssumption, Zenon DEF TypeOK, NumbersOK

\* A step publishes nothing, or one payload of one of the three sorts.
LEMMA StepPublishes ==
  ASSUME TypeOK, LoopInv, [Next]_vars
  PROVE  \/ published' = published
         \/ \E p \in Payloads :
              /\ published' = Append(published, p)
              /\ \/ PublishesProbe(p) /\ pc' = "select" /\ lastTick' = lastTick
                 \/ PublishesAgain(p)
                 \/ PublishesMarkers(p)
<1>0. NumbersOK
  BY Numbers
<1>1. CASE Advance \/ Stop \/ Cancel
  BY <1>1 DEF Advance, Stop, Cancel, resultVars
<1>2. CASE CheckCancelled \/ OffsetInterrupted \/ CancelSelected
  BY <1>2 DEF CheckCancelled, OffsetInterrupted, CancelSelected, Return, resultVars
<1>3. CASE OffsetTimer \/ WorkTick
  BY <1>3 DEF OffsetTimer, WorkTick, resultVars
<1>4. CASE Scrape
  <2> PICK outcome \in Outcomes : WorkDone(outcome)
    BY <1>4 DEF Scrape
  <2> DEFINE p == collectData(lastTick, outcome)
  <2>1. CASE outcome = "error"
    BY <2>1 DEF WorkDone, scrape
  <2>2. CASE outcome # "error"
    <3>1. p \in Payloads
      BY <1>0, PayloadTypes, Zenon DEF NumbersOK
    <3>2. p.at = lastTick /\ p.probe = lastTick
      BY <2>2 DEF collectData
    <3>3. published' = Append(published, p) /\ pc = "work" /\ pc' = "select" /\ lastTick' = lastTick
      BY <2>2, Zenon DEF WorkDone, scrape
    <3> HIDE DEF p
    <3> QED  BY <3>1, <3>2, <3>3 DEF PublishesProbe
  <2> QED  BY <2>1, <2>2
<1>5. CASE InactivityTick
  <2>1. CASE payload = NoPayload \/ ~MayRepublish(idleAt)
    BY <1>5, <2>1 DEF InactivityTick, republish
  <2>2. CASE payload # NoPayload /\ MayRepublish(idleAt)
    <3> DEFINE p == Redated(payload, idleAt)
    <3>1. p \in Payloads
      BY <1>0, PayloadTypes DEF NumbersOK
    <3>2. p.at = idleAt /\ p.probe = payload.probe /\ p.carries = "samples"
      BY <1>0 DEF Redated, Payloads, NumbersOK
    <3>3. published' = Append(published, p) /\ pc = "select" /\ pc' = "select"
          /\ lastTick' = lastTick /\ frequency' = frequency
      BY <1>5, <2>2, Zenon DEF InactivityTick, republish, clockVars
    <3>4. payload.probe = lastTick
      BY <3>3, <2>2 DEF LoopInv
    <3>5. idleAt > lastTick /\ idleAt <= lastTick + frequency - minPublishGap
      BY <1>0, <2>2, TimesAssumption DEF MayRepublish, NumbersOK
    <3>6. idleAt' > idleAt
      <4>1. idleAt <= now /\ idleAt' = NextTick(idleAt, maxPublishInterval)
        BY <1>5 DEF InactivityTick, Due
      <4>2. NextTick(idleAt, maxPublishInterval) > now /\ NextTick(idleAt, maxPublishInterval) \in Nat
        BY <1>0, <4>1, NextTickLater, TimesAssumption DEF NumbersOK
      <4> QED  BY <1>0, <4>1, <4>2 DEF NumbersOK
    <3> HIDE DEF p
    <3> QED  BY <3>1, <3>2, <3>3, <3>4, <3>5, <3>6 DEF PublishesAgain
  <2> QED  BY <2>1, <2>2
<1>6. CASE StopSelected
  <2>1. CASE payload = NoPayload
    BY <1>6, <2>1 DEF StopSelected, cleanup
  <2>2. CASE payload # NoPayload
    <3> DEFINE p == StaleMarkers(payload, lastTick)
    <3>1. p \in Payloads
      BY <1>0, PayloadTypes DEF NumbersOK
    <3>2. p.probe = payload.probe /\ p.carries = "markers"
      BY <1>0 DEF StaleMarkers, Payloads, NumbersOK
    <3>3. published' = Append(published, p) /\ pc = "select" /\ pc' = "done"
      BY <1>6, <2>2, Zenon DEF StopSelected, cleanup
    <3>4. payload.probe = lastTick
      BY <3>3, <2>2 DEF LoopInv
    <3> HIDE DEF p
    <3> QED  BY <3>1, <3>2, <3>3, <3>4 DEF PublishesMarkers
  <2> QED  BY <2>1, <2>2
<1>7. CASE UNCHANGED vars
  BY <1>7 DEF vars
<1> QED
  BY <1>1, <1>2, <1>3, <1>4, <1>5, <1>6, <1>7 DEF Next, Run

-----------------------------------------------------------------------------
(* The inductive invariant                                                 *)

\* Every step keeps the tickers ahead of the last probe, and the payload held
\* between probes that of the last one.
LEMMA LoopStep ==
  ASSUME TypeOK, LoopInv, [Next]_vars
  PROVE  LoopInv'
<1>0. NumbersOK
  BY Numbers
<1> USE DEF NoTick
<1>1. CASE Advance
  BY <1>0, <1>1 DEF NumbersOK, LoopInv, Advance, clockVars, tickVars, resultVars
<1>2. CASE Stop \/ Cancel
  BY <1>2 DEF LoopInv, Stop, Cancel, clockVars, tickVars, resultVars
<1>3. CASE CheckCancelled \/ OffsetInterrupted \/ CancelSelected
  BY <1>3 DEF LoopInv, CheckCancelled, OffsetInterrupted, CancelSelected, Return, clockVars, tickVars, resultVars
<1>4. CASE OffsetTimer
  BY <1>0, <1>4 DEF NumbersOK, LoopInv, OffsetTimer, StartWork, Due, clockVars, resultVars
<1>5. CASE Scrape
  <2> PICK outcome \in Outcomes : WorkDone(outcome)
    BY <1>5 DEF Scrape
  <2>1. pc' = "select" /\ lastTick' = lastTick /\ now' = now /\ frequency' = frequency /\ offsetAt' = offsetAt
    BY DEF WorkDone, clockVars
  <2>2. workAt' # NoTick /\ workAt' >= lastTick + frequency
    BY <1>0 DEF NumbersOK, LoopInv, WorkDone, NewTickers
  <2>3. payload' # NoPayload => payload'.probe = lastTick
    BY DEF WorkDone, scrape, collectData
  <2> QED
    BY <2>1, <2>2, <2>3 DEF LoopInv
<1>6. CASE WorkTick
  <2>1. /\ pc' = "work" /\ lastTick' = workAt /\ now' = now /\ frequency' = frequency /\ offsetAt' = offsetAt
        /\ workAt <= now /\ workAt' = NextTick(workAt, frequency)
    BY <1>6 DEF WorkTick, StartWork, Due, clockVars
  <2>2. workAt' >= workAt + frequency
    BY <1>0, <2>1, NextTickLater DEF NumbersOK
  <2> QED
    BY <1>0, <2>1, <2>2 DEF LoopInv, NumbersOK
<1>7. CASE InactivityTick
  <2>1. UNCHANGED <<frequency, offsetAt, now, pc, workAt, lastTick>> /\ pc = "select"
    BY <1>7 DEF InactivityTick, clockVars
  <2>2. payload' = payload \/ (payload # NoPayload /\ payload' = Redated(payload, idleAt))
    BY <1>7, Zenon DEF InactivityTick, republish
  <2>3. Redated(payload, idleAt).probe = payload.probe
    BY <1>0 DEF NumbersOK, Payloads, Redated
  <2> QED
    BY <2>1, <2>2, <2>3 DEF LoopInv
<1>8. CASE StopSelected
  BY <1>8 DEF LoopInv, StopSelected, clockVars, tickVars
<1>9. CASE UNCHANGED vars
  BY <1>9 DEF LoopInv, vars
<1> QED
  BY <1>1, <1>2, <1>3, <1>4, <1>5, <1>6, <1>7, <1>8, <1>9 DEF Next, Run

\* A step that publishes nothing keeps the order of what was published with
\* respect to the ticks: only the start of a probe changes the last tick.
LEMMA OrderKept ==
  ASSUME TypeOK, LoopInv, OrderInv, [Next]_vars, published' = published
  PROVE  OrderInv'
<1>0. NumbersOK /\ \A i \in 1..Len(published) : published[i].at \in Nat /\ published[i].probe \in Nat
  <2>1. NumbersOK
    BY Numbers
  <2>2. ASSUME NEW i \in 1..Len(published) PROVE published[i] \in Payloads
    BY <2>1 DEF NumbersOK
  <2> QED  BY <2>1, <2>2 DEF Payloads
<1>1. CASE Advance \/ Stop \/ Cancel \/ UNCHANGED vars
  BY <1>1 DEF OrderInv, Advance, Stop, Cancel, vars, clockVars, tickVars, resultVars
<1>2. CASE CheckCancelled \/ OffsetInterrupted \/ CancelSelected \/ StopSelected
  BY <1>2 DEF OrderInv, CheckCancelled, OffsetInterrupted, CancelSelected, StopSelected, Return
<1>3. CASE OffsetTimer
  <2>1. published = <<>>
    BY <1>3 DEF OffsetTimer, LoopInv
  <2> QED  BY <2>1 DEF OrderInv
<1>4. CASE Scrape
  <2>1. pc = "work" /\ pc' = "select" /\ lastTick' = lastTick
    BY <1>4 DEF Scrape, WorkDone
  <2> QED  BY <1>0, <2>1 DEF OrderInv, NumbersOK
<1>5. CASE WorkTick
  <2>1. pc = "select" /\ pc' = "work" /\ lastTick' = workAt /\ workAt # NoTick
    BY <1>5 DEF WorkTick, StartWork, Due
  <2>2. workAt >= lastTick + frequency
    BY <2>1 DEF LoopInv
  <2>3. ASSUME NEW i \in 1..Len(published)
        PROVE  published[i].at < workAt /\ published[i].probe < workAt
    BY <1>0, <2>1, <2>2, TimesAssumption DEF OrderInv, NumbersOK
  <2> QED  BY <2>1, <2>3 DEF OrderInv
<1>6. CASE InactivityTick
  <2>1. pc = "select" /\ pc' = "select" /\ lastTick' = lastTick /\ frequency' = frequency
    BY <1>6 DEF InactivityTick, clockVars
  <2>2. idleAt' > idleAt /\ idleAt' \in Nat
    <3>1. idleAt <= now /\ idleAt' = NextTick(idleAt, maxPublishInterval)
      BY <1>6 DEF InactivityTick, Due
    <3>2. NextTick(idleAt, maxPublishInterval) > now /\ NextTick(idleAt, maxPublishInterval) \in Nat
      BY <1>0, <3>1, NextTickLater, TimesAssumption DEF NumbersOK
    <3> QED  BY <1>0, <3>1, <3>2 DEF NumbersOK
  <2>3. ASSUME NEW i \in 1..Len(published), published[i].at < idleAt
        PROVE  published[i].at < idleAt'
    BY <1>0, <2>2, <2>3 DEF NumbersOK
  <2> QED  BY <2>1, <2>3 DEF OrderInv
<1> QED
  BY <1>1, <1>2, <1>3, <1>4, <1>5, <1>6 DEF Next, Run

\* The payloads before the appended one are as they were.
LEMMA Appended ==
  ASSUME NEW p \in Payloads, published \in Seq(Payloads), published' = Append(published, p)
  PROVE  /\ Len(published) \in Nat /\ Len(published') = Len(published) + 1
         /\ published'[Len(published')] = p
         /\ p.at \in Nat /\ p.probe \in Nat
         /\ \A i \in 1..Len(published) :
              /\ published'[i] = published[i]
              /\ published[i].at \in Nat /\ published[i].probe \in Nat
<1>1. /\ Len(published) \in Nat /\ Len(published') = Len(published) + 1
      /\ published'[Len(published')] = p
      /\ \A i \in 1..Len(published) : published'[i] = published[i] /\ published[i] \in Payloads
  OBVIOUS
<1> QED
  BY <1>1 DEF Payloads

\* Every step keeps the inductive invariant.
LEMMA InvStep == Inv /\ [Next]_vars => Inv'
<1> SUFFICES ASSUME Inv, [Next]_vars PROVE Inv'
  OBVIOUS
<1>0. TypeOK /\ LoopInv /\ OrderInv /\ TimestampsIncrease /\ LogsOnce
  BY DEF Inv
<1>1. TypeOK' /\ LoopInv'
  BY <1>0, TypeStep, LoopStep
<1>2. NumbersOK
  BY <1>0, Numbers
<1>3. CASE published' = published
  <2>1. OrderInv'
    BY <1>0, <1>3, OrderKept
  <2>2. TimestampsIncrease' /\ LogsOnce'
    BY <1>0, <1>3 DEF TimestampsIncrease, LogsOnce
  <2> QED  BY <1>1, <2>1, <2>2 DEF Inv
<1>4. ASSUME NEW p \in Payloads, published' = Append(published, p),
             PublishesProbe(p), pc' = "select", lastTick' = lastTick
      PROVE  OrderInv' /\ TimestampsIncrease' /\ LogsOnce'
  <2> DEFINE n == Len(published)
  <2>1. /\ n \in Nat /\ Len(published') = n + 1 /\ published'[n + 1] = p
        /\ \A i \in 1..n : /\ published'[i] = published[i]
                           /\ published[i].at \in Nat /\ published[i].probe \in Nat
    BY <1>2, <1>4, Appended DEF NumbersOK
  <2>2. \A i \in 1..n : published[i].at < lastTick /\ published[i].probe < lastTick
    BY <1>0, <1>4 DEF OrderInv, PublishesProbe
  <2>3. p.at = lastTick /\ p.probe = lastTick
    BY <1>4 DEF PublishesProbe
  <2> HIDE DEF n
  <2>4. OrderInv'
    BY <1>2, <1>4, <2>1, <2>2, <2>3 DEF OrderInv, NumbersOK
  <2>5. TimestampsIncrease'
    BY <1>0, <2>1, <2>2, <2>3 DEF TimestampsIncrease, n
  <2>6. LogsOnce'
    <3> SUFFICES ASSUME NEW i \in 1..(n + 1), NEW j \in 1..(n + 1), i # j,
                        published'[i].carries = "logs", published'[j].carries = "logs"
                 PROVE  published'[i].probe # published'[j].probe
      BY <2>1 DEF LogsOnce
    <3>1. CASE i \in 1..n /\ j \in 1..n
      BY <1>0, <2>1, <3>1 DEF LogsOnce, n
    <3>2. CASE i = n + 1 /\ j \in 1..n
      BY <1>2, <2>1, <2>2, <2>3, <3>2 DEF NumbersOK
    <3>3. CASE i \in 1..n /\ j = n + 1
      BY <1>2, <2>1, <2>2, <2>3, <3>3 DEF NumbersOK
    <3> QED  BY <2>1, <3>1, <3>2, <3>3
  <2> QED  BY <2>4, <2>5, <2>6
<1>5. ASSUME NEW p \in Payloads, published' = Append(published, p), PublishesAgain(p)
      PROVE  OrderInv' /\ TimestampsIncrease' /\ LogsOnce'
  <2> DEFINE n == Len(published)
  <2>1. /\ n \in Nat /\ Len(published') = n + 1 /\ published'[n + 1] = p
        /\ \A i \in 1..n : /\ published'[i] = published[i]
                           /\ published[i].at \in Nat /\ published[i].probe \in Nat
    BY <1>2, <1>5, Appended DEF NumbersOK
  <2>2. \A i \in 1..n :
          /\ published[i].probe <= lastTick
          /\ \/ published[i].at <= lastTick
             \/ published[i].at < idleAt /\ published[i].at <= lastTick + frequency - minPublishGap
    BY <1>0, <1>5 DEF OrderInv, PublishesAgain
  <2>3. \A i \in 1..n : published[i].at < idleAt
    BY <1>2, <1>5, <2>1, <2>2 DEF NumbersOK, PublishesAgain
  <2>4. idleAt' \in Nat
    BY <1>1, Numbers DEF TypeOK
  <2>5. \A i \in 1..n : published[i].at < idleAt'
    BY <1>2, <1>5, <2>1, <2>3, <2>4 DEF NumbersOK, PublishesAgain
  <2> HIDE DEF n
  <2>6. OrderInv'
    BY <1>2, <1>5, <2>1, <2>2, <2>4, <2>5 DEF OrderInv, NumbersOK, PublishesAgain
  <2>7. TimestampsIncrease'
    BY <1>0, <1>5, <2>1, <2>3 DEF TimestampsIncrease, PublishesAgain, n
  <2>8. LogsOnce'
    BY <1>0, <1>5, <2>1 DEF LogsOnce, PublishesAgain, n
  <2> QED  BY <2>6, <2>7, <2>8
<1>6. ASSUME NEW p \in Payloads, published' = Append(published, p), PublishesMarkers(p)
      PROVE  OrderInv' /\ TimestampsIncrease' /\ LogsOnce'
  <2> DEFINE n == Len(published)
  <2>1. /\ n \in Nat /\ Len(published') = n + 1 /\ published'[n + 1] = p
        /\ \A i \in 1..n : published'[i] = published[i]
    BY <1>2, <1>6, Appended DEF NumbersOK
  <2> HIDE DEF n
  <2>2. OrderInv'
    BY <1>6 DEF OrderInv, PublishesMarkers
  <2>3. TimestampsIncrease'
    <3> SUFFICES ASSUME NEW j \in 1..(n + 1), published'[j].carries # "markers",
                        NEW i \in 1..(j - 1)
                 PROVE  published'[i].at < published'[j].at
      BY <2>1 DEF TimestampsIncrease
    <3>1. j # n + 1
      BY <1>6, <2>1 DEF PublishesMarkers
    <3>2. i \in 1..n /\ j \in 1..n
      BY <2>1, <3>1
    <3>3. published'[i] = published[i] /\ published'[j] = published[j]
      BY <2>1, <3>2
    <3> QED  BY <1>0, <3>2, <3>3 DEF TimestampsIncrease, n
  <2>4. LogsOnce'
    BY <1>0, <1>6, <2>1 DEF LogsOnce, PublishesMarkers, n
  <2> QED  BY <2>2, <2>3, <2>4
<1> QED
  BY <1>0, <1>1, <1>3, <1>4, <1>5, <1>6, StepPublishes DEF Inv

\* The scraper starts in the inductive invariant.
LEMMA InvInit == Init => Inv
<1> SUFFICES ASSUME Init PROVE Inv
  OBVIOUS
<1>1. offsetAt \in Nat /\ offsetAt # NoTick
  <2>1. PICK o \in Offsets : \E d \in RunOffsets(frequency, o) : offsetAt = now + d
    BY DEF Init
  <2>2. PICK d \in RunOffsets(frequency, o) : offsetAt = now + d
    BY <2>1
  <2>3. d \in Nat
    BY TimesAssumption DEF RunOffsets, Init
  <2> QED  BY <2>2, <2>3 DEF Init, NoTick
<1>2. TypeOK
  <2>1. /\ now \in Nat /\ workAt \in Nat /\ idleAt \in Nat /\ lastTick \in Nat
        /\ pc \in Places /\ payload \in Payloads /\ sm \in SM /\ metrics \in Counters
    BY DEF Init, Places, Payloads, NoPayload, NoTick, SM, Counters
  <2>2. reported \in Seq({"PASS", "FAIL"}) /\ published \in Seq(Payloads)
    BY DEF Init
  <2>3. frequency \in Frequencies /\ stopped \in BOOLEAN /\ cancelled \in BOOLEAN
    BY Zenon DEF Init
  <2> QED  BY <1>1, <2>1, <2>2, <2>3, Zenon DEF TypeOK, SM, Counters
<1>3. LoopInv
  BY <1>1 DEF Init, LoopInv, NoTick
<1>4. OrderInv /\ TimestampsIncrease /\ LogsOnce
  <2>1. 1..Len(published) = {}
    <3>1. published = <<>>
      BY Zenon DEF Init
    <3> QED  BY <3>1
  <2> QED  BY <2>1, Zenon DEF OrderInv, TimestampsIncrease, LogsOnce
<1> QED
  BY <1>2, <1>3, <1>4 DEF Inv

-----------------------------------------------------------------------------
(* The end of the series                                                   *)

\* Until the scraper is done there are no markers, and between probes an empty
\* payload means that nothing of the last probe was published.
SeriesInv ==
  /\ pc # "done" => \A i \in 1..Len(published) : published[i].carries # "markers"
  /\ pc = "select" /\ payload = NoPayload =>
       \A i \in 1..Len(published) : published[i].probe # lastTick
  /\ SeriesEnded

\* A step that publishes nothing keeps it: only a probe without data empties the
\* payload then, and everything published is older than that probe.
LEMMA SeriesKept ==
  ASSUME Inv, SeriesInv, [Next]_vars, published' = published
  PROVE  SeriesInv'
<1>0. NumbersOK /\ \A i \in 1..Len(published) : published[i] \in Payloads
  BY Numbers DEF Inv, NumbersOK
<1>1. CASE Advance \/ Stop \/ Cancel \/ UNCHANGED vars
  BY <1>1 DEF SeriesInv, SeriesEnded, Advance, Stop, Cancel, vars, clockVars, tickVars, signals, resultVars
<1>2. CASE CheckCancelled \/ OffsetInterrupted
  <2>1. published = <<>> /\ pc' # "select"
    BY <1>2 DEF Inv, LoopInv, CheckCancelled, OffsetInterrupted, Return
  <2> QED
    BY <2>1 DEF SeriesInv, SeriesEnded
<1>3. CASE CancelSelected
  BY <1>3 DEF SeriesInv, SeriesEnded, CancelSelected, Return, signals
<1>4. CASE OffsetTimer \/ WorkTick
  <2>1. pc' = "work" /\ pc # "done"
    BY <1>4 DEF OffsetTimer, WorkTick, StartWork
  <2> QED
    BY <2>1 DEF SeriesInv, SeriesEnded
<1>5. CASE Scrape
  <2>1. pc = "work" /\ pc' = "select" /\ lastTick' = lastTick
    BY <1>5 DEF Scrape, WorkDone
  <2>2. \A i \in 1..Len(published) : published[i].probe # lastTick
    BY <1>0, <2>1 DEF Inv, OrderInv, NumbersOK, Payloads
  <2> QED
    BY <2>1, <2>2 DEF SeriesInv, SeriesEnded
<1>6. CASE InactivityTick
  <2>1. pc = "select" /\ pc' = "select" /\ lastTick' = lastTick
    BY <1>6 DEF InactivityTick
  <2>2. payload' = payload
    <3>1. published # Append(published, Redated(payload, idleAt))
      <4>1. Redated(payload, idleAt) \in Payloads /\ published \in Seq(Payloads)
        BY <1>0, PayloadTypes DEF NumbersOK
      <4> HIDE DEF Redated
      <4> QED
        BY <4>1
    <3> QED
      BY <1>6, <3>1 DEF InactivityTick, republish
  <2> QED
    BY <2>1, <2>2 DEF SeriesInv, SeriesEnded
<1>7. CASE StopSelected
  <2>1. pc = "select" /\ pc' = "done" /\ lastTick' = lastTick
    BY <1>7 DEF StopSelected, tickVars
  <2>2. payload = NoPayload
    <3>1. published # Append(published, StaleMarkers(payload, lastTick))
      <4>1. StaleMarkers(payload, lastTick) \in Payloads /\ published \in Seq(Payloads)
        BY <1>0, PayloadTypes DEF NumbersOK
      <4> HIDE DEF StaleMarkers
      <4> QED
        BY <4>1
    <3> QED
      BY <1>7, <3>1 DEF StopSelected, cleanup
  <2> QED
    BY <2>1, <2>2 DEF SeriesInv, SeriesEnded
<1> QED
  BY <1>1, <1>2, <1>3, <1>4, <1>5, <1>6, <1>7 DEF Next, Run

\* Every step keeps it: what a probe or a republication appends is the payload
\* kept and carries no markers, and markers are appended as the scraper returns.
LEMMA SeriesStep == Inv /\ SeriesInv /\ [Next]_vars => SeriesInv'
<1> SUFFICES ASSUME Inv, SeriesInv, [Next]_vars PROVE SeriesInv'
  OBVIOUS
<1>1. TypeOK /\ LoopInv /\ NumbersOK
  BY Numbers DEF Inv
<1>2. CASE published' = published
  BY <1>2, SeriesKept
<1>3. ASSUME NEW p \in Payloads, published' = Append(published, p), p.carries # "markers",
             pc # "done", pc' = "select", payload' # NoPayload
      PROVE  SeriesInv'
  <2>1. \A i \in 1..Len(published') : published'[i].carries # "markers"
    BY <1>1, <1>3, Appended DEF SeriesInv, NumbersOK
  <2> QED
    BY <1>3, <2>1 DEF SeriesInv, SeriesEnded
<1>4. ASSUME NEW p \in Payloads, published' = Append(published, p), PublishesMarkers(p),
             lastTick' = lastTick
      PROVE  SeriesInv'
  <2> DEFINE n == Len(published)
  <2>1. /\ n \in Nat /\ Len(published') = n + 1 /\ published'[n + 1] = p
        /\ \A i \in 1..n : published'[i] = published[i]
    BY <1>1, <1>4, Appended DEF NumbersOK
  <2>2. \A i \in 1..n : published'[i].carries # "markers"
    BY <1>4, <2>1 DEF SeriesInv, PublishesMarkers
  <2>3. p.carries = "markers" /\ p.probe = lastTick /\ pc' = "done"
    BY <1>4 DEF PublishesMarkers
  <2> HIDE DEF n
  <2> QED
    BY <1>4, <2>1, <2>2, <2>3 DEF SeriesInv, SeriesEnded
<1>5. CASE Scrape /\ published' # published
  <2> PICK outcome \in Outcomes : WorkDone(outcome)
    BY <1>5 DEF Scrape
  <2> DEFINE p == collectData(lastTick, outcome)
  <2>1. p \in Payloads
    BY <1>1, PayloadTypes, Zenon DEF NumbersOK
  <2>2. published' = Append(published, p) /\ payload' = p /\ pc = "work" /\ pc' = "select" /\ outcome # "error"
    BY <1>5, Zenon DEF WorkDone, scrape
  <2>3. p.carries = "logs" /\ p # NoPayload
    BY <2>2 DEF collectData, NoPayload
  <2> HIDE DEF p
  <2> QED
    BY <1>3, <2>1, <2>2, <2>3
<1>6. CASE InactivityTick /\ published' # published
  <2> DEFINE p == Redated(payload, idleAt)
  <2>1. p \in Payloads
    BY <1>1, PayloadTypes DEF NumbersOK
  <2>2. published' = Append(published, p) /\ payload' = p /\ pc = "select" /\ pc' = "select"
    BY <1>6, Zenon DEF InactivityTick, republish
  <2>3. p.carries = "samples" /\ p # NoPayload
    BY <1>1 DEF Redated, Payloads, NumbersOK, NoPayload
  <2> HIDE DEF p
  <2> QED
    BY <1>3, <2>1, <2>2, <2>3
<1>7. CASE StopSelected /\ published' # published
  <2>1. lastTick' = lastTick /\ pc' = "done"
    BY <1>7 DEF StopSelected, tickVars
  <2>2. PICK p \in Payloads : published' = Append(published, p) /\ PublishesMarkers(p)
    BY <1>1, <1>7, <2>1, StepPublishes DEF PublishesAgain
  <2> QED
    BY <1>4, <2>1, <2>2
<1> QED
  BY <1>2, <1>5, <1>6, <1>7 DEF Next, Run, Advance, Stop, Cancel, CheckCancelled, OffsetInterrupted,
     CancelSelected, Return, OffsetTimer, WorkTick, vars, resultVars

-----------------------------------------------------------------------------
(* Theorems                                                                *)

\* Inv is an invariant of the scraper.
THEOREM Invariance == Spec => []Inv
BY InvInit, InvStep, PTL DEF Spec

\* The variables of a scraper keep their types.
THEOREM TypeCorrect == Spec => []TypeOK
<1>1. Inv => TypeOK
  BY DEF Inv
<1> QED
  BY <1>1, Invariance, PTL

\* However late the goroutine runs and whichever ticks are dropped, the samples
\* a scraper publishes are newer than all those it published before.
THEOREM SamplesInOrder == Spec => []TimestampsIncrease
<1>1. Inv => TimestampsIncrease
  BY DEF Inv
<1> QED
  BY <1>1, Invariance, PTL

\* The logs of a probe are published at most once.
THEOREM LogsPublishedOnce == Spec => []LogsOnce
<1>1. Inv => LogsOnce
  BY DEF Inv
<1> QED
  BY <1>1, Invariance, PTL

\* A scraper stopped after a probe with data publishes the stale markers of that
\* probe's series last, and once, for any schedule and number of republications.
THEOREM StopEndsSeries == Spec => []SeriesEnded
<1>1. Init => SeriesInv
  <2> SUFFICES ASSUME Init PROVE SeriesInv
    OBVIOUS
  <2>1. published = <<>> /\ pc = "begin"
    BY Zenon DEF Init
  <2> QED
    BY <2>1 DEF SeriesInv, SeriesEnded
<1>2. SeriesInv => SeriesEnded
  BY DEF SeriesInv
<1> QED
  BY <1>1, <1>2, SeriesStep, Invariance, PTL DEF Spec

=============================================================================
