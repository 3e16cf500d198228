------------------------------- MODULE Updater -------------------------------
(***************************************************************************)
(* The Updater (internal/checks/checks.go): the reconnect loop of Run, the *)
(* two goroutines of a session, the change handlers and the scrapers they  *)
(* start and stop. The API is the environment: what its calls return are   *)
(* parameters of the actions, bound to any value in this module's Next and *)
(* to what the server does in CheckSync.                                   *)
(*                                                                         *)
(* A check's configuration is its version (Modified, which ConfigVersion   *)
(* formats), a scraper the version it runs. The loops over a batch and     *)
(* over the scrapers map take one step per iteration: nothing else reads   *)
(* the map in a session.                                                   *)
(***************************************************************************)
EXTENDS Changes

CONSTANTS Invalid,      \* <<check, version>> pairs that Validate refuses
          Gated,        \* those that need the k6 feature while it is off
          MaxAttempt    \* step at which the back-off reaches its ceiling

ASSUME UpdaterAssumption ==
  /\ Invalid \subseteq Checks \X Nat /\ Gated \subseteq Checks \X Nat
  /\ MaxAttempt \in Nat \ {0}

NoScraper == 0
NoBatch == [tenants |-> 0, checks |-> <<>>, delta |-> FALSE]

\* "Unavailable" is also a closing transport, "Aborted" any code without a
\* meaning of its own.
Codes   == {"Canceled", "Unavailable", "PermissionDenied", "Unimplemented", "Aborted"}
Classes == {"nil", "transient", "fatal", "canceled", "other"}

VARIABLES
  phase,        \* where Run is: register, request, session, backoff, done
  result,       \* what Run returned
  attempt, resets,    \* the back-off, and whether handleError will reset it
  signalFired,  \* installSignalHandler's flag
  groupErr,     \* first error of the session's errgroup
  ping, changes,      \* the two goroutines of the session
  firstBatch, batch, newChecks,   \* processChanges and handleFirstBatch
  scrapers,     \* check -> version its scraper runs, or NoScraper
  unstopped,    \* check -> scraper goroutines not told to stop
  gauge,        \* the runningScrapers gauge, all types together
  dropped,      \* history: checks whose latest change ended in an error
  managerUp,    \* the tenant manager still receives from tenantCh
  ctxDone       \* Run's context

runVars     == <<phase, result, attempt, resets>>
sessionVars == <<signalFired, groupErr, ping, changes>>
batchVars   == <<firstBatch, batch, newChecks>>
scraperVars == <<scrapers, unstopped, gauge, dropped>>
updaterVars == <<runVars, sessionVars, batchVars, scraperVars, managerUp, ctxDone>>

RunTypeOK ==
  /\ phase \in {"register", "request", "session", "backoff", "done"}
  /\ result \in {"running", "nil", "error"}
  /\ attempt \in 0..MaxAttempt
  /\ groupErr \in Codes \cup {"nil"}
  /\ ping \in {"off", "first", "ticking", "returned"}
  /\ changes \in {"off", "recv", "first", "batch", "returned"}

FlagTypeOK ==
  /\ resets \in BOOLEAN /\ signalFired \in BOOLEAN /\ firstBatch \in BOOLEAN
  /\ managerUp \in BOOLEAN /\ ctxDone \in BOOLEAN

ScraperTypeOK ==
  /\ batch \in Message /\ newChecks \subseteq Checks
  /\ scrapers \in [Checks -> Nat] /\ unstopped \in [Checks -> Nat]
  /\ gauge \in Nat /\ dropped \subseteq Checks

\* The variables keep their types: in particular the gauge and the number of
\* scraper goroutines never go below zero.
UpdaterTypeOK == RunTypeOK /\ FlagTypeOK /\ ScraperTypeOK

UpdaterInit ==
  /\ phase = "register" /\ result = "running" /\ attempt = 0 /\ resets = FALSE
  /\ signalFired = FALSE /\ groupErr = "nil" /\ ping = "off" /\ changes = "off"
  /\ firstBatch = TRUE /\ batch = NoBatch /\ newChecks = {}
  /\ scrapers = [c \in Checks |-> NoScraper] /\ unstopped = [c \in Checks |-> 0]
  /\ gauge = 0 /\ dropped = {}
  /\ managerUp = TRUE /\ ctxDone = FALSE

--------------------------------------------------------------------------------
\* What an error of loop means.
grpcErrorHandler(code) ==
  CASE code = "Canceled"    -> "canceled"
    [] code = "Unavailable" -> "transient"
    [] code \in {"PermissionDenied", "Unimplemented"} -> "fatal"
    [] OTHER                -> "other"

errorHandler(code) ==
  CASE code = "nil" -> "nil"
    [] code # "nil" /\ signalFired -> "transient"     \* errProbeUnregistered
    [] OTHER -> grpcErrorHandler(code)

\* The back-off grows to its ceiling.
NextAttempt == IF attempt < MaxAttempt THEN attempt + 1 ELSE attempt

\* loop returns an error of this class and handleError decides what Run does.
handleError(class, connected) ==
  LET sleeps == class \in {"transient", "other"} IN
  /\ phase' = IF sleeps THEN "backoff" ELSE "done"
  /\ result' = IF sleeps THEN result ELSE IF class = "fatal" THEN "error" ELSE "nil"
  /\ attempt' = IF sleeps THEN NextAttempt ELSE attempt
  /\ resets' = (class = "transient" /\ connected)

BackoffElapsed ==
  /\ phase = "backoff"
  /\ phase' = "register"
  /\ attempt' = IF resets THEN 0 ELSE attempt
  /\ UNCHANGED <<result, resets, sessionVars, batchVars, scraperVars, managerUp, ctxDone>>

BackoffCancelled ==
  /\ phase = "backoff" /\ ctxDone
  /\ phase' = "done" /\ result' = "error"
  /\ UNCHANGED <<attempt, resets, sessionVars, batchVars, scraperVars, managerUp, ctxDone>>

\* RegisterProbe fails, or answers with a status other than OK, or the probe's
\* capabilities need a k6 runner that is not there.
RegisterFails(class) ==
  /\ phase = "register"
  /\ class # "nil" /\ handleError(class, FALSE)
  /\ UNCHANGED <<sessionVars, batchVars, scraperVars, managerUp, ctxDone>>

\* The probe is registered: it counts as connected, and the signal handler of
\* the session is in place.
Registered ==
  /\ phase = "register"
  /\ phase' = "request" /\ signalFired' = FALSE /\ groupErr' = "nil"
  /\ UNCHANGED <<result, attempt, resets, ping, changes, batchVars, scraperVars,
                 managerUp, ctxDone>>

GetChanges ==
  /\ phase = "request"
  /\ phase' = "session" /\ ping' = "first" /\ changes' = "recv" /\ firstBatch' = TRUE
  /\ UNCHANGED <<result, attempt, resets, signalFired, groupErr, batch, newChecks,
                 scraperVars, managerUp, ctxDone>>

GetChangesFails(code) ==
  /\ phase = "request"
  /\ handleError(errorHandler(code), TRUE)
  /\ UNCHANGED <<sessionVars, batchVars, scraperVars, managerUp, ctxDone>>

--------------------------------------------------------------------------------
\* The session: an errgroup of two goroutines under a context that the first
\* error, SIGUSR1 and the agent's shutdown cancel.
sigCtxDone == ctxDone \/ signalFired \/ groupErr # "nil"

FirstErr(code) == IF groupErr = "nil" THEN code ELSE groupErr

PingAnswered ==
  /\ phase = "session" /\ ping = "first" /\ ~sigCtxDone
  /\ ping' = "ticking"
  /\ UNCHANGED <<runVars, signalFired, groupErr, changes, batchVars, scraperVars,
                 managerUp, ctxDone>>

\* An API that does not implement Ping is left alone when the first ping
\* finds out.
PingFails(code) ==
  /\ phase = "session" /\ ping \in {"first", "ticking"}
  /\ ping' = "returned"
  /\ groupErr' = IF ping = "first" /\ code = "Unimplemented" THEN groupErr ELSE FirstErr(code)
  /\ UNCHANGED <<runVars, signalFired, changes, batchVars, scraperVars, managerUp, ctxDone>>

\* A message may win the race with the cancellation of the session.
Recv(msg) ==
  /\ phase = "session" /\ changes = "recv"
  /\ changes' = IF firstBatch /\ ~msg.delta THEN "first" ELSE "batch"
  /\ firstBatch' = FALSE /\ batch' = msg
  /\ UNCHANGED <<runVars, signalFired, groupErr, ping, newChecks, scraperVars,
                 managerUp, ctxDone>>

\* The end of the stream is not an error.
RecvFails(code) ==
  /\ phase = "session" /\ changes = "recv"
  /\ changes' = "returned"
  /\ groupErr' = IF code = "EOF" THEN groupErr ELSE FirstErr(code)
  /\ UNCHANGED <<runVars, signalFired, ping, batchVars, scraperVars, managerUp, ctxDone>>

--------------------------------------------------------------------------------
\* What addAndStartScraperWithLock may answer for a check.
Answers(c, v) == IF <<c, v>> \in Gated THEN {"skipped"} ELSE {"started", "failed"}

Found(c) == scrapers[c] # NoScraper

Mut_Stopped(c) == 0

\* The scraper that handleCheckUpdateWithLock stops: the running one, if any.
Stopped(c) == IF Found(c) THEN 1 ELSE 0

\* Stop the scraper of c, if any, and start one for version v if the answer of
\* addAndStartScraperWithLock says so.
Restart(c, v, answer) ==
  LET starts == IF answer = "started" THEN 1 ELSE 0 IN
  /\ scrapers' = [scrapers EXCEPT ![c] = IF answer = "started" THEN v ELSE NoScraper]
  /\ unstopped' = [unstopped EXCEPT ![c] = @ - Stopped(c) + starts]
  /\ gauge' = gauge - Stopped(c) + starts
  /\ dropped' = IF answer = "failed" THEN dropped \cup {c} ELSE dropped \ {c}

\* The change is refused: an error is logged and counted, nothing else.
Refuse(checks) ==
  /\ dropped' = dropped \cup checks
  /\ UNCHANGED <<scrapers, unstopped, gauge>>

\* An ADD for a check that runs already is refused; when it runs this version
\* already, that drops nothing.
handleCheckAdd(c, v, answer) ==
  \/ <<c, v>> \in Invalid /\ Refuse({c})
  \/ <<c, v>> \notin Invalid /\ Found(c) /\ Refuse(IF scrapers[c] = v THEN {} ELSE {c})
  \/ <<c, v>> \notin Invalid /\ ~Found(c) /\ Restart(c, v, answer)

handleCheckUpdate(c, v, answer) ==
  \/ <<c, v>> \in Invalid /\ Refuse({c})
  \/ <<c, v>> \notin Invalid /\ Restart(c, v, answer)

handleCheckDelete(c) ==
  \/ Found(c) /\ Restart(c, NoScraper, "deleted")
  \/ ~Found(c) /\ Refuse({})

\* An ADD of the first batch: an update when another version runs already.
handleInitialChangeAddWithLock(c, v, answer) ==
  \/ /\ Found(c) /\ scrapers[c] = v
     /\ dropped' = dropped \ {c} /\ UNCHANGED <<scrapers, unstopped, gauge>>
  \/ Found(c) /\ scrapers[c] # v /\ Restart(c, v, answer)
  \/ ~Found(c) /\ handleCheckAdd(c, v, answer)

Next1 == Head(batch.checks)

PopChange == batch' = [batch EXCEPT !.checks = Tail(@)]

\* One iteration of handleFirstBatch's loop over the changes it was sent.
FirstBatchChange ==
  /\ changes = "first" /\ batch.checks # <<>>
  /\ LET c == Next1.check v == Next1.version IN
     \/ /\ Next1.op = "add"
        /\ \E answer \in Answers(c, v) : handleInitialChangeAddWithLock(c, v, answer)
        /\ newChecks' = IF c \in dropped' THEN newChecks ELSE newChecks \cup {c}
     \/ /\ Next1.op # "add"      \* unexpected operation
        /\ UNCHANGED <<scraperVars, newChecks>>
  /\ PopChange
  /\ UNCHANGED <<runVars, sessionVars, firstBatch, managerUp, ctxDone>>

\* Scrapers that were not sent with the first batch.
Unsent == {c \in Checks : Found(c) /\ c \notin newChecks}

\* One iteration of handleFirstBatch's loop over the scrapers.
FirstBatchStops ==
  /\ changes = "first" /\ batch.checks = <<>>
  /\ \E c \in Unsent : Restart(c, NoScraper, "deleted")
  /\ UNCHANGED <<runVars, sessionVars, batchVars, managerUp, ctxDone>>

\* tenantCh has no buffer: the send waits for the tenant manager.
SendTenant ==
  /\ changes = "batch" /\ batch.tenants > 0 /\ managerUp
  /\ batch' = [batch EXCEPT !.tenants = @ - 1]
  /\ UNCHANGED <<runVars, sessionVars, firstBatch, newChecks, scraperVars, managerUp, ctxDone>>

\* One iteration of handleChangeBatch's loop over the changes.
BatchChange ==
  /\ changes = "batch" /\ batch.tenants = 0 /\ batch.checks # <<>>
  /\ LET c == Next1.check v == Next1.version IN
     \/ Next1.op = "add" /\ \E answer \in Answers(c, v) : handleCheckAdd(c, v, answer)
     \/ Next1.op = "update" /\ \E answer \in Answers(c, v) : handleCheckUpdate(c, v, answer)
     \/ Next1.op = "delete" /\ handleCheckDelete(c)
  /\ PopChange
  /\ UNCHANGED <<runVars, sessionVars, firstBatch, newChecks, managerUp, ctxDone>>

BatchIsHandled ==
  /\ batch.checks = <<>>
  /\ \/ changes = "first" /\ Unsent = {}
     \/ changes = "batch" /\ batch.tenants = 0

\* processChanges looks at its contexts before it receives again.
BatchHandled ==
  /\ BatchIsHandled
  /\ changes' = IF sigCtxDone THEN "returned" ELSE "recv"
  /\ groupErr' = IF sigCtxDone THEN FirstErr("Canceled") ELSE groupErr
  /\ batch' = NoBatch /\ newChecks' = {}
  /\ UNCHANGED <<runVars, signalFired, ping, firstBatch, scraperVars, managerUp, ctxDone>>

\* g.Wait returns and loop with it.
GroupReturns ==
  /\ phase = "session" /\ ping = "returned" /\ changes = "returned"
  /\ handleError(errorHandler(groupErr), TRUE)
  /\ ping' = "off" /\ changes' = "off"
  /\ UNCHANGED <<signalFired, groupErr, batchVars, scraperVars, managerUp, ctxDone>>

--------------------------------------------------------------------------------
\* SIGUSR1. Outside a session nothing listens, and the Go runtime drops it.
SignalFires ==
  /\ phase \in {"request", "session"} /\ ~signalFired
  /\ signalFired' = TRUE
  /\ UNCHANGED <<runVars, groupErr, ping, changes, batchVars, scraperVars, managerUp, ctxDone>>

Shutdown ==
  /\ ~ctxDone /\ ctxDone' = TRUE
  /\ UNCHANGED <<runVars, sessionVars, batchVars, scraperVars, managerUp>>

\* The tenant manager stops receiving.
ManagerReturns ==
  /\ ctxDone /\ managerUp /\ managerUp' = FALSE
  /\ UNCHANGED <<runVars, sessionVars, batchVars, scraperVars, ctxDone>>

\* The steps the updater takes on its own.
UpdaterStep ==
  \/ BackoffElapsed \/ BackoffCancelled \/ FirstBatchChange \/ FirstBatchStops
  \/ SendTenant \/ BatchChange \/ BatchHandled \/ GroupReturns

UpdaterNext ==
  \/ UpdaterStep
  \/ \E class \in Classes : RegisterFails(class)
  \/ Registered \/ GetChanges \/ PingAnswered
  \/ \E code \in Codes : GetChangesFails(code) \/ PingFails(code)
  \/ \E code \in Codes \cup {"EOF"} : RecvFails(code)
  \/ \E msg \in Message : Recv(msg)
  \/ SignalFires \/ Shutdown \/ ManagerReturns

UpdaterSpec == UpdaterInit /\ [][UpdaterNext]_updaterVars

--------------------------------------------------------------------------------
\* Each check has exactly the one running scraper that the map knows, and the
\* gauge counts them: no scraper is started twice or forgotten, through
\* updates, deletions, failed starts and reconnects.
ScrapersAccounted ==
  /\ \A c \in Checks : unstopped[c] = IF Found(c) THEN 1 ELSE 0
  /\ gauge = Cardinality({c \in Checks : Found(c)})
==============================================================================
