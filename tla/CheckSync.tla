------------------------------ MODULE CheckSync ------------------------------
(***************************************************************************)
(* The Updater against the API server: registration, the change stream,    *)
(* lost connections, late timers and reconnects. The agent's latest        *)
(* registration is the server's session `registered`.                      *)
(***************************************************************************)
EXTENDS Updater, ChecksServer

CONSTANTS MaxFaults,    \* bound: lost connections and replies, restarts, late timers
          FullBatches,  \* BOOLEANs: may the API ignore the ProbeState?
          OtherEnds,    \* ends of a stream the test API does not use
          CanShutdown   \* may the agent be told to shut down?

ASSUME SyncAssumption ==
  /\ MaxFaults \in Nat /\ FullBatches \subseteq BOOLEAN /\ CanShutdown \in BOOLEAN
  /\ OtherEnds \subseteq (Codes \cup {"EOF"})

VARIABLE faults

vars == <<updaterVars, serverVars, faults>>

Init == UpdaterInit /\ ServerInit /\ faults = 0

\* Bound: a behaviour has faults or a shutdown, not both.
Fault == faults < MaxFaults /\ ~ctxDone /\ faults' = faults + 1

TypeOK ==
  /\ UpdaterTypeOK
  /\ probes \in 0..MaxSessions /\ registered \in 0..MaxSessions
  /\ waiting \subseteq Sessions /\ closed \subseteq Sessions
  /\ removed \in [Deactivators -> 0..MaxSessions]
  /\ handler \in [Sessions -> {"none", "called", "failed", "activated", "active",
                               "leaving", "returned"}]
  /\ existing \in [Sessions -> SUBSET Checks]
  /\ ended \in [Sessions -> Codes \cup {"open", "EOF"}]

\* The probe still listens to the stream of session s.
Listening(s) == /\ phase = "session" /\ s = registered /\ changes # "returned"
                /\ ~sigCtxDone /\ ended[s] = "open"

\* The probe registers again after a back-off of at least 2s, the registration
\* timeout is 1s: it takes a delay for goroutines of an earlier session that
\* were due before to come after it.
Due(s) == s \in waiting \/ handler[s] \in {"called", "failed"}

InTime == IF \E s \in Sessions : Due(s) THEN Fault ELSE UNCHANGED faults

--------------------------------------------------------------------------------
\* The updater's calls and what they return.
AgentRegisters == ~ctxDone /\ Registered /\ RegisterProbe /\ InTime

\* The probe is still registered: ALREADY_EXISTS.
AgentIsRefused == probes # 0 /\ RegisterFails("other") /\ UNCHANGED <<serverVars, faults>>

RegisterCancelled == ctxDone /\ RegisterFails("canceled") /\ UNCHANGED <<serverVars, faults>>

\* The request or the reply is lost, or the server registers the probe and then
\* fails to find it in its database.
RegisterIsLost ==
  /\ Fault
  /\ \/ RegisterFails("transient") /\ UNCHANGED serverVars
     \/ \E class \in {"transient", "other"} : RegisterFails(class) /\ RegisterProbe

NotAuthorized ==
  /\ "PermissionDenied" \in OtherEnds
  /\ RegisterFails("fatal") /\ UNCHANGED <<serverVars, faults>>

AgentCalls ==
  /\ ~sigCtxDone /\ GetChanges /\ Call(registered, scrapers)
  /\ UNCHANGED faults

CallFails ==
  \/ sigCtxDone /\ GetChangesFails("Canceled") /\ UNCHANGED <<serverVars, faults>>
  \/ Fault /\ GetChangesFails("Unavailable") /\ UNCHANGED serverVars

AgentPings ==
  /\ \/ PingAnswered /\ ended[registered] # "Unavailable"
     \/ sigCtxDone /\ PingFails("Canceled")
     \/ PingFails("Unavailable") /\ ended[registered] = "Unavailable"
     \/ "Unimplemented" \in OtherEnds /\ PingFails("Unimplemented")
  /\ UNCHANGED <<serverVars, faults>>

AgentReceives ==
  /\ phase = "session" /\ Taken(registered) /\ Recv(Head(stream[registered]))
  /\ UNCHANGED faults

StreamEnds ==
  /\ \/ sigCtxDone /\ RecvFails("Canceled")
     \/ /\ phase = "session" /\ stream[registered] = <<>> /\ ended[registered] # "open"
        /\ RecvFails(ended[registered])
  /\ UNCHANGED <<serverVars, faults>>

AgentSteps == UpdaterStep /\ UNCHANGED <<serverVars, faults>>

Signal == Fault /\ SignalFires /\ UNCHANGED serverVars

AgentShutdown ==
  /\ CanShutdown /\ faults = 0
  /\ Shutdown \/ ManagerReturns
  /\ UNCHANGED <<serverVars, faults>>

--------------------------------------------------------------------------------
\* The server's goroutines. A handler that starts only after the probe has
\* registered again is left out: it would share the new session's controller.
ServerActivates(s) ==
  /\ \/ Activate(s, FALSE) /\ UNCHANGED faults
     \/ Activate(s, TRUE) /\ Fault
     \/ ActivateFails(s) /\ UNCHANGED faults
  /\ UNCHANGED updaterVars

ServerSends(s) ==
  /\ \/ \E full \in FullBatches : sendInitialChanges(s, full)
     \/ processUpdate(s)
  /\ UNCHANGED <<updaterVars, faults>>

\* The restart channel is closed, the probe is gone, or was not found.
ServerGivesUp(s) ==
  /\ \/ /\ s \in closed \/ ~Listening(s) \/ handler[s] = "failed"
        /\ HandlerLeaves(s, "Aborted")
     \/ HandlerReturns(s)
  /\ UNCHANGED <<updaterVars, faults>>

\* The API asks the probe to reconnect, or ends the stream otherwise.
ServerRestarts(s) ==
  /\ Fault /\ handler[s] # "failed"
  /\ \E code \in {"Aborted"} \cup OtherEnds : HandlerLeaves(s, code)
  /\ UNCHANGED updaterVars

\* The probe of session s is about to be activated.
Coming(s) ==
  s = registered /\ (phase = "request" \/ (handler[s] = "called" /\ Listening(s)))

\* The timer fires: for a probe that is gone, or before a slow one.
ProbeTimesOut(s) ==
  /\ \/ ~Coming(s) /\ WaitTimesOut(s) /\ UNCHANGED faults
     \/ Coming(s) /\ WaitTimesOut(s) /\ Fault
     \/ WaitReturns(s) /\ UNCHANGED faults
  /\ UNCHANGED updaterVars

Disconnects(s) == Fault /\ Listening(s) /\ ConnectionLost(s) /\ UNCHANGED updaterVars

Edits ==
  /\ \/ \E c \in Checks, listed, enabled \in BOOLEAN :
          AddCheck(c, listed, enabled) \/ UpdateCheck(c, listed, enabled)
     \/ \E c \in Checks : DeleteCheck(c)
     \/ EditTenant
  /\ UNCHANGED <<updaterVars, faults>>

AgentNext ==
  \/ AgentRegisters \/ AgentIsRefused \/ RegisterCancelled \/ AgentCalls \/ CallFails
  \/ AgentPings \/ AgentReceives \/ StreamEnds \/ AgentSteps

ServerNext(s) ==
  ServerActivates(s) \/ ServerSends(s) \/ ServerGivesUp(s) \/ ProbeTimesOut(s)

Next ==
  \/ AgentNext \/ RegisterIsLost \/ NotAuthorized \/ Signal \/ AgentShutdown
  \/ \E s \in Sessions : ServerNext(s) \/ ServerRestarts(s) \/ Disconnects(s)
  \/ Edits

Spec == Init /\ [][Next]_vars

\* The goroutines of the agent and of the server are scheduled, timers fire,
\* and messages that are not lost arrive.
FairSpec == Spec /\ WF_vars(AgentNext) /\ \A s \in Sessions : WF_vars(ServerNext(s))

--------------------------------------------------------------------------------
\* Nothing is under way between the server's database and the scrapers.
Quiet ==
  /\ phase = "session" /\ changes = "recv" /\ handler[registered] = "active"
  /\ updates[registered] = <<>> /\ stream[registered] = <<>>
  /\ ended[registered] = "open" /\ probes = registered

\* What a running check's scraper should be.
Wanted(c) == IF <<c, db[c].version>> \notin Gated THEN db[c].version ELSE NoScraper

\* The probe's list agrees with the check on whether the probe runs it.
ListIsRight(c) == c \in Range(Listed) <=> Runs(c)

\* When nothing is under way the agent runs exactly the checks the API takes it
\* to run, in their latest version, whatever edits, failures and reconnects
\* came before and between; except a check whose latest change failed. They
\* are the enabled checks that name the probe, as far as the probe's list in
\* the database, which UpdateCheck leaves as it was, agrees with the checks.
InSync ==
  Quiet => \A c \in Checks \ dropped :
             /\ scrapers[c] = IF c \in existing[registered] THEN Wanted(c) ELSE NoScraper
             /\ ListIsRight(c) => (c \in existing[registered] <=> Runs(c))

\* A handler waits on channels that edits are sent to, or that are closed or
\* about to be: none waits forever on channels nobody has.
HandlerIsFed ==
  \A s \in Sessions : handler[s] \in {"activated", "active"} =>
    probes = s \/ s \in closed \/ \E d \in Deactivators : removed[d] = s

\* A shutdown ends Run: no goroutine of the session is left waiting.
ShutdownEndsRun == ctxDone ~> (phase = "done")

\* Once edits and faults stop, an agent that is not shut down is connected and
\* in sync for good.
Converges == <>[](ctxDone \/ (Quiet /\ ping = "ticking"))
==============================================================================
