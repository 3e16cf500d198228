----------------------------- MODULE ChecksServer -----------------------------
(***************************************************************************)
(* The API side of the change stream, from the server of cmd/test-api      *)
(* (internal/grpc/checks.go and internal/db/db.go), for one probe.         *)
(* Sessions number the probe's registrations; session s owns one           *)
(* probeController and at most one GetChanges handler. Whoever edits the   *)
(* database, and puts the change into a controller's channel, is external. *)
(***************************************************************************)
EXTENDS Changes, SequencesExt

CONSTANTS MaxSessions,   \* bound: registrations
          MaxEdits       \* bound: edits of checks and tenants

ASSUME ServerAssumption == MaxSessions \in Nat /\ MaxEdits \in Nat /\ Checks \subseteq Nat

Sessions == 1..MaxSessions

\* The goroutines that end in deactivateProbe: handlers of GetChanges and the
\* waitForProbe of each registration.
Deactivators == {"handler", "timer"} \X Sessions

\* listed: the check's Probes name the probe.
Absent == [version |-> 0, listed |-> FALSE, enabled |-> FALSE]

VARIABLES
  db, edits,     \* the checks, and how often they were edited: the clock
  checksByProbe, \* the probe's list of check IDs
  probes,        \* the controller in the probes map, 0 if there is none
  registered,    \* registrations so far
  waiting,       \* sessions whose waitForProbe has not returned
  removed,       \* deactivator -> the controller it removed and has yet to close
  closed,        \* sessions whose controller's channels are closed
  updates,       \* session -> the controller's channel of changes
  handler,       \* session -> its GetChanges handler
  returns,       \* session -> what the handler is about to return
  known,         \* session -> the ProbeState sent with the call
  existing,      \* session -> existingChecks
  stream, ended  \* session -> messages under way, and how the stream ended

dbVars     == <<db, edits, checksByProbe>>
probeVars  == <<probes, registered, waiting>>
ctlVars    == <<removed, closed, updates>>
callVars   == <<handler, returns, known, existing>>
streamVars == <<stream, ended>>
serverVars == <<dbVars, probeVars, ctlVars, callVars, streamVars>>

ServerInit ==
  /\ db = [c \in Checks |-> Absent] /\ edits = 0 /\ checksByProbe = <<>>
  /\ probes = 0 /\ registered = 0 /\ waiting = {}
  /\ removed = [d \in Deactivators |-> 0]
  /\ closed = {} /\ updates = [s \in Sessions |-> <<>>]
  /\ handler = [s \in Sessions |-> "none"] /\ returns = [s \in Sessions |-> "open"]
  /\ known = [s \in Sessions |-> [c \in Checks |-> 0]]
  /\ existing = [s \in Sessions |-> {}]
  /\ stream = [s \in Sessions |-> <<>>] /\ ended = [s \in Sessions |-> "open"]

Runs(c) == db[c].listed /\ db[c].enabled

--------------------------------------------------------------------------------
\* An edit is put into the channel of the registered probe.
Notify(tenants, ups) ==
  updates' = IF probes = 0 THEN updates
             ELSE [updates EXCEPT ![probes] = Append(@, [tenants |-> tenants, checks |-> ups])]

Edit(c, op, new) ==
  /\ edits < MaxEdits /\ edits' = edits + 1
  /\ db' = [db EXCEPT ![c] = new]
  /\ Notify(0, <<[op |-> op, check |-> c, version |-> new.version,
                  listed |-> new.listed, enabled |-> new.enabled]>>)
  /\ UNCHANGED <<probeVars, removed, closed, callVars, streamVars>>

\* The ID is the number of checks plus one: after a deletion it may be that of
\* another check, which is overwritten.
AddCheck(c, listed, enabled) ==
  /\ c = Cardinality({d \in Checks : db[d] # Absent}) + 1
  /\ Edit(c, "add", [version |-> edits + 1, listed |-> listed, enabled |-> enabled])
  /\ checksByProbe' = IF listed THEN Append(checksByProbe, c) ELSE checksByProbe

\* An update may change the probes of the check, the probe's list stays.
UpdateCheck(c, listed, enabled) ==
  /\ db[c] # Absent
  /\ Edit(c, "update", [version |-> edits + 1, listed |-> listed, enabled |-> enabled])
  /\ UNCHANGED checksByProbe

\* The change carries only the ID.
DeleteCheck(c) ==
  /\ db[c] # Absent
  /\ Edit(c, "delete", Absent)
  /\ UNCHANGED checksByProbe

EditTenant ==
  /\ edits < MaxEdits /\ edits' = edits + 1
  /\ Notify(1, <<>>)
  /\ UNCHANGED <<db, checksByProbe, probeVars, removed, closed, callVars, streamVars>>

--------------------------------------------------------------------------------
RegisterProbe ==
  /\ probes = 0 /\ registered < MaxSessions
  /\ registered' = registered + 1 /\ probes' = registered + 1
  /\ waiting' = waiting \cup {registered + 1}
  /\ UNCHANGED <<dbVars, ctlVars, callVars, streamVars>>

\* deactivateProbe under the lock. It is given the probe's ID: whatever
\* controller the map holds now goes.
deactivateProbe(d) ==
  /\ probes' = 0
  /\ removed' = [removed EXCEPT ![d] = probes]
  /\ UNCHANGED <<closed, updates>>

Mut_CloseRemoved(d) ==
  /\ removed' = [removed EXCEPT ![d] = 0]
  /\ UNCHANGED <<closed, updates>>

\* The rest of it, after the lock: drain and close what was removed, if anything.
CloseRemoved(d) ==
  /\ removed' = [removed EXCEPT ![d] = 0]
  /\ closed' = closed \cup ({removed[d]} \ {0})
  /\ updates' = [s \in Sessions |-> IF s = removed[d] THEN <<>> ELSE updates[s]]

Mut_WaitTimesOut(s) ==
  /\ s \in waiting /\ waiting' = waiting \ {s}
  /\ UNCHANGED <<dbVars, probes, registered, ctlVars, callVars, streamVars>>

\* waitForProbe's timer fires.
WaitTimesOut(s) ==
  /\ s \in waiting /\ waiting' = waiting \ {s}
  /\ deactivateProbe(<<"timer", s>>)
  /\ UNCHANGED <<dbVars, registered, callVars, streamVars>>

WaitReturns(s) ==
  /\ removed[<<"timer", s>>] # 0
  /\ CloseRemoved(<<"timer", s>>)
  /\ UNCHANGED <<dbVars, probeVars, callVars, streamVars>>

\* The probe calls GetChanges.
Call(s, state) ==
  /\ handler[s] = "none"
  /\ handler' = [handler EXCEPT ![s] = "called"]
  /\ known' = [known EXCEPT ![s] = state]
  /\ UNCHANGED <<dbVars, probeVars, ctlVars, returns, existing, streamVars>>

\* activateProbe. Closing ready ends waitForProbe, unless its timer fires at
\* the same moment and wins.
Activate(s, timerWins) ==
  /\ handler[s] = "called" /\ probes = s
  /\ handler' = [handler EXCEPT ![s] = "activated"]
  /\ waiting' = IF timerWins THEN waiting ELSE waiting \ {s}
  /\ UNCHANGED <<dbVars, probes, registered, ctlVars, returns, known, existing, streamVars>>

ActivateFails(s) ==
  /\ handler[s] = "called" /\ probes = 0
  /\ handler' = [handler EXCEPT ![s] = "failed"]
  /\ UNCHANGED <<dbVars, probeVars, ctlVars, returns, known, existing, streamVars>>

\* ListChecksForProbe, without the checks that are disabled. A deleted check
\* that is still in the list comes as a disabled one.
Listed == SelectSeq(checksByProbe, LAMBDA c : db[c].enabled)

ToChange(op, c) ==
  [op |-> op, check |-> c, version |-> IF op = "delete" THEN 0 ELSE db[c].version]

InitialChanges(s) ==
  LET new == SelectSeq(Listed, LAMBDA c : known[s][c] # db[c].version)
      gone == SetToSeq({c \in Checks : known[s][c] # 0} \ Range(Listed))
  IN [i \in DOMAIN new |-> ToChange(IF known[s][new[i]] = 0 THEN "add" ELSE "update", new[i])]
     \o [i \in DOMAIN gone |-> ToChange("delete", gone[i])]

\* An API that ignores the ProbeState sends everything, as handleFirstBatch's
\* comment has it.
FullChanges == [i \in DOMAIN Listed |-> ToChange("add", Listed[i])]

sendInitialChanges(s, full) ==
  LET knows == \E c \in Checks : known[s][c] # 0
      msg == [tenants |-> 0, delta |-> knows /\ ~full,
              checks |-> IF full THEN FullChanges ELSE InitialChanges(s)]
  IN /\ handler[s] = "activated"
     /\ handler' = [handler EXCEPT ![s] = "active"]
     /\ existing' = [existing EXCEPT ![s] = Range(Listed)]
     /\ stream' = [stream EXCEPT ![s] =
          IF knows \/ checksByProbe # <<>> THEN Append(@, msg) ELSE @]
     /\ UNCHANGED <<dbVars, probeVars, ctlVars, returns, known, ended>>

Mut_filterUpdate(up, exists) ==
  IF up.listed /\ up.enabled THEN <<[op |-> up.op, check |-> up.check, version |-> up.version]>>
  ELSE <<>>

\* The change a probe with these existing checks gets for an update, if any.
filterUpdate(up, exists) ==
  LET as(op) == <<[op |-> op, check |-> up.check,
                   version |-> IF op = "delete" THEN 0 ELSE up.version]>>
  IN CASE up.listed /\ exists /\ up.enabled -> as(up.op)
       [] exists /\ ~(up.listed /\ up.enabled) -> as("delete")
       [] up.listed /\ ~exists /\ up.enabled /\ up.op # "delete" -> as("add")
       [] OTHER -> <<>>

processUpdate(s) ==
  LET up == Head(updates[s])
      changes_ == IF up.checks = <<>> THEN <<>>
                  ELSE filterUpdate(up.checks[1], up.checks[1].check \in existing[s])
  IN /\ handler[s] = "active" /\ updates[s] # <<>>
     /\ updates' = [updates EXCEPT ![s] = Tail(@)]
     /\ existing' = [existing EXCEPT ![s] =
          IF changes_ = <<>> THEN @
          ELSE IF changes_[1].op = "delete" THEN @ \ {changes_[1].check}
          ELSE @ \cup {changes_[1].check}]
     /\ stream' = [stream EXCEPT ![s] =
          IF changes_ = <<>> /\ up.tenants = 0 THEN @
          ELSE Append(@, [tenants |-> up.tenants, checks |-> changes_, delta |-> FALSE])]
     /\ UNCHANGED <<dbVars, probeVars, removed, closed, handler, returns, known, ended>>

\* GetChanges is about to return, for whatever reason; first it deactivates the
\* probe.
HandlerLeaves(s, code) ==
  /\ handler[s] \in {"failed", "activated", "active"}
  /\ handler' = [handler EXCEPT ![s] = "leaving"]
  /\ returns' = [returns EXCEPT ![s] = code]
  /\ deactivateProbe(<<"handler", s>>)
  /\ UNCHANGED <<dbVars, registered, waiting, known, existing, streamVars>>

End(s, code) == ended' = [ended EXCEPT ![s] = IF @ = "open" THEN code ELSE @]

\* Its variables are gone with it.
HandlerReturns(s) ==
  /\ handler[s] = "leaving"
  /\ handler' = [handler EXCEPT ![s] = "returned"]
  /\ CloseRemoved(<<"handler", s>>)
  /\ End(s, returns[s])
  /\ returns' = [returns EXCEPT ![s] = "open"]
  /\ known' = [known EXCEPT ![s] = [c \in Checks |-> 0]]
  /\ existing' = [existing EXCEPT ![s] = {}]
  /\ UNCHANGED <<dbVars, probeVars, stream>>

\* The connection is lost, with what was under way.
ConnectionLost(s) ==
  /\ ended[s] = "open"
  /\ End(s, "Unavailable") /\ stream' = [stream EXCEPT ![s] = <<>>]
  /\ UNCHANGED <<dbVars, probeVars, ctlVars, callVars>>

\* The change stream's first message is taken by the probe.
Taken(s) ==
  /\ stream[s] # <<>>
  /\ stream' = [stream EXCEPT ![s] = Tail(@)]
  /\ UNCHANGED <<dbVars, probeVars, ctlVars, callVars, ended>>
==============================================================================
