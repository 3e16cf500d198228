--------------------------- MODULE CheckSyncProofs ---------------------------
(***************************************************************************)
(* The API server's controllers, for any number of sessions, edits and     *)
(* faults: deactivateProbe is given the probe's ID and may remove the      *)
(* controller of a later session, but never leaves its handler unattended. *)
(***************************************************************************)
EXTENDS CheckSync, TLAPS

\* A deactivator holds no controller but between its two steps.
Held ==
  /\ DOMAIN removed = Deactivators /\ waiting \subseteq 1..registered
  /\ \A s \in Sessions : handler[s] # "leaving" => removed[<<"handler", s>>] = 0
  /\ \A s \in Sessions : s \in waiting \/ s > registered => removed[<<"timer", s>>] = 0

\* HandlerIsFed is inductive with Held: a deactivator that removes a controller
\* forgets no other.
FedInv == registered \in Nat /\ DOMAIN handler = Sessions /\ Held /\ HandlerIsFed

fedVars == <<handler, closed, probes, removed, waiting, registered>>

LEMMA FedStutter ==
  ASSUME FedInv, UNCHANGED fedVars
  PROVE  FedInv'
  BY DEF FedInv, Held, HandlerIsFed, fedVars

\* A handler that is not activated, and not on its way out, may change freely.
LEMMA FedHandler ==
  ASSUME FedInv, UNCHANGED <<closed, probes, removed, registered>>, waiting' \subseteq waiting,
         NEW s, NEW h,
         handler[s] # "leaving", handler' = [handler EXCEPT ![s] = h],
         h \in {"activated", "active"} => probes = s \/ handler[s] \in {"activated", "active"}
  PROVE  FedInv'
<1>1. DOMAIN handler' = Sessions /\ \A t \in Sessions : handler'[t] = IF t = s THEN h ELSE handler[t]
  BY DEF FedInv
<1>2. Held'
  BY <1>1 DEF FedInv, Held
<1>3. HandlerIsFed'
  BY <1>1 DEF FedInv, HandlerIsFed
<1> QED  BY <1>1, <1>2, <1>3 DEF FedInv

LEMMA FedRegister ==
  ASSUME FedInv, RegisterProbe
  PROVE  FedInv'
<1>1. /\ probes = 0 /\ UNCHANGED <<handler, closed, removed>>
      /\ registered' = registered + 1 /\ waiting' = waiting \cup {registered + 1}
  BY DEF RegisterProbe, ctlVars, callVars
<1>2. \A s \in Sessions : s # 0 /\ s \in Nat
  BY ServerAssumption DEF Sessions
<1>3. HandlerIsFed'
  BY <1>1, <1>2 DEF FedInv, HandlerIsFed
<1>4. waiting' \subseteq 1..registered'
  BY <1>1 DEF FedInv, Held
<1>5. \A s \in Sessions : s \in waiting' \/ s > registered' => s \in waiting \/ s > registered
  BY <1>1, <1>2 DEF FedInv
<1>6. Held'
  BY <1>1, <1>4, <1>5 DEF FedInv, Held
<1> QED  BY <1>1, <1>3, <1>6 DEF FedInv

\* What is removed from the map is held by the deactivator that removed it.
LEMMA FedDeactivate ==
  ASSUME FedInv, NEW d \in Deactivators, deactivateProbe(d), removed[d] = 0,
         UNCHANGED registered, DOMAIN handler' = Sessions, waiting' \subseteq waiting,
         \A s \in Sessions : handler'[s] \in {handler[s], "leaving"},
         \A s \in Sessions : d = <<"handler", s>> => handler'[s] = "leaving",
         \A s \in Sessions : d = <<"timer", s>> => s \notin waiting' /\ s <= registered
  PROVE  FedInv'
<1>1. DOMAIN removed' = Deactivators /\ UNCHANGED closed
      /\ \A e \in Deactivators : removed'[e] = IF e = d THEN probes ELSE removed[e]
  BY DEF deactivateProbe, FedInv, Held
<1>2. \A s \in Sessions : s # 0 /\ s \in Nat
  BY ServerAssumption DEF Sessions
<1>3. Held'
  <2>1. \A s \in Sessions : <<"handler", s>> \in Deactivators /\ <<"timer", s>> \in Deactivators
    BY DEF Deactivators
  <2>2. \A s \in Sessions : handler'[s] # "leaving" => removed'[<<"handler", s>>] = 0
    BY <1>1, <2>1 DEF FedInv, Held
  <2>3. ASSUME NEW s \in Sessions, s \in waiting' \/ s > registered'
        PROVE  removed'[<<"timer", s>>] = 0
    <3>1. d # <<"timer", s>>
      BY <1>2, <2>3 DEF FedInv
    <3>2. removed[<<"timer", s>>] = 0
      BY <2>3 DEF FedInv, Held
    <3> QED  BY <1>1, <2>1, <3>1, <3>2
  <2> QED  BY <1>1, <2>2, <2>3 DEF FedInv, Held
<1>4. HandlerIsFed'
  <2> SUFFICES ASSUME NEW s \in Sessions, handler'[s] \in {"activated", "active"}, s \notin closed
               PROVE  \E e \in Deactivators : removed'[e] = s
    BY <1>1 DEF HandlerIsFed
  <2>1. CASE probes = s
    BY <1>1, <2>1
  <2>2. CASE \E e \in Deactivators : removed[e] = s
    BY <1>1, <1>2, <2>2
  <2> QED  BY <2>1, <2>2 DEF FedInv, HandlerIsFed
<1> QED  BY <1>3, <1>4 DEF FedInv

\* What a deactivator held is closed once it holds it no more.
LEMMA FedClose ==
  ASSUME FedInv, NEW d \in Deactivators, CloseRemoved(d),
         UNCHANGED <<probes, registered, waiting>>, DOMAIN handler' = Sessions,
         \A s \in Sessions : handler'[s] \in {handler[s], "returned"},
         \A s \in Sessions : d # <<"handler", s>> => handler'[s] = handler[s]
  PROVE  FedInv'
<1>1. DOMAIN removed' = Deactivators /\ closed' = closed \cup ({removed[d]} \ {0})
      /\ \A e \in Deactivators : removed'[e] = IF e = d THEN 0 ELSE removed[e]
  BY DEF CloseRemoved, FedInv, Held
<1>2. \A s \in Sessions : s # 0
  BY ServerAssumption DEF Sessions
<1>3. Held'
  <2>1. \A s \in Sessions : <<"handler", s>> \in Deactivators /\ <<"timer", s>> \in Deactivators
    BY DEF Deactivators
  <2>2. \A s \in Sessions : handler'[s] # "leaving" => removed'[<<"handler", s>>] = 0
    BY <1>1, <2>1 DEF FedInv, Held
  <2>3. \A s \in Sessions : s \in waiting' \/ s > registered' => removed'[<<"timer", s>>] = 0
    BY <1>1, <2>1 DEF FedInv, Held
  <2> QED  BY <1>1, <2>2, <2>3 DEF FedInv, Held
<1>4. HandlerIsFed'
  <2> SUFFICES ASSUME NEW s \in Sessions, handler'[s] \in {"activated", "active"}, s \notin closed'
               PROVE  probes = s \/ \E e \in Deactivators : removed'[e] = s
    BY DEF HandlerIsFed
  <2>1. removed[d] # s
    BY <1>1, <1>2
  <2> QED  BY <1>1, <2>1 DEF FedInv, HandlerIsFed
<1> QED  BY <1>3, <1>4 DEF FedInv

--------------------------------------------------------------------------------
\* What each action of Next does to the controllers and handlers.
LEMMA AgentNextFed ==
  ASSUME FedInv, AgentNext \/ RegisterIsLost \/ NotAuthorized \/ Signal \/ AgentShutdown
  PROVE  FedInv'
<1> USE DEF serverVars, dbVars, probeVars, ctlVars, callVars, streamVars, fedVars
<1>1. CASE RegisterProbe
  BY <1>1, FedRegister
<1>2. CASE UNCHANGED serverVars
  BY <1>2, FedStutter
<1>3. CASE AgentRegisters
  BY <1>1, <1>3 DEF AgentRegisters
<1>4. CASE RegisterIsLost
  BY <1>1, <1>2, <1>4 DEF RegisterIsLost
<1>5. CASE AgentCalls
  <2>1. /\ handler[registered] = "none" /\ handler' = [handler EXCEPT ![registered] = "called"]
        /\ UNCHANGED <<closed, probes, removed, registered, waiting>>
    BY <1>5 DEF AgentCalls, Call
  <2> QED  BY <2>1, FedHandler
<1>6. CASE AgentReceives
  <2>1. UNCHANGED fedVars
    BY <1>6 DEF AgentReceives, Taken
  <2> QED  BY <2>1, FedStutter
<1>7. CASE \/ AgentIsRefused \/ RegisterCancelled \/ CallFails \/ AgentPings \/ StreamEnds
           \/ AgentSteps \/ NotAuthorized \/ Signal \/ AgentShutdown
  BY <1>2, <1>7 DEF AgentIsRefused, RegisterCancelled, CallFails, AgentPings, StreamEnds,
                    AgentSteps, NotAuthorized, Signal, AgentShutdown
<1> QED  BY <1>3, <1>4, <1>5, <1>6, <1>7 DEF AgentNext

LEMMA ServerNextFed ==
  ASSUME FedInv, NEW s \in Sessions,
         ServerNext(s) \/ ServerRestarts(s) \/ Disconnects(s)
  PROVE  FedInv'
<1> USE DEF dbVars, probeVars, ctlVars, callVars, streamVars, fedVars
<1> USE DEF serverVars
<1>1. <<"handler", s>> \in Deactivators /\ <<"timer", s>> \in Deactivators
  BY DEF Deactivators
<1>2. \A code : HandlerLeaves(s, code) => FedInv'
  <2> SUFFICES ASSUME NEW code, HandlerLeaves(s, code) PROVE FedInv'
    OBVIOUS
  <2>1. /\ handler[s] # "leaving" /\ handler' = [handler EXCEPT ![s] = "leaving"]
        /\ deactivateProbe(<<"handler", s>>) /\ UNCHANGED <<registered, waiting>>
    BY DEF HandlerLeaves
  <2>2. removed[<<"handler", s>>] = 0
    BY <2>1 DEF FedInv, Held
  <2> QED  BY <1>1, <2>1, <2>2, FedDeactivate DEF FedInv
<1>3. HandlerReturns(s) => FedInv'
  <2> SUFFICES ASSUME HandlerReturns(s) PROVE FedInv'
    OBVIOUS
  <2>1. /\ handler' = [handler EXCEPT ![s] = "returned"]
        /\ CloseRemoved(<<"handler", s>>) /\ UNCHANGED <<probes, registered, waiting>>
    BY DEF HandlerReturns
  <2> QED  BY <1>1, <2>1, FedClose DEF FedInv
<1>4. CASE ServerActivates(s)
  <2>1. PICK h \in {"activated", "failed"} :
          /\ handler[s] = "called" /\ handler' = [handler EXCEPT ![s] = h]
          /\ UNCHANGED <<closed, probes, removed, registered>> /\ waiting' \subseteq waiting
          /\ h = "activated" => probes = s
    BY <1>4 DEF ServerActivates, Activate, ActivateFails
  <2> QED  BY <2>1, FedHandler
<1>5. CASE ServerSends(s)
  <2>1. CASE processUpdate(s)
    BY <2>1, FedStutter, Zenon DEF processUpdate
  <2>2. ASSUME NEW full \in FullBatches, sendInitialChanges(s, full) PROVE FedInv'
    <3>1. /\ handler[s] = "activated" /\ handler' = [handler EXCEPT ![s] = "active"]
          /\ UNCHANGED <<closed, probes, removed, registered, waiting>>
      BY <2>2 DEF sendInitialChanges
    <3> QED  BY <3>1, FedHandler
  <2> QED  BY <1>5, <2>1, <2>2 DEF ServerSends
<1>6. CASE ServerGivesUp(s) \/ ServerRestarts(s)
  BY <1>2, <1>3, <1>6 DEF ServerGivesUp, ServerRestarts
<1>7. CASE ProbeTimesOut(s)
  <2>1. CASE WaitTimesOut(s)
    <3>1. /\ s \in waiting /\ waiting' = waiting \ {s} /\ UNCHANGED <<handler, registered>>
          /\ deactivateProbe(<<"timer", s>>)
      BY <2>1 DEF WaitTimesOut
    <3>2. removed[<<"timer", s>>] = 0
      BY <3>1 DEF FedInv, Held
    <3>3. s <= registered
      BY <3>1 DEF FedInv, Held
    <3> QED  BY <1>1, <3>1, <3>2, <3>3, FedDeactivate DEF FedInv
  <2>2. CASE WaitReturns(s)
    <3>1. CloseRemoved(<<"timer", s>>) /\ UNCHANGED <<handler, probes, registered, waiting>>
      BY <2>2 DEF WaitReturns
    <3> QED  BY <1>1, <3>1, FedClose DEF FedInv
  <2> QED  BY <1>7, <2>1, <2>2 DEF ProbeTimesOut
<1>8. CASE Disconnects(s)
  BY <1>8, FedStutter DEF Disconnects, ConnectionLost
<1> QED  BY <1>4, <1>5, <1>6, <1>7, <1>8 DEF ServerNext

\* An edit touches only the database and a channel of changes.
LEMMA FedEdit ==
  ASSUME FedInv, NEW c, NEW op, NEW new, Edit(c, op, new)
  PROVE  FedInv'
<1>1. UNCHANGED <<probeVars, removed, closed, callVars, streamVars>>
  BY DEF Edit
<1>2. UNCHANGED fedVars
  BY <1>1 DEF fedVars, probeVars, callVars
<1> QED  BY <1>2, FedStutter

\* For any number of sessions and faults, a handler of the API is the one edits
\* are sent to, or its channels are closed or about to be: a probe is never
\* left on a stream that nobody feeds, although deactivateProbe only knows the
\* probe's ID and closes the channels after it has released the lock.
THEOREM HandlersAreFed == Spec => []HandlerIsFed
<1>1. Init => FedInv
  <2> SUFFICES ASSUME Init PROVE FedInv
    OBVIOUS
  <2> USE DEF Init, ServerInit
  <2>1. Held
    BY DEF Held, Deactivators
  <2> QED  BY <2>1 DEF FedInv, HandlerIsFed
<1>2. FedInv /\ [Next]_vars => FedInv'
  <2> SUFFICES ASSUME FedInv, [Next]_vars PROVE FedInv'
    OBVIOUS
  <2>1. CASE UNCHANGED vars
    BY <2>1, FedStutter DEF vars, serverVars, probeVars, ctlVars, callVars, fedVars
  <2>2. CASE Edits
    <3>1. CASE EditTenant
      BY <3>1, FedStutter DEF EditTenant, fedVars, probeVars, callVars
    <3>2. ASSUME NEW c \in Checks, DeleteCheck(c)
          PROVE  FedInv'
      BY <3>2, FedEdit DEF DeleteCheck
    <3>3. ASSUME NEW c \in Checks, NEW listed \in BOOLEAN, NEW enabled \in BOOLEAN,
                 AddCheck(c, listed, enabled) \/ UpdateCheck(c, listed, enabled)
          PROVE  FedInv'
      BY <3>3, FedEdit DEF AddCheck, UpdateCheck
    <3> QED  BY <2>2, <3>1, <3>2, <3>3 DEF Edits
  <2>3. CASE AgentNext \/ RegisterIsLost \/ NotAuthorized \/ Signal \/ AgentShutdown
    BY <2>3, AgentNextFed
  <2>4. ASSUME NEW s \in Sessions, ServerNext(s) \/ ServerRestarts(s) \/ Disconnects(s)
        PROVE  FedInv'
    BY <2>4, ServerNextFed
  <2> QED  BY <2>1, <2>2, <2>3, <2>4 DEF Next
<1>3. FedInv => HandlerIsFed
  BY DEF FedInv
<1> QED  BY <1>1, <1>2, <1>3, PTL DEF Spec
==============================================================================
