---------------------------- MODULE UpdaterProofs ----------------------------
(***************************************************************************)
(* The Updater in an arbitrary environment: whatever the API sends and     *)
(* however its calls fail, for any checks, every scraper is accounted for. *)
(* The type invariant is not inductive alone: that the gauge and the       *)
(* number of scraper goroutines do not go below zero is ScrapersAccounted. *)
(***************************************************************************)
EXTENDS Updater, FiniteSetTheorems, SequenceTheorems, TLAPS

BatchTypeOK == batch \in Message /\ newChecks \subseteq Checks

\* What handlers do to the scrapers.
ScraperInv ==
  /\ scrapers \in [Checks -> Nat] /\ unstopped \in [Checks -> Nat]
  /\ gauge \in Nat /\ dropped \subseteq Checks
  /\ ScrapersAccounted

UpdaterInv == RunTypeOK /\ FlagTypeOK /\ BatchTypeOK /\ ScraperInv

--------------------------------------------------------------------------------
LEMMA CountFacts ==
  ASSUME NEW S \in SUBSET Checks, NEW c \in Checks
  PROVE  /\ Cardinality(S) \in Nat
         /\ c \notin S => Cardinality(S \cup {c}) = Cardinality(S) + 1
         /\ c \in S => Cardinality(S \ {c}) = Cardinality(S) - 1
<1>1. IsFiniteSet(S)
  BY ChecksAssumption, FS_Subset
<1> QED  BY <1>1, FS_CardinalityType, FS_AddElement, FS_RemoveElement

\* Stopping the scraper of a check and perhaps starting another keeps the
\* account.
LEMMA RestartInv ==
  ASSUME ScraperInv, NEW c \in Checks, NEW v \in Nat, NEW answer,
         answer = "started" => v # 0, Restart(c, v, answer)
  PROVE  ScraperInv'
<1> DEFINE F == {x \in Checks : Found(x)}
<1>1. F \in SUBSET Checks /\ gauge = Cardinality(F)
  BY DEF ScraperInv, ScrapersAccounted
<1>2. PICK k \in {0, 1} : /\ Stopped(c) = k /\ unstopped[c] = k
                          /\ c \in F => k = 1
                          /\ c \notin F => k = 0
  BY DEF ScraperInv, ScrapersAccounted, Stopped
<1>3. PICK n \in {0, 1} : /\ n = IF answer = "started" THEN 1 ELSE 0
                          /\ answer = "started" => n = 1
                          /\ answer # "started" => n = 0
  OBVIOUS
<1>4. /\ scrapers' = [scrapers EXCEPT ![c] = IF answer = "started" THEN v ELSE 0]
      /\ unstopped' = [unstopped EXCEPT ![c] = unstopped[c] - k + n]
      /\ gauge' = gauge - k + n
      /\ dropped' = IF answer = "failed" THEN dropped \cup {c} ELSE dropped \ {c}
  BY <1>2, <1>3 DEF Restart, NoScraper
<1>5. unstopped' = [unstopped EXCEPT ![c] = n]
  BY <1>2, <1>4
<1>6. /\ scrapers' \in [Checks -> Nat] /\ dropped' \subseteq Checks
      /\ \A x \in Checks \ {c} : scrapers'[x] = scrapers[x]
      /\ scrapers'[c] = IF answer = "started" THEN v ELSE 0
  BY <1>4 DEF ScraperInv
<1>7. /\ answer = "started" => Found(c)'
      /\ answer # "started" => ~Found(c)'
  BY <1>6 DEF Found, NoScraper
<1>8. unstopped' \in [Checks -> Nat]
  BY <1>5 DEF ScraperInv
<1>9. \A x \in Checks : unstopped'[x] = IF Found(x)' THEN 1 ELSE 0
  <2> SUFFICES ASSUME NEW x \in Checks
               PROVE  unstopped'[x] = IF Found(x)' THEN 1 ELSE 0
    OBVIOUS
  <2>1. CASE x = c
    <3>1. unstopped'[c] = n
      BY <1>5 DEF ScraperInv
    <3> QED  BY <1>3, <1>7, <2>1, <3>1
  <2>2. CASE x # c
    <3>1. unstopped'[x] = unstopped[x] /\ scrapers'[x] = scrapers[x]
      BY <1>5, <1>6, <2>2 DEF ScraperInv
    <3> QED  BY <3>1 DEF ScraperInv, ScrapersAccounted, Found
  <2> QED  BY <2>1, <2>2
<1>10. /\ answer = "started" => {x \in Checks : Found(x)'} = F \cup {c}
       /\ answer # "started" => {x \in Checks : Found(x)'} = F \ {c}
  BY <1>6, <1>7 DEF Found
<1>11. gauge' \in Nat /\ gauge' = Cardinality({x \in Checks : Found(x)'})
  <2> DEFINE G == {x \in Checks : Found(x)'}
  <2>1. /\ Cardinality(F) \in Nat /\ Cardinality(F \ {c}) \in Nat
        /\ c \notin F => Cardinality(F \cup {c}) = Cardinality(F) + 1
        /\ c \in F => Cardinality(F \ {c}) = Cardinality(F) - 1
    BY <1>1, CountFacts, Zenon
  <2>2. /\ c \in F => F \cup {c} = F
        /\ c \notin F => F \ {c} = F
    OBVIOUS
  <2>3. /\ answer = "started" => G = F \cup {c}
        /\ answer # "started" => G = F \ {c}
    BY <1>10
  <2>4. gauge' = Cardinality(F) - k + n
    BY <1>1, <1>4
  <2> HIDE DEF F, G
  <2>5. PICK f \in Nat : f = Cardinality(F)
    BY <2>1
  <2>6. Cardinality(G) = f - k + n
    <3>1. CASE answer = "started" /\ c \in F
      BY <1>2, <1>3, <2>2, <2>3, <2>5, <3>1
    <3>2. CASE answer = "started" /\ c \notin F
      BY <1>2, <1>3, <2>1, <2>3, <2>5, <3>2
    <3>3. CASE answer # "started" /\ c \in F
      BY <1>2, <1>3, <2>1, <2>3, <2>5, <3>3
    <3>4. CASE answer # "started" /\ c \notin F
      BY <1>2, <1>3, <2>2, <2>3, <2>5, <3>4
    <3> QED  BY <3>1, <3>2, <3>3, <3>4
  <2>7. Cardinality(G) \in Nat
    BY CountFacts, Zenon DEF G
  <2>8. gauge' \in Nat /\ gauge' = Cardinality(G)
    BY <2>4, <2>5, <2>6, <2>7
  <2> QED  BY <2>8 DEF G
<1> QED  BY <1>6, <1>8, <1>9, <1>11 DEF ScraperInv, ScrapersAccounted

\* A refused change changes no scraper.
LEMMA RefuseInv ==
  ASSUME ScraperInv, NEW checks \in SUBSET Checks, Refuse(checks)
  PROVE  ScraperInv'
  BY DEF ScraperInv, Refuse, ScrapersAccounted, Found

--------------------------------------------------------------------------------
LEMMA AnswersStart ==
  ASSUME NEW ch \in Change
  PROVE  /\ ch.check \in Checks /\ ch.version \in Nat
         /\ ch.op \in {"add", "update", "delete"}
         /\ ch.op # "delete" => ch.version # 0
  BY DEF Change

LEMMA AddInv ==
  ASSUME ScraperInv, NEW c \in Checks, NEW v \in Nat \ {0}, NEW answer,
         handleCheckAdd(c, v, answer)
  PROVE  ScraperInv'
<1>1. CASE Refuse({c})
  BY <1>1, RefuseInv
<1>2. CASE Refuse({})
  BY <1>2, RefuseInv
<1>3. CASE Restart(c, v, answer)
  BY <1>3, RestartInv
<1> QED  BY <1>1, <1>2, <1>3 DEF handleCheckAdd

LEMMA UpdateInv ==
  ASSUME ScraperInv, NEW c \in Checks, NEW v \in Nat \ {0}, NEW answer,
         handleCheckUpdate(c, v, answer)
  PROVE  ScraperInv'
<1>1. CASE Refuse({c})
  BY <1>1, RefuseInv
<1>2. CASE Restart(c, v, answer)
  BY <1>2, RestartInv
<1> QED  BY <1>1, <1>2 DEF handleCheckUpdate

LEMMA DeleteInv ==
  ASSUME ScraperInv, NEW c \in Checks, handleCheckDelete(c)
  PROVE  ScraperInv'
<1>1. CASE Refuse({})
  BY <1>1, RefuseInv
<1>2. CASE Restart(c, NoScraper, "deleted")
  BY <1>2, RestartInv DEF NoScraper
<1> QED  BY <1>1, <1>2 DEF handleCheckDelete

LEMMA InitialAddInv ==
  ASSUME ScraperInv, NEW c \in Checks, NEW v \in Nat \ {0}, NEW answer,
         handleInitialChangeAddWithLock(c, v, answer)
  PROVE  ScraperInv'
<1>1. CASE dropped' = dropped \ {c} /\ UNCHANGED <<scrapers, unstopped, gauge>>
  BY <1>1 DEF ScraperInv, ScrapersAccounted, Found
<1>2. CASE Restart(c, v, answer)
  BY <1>2, RestartInv
<1>3. CASE handleCheckAdd(c, v, answer)
  BY <1>3, AddInv
<1> QED  BY <1>1, <1>2, <1>3 DEF handleInitialChangeAddWithLock

--------------------------------------------------------------------------------
\* What a message carries.
LEMMA MessageFacts ==
  ASSUME NEW msg \in Message
  PROVE  /\ msg.tenants \in Nat /\ msg.checks \in Seq(Change) /\ msg.delta \in BOOLEAN
         /\ msg = [tenants |-> msg.tenants, checks |-> msg.checks, delta |-> msg.delta]
  BY DEF Message

LEMMA NextChange ==
  ASSUME batch \in Message, batch.checks # <<>>
  PROVE  /\ Next1 \in Change
         /\ PopChange => batch' \in Message
<1>1. Head(batch.checks) \in Change /\ Tail(batch.checks) \in Seq(Change)
  BY MessageFacts, HeadTailProperties
<1> QED  BY <1>1 DEF Next1, PopChange, Message

LEMMA NextScraperInv ==
  ASSUME UpdaterInv, UpdaterNext
  PROVE  ScraperInv'
<1> USE DEF UpdaterInv
<1>1. CASE UNCHANGED scraperVars
  BY <1>1 DEF scraperVars, ScraperInv, ScrapersAccounted, Found
<1>2. CASE FirstBatchChange
  <2> DEFINE c == Next1.check
             v == Next1.version
  <2>1. c \in Checks /\ v \in Nat /\ (Next1.op # "delete" => v # 0)
    BY <1>2, NextChange, AnswersStart DEF FirstBatchChange, BatchTypeOK
  <2>2. CASE Next1.op # "add" /\ UNCHANGED scraperVars
    BY <1>1, <2>2
  <2>3. ASSUME NEW answer \in Answers(c, v), Next1.op = "add",
               handleInitialChangeAddWithLock(c, v, answer)
        PROVE  ScraperInv'
    <3>1. v \in Nat \ {0}
      BY <2>1, <2>3
    <3> QED  BY <2>1, <2>3, <3>1, InitialAddInv
  <2>4. \/ Next1.op # "add" /\ UNCHANGED scraperVars
        \/ Next1.op = "add" /\ \E answer \in Answers(c, v) :
                                  handleInitialChangeAddWithLock(c, v, answer)
    BY <1>2 DEF FirstBatchChange
  <2> QED  BY <2>2, <2>3, <2>4
<1>3. CASE FirstBatchStops
  <2>1. PICK c \in Unsent : Restart(c, NoScraper, "deleted")
    BY <1>3 DEF FirstBatchStops
  <2>2. c \in Checks
    BY DEF Unsent
  <2> QED  BY <2>1, <2>2, RestartInv DEF NoScraper
<1>4. CASE BatchChange
  <2> DEFINE c == Next1.check
             v == Next1.version
  <2>1. c \in Checks /\ v \in Nat /\ (Next1.op # "delete" => v # 0)
    BY <1>4, NextChange, AnswersStart DEF BatchChange, BatchTypeOK
  <2>2. ASSUME NEW answer \in Answers(c, v), Next1.op = "add", handleCheckAdd(c, v, answer)
        PROVE  ScraperInv'
    <3>1. v \in Nat \ {0}
      BY <2>1, <2>2
    <3> QED  BY <2>1, <2>2, <3>1, AddInv
  <2>3. ASSUME NEW answer \in Answers(c, v), Next1.op = "update",
               handleCheckUpdate(c, v, answer)
        PROVE  ScraperInv'
    <3>1. v \in Nat \ {0}
      BY <2>1, <2>3
    <3> QED  BY <2>1, <2>3, <3>1, UpdateInv
  <2>4. CASE handleCheckDelete(c)
    BY <2>1, <2>4, DeleteInv
  <2>5. \/ Next1.op = "add" /\ \E answer \in Answers(c, v) : handleCheckAdd(c, v, answer)
        \/ Next1.op = "update" /\ \E answer \in Answers(c, v) : handleCheckUpdate(c, v, answer)
        \/ handleCheckDelete(c)
    BY <1>4 DEF BatchChange
  <2> QED  BY <2>2, <2>3, <2>4, <2>5
<1> HIDE DEF UpdaterInv
<1>5. CASE BackoffElapsed \/ BackoffCancelled \/ SendTenant \/ BatchHandled \/ GroupReturns
  BY <1>1, <1>5, Zenon DEF BackoffElapsed, BackoffCancelled, SendTenant, BatchHandled, GroupReturns
<1>6. CASE \/ Registered \/ GetChanges \/ PingAnswered \/ SignalFires \/ Shutdown
           \/ ManagerReturns
  BY <1>1, <1>6 DEF Registered, GetChanges, PingAnswered, SignalFires, Shutdown,
                    ManagerReturns
<1>7. ASSUME NEW class \in Classes, RegisterFails(class) PROVE ScraperInv'
  BY <1>1, <1>7 DEF RegisterFails
<1>8. ASSUME NEW code \in Codes, GetChangesFails(code) \/ PingFails(code) PROVE ScraperInv'
  BY <1>1, <1>8, Zenon DEF GetChangesFails, PingFails
<1>9. ASSUME NEW code \in Codes \cup {"EOF"}, RecvFails(code) PROVE ScraperInv'
  BY <1>1, <1>9 DEF RecvFails
<1>10. ASSUME NEW msg \in Message, Recv(msg) PROVE ScraperInv'
  BY <1>1, <1>10 DEF Recv
<1> QED  BY <1>2, <1>3, <1>4, <1>5, <1>6, <1>7, <1>8, <1>9, <1>10
         DEF UpdaterNext, UpdaterStep

LEMMA NextBatchTypeOK ==
  ASSUME UpdaterInv, UpdaterNext
  PROVE  BatchTypeOK'
<1>0. BatchTypeOK
  BY DEF UpdaterInv
<1>1. CASE UNCHANGED <<batch, newChecks>>
  BY <1>0, <1>1 DEF BatchTypeOK
<1>2. CASE FirstBatchChange
  <2>1. batch' \in Message /\ Next1.check \in Checks
    BY <1>0, <1>2, NextChange, AnswersStart DEF FirstBatchChange, BatchTypeOK
  <2>2. newChecks' \in {newChecks, newChecks \cup {Next1.check}}
    BY <1>2 DEF FirstBatchChange, scraperVars
  <2> QED  BY <1>0, <2>1, <2>2 DEF BatchTypeOK
<1>3. CASE BatchChange
  BY <1>0, <1>3, NextChange DEF BatchChange, BatchTypeOK
<1>4. CASE SendTenant
  <2>1. batch' = [batch EXCEPT !.tenants = batch.tenants - 1] /\ batch.tenants > 0
        /\ newChecks' = newChecks
    BY <1>4 DEF SendTenant
  <2>2. batch.tenants - 1 \in Nat
    BY <1>0, <2>1, MessageFacts DEF BatchTypeOK
  <2> QED  BY <1>0, <2>1, <2>2 DEF BatchTypeOK, Message
<1>5. CASE BatchHandled
  <2>1. <<>> \in Seq(Change)
    OBVIOUS
  <2> QED  BY <1>5, <2>1 DEF BatchHandled, NoBatch, BatchTypeOK, Message
<1>6. ASSUME NEW msg \in Message, Recv(msg) PROVE BatchTypeOK'
  BY <1>0, <1>6 DEF Recv, BatchTypeOK
<1>7. CASE BackoffElapsed \/ BackoffCancelled \/ FirstBatchStops \/ GroupReturns
  BY <1>1, <1>7, Zenon DEF BackoffElapsed, BackoffCancelled, FirstBatchStops, GroupReturns,
                    batchVars
<1>8. CASE \/ Registered \/ GetChanges \/ PingAnswered \/ SignalFires \/ Shutdown
           \/ ManagerReturns
  BY <1>1, <1>8 DEF Registered, GetChanges, PingAnswered, SignalFires, Shutdown,
                    ManagerReturns, batchVars
<1>9. ASSUME NEW class \in Classes, RegisterFails(class) PROVE BatchTypeOK'
  BY <1>1, <1>9 DEF RegisterFails, batchVars
<1>10. ASSUME NEW code \in Codes, GetChangesFails(code) \/ PingFails(code)
       PROVE  BatchTypeOK'
  BY <1>1, <1>10, Zenon DEF GetChangesFails, PingFails, batchVars
<1>11. ASSUME NEW code \in Codes \cup {"EOF"}, RecvFails(code) PROVE BatchTypeOK'
  BY <1>1, <1>11 DEF RecvFails, batchVars
<1> QED  BY <1>2, <1>3, <1>4, <1>5, <1>6, <1>7, <1>8, <1>9, <1>10, <1>11
         DEF UpdaterNext, UpdaterStep

LEMMA HandleErrorType ==
  ASSUME RunTypeOK, NEW class, NEW connected, handleError(class, connected)
  PROVE  /\ phase' \in {"backoff", "done"} /\ result' \in {"running", "nil", "error"}
         /\ attempt' \in 0..MaxAttempt /\ resets' \in BOOLEAN
<1>1. attempt' \in 0..MaxAttempt
  BY UpdaterAssumption DEF RunTypeOK, handleError, NextAttempt
<1>2. phase' \in {"backoff", "done"} /\ result' \in {"running", "nil", "error"}
  BY DEF RunTypeOK, handleError
<1>3. resets' \in BOOLEAN
  BY DEF handleError
<1> QED  BY <1>1, <1>2, <1>3

LEMMA NextRunTypeOK ==
  ASSUME UpdaterInv, UpdaterNext
  PROVE  RunTypeOK'
<1>0. RunTypeOK
  BY DEF UpdaterInv
<1>1. CASE UNCHANGED <<phase, result, attempt, groupErr, ping, changes>>
  BY <1>0, <1>1 DEF RunTypeOK
<1>2. CASE FirstBatchChange \/ FirstBatchStops \/ SendTenant \/ BatchChange
  BY <1>1, <1>2 DEF FirstBatchChange, FirstBatchStops, SendTenant, BatchChange, runVars,
                    sessionVars
<1>3. CASE BackoffElapsed \/ BackoffCancelled
  BY <1>0, <1>3, UpdaterAssumption
     DEF BackoffElapsed, BackoffCancelled, RunTypeOK, sessionVars
<1>4. CASE BatchHandled
  BY <1>0, <1>4 DEF BatchHandled, RunTypeOK, runVars, FirstErr, Codes
<1>5. CASE GroupReturns
  BY <1>0, <1>5, HandleErrorType, Zenon DEF GroupReturns, RunTypeOK
<1>6. CASE Registered \/ GetChanges \/ PingAnswered
  BY <1>0, <1>6 DEF Registered, GetChanges, PingAnswered, RunTypeOK, runVars
<1>7. CASE SignalFires \/ Shutdown \/ ManagerReturns
  BY <1>1, <1>7 DEF SignalFires, Shutdown, ManagerReturns, runVars, sessionVars
<1>8. ASSUME NEW class \in Classes, RegisterFails(class) PROVE RunTypeOK'
  BY <1>0, <1>8, HandleErrorType, Zenon DEF RegisterFails, RunTypeOK, sessionVars
<1>9. ASSUME NEW code \in Codes, GetChangesFails(code) PROVE RunTypeOK'
  BY <1>0, <1>9, HandleErrorType, Zenon DEF GetChangesFails, RunTypeOK, sessionVars
<1>10. ASSUME NEW code \in Codes, PingFails(code) PROVE RunTypeOK'
  BY <1>0, <1>10 DEF PingFails, FirstErr, RunTypeOK, runVars
<1>11. ASSUME NEW code \in Codes \cup {"EOF"}, RecvFails(code) PROVE RunTypeOK'
  BY <1>0, <1>11 DEF RecvFails, FirstErr, RunTypeOK, runVars
<1>12. ASSUME NEW msg \in Message, Recv(msg) PROVE RunTypeOK'
  BY <1>0, <1>12 DEF Recv, RunTypeOK, runVars
<1> QED  BY <1>2, <1>3, <1>4, <1>5, <1>6, <1>7, <1>8, <1>9, <1>10, <1>11, <1>12
         DEF UpdaterNext, UpdaterStep

LEMMA NextFlagTypeOK ==
  ASSUME UpdaterInv, UpdaterNext
  PROVE  FlagTypeOK'
<1>0. RunTypeOK /\ FlagTypeOK
  BY DEF UpdaterInv
<1>1. CASE UNCHANGED <<resets, signalFired, firstBatch, managerUp, ctxDone>>
  BY <1>0, <1>1, Zenon DEF FlagTypeOK
<1>2. CASE \/ BackoffElapsed \/ BackoffCancelled \/ FirstBatchChange \/ FirstBatchStops
           \/ SendTenant \/ BatchChange \/ BatchHandled \/ PingAnswered
  BY <1>1, <1>2 DEF BackoffElapsed, BackoffCancelled, FirstBatchChange, FirstBatchStops,
                    SendTenant, BatchChange, BatchHandled, PingAnswered, runVars,
                    sessionVars, batchVars
<1>3. ASSUME UNCHANGED <<signalFired, firstBatch, managerUp, ctxDone>>,
             NEW class, NEW connected, handleError(class, connected)
      PROVE  FlagTypeOK'
  <2>1. resets' \in BOOLEAN
    BY <1>0, <1>3, HandleErrorType, Zenon
  <2> QED  BY <1>0, <1>3, <2>1, Zenon DEF FlagTypeOK
<1>4. CASE GroupReturns
  BY <1>3, <1>4, Zenon DEF GroupReturns, batchVars
<1>5. CASE Registered
  BY <1>0, <1>5, Zenon DEF Registered, FlagTypeOK, batchVars
<1>6. CASE GetChanges
  BY <1>0, <1>6, Zenon DEF GetChanges, FlagTypeOK
<1>7. CASE SignalFires
  BY <1>0, <1>7, Zenon DEF SignalFires, FlagTypeOK, runVars, batchVars
<1>8. CASE Shutdown
  BY <1>0, <1>8, Zenon DEF Shutdown, FlagTypeOK, runVars, sessionVars, batchVars
<1>9. CASE ManagerReturns
  BY <1>0, <1>9, Zenon DEF ManagerReturns, FlagTypeOK, runVars, sessionVars, batchVars
<1>10. ASSUME NEW class \in Classes, RegisterFails(class) PROVE FlagTypeOK'
  BY <1>3, <1>10, Zenon DEF RegisterFails, sessionVars, batchVars
<1>11. ASSUME NEW code \in Codes, GetChangesFails(code) PROVE FlagTypeOK'
  BY <1>3, <1>11, Zenon DEF GetChangesFails, sessionVars, batchVars
<1>12. ASSUME NEW code \in Codes, PingFails(code) PROVE FlagTypeOK'
  BY <1>1, <1>12 DEF PingFails, runVars, batchVars
<1>13. ASSUME NEW code \in Codes \cup {"EOF"}, RecvFails(code) PROVE FlagTypeOK'
  BY <1>1, <1>13 DEF RecvFails, runVars, batchVars
<1>14. ASSUME NEW msg \in Message, Recv(msg) PROVE FlagTypeOK'
  BY <1>0, <1>14, Zenon DEF Recv, FlagTypeOK, runVars
<1> QED  BY <1>2, <1>4, <1>5, <1>6, <1>7, <1>8, <1>9, <1>10, <1>11, <1>12, <1>13, <1>14
         DEF UpdaterNext, UpdaterStep

--------------------------------------------------------------------------------
LEMMA InitInv ==
  ASSUME UpdaterInit
  PROVE  UpdaterInv
<1>1. RunTypeOK
  BY UpdaterAssumption DEF UpdaterInit, RunTypeOK
<1>2. FlagTypeOK
  BY Zenon DEF UpdaterInit, FlagTypeOK
<1>3. BatchTypeOK
  <2>1. <<>> \in Seq(Change)
    OBVIOUS
  <2> QED  BY <2>1 DEF UpdaterInit, BatchTypeOK, NoBatch, Message
<1>4. ScraperInv
  <2>1. \A c \in Checks : ~Found(c) /\ unstopped[c] = 0
    BY DEF UpdaterInit, Found, NoScraper
  <2>2. {c \in Checks : Found(c)} = {}
    BY <2>1
  <2>3. ScrapersAccounted
    BY <2>1, <2>2, FS_EmptySet DEF ScrapersAccounted, UpdaterInit
  <2> QED  BY <2>3 DEF UpdaterInit, ScraperInv, NoScraper
<1> QED  BY <1>1, <1>2, <1>3, <1>4 DEF UpdaterInv

LEMMA StutterInv ==
  ASSUME UpdaterInv, UNCHANGED updaterVars
  PROVE  UpdaterInv'
<1> USE DEF UpdaterInv, updaterVars, runVars, sessionVars, batchVars, scraperVars
<1>1. RunTypeOK'
  BY DEF RunTypeOK
<1>2. FlagTypeOK'
  BY Zenon DEF FlagTypeOK
<1>3. BatchTypeOK'
  BY DEF BatchTypeOK
<1>4. ScraperInv'
  BY DEF ScraperInv, ScrapersAccounted, Found
<1> QED  BY <1>1, <1>2, <1>3, <1>4

LEMMA Inductive == UpdaterSpec => []UpdaterInv
<1>1. UpdaterInit => UpdaterInv
  BY InitInv
<1>2. UpdaterInv /\ [UpdaterNext]_updaterVars => UpdaterInv'
  <2> SUFFICES ASSUME UpdaterInv, [UpdaterNext]_updaterVars PROVE UpdaterInv'
    OBVIOUS
  <2>1. CASE UpdaterNext
    BY <2>1, NextRunTypeOK, NextFlagTypeOK, NextBatchTypeOK, NextScraperInv DEF UpdaterInv
  <2>2. CASE UNCHANGED updaterVars
    BY <2>2, StutterInv
  <2> QED  BY <2>1, <2>2
<1> QED  BY <1>1, <1>2, PTL DEF UpdaterSpec

\* The Updater's variables keep their types whatever the API does: the gauge
\* and the counts of scraper goroutines never go below zero, and loop only ends
\* with errors that handleError knows.
THEOREM TypeCorrect == UpdaterSpec => []UpdaterTypeOK
<1>1. UpdaterInv => UpdaterTypeOK
  BY DEF UpdaterInv, UpdaterTypeOK, BatchTypeOK, ScraperInv, ScraperTypeOK
<1> QED  BY <1>1, Inductive, PTL

\* For any checks and any sequence of messages, errors, signals and reconnects,
\* each check has exactly the one running scraper of the map, and the gauge
\* counts them.
THEOREM ScrapersAreAccounted == UpdaterSpec => []ScrapersAccounted
<1>1. UpdaterInv => ScrapersAccounted
  BY DEF UpdaterInv, ScraperInv
<1> QED  BY <1>1, Inductive, PTL
==============================================================================
