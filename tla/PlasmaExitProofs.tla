--------------------------- MODULE PlasmaExitProofs ---------------------------
(* Proofs about PlasmaExit for any number of exit events, of exitAsync calls  *)
(* and of times the coin is received.                                         *)
EXTENDS PlasmaExit, FiniteSetTheorems, TLAPS

Exits == [by : {"nobody", "me", "other"}, final : BOOLEAN, challenged : BOOLEAN,
          told : BOOLEAN, toldChallenge : BOOLEAN,
          met : {"no", "yes", "undone"}, failed : BOOLEAN]
Logged == [kind : {"StartedExit", "ChallengedExit", "FinalizedExit"}, by : {"me", "other"}]
Handlers == [kind : {"StartedExit", "FinalizedExit"}, from : 1 .. (MaxEvents + 1),
             call : 1 .. MaxExits]
Tasks == [event : 1 .. MaxEvents, awaited : BOOLEAN, owner : {"me", "other", "undefined"},
          pc : {"start", "history", "spend", "invalid"}]

-----------------------------------------------------------------------------
(* Well-formedness *)

EthType == /\ exit \in Exits
           /\ log \in Seq(Logged) /\ Len(log) <= MaxEvents
           /\ recent \in BOOLEAN /\ (recent => Len(log) > 0)
           /\ exitWatch \in 0 .. (Len(log) + 1) /\ challengeWatch \in 0 .. (Len(log) + 1)

Firing == {h \in armed : h.kind = "StartedExit"}

\* A call of exitAsync has one handler for the start of an exit, which is armed,
\* or about to watch challenges, or done.
ArmType == /\ armed \subseteq Handlers /\ IsFiniteSet(armed)
           /\ \A h \in armed : h.call <= calls
           /\ calls \in 0 .. MaxExits /\ rewatch \in Nat
           /\ rewatch + Cardinality(Firing) <= calls
           /\ exiting \in {"idle", "arming", "finding"} /\ (exiting # "idle" => calls > 0)
           /\ exitTx \in BOOLEAN

TaskType == /\ receives \in 0 .. MaxReceives /\ received \in BOOLEAN
            /\ receive \in {"idle", "past", "challenge", "watch"}
            /\ tasks \subseteq Tasks
            /\ responses \subseteq 1 .. MaxEvents

LEMMA Bounds == MaxEvents \in Nat /\ MaxExits \in Nat /\ MaxReceives \in Nat
BY ExitAssumption

LEMMA EmitGrows ==
  ASSUME EthType, NEW event \in Logged, Emit(event)
  PROVE  /\ log' \in Seq(Logged) /\ Len(log) \in Nat
         /\ Len(log') = Len(log) + 1 /\ Len(log') <= MaxEvents
         /\ log'[Len(log) + 1] = event
         /\ \A i \in 1 .. Len(log) : log'[i] = log[i]
         /\ recent' = TRUE
BY Bounds DEF EthType, Emit

\* What stopping a watcher changes of the exit.
LEMMA UnsubscribedIs ==
  ASSUME exit \in Exits, NEW kinds, NEW u, u = Unsubscribed(kinds)
  PROVE  /\ u \in Exits
         /\ u.by = exit.by /\ u.final = exit.final /\ u.challenged = exit.challenged
         /\ u.met = exit.met /\ u.failed = exit.failed
         /\ u.told => exit.told
         /\ u.toldChallenge => exit.toldChallenge
         /\ u.told /\ "StartedExit" \in kinds => Events(exitWatch, "StartedExit") = {}
         /\ u.toldChallenge /\ "ChallengedExit" \in kinds
              => Events(challengeWatch, "ChallengedExit") = {}
BY DEF Exits, Unsubscribed

LEMMA FromBlockType == EthType => FromBlock \in 1 .. (Len(log) + 1) /\ FromBlock \in 1 .. (MaxEvents + 1)
<1> SUFFICES ASSUME EthType PROVE FromBlock \in 1 .. (Len(log) + 1) /\ FromBlock \in 1 .. (MaxEvents + 1)
  OBVIOUS
<1>1. Len(log) \in Nat /\ Len(log) <= MaxEvents /\ (recent => Len(log) > 0)
  BY DEF EthType
<1> QED BY <1>1, Bounds DEF FromBlock

LEMMA EventsAre ==
  ASSUME NEW from, NEW kind, NEW i \in Events(from, kind)
  PROVE  i \in 1 .. Len(log) /\ 0 < from /\ from <= i /\ log[i].kind = kind
BY DEF Events

LEMMA EthStep == EthType /\ TaskType /\ Next => EthType'
<1> SUFFICES ASSUME EthType, TaskType, Next PROVE EthType'
  OBVIOUS
<1> DEFINE Logs == log \in Seq(Logged) /\ Len(log) <= MaxEvents
                   /\ recent \in BOOLEAN /\ (recent => Len(log) > 0)
           Watches == exitWatch \in 0 .. (Len(log) + 1) /\ challengeWatch \in 0 .. (Len(log) + 1)
<1>1. ASSUME NEW event \in Logged, Emit(event), UNCHANGED watchVars, exit' \in Exits PROVE EthType'
  <2>0. /\ log' \in Seq(Logged) /\ Len(log) \in Nat
        /\ Len(log') = Len(log) + 1 /\ Len(log') <= MaxEvents /\ recent' = TRUE
    BY <1>1, EmitGrows
  <2>1. Logs'
    BY <2>0
  <2>2. Watches'
    BY <1>1, <2>0 DEF EthType, watchVars
  <2> QED BY <1>1, <2>1, <2>2 DEF EthType
<1>2. ASSUME NEW by \in {"me", "other"}, StartExit(by), UNCHANGED watchVars PROVE EthType'
  <2>1. Event("StartedExit", by) \in Logged /\ Emit(Event("StartedExit", by))
    BY <1>2 DEF StartExit, Event, Logged
  <2>2. exit' \in Exits
    BY <1>2 DEF StartExit, NoExit, Exits
  <2> QED BY <1>1, <1>2, <2>1, <2>2
<1>3. CASE OtherExits
  BY <1>2, <1>3 DEF OtherExits
<1>20. ASSUME Challenge, UNCHANGED watchVars PROVE EthType'
  <2>1. Event("ChallengedExit", exit.by) \in Logged /\ Emit(Event("ChallengedExit", exit.by))
    BY <1>20 DEF Challenge, Event, Logged, EthType, Exits
  <2>2. exit' \in Exits
    BY <1>20 DEF Challenge, EthType, Exits
  <2> QED BY <1>1, <1>20, <2>1, <2>2
<1>4. CASE OtherChallenges
  BY <1>20, <1>4 DEF OtherChallenges
<1>5. CASE OtherResponds
  BY <1>5 DEF OtherResponds, EthType, Exits, watchVars
<1>6. CASE Finalize
  <2>1. CASE exit' = NoExit /\ UNCHANGED <<log, recent>>
    BY <1>6, <2>1 DEF Finalize, EthType, Exits, NoExit, watchVars
  <2>2. CASE exit' = [exit EXCEPT !.final = TRUE] /\ Emit(Event("FinalizedExit", exit.by))
    <3>1. Event("FinalizedExit", exit.by) \in Logged
      BY <1>6 DEF Finalize, Event, Logged, EthType, Exits
    <3>2. exit' \in Exits
      BY <2>2 DEF EthType, Exits
    <3> QED BY <1>1, <1>6, <2>2, <3>1, <3>2 DEF Finalize
  <2> QED BY <1>6, <2>1, <2>2 DEF Finalize
<1>7. CASE NewBlock
  BY <1>7 DEF NewBlock, EthType, watchVars
<1>8. ASSUME NEW kinds, exit' = Unsubscribed(kinds) PROVE exit' \in Exits
  BY <1>8, UnsubscribedIs DEF EthType
<1>9. CASE PastEvents
  <2>1. exit' \in Exits
    BY <1>9 DEF PastEvents, EthType, Exits
  <2> QED BY <1>9, <2>1 DEF PastEvents, EthType, watchVars
<1>10. CASE WatchExit
  <2>1. exitWatch' \in 0 .. (Len(log) + 1)
    BY <1>10, FromBlockType DEF WatchExit, EthType
  <2> QED BY <1>8, <1>10, <2>1 DEF WatchExit, EthType
<1>11. CASE OnStartedExit
  <2>1. PICK i \in Events(exitWatch, "StartedExit") : exitWatch' = i + 1
    BY <1>11 DEF OnStartedExit, NextEvent
  <2>2. i + 1 \in 0 .. (Len(log) + 1)
    BY EventsAre DEF EthType
  <2> QED BY <1>11, <2>1, <2>2 DEF OnStartedExit, ethVars, EthType
<1>12. CASE OnChallengedExit
  <2>1. PICK i \in Events(challengeWatch, "ChallengedExit") : challengeWatch' = i + 1
    BY <1>12 DEF OnChallengedExit, NextEvent
  <2>2. i + 1 \in 0 .. (Len(log) + 1)
    BY EventsAre DEF EthType
  <2> QED BY <1>12, <2>1, <2>2 DEF OnChallengedExit, ethVars, EthType
<1>13. ASSUME NEW t \in tasks, Mined(t) PROVE EthType'
  <2>1. CASE exit' = NoExit /\ UNCHANGED <<log, recent>>
    BY <1>13, <2>1 DEF Mined, EthType, Exits, NoExit, watchVars
  <2>2. CASE Challenge
    BY <1>13, <1>20, <2>2 DEF Mined
  <2>3. CASE UNCHANGED ethVars
    BY <1>13, <2>3 DEF Mined, EthType, ethVars, watchVars
  <2> QED BY <1>13, <2>1, <2>2, <2>3 DEF Mined
<1>14. CASE ExitMined
  <2>1. CASE StartExit("me")
    BY <1>2, <1>14, <2>1 DEF ExitMined
  <2>2. CASE UNCHANGED ethVars
    BY <1>14, <2>2 DEF ExitMined, EthType, ethVars, watchVars
  <2> QED BY <1>14, <2>1, <2>2 DEF ExitMined
<1>15. CASE OnceStarted \/ OnceFinalized
  <2>1. UNCHANGED <<log, recent>> /\ StopWatching
    BY <1>15 DEF OnceStarted, OnceFinalized
  <2> QED BY <1>8, <2>1 DEF StopWatching, EthType
<1>16. CASE WatchChallenge
  <2>1. challengeWatch' \in 0 .. (Len(log) + 1)
    BY <1>16, FromBlockType DEF WatchChallenge, EthType
  <2> QED BY <1>8, <1>16, <2>1 DEF WatchChallenge, EthType
<1>17. CASE CancelExit
  BY <1>17 DEF CancelExit, EthType, Exits, NoExit, watchVars
<1>18. ASSUME \/ \E i \in responses : Respond(i) \/ RespondFails(i)
              \/ \E t \in tasks : ChallengeFails(t)
       PROVE  EthType'
  <2>1. UNCHANGED <<log, recent, watchVars>>
    BY <1>18 DEF Respond, RespondFails, ChallengeFails
  <2>2. exit' \in Exits
    BY <1>18 DEF Respond, RespondFails, ChallengeFails, EthType, Exits
  <2> QED BY <2>1, <2>2 DEF EthType, watchVars
<1>19. CASE \/ Receive \/ PastChallenged \/ ReceiveFails \/ (\E t \in tasks : ReadExit(t) \/ Submit(t))
            \/ ArmStarted \/ ArmFinalized \/ ArmFails \/ SubmitExit \/ RewatchFails
  <2>1. UNCHANGED <<ethVars, watchVars>>
    BY <1>19 DEF Receive, PastChallenged, ReceiveFails, ReadExit, Submit, ArmStarted, ArmFinalized,
         ArmFails, SubmitExit, RewatchFails
  <2> QED BY <2>1 DEF EthType, ethVars, watchVars
<1> QED BY <1>3, <1>4, <1>5, <1>6, <1>7, <1>9, <1>10, <1>11, <1>12, <1>13, <1>14, <1>15,
           <1>16, <1>17, <1>18, <1>19 DEF Next

LEMMA ArmStep == EthType /\ ArmType /\ Next => ArmType'
<1> SUFFICES ASSUME EthType, ArmType, Next PROVE ArmType'
  OBVIOUS
<1>1. /\ armed \subseteq Handlers /\ IsFiniteSet(armed) /\ IsFiniteSet(Firing)
      /\ calls \in Nat /\ calls <= MaxExits /\ rewatch \in Nat /\ Cardinality(Firing) \in Nat
      /\ rewatch + Cardinality(Firing) <= calls
  <2>1. IsFiniteSet(armed) /\ Firing \subseteq armed
    BY DEF ArmType, Firing
  <2>2. IsFiniteSet(Firing) /\ Cardinality(Firing) \in Nat
    BY <2>1, FS_Subset, FS_CardinalityType
  <2> QED BY <2>2, Bounds DEF ArmType
<1>2. ASSUME NEW h \in Handlers, armed' = armed \cup {h}, UNCHANGED rewatch,
             calls' \in calls .. MaxExits, h.call <= calls',
             h.kind = "StartedExit" => calls' = calls + 1,
             exiting' \in {"arming", "finding"}, calls' > 0, UNCHANGED exitTx
      PROVE  ArmType'
  <2>1. IsFiniteSet(armed')
    BY <1>1, <1>2, FS_AddElement
  <2>2. \A g \in armed' : g.call <= calls'
    <3>1. \A g \in armed : g.call \in Nat /\ g.call <= calls
      BY Bounds DEF ArmType, Handlers
    <3> QED BY <1>1, <1>2, <3>1, Bounds
  <2>3. rewatch' + Cardinality(Firing') <= calls'
    <3>1. CASE h.kind = "StartedExit"
      <4>1. Firing' = Firing \cup {h}
        BY <1>2, <3>1 DEF Firing
      <4>2. Cardinality(Firing \cup {h}) = IF h \in Firing THEN Cardinality(Firing) ELSE Cardinality(Firing) + 1
        BY <1>1, FS_AddElement
      <4>3. Cardinality(Firing') \in {Cardinality(Firing), Cardinality(Firing) + 1}
        BY <4>1, <4>2
      <4> QED BY <1>1, <1>2, <3>1, <4>3
    <3>2. CASE h.kind # "StartedExit"
      <4>1. Firing' = Firing
        BY <1>2, <3>2 DEF Firing
      <4> QED BY <1>1, <1>2, <4>1, Bounds
    <3> QED BY <3>1, <3>2
  <2>4. calls' \in 0 .. MaxExits
    BY <1>1, <1>2, Bounds
  <2> QED BY <1>2, <2>1, <2>2, <2>3, <2>4 DEF ArmType
<1>3. ASSUME NEW h \in armed, armed' = armed \ {h}, UNCHANGED <<calls, exiting, exitTx>>,
             rewatch' = IF h.kind = "StartedExit" THEN rewatch + 1 ELSE rewatch
      PROVE  ArmType'
  <2>1. IsFiniteSet(armed') /\ Firing' = Firing \ {h}
    BY <1>1, <1>3, FS_RemoveElement DEF Firing
  <2>2. Cardinality(Firing') = IF h \in Firing THEN Cardinality(Firing) - 1 ELSE Cardinality(Firing)
    BY <1>1, <2>1, FS_RemoveElement
  <2>3. rewatch' \in Nat /\ rewatch' + Cardinality(Firing') <= calls'
    BY <1>1, <1>3, <2>2 DEF Firing
  <2> QED BY <1>3, <2>1, <2>3 DEF ArmType
<1>4. CASE ArmStarted
  <2> DEFINE h == [kind |-> "StartedExit", from |-> FromBlock, call |-> calls']
  <2>1. /\ armed' = armed \cup {h} /\ calls' = calls + 1 /\ calls < MaxExits
        /\ exiting' = "arming" /\ UNCHANGED <<rewatch, exitTx>>
    BY <1>4 DEF ArmStarted
  <2>2. calls' \in 1 .. MaxExits /\ calls' \in calls .. MaxExits /\ calls' > 0 /\ calls' <= calls'
    BY <1>1, <2>1, Bounds
  <2>3. h \in Handlers /\ h.call = calls' /\ h.kind = "StartedExit"
    BY <2>2, FromBlockType DEF Handlers
  <2> HIDE DEF h
  <2> QED BY <1>2, <2>1, <2>2, <2>3
<1>5. CASE ArmFinalized
  <2> DEFINE h == [kind |-> "FinalizedExit", from |-> FromBlock, call |-> calls]
  <2>1. /\ armed' = armed \cup {h} /\ calls' = calls /\ exiting = "arming"
        /\ exiting' = "finding" /\ UNCHANGED <<rewatch, exitTx>>
    BY <1>5 DEF ArmFinalized
  <2>2. calls' > 0 /\ calls' \in calls .. MaxExits /\ calls <= calls' /\ calls \in 1 .. MaxExits
    BY <1>1, <2>1, Bounds DEF ArmType
  <2>3. h \in Handlers /\ h.call = calls /\ h.kind # "StartedExit"
    BY <2>2, FromBlockType DEF Handlers
  <2> HIDE DEF h
  <2> QED BY <1>2, <2>1, <2>2, <2>3
<1>6. CASE OnceStarted
  <2>1. PICK h \in armed : h.kind = "StartedExit" /\ armed' = armed \ {h}
    BY <1>6 DEF OnceStarted
  <2> QED BY <1>3, <1>6, <2>1 DEF OnceStarted
<1>7. CASE OnceFinalized
  <2>1. PICK h \in armed : h.kind = "FinalizedExit" /\ armed' = armed \ {h}
    BY <1>7 DEF OnceFinalized
  <2> QED BY <1>3, <1>7, <2>1 DEF OnceFinalized
<1>8. CASE WatchChallenge \/ RewatchFails
  <2>1. rewatch' = rewatch - 1 /\ rewatch > 0 /\ UNCHANGED <<armed, exiting, calls, exitTx>>
    BY <1>8 DEF WatchChallenge, RewatchFails
  <2>2. rewatch' \in Nat /\ rewatch' + Cardinality(Firing) <= calls /\ Firing' = Firing
    BY <1>1, <2>1 DEF Firing
  <2> QED BY <2>1, <2>2 DEF ArmType
<1>9. CASE ArmFails \/ SubmitExit \/ ExitMined
  <2>1. UNCHANGED <<armed, calls, rewatch>> /\ exitTx' \in BOOLEAN
        /\ (exiting' = exiting \/ exiting' = "idle") /\ Firing' = Firing
    BY <1>9 DEF ArmFails, SubmitExit, ExitMined, ArmType, Firing
  <2> QED BY <2>1 DEF ArmType
<1>10. CASE UNCHANGED exitVars
  <2>1. Firing' = Firing
    BY <1>10 DEF exitVars, Firing
  <2> QED BY <1>10, <2>1 DEF exitVars, ArmType
<1>11. ASSUME NEW t \in tasks, ReadExit(t) \/ Submit(t) \/ Mined(t) \/ ChallengeFails(t)
       PROVE  UNCHANGED exitVars
  BY <1>11 DEF ReadExit, Submit, Mined, ChallengeFails
<1>12. CASE \/ OtherExits \/ OtherChallenges \/ OtherResponds \/ Finalize \/ NewBlock
            \/ Receive \/ PastEvents \/ PastChallenged \/ ReceiveFails \/ WatchExit
            \/ OnStartedExit \/ CancelExit \/ OnChallengedExit
            \/ \E i \in responses : Respond(i) \/ RespondFails(i)
  BY <1>10, <1>12 DEF OtherExits, OtherChallenges, OtherResponds, Finalize, NewBlock, Receive,
       PastEvents, PastChallenged, ReceiveFails, WatchExit, OnStartedExit, CancelExit,
       OnChallengedExit, Respond, RespondFails
<1> QED BY <1>4, <1>5, <1>6, <1>7, <1>8, <1>9, <1>10, <1>11, <1>12 DEF Next

LEMMA TaskStep == EthType /\ TaskType /\ Next => TaskType'
<1> SUFFICES ASSUME EthType, TaskType, Next PROVE TaskType'
  OBVIOUS
<1>1. /\ receives \in Nat /\ receives <= MaxReceives
      /\ \A i \in 1 .. Len(log) : i \in 1 .. MaxEvents
  BY Bounds DEF EthType, TaskType
<1>2. CASE Receive
  <2>1. receives' \in 0 .. MaxReceives
    BY <1>1, <1>2, Bounds DEF Receive
  <2> QED BY <1>2, <2>1 DEF Receive, TaskType
<1>3. CASE PastEvents
  <2>1. CASE UNCHANGED tasks
    BY <1>3, <2>1 DEF PastEvents, TaskType
  <2>2. ASSUME NEW i \in LastEvent("StartedExit"), receive' = "challenge",
               tasks' = tasks \cup {[event |-> i, awaited |-> TRUE, owner |-> "undefined", pc |-> "start"]}
        PROVE  TaskType'
    <3>1. i \in 1 .. MaxEvents
      BY <1>1, EventsAre DEF LastEvent
    <3>2. [event |-> i, awaited |-> TRUE, owner |-> "undefined", pc |-> "start"] \in Tasks
      BY <3>1 DEF Tasks
    <3> QED BY <1>3, <2>2, <3>2 DEF PastEvents, TaskType
  <2> QED BY <1>3, <2>1, <2>2 DEF PastEvents
<1>4. CASE PastChallenged \/ ReceiveFails
  BY <1>4 DEF PastChallenged, ReceiveFails, TaskType
<1>5. CASE WatchExit
  BY <1>5 DEF WatchExit, TaskType
<1>6. CASE OnStartedExit
  <2>1. PICK i \in Events(exitWatch, "StartedExit") :
          tasks' = tasks \cup {[event |-> i, awaited |-> FALSE, owner |-> log[i].by, pc |-> "start"]}
    BY <1>6 DEF OnStartedExit, NextEvent
  <2>2. i \in 1 .. Len(log) /\ i \in 1 .. MaxEvents /\ log[i] \in Logged
    BY <1>1, EventsAre DEF EthType
  <2>3. [event |-> i, awaited |-> FALSE, owner |-> log[i].by, pc |-> "start"] \in Tasks
    BY <2>2 DEF Tasks, Logged
  <2> QED BY <1>6, <2>1, <2>3 DEF OnStartedExit, TaskType, receiveVars
<1>7. ASSUME NEW t \in tasks, ReadExit(t) PROVE TaskType'
  <2>1. exit.by # "nobody" => [t EXCEPT !.owner = exit.by, !.pc = "history"] \in Tasks
    BY DEF TaskType, EthType, Exits, Tasks
  <2> QED BY <1>7, <2>1 DEF ReadExit, TaskType, receiveVars
<1>8. ASSUME NEW t \in tasks, Submit(t) PROVE TaskType'
  <2>1. PICK kind \in {"spend", "invalid", "none"} :
          tasks' = (tasks \ {t}) \cup (IF kind = "none" THEN {} ELSE {[t EXCEPT !.pc = kind, !.awaited = FALSE]})
    BY <1>8 DEF Submit
  <2>2. kind # "none" => [t EXCEPT !.pc = kind, !.awaited = FALSE] \in Tasks
    BY DEF TaskType, Tasks
  <2> QED BY <1>8, <2>1, <2>2 DEF Submit, TaskType, receiveVars
<1>9. ASSUME NEW t \in tasks, Mined(t) \/ ChallengeFails(t) PROVE TaskType'
  BY <1>9 DEF Mined, ChallengeFails, TaskType, receiveVars
<1>10. CASE OnChallengedExit
  <2>1. PICK i \in Events(challengeWatch, "ChallengedExit") : responses' = responses \cup {i}
    BY <1>10 DEF OnChallengedExit, NextEvent
  <2>2. i \in 1 .. MaxEvents
    BY <1>1, EventsAre
  <2> QED BY <1>10, <2>1, <2>2 DEF OnChallengedExit, TaskType, receiveVars
<1>11. ASSUME NEW i \in responses, Respond(i) \/ RespondFails(i) PROVE TaskType'
  BY <1>11 DEF Respond, RespondFails, TaskType, receiveVars
<1>12. CASE \/ OtherExits \/ OtherChallenges \/ OtherResponds \/ Finalize \/ NewBlock
            \/ ArmStarted \/ ArmFinalized \/ ArmFails \/ SubmitExit \/ ExitMined \/ CancelExit
            \/ OnceStarted \/ WatchChallenge \/ RewatchFails \/ OnceFinalized
  <2>1. UNCHANGED <<receiveVars, tasks, responses>>
    BY <1>12 DEF OtherExits, OtherChallenges, OtherResponds, Finalize, NewBlock, ArmStarted,
         ArmFinalized, ArmFails, SubmitExit, ExitMined, CancelExit, OnceStarted, WatchChallenge,
         RewatchFails, OnceFinalized
  <2> QED BY <2>1 DEF TaskType, receiveVars
<1> QED BY <1>2, <1>3, <1>4, <1>5, <1>6, <1>7, <1>8, <1>9, <1>10, <1>11, <1>12 DEF Next

TypeInv == EthType /\ ArmType /\ TaskType

LEMMA TypeInit == Init => TypeInv
<1> SUFFICES ASSUME Init PROVE TypeInv
  OBVIOUS
<1>1. log = <<>> /\ log \in Seq(Logged) /\ Len(log) = 0
  BY DEF Init
<1>2. EthType
  <2>1. exit \in Exits
    BY DEF Init, NoExit, Exits
  <2>2. recent \in BOOLEAN /\ ~ recent /\ exitWatch = 0 /\ challengeWatch = 0
    BY DEF Init
  <2> QED BY <1>1, <2>1, <2>2, Bounds DEF EthType
<1>3. armed = {} /\ Firing = {} /\ IsFiniteSet(armed) /\ Cardinality(Firing) = 0
  BY FS_EmptySet DEF Init, Firing
<1>4. calls = 0 /\ rewatch = 0 /\ exiting = "idle" /\ exitTx \in BOOLEAN
  BY DEF Init
<1>5. ArmType
  BY <1>3, <1>4, Bounds DEF ArmType
<1>6. TaskType
  <2>1. receives = 0 /\ received \in BOOLEAN /\ ~ received /\ receive = "idle" /\ tasks = {} /\ responses = {}
    BY DEF Init
  <2> QED BY <2>1, Bounds DEF TaskType
<1> QED BY <1>2, <1>5, <1>6 DEF TypeInv

LEMMA TypeStep == TypeInv /\ [Next]_vars => TypeInv'
<1>1. TypeInv /\ UNCHANGED vars => TypeInv'
  BY DEF TypeInv, EthType, ArmType, Firing, TaskType, vars, ethVars, watchVars, exitVars, receiveVars
<1> QED BY <1>1, EthStep, ArmStep, TaskStep DEF TypeInv

\* The state stays well formed: in particular no subscription gets ahead of the
\* chain, and no exitAsync watches for challenges more than once.
THEOREM TypeCorrect == Spec => []TypeOK
<1>1. TypeInv => TypeOK
  <2> SUFFICES ASSUME TypeInv PROVE TypeOK
    OBVIOUS
  <2>1. Cardinality(Firing) \in Nat
    <3>1. IsFiniteSet(Firing)
      <4>1. IsFiniteSet(armed) /\ Firing \subseteq armed
        BY DEF TypeInv, ArmType, Firing
      <4> QED BY <4>1, FS_Subset
    <3> QED BY <3>1, FS_CardinalityType
  <2>2. rewatch \in 0 .. MaxExits
    BY <2>1, Bounds DEF TypeInv, ArmType
  <2> QED BY <2>2 DEF TypeInv, TypeOK, EthType, ArmType, TaskType, Exits, Logged, Handlers, Tasks
<1> QED BY <1>1, TypeInit, TypeStep, PTL DEF Spec

-----------------------------------------------------------------------------
(* What the log says of the exit there is *)

Begun == Events(1, "StartedExit")

\* The exit there is was started last, an exit that is final was started, and
\* only the client challenges an exit of another.
LogInv == /\ exit.by # "nobody" => \E i \in Begun : log[i].by = exit.by /\ \A j \in Begun : j <= i
          /\ Events(1, "FinalizedExit") # {} => Begun # {}
          /\ exit.final => ~ exit.challenged
          /\ exit.challenged => exit.met = "yes"

\* An event more is an event more for whoever subscribes to it.
LEMMA EmitAdds ==
  ASSUME EthType, NEW event \in Logged, Emit(event), NEW from \in Nat, NEW kind
  PROVE  /\ Events(from, kind) \subseteq Events(from, kind)'
         /\ event.kind # kind => Events(from, kind)' = Events(from, kind)
         /\ event.kind = kind /\ 0 < from /\ from <= Len(log) + 1 => Len(log) + 1 \in Events(from, kind)'
<1>1. /\ Len(log) \in Nat /\ Len(log') = Len(log) + 1 /\ log'[Len(log) + 1] = event
      /\ \A i \in 1 .. Len(log) : log'[i] = log[i]
  BY EmitGrows
<1>2. ASSUME NEW i PROVE i \in Events(from, kind)' <=>
        \/ i \in Events(from, kind)
        \/ i = Len(log) + 1 /\ 0 < from /\ from <= i /\ event.kind = kind
  <2>1. i \in 1 .. Len(log') <=> i \in 1 .. Len(log) \/ i = Len(log) + 1
    BY <1>1
  <2>2. i \in 1 .. Len(log) => i # Len(log) + 1
    BY <1>1
  <2> QED BY <1>1, <2>1, <2>2 DEF Events
<1> QED BY <1>2

\* The exit is not replaced and nobody challenges it.
Kept == /\ UNCHANGED log
        /\ exit'.by = exit.by /\ exit'.final = exit.final
        /\ exit'.challenged => exit.challenged /\ exit'.met = exit.met

LEMMA KeptBy ==
  ASSUME EthType,
         \/ OtherResponds \/ NewBlock \/ Receive \/ PastEvents \/ PastChallenged \/ ReceiveFails
         \/ WatchExit \/ OnStartedExit
         \/ (\E t \in tasks : ReadExit(t) \/ Submit(t) \/ ChallengeFails(t))
         \/ ArmStarted \/ ArmFinalized \/ ArmFails \/ SubmitExit
         \/ OnceStarted \/ WatchChallenge \/ RewatchFails \/ OnceFinalized
         \/ OnChallengedExit \/ (\E i \in responses : Respond(i) \/ RespondFails(i)) \/ UNCHANGED vars
  PROVE  Kept
<1>1. ASSUME NEW kinds, exit' = Unsubscribed(kinds), UNCHANGED log PROVE Kept
  BY <1>1, UnsubscribedIs DEF EthType, Kept
<1>2. CASE WatchExit \/ OnceStarted \/ WatchChallenge \/ OnceFinalized
  BY <1>1, <1>2 DEF WatchExit, OnceStarted, WatchChallenge, OnceFinalized, StopWatching
<1>3. CASE \/ OtherResponds \/ PastEvents \/ (\E t \in tasks : ChallengeFails(t))
           \/ (\E i \in responses : Respond(i) \/ RespondFails(i))
  BY <1>3 DEF OtherResponds, PastEvents, ChallengeFails, Respond, RespondFails, EthType, Exits, Kept
<1>4. CASE UNCHANGED <<exit, log>>
  BY <1>4 DEF Kept
<1>5. CASE \/ NewBlock \/ Receive \/ PastChallenged \/ ReceiveFails
           \/ OnStartedExit \/ (\E t \in tasks : ReadExit(t) \/ Submit(t))
           \/ ArmStarted \/ ArmFinalized \/ ArmFails \/ SubmitExit \/ RewatchFails
           \/ OnChallengedExit \/ UNCHANGED vars
  BY <1>4, <1>5 DEF NewBlock, Receive, PastChallenged, ReceiveFails, OnStartedExit, ReadExit, Submit,
       ArmStarted, ArmFinalized, ArmFails, SubmitExit, RewatchFails, OnChallengedExit, vars, ethVars
<1> QED BY <1>2, <1>3, <1>5

\* The exit there is ends.
Voided == exit' = NoExit /\ UNCHANGED log
Finalized == /\ exit.by # "nobody" /\ ~ exit.challenged
             /\ exit' = [exit EXCEPT !.final = TRUE]
             /\ Emit(Event("FinalizedExit", exit.by))

LEMMA LogChanges ==
  ASSUME EthType, [Next]_vars
  PROVE  \/ Kept \/ Voided \/ Challenge \/ Finalized \/ (\E by \in {"me", "other"} : StartExit(by))
<1>1. CASE OtherExits
  BY <1>1 DEF OtherExits
<1>2. CASE OtherChallenges
  BY <1>2 DEF OtherChallenges
<1>3. CASE Finalize
  BY <1>3 DEF Finalize, Voided, Finalized
<1>4. ASSUME NEW t \in tasks, Mined(t) PROVE Kept \/ Voided \/ Challenge
  <2>1. CASE UNCHANGED ethVars
    BY <2>1 DEF ethVars, Kept
  <2>2. CASE exit' = NoExit /\ UNCHANGED <<log, recent>>
    BY <2>2 DEF Voided
  <2> QED BY <1>4, <2>1, <2>2 DEF Mined
<1>5. CASE ExitMined
  BY <1>5 DEF ExitMined, ethVars, Kept
<1>6. CASE CancelExit
  BY <1>6 DEF CancelExit, Voided
<1> QED BY <1>1, <1>2, <1>3, <1>4, <1>5, <1>6, KeptBy DEF Next

LEMMA LogInit == Init => LogInv
BY DEF Init, LogInv, NoExit, Events

LEMMA LogStep == TypeInv /\ LogInv /\ [Next]_vars => LogInv'
<1> SUFFICES ASSUME EthType, LogInv, [Next]_vars PROVE LogInv'
  BY DEF TypeInv
<1>1. CASE Kept
  BY <1>1 DEF Kept, LogInv, Begun, Events
<1>2. CASE Voided
  BY <1>2 DEF Voided, LogInv, Begun, Events, NoExit
<1>3. ASSUME NEW event \in Logged, Emit(event), event.kind # "StartedExit",
             exit'.by = exit.by, exit.by # "nobody"
      PROVE  /\ Begun' = Begun /\ Begun # {}
             /\ \E i \in Begun' : log'[i].by = exit'.by /\ \A j \in Begun' : j <= i
  <2>1. Begun' = Begun
    BY <1>3, EmitAdds DEF Begun
  <2>2. \A i \in Begun : log'[i] = log[i]
    BY <1>3, EmitGrows, EventsAre DEF Begun
  <2> QED BY <1>3, <2>1, <2>2 DEF LogInv
<1>4. CASE Challenge
  <2>1. /\ Event("ChallengedExit", exit.by) \in Logged
        /\ Event("ChallengedExit", exit.by).kind = "ChallengedExit"
    BY <1>4 DEF Challenge, Event, Logged, EthType, Exits
  <2>2. exit'.by = exit.by /\ ~ exit'.final /\ exit'.met = "yes"
    BY <1>4 DEF Challenge, EthType, Exits
  <2> QED BY <1>3, <1>4, <2>1, <2>2 DEF Challenge, LogInv
<1>5. CASE Finalized
  <2>1. /\ Event("FinalizedExit", exit.by) \in Logged
        /\ Event("FinalizedExit", exit.by).kind = "FinalizedExit"
    BY <1>5 DEF Finalized, Event, Logged, EthType, Exits
  <2>2. exit'.by = exit.by /\ ~ exit'.challenged
    BY <1>5 DEF Finalized, EthType, Exits
  <2> QED BY <1>3, <1>5, <2>1, <2>2 DEF Finalized, LogInv
<1>6. ASSUME NEW by \in {"me", "other"}, StartExit(by) PROVE LogInv'
  <2> DEFINE event == Event("StartedExit", by)
             last == Len(log) + 1
  <2>1. event \in Logged /\ event.kind = "StartedExit" /\ event.by = by /\ Emit(event)
    BY <1>6 DEF StartExit, Event, Logged
  <2>2. exit'.by = by /\ ~ exit'.final /\ ~ exit'.challenged
    BY <1>6 DEF StartExit, NoExit
  <2> HIDE DEF event
  <2>3. Len(log) \in Nat /\ log'[last] = event /\ Len(log') = last
    BY <2>1, EmitGrows
  <2>4. last \in Begun' /\ \A j \in Begun' : j <= last
    <3>1. last \in Begun'
      BY <2>1, <2>3, EmitAdds DEF Begun
    <3>2. \A j \in Begun' : j \in 1 .. Len(log')
      BY DEF Begun, Events
    <3> QED BY <2>3, <3>1, <3>2
  <2> QED BY <2>1, <2>2, <2>3, <2>4 DEF LogInv
<1> QED BY <1>1, <1>2, <1>4, <1>5, <1>6, LogChanges

\* The log only grows, and no event is in it before the exit it is about.
LEMMA BegunGrows ==
  ASSUME EthType, [Next]_vars
  PROVE  Begun \subseteq Begun'
<1>1. ASSUME NEW event \in Logged, Emit(event) PROVE Begun \subseteq Begun'
  BY <1>1, EmitAdds DEF Begun
<1>2. CASE Kept \/ Voided
  BY <1>2 DEF Kept, Voided, Begun, Events
<1>3. CASE Challenge
  BY <1>1, <1>3 DEF Challenge, Event, Logged, EthType, Exits
<1>4. CASE Finalized
  BY <1>1, <1>4 DEF Finalized, Event, Logged, EthType, Exits
<1>5. ASSUME NEW by \in {"me", "other"}, StartExit(by) PROVE Begun \subseteq Begun'
  BY <1>1, <1>5 DEF StartExit, Event, Logged
<1> QED BY <1>2, <1>3, <1>4, <1>5, LogChanges

LEMMA WatchedStep == TypeInv /\ LogInv /\ WatchedUntilExit /\ [Next]_vars => WatchedUntilExit'
<1> SUFFICES ASSUME TypeInv, LogInv, WatchedUntilExit, [Next]_vars, received', Begun' = {}
             PROVE  exitWatch' # 0
  BY DEF WatchedUntilExit, Begun
<1>1. EthType /\ Begun = {} /\ (received => exitWatch # 0)
  BY BegunGrows DEF TypeInv, WatchedUntilExit, Begun
<1>2. CASE WatchExit
  BY <1>1, <1>2, FromBlockType DEF WatchExit
<1>3. ASSUME NEW h, Events(h, "StartedExit") # {} \/ Events(h, "FinalizedExit") # {} PROVE FALSE
  <2>1. CASE Events(h, "StartedExit") # {}
    <3>1. PICK i \in Events(h, "StartedExit") : TRUE
      BY <2>1
    <3>2. i \in Begun
      BY <3>1 DEF Begun, Events
    <3> QED BY <1>1, <3>2
  <2>2. CASE Events(h, "FinalizedExit") # {}
    <3>1. PICK i \in Events(h, "FinalizedExit") : TRUE
      BY <2>2
    <3>2. i \in Events(1, "FinalizedExit")
      BY <3>1 DEF Events
    <3> QED BY <1>1, <3>2 DEF LogInv
  <2> QED BY <1>3, <2>1, <2>2
<1>4. ~ OnStartedExit /\ ~ OnceStarted /\ ~ OnceFinalized
  BY <1>3 DEF OnStartedExit, NextEvent, OnceStarted, OnceFinalized
<1>5. CASE UNCHANGED <<exitWatch, received>>
  BY <1>1, <1>5
<1>6. ASSUME NEW t \in tasks, ReadExit(t) \/ Submit(t) \/ Mined(t) \/ ChallengeFails(t)
      PROVE  UNCHANGED <<exitWatch, received>>
  BY <1>6 DEF ReadExit, Submit, Mined, ChallengeFails, watchVars, receiveVars
<1>7. CASE \/ OtherExits \/ OtherChallenges \/ OtherResponds \/ Finalize \/ NewBlock
           \/ Receive \/ PastEvents \/ PastChallenged \/ ReceiveFails
           \/ ArmStarted \/ ArmFinalized \/ ArmFails \/ SubmitExit \/ ExitMined \/ CancelExit
           \/ WatchChallenge \/ RewatchFails \/ OnChallengedExit
           \/ (\E i \in responses : Respond(i) \/ RespondFails(i)) \/ UNCHANGED vars
  BY <1>5, <1>7 DEF OtherExits, OtherChallenges, OtherResponds, Finalize, NewBlock, Receive,
       PastEvents, PastChallenged, ReceiveFails, ArmStarted, ArmFinalized, ArmFails, SubmitExit,
       ExitMined, CancelExit, WatchChallenge, RewatchFails, OnChallengedExit, Respond, RespondFails,
       vars, watchVars, receiveVars
<1> QED BY <1>2, <1>4, <1>5, <1>6, <1>7 DEF Next

\* A coin that was received stays watched until an exit of it has started: an
\* exitAsync that fails, or one whose exit is not in yet, does not end the watch.
THEOREM StaysWatched == Spec => []WatchedUntilExit
<1>1. Init => WatchedUntilExit
  BY DEF Init, WatchedUntilExit
<1> QED BY <1>1, TypeInit, TypeStep, LogInit, LogStep, WatchedStep, PTL DEF Spec

-----------------------------------------------------------------------------
(* Exits of others *)

\* Will the task submit a challenge, if the exit it finds is another's?
Challenging(t) == \/ t.pc = "start" /\ t.owner # "me"
                  \/ t.pc = "history" /\ t.owner = "other"
                  \/ t.pc \in {"spend", "invalid"}

\* An exit of another that the client was told of, whose challenge neither is
\* mined nor failed, is still to be handed over, or a task is about it.
Due == exit.by = "other" /\ ~ exit.final /\ exit.told /\ ~ exit.failed /\ exit.met = "no"
Handled(i) == i \in Events(exitWatch, "StartedExit") \/ \E t \in tasks : t.event = i /\ Challenging(t)
ForeignInv == Due => \E i \in LastEvent("StartedExit") : Handled(i)

\* The event just emitted is the last of its kind, and is to be handed over.
LEMMA LastIsNew ==
  ASSUME EthType, NEW event \in Logged, Emit(event)
  PROVE  /\ Len(log) + 1 \in LastEvent(event.kind)'
         /\ UNCHANGED exitWatch /\ exitWatch # 0 => Len(log) + 1 \in Events(exitWatch, event.kind)'
         /\ UNCHANGED challengeWatch /\ challengeWatch # 0
              => Len(log) + 1 \in Events(challengeWatch, event.kind)'
<1> DEFINE last == Len(log) + 1
<1>1. Len(log) \in Nat /\ Len(log') = last
  BY EmitGrows
<1>2. last \in Events(1, event.kind)'
  BY <1>1, EmitAdds
<1>3. \A j \in Events(1, event.kind)' : j <= last
  BY <1>1 DEF Events
<1>4. ASSUME NEW from \in Nat, 0 < from, from <= last PROVE last \in Events(from, event.kind)'
  BY <1>1, <1>4, EmitAdds
<1>5. exitWatch \in Nat /\ exitWatch <= last /\ challengeWatch \in Nat /\ challengeWatch <= last
  BY <1>1 DEF EthType
<1>6. ASSUME UNCHANGED exitWatch, exitWatch # 0 PROVE last \in Events(exitWatch, event.kind)'
  <2>1. PICK from \in Nat : from = exitWatch
    BY <1>5
  <2>2. last \in Events(from, event.kind)'
    BY <1>4, <1>5, <1>6, <2>1
  <2> QED BY <1>6, <2>1, <2>2 DEF Events
<1>7. ASSUME UNCHANGED challengeWatch, challengeWatch # 0 PROVE last \in Events(challengeWatch, event.kind)'
  <2>1. PICK from \in Nat : from = challengeWatch
    BY <1>5
  <2>2. last \in Events(from, event.kind)'
    BY <1>4, <1>5, <1>7, <2>1
  <2> QED BY <1>7, <2>1, <2>2 DEF Events
<1> QED BY <1>2, <1>3, <1>6, <1>7 DEF LastEvent

\* Of two different events of a kind, the next comes before the last.
LEMMA NextBeforeLast ==
  ASSUME NEW from \in Nat, NEW kind, NEW i \in NextEvent(from, kind), NEW last \in LastEvent(kind),
         last \in Events(from, kind), i # last
  PROVE  0 < i + 1 /\ i + 1 <= last
BY DEF NextEvent, LastEvent, Events

LEMMA ForeignStep == TypeInv /\ LogInv /\ ForeignInv /\ [Next]_vars => ForeignInv'
<1> SUFFICES ASSUME EthType, TaskType, LogInv, ForeignInv, [Next]_vars, Due'
             PROVE  (\E i \in LastEvent("StartedExit") : Handled(i))'
  BY DEF TypeInv, ForeignInv
<1>1. exit'.by = "other" /\ ~ exit'.final /\ exit'.told /\ ~ exit'.failed /\ exit'.met = "no"
  BY DEF Due
<1>2. CASE OtherExits
  <2> DEFINE event == Event("StartedExit", "other")
  <2>1. event \in Logged /\ Emit(event) /\ event.kind = "StartedExit"
    BY <1>2 DEF OtherExits, StartExit, Event, Logged
  <2>2. UNCHANGED exitWatch /\ exitWatch # 0
    BY <1>1, <1>2 DEF OtherExits, StartExit, NoExit, watchVars
  <2> HIDE DEF event
  <2>3. Len(log) + 1 \in LastEvent("StartedExit")' /\ Len(log) + 1 \in Events(exitWatch, "StartedExit")'
    BY <2>1, <2>2, LastIsNew
  <2> QED BY <2>3 DEF Handled
<1>3. ASSUME UNCHANGED log, Due,
             \A i \in LastEvent("StartedExit") : Handled(i) =>
               \/ i \in Events(exitWatch, "StartedExit")'
               \/ \E t \in tasks' : t.event = i /\ Challenging(t)
      PROVE  (\E i \in LastEvent("StartedExit") : Handled(i))'
  <2>1. PICK i \in LastEvent("StartedExit") : Handled(i)
    BY <1>3 DEF ForeignInv
  <2>2. i \in LastEvent("StartedExit")'
    BY <1>3 DEF LastEvent, Events
  <2>3. i \in Events(exitWatch, "StartedExit")' \/ \E t \in tasks' : t.event = i /\ Challenging(t)
    BY <1>3, <2>1
  <2>4. (\E t \in tasks' : t.event = i /\ Challenging(t)) => (\E t \in tasks : t.event = i /\ Challenging(t))'
    BY DEF Challenging
  <2> QED BY <2>2, <2>3, <2>4 DEF Handled
<1>4. ASSUME UNCHANGED <<log, exitWatch, tasks>>, Due PROVE (\E i \in LastEvent("StartedExit") : Handled(i))'
  <2>1. Events(exitWatch, "StartedExit")' = Events(exitWatch, "StartedExit")
    BY <1>4 DEF Events
  <2> QED BY <1>3, <1>4, <2>1 DEF Handled
<1>5. CASE PastEvents
  <2>1. CASE UNCHANGED exit /\ UNCHANGED tasks
    BY <1>4, <1>5, <2>1 DEF PastEvents, watchVars, Due
  <2>2. ASSUME NEW i \in LastEvent("StartedExit"),
               tasks' = tasks \cup {[event |-> i, awaited |-> TRUE, owner |-> "undefined", pc |-> "start"]}
        PROVE  (\E j \in LastEvent("StartedExit") : Handled(j))'
    <3> DEFINE t == [event |-> i, awaited |-> TRUE, owner |-> "undefined", pc |-> "start"]
    <3>1. i \in LastEvent("StartedExit")'
      BY <1>5 DEF PastEvents, LastEvent, Events
    <3>2. t \in tasks' /\ t.event = i /\ Challenging(t)'
      BY <2>2 DEF Challenging
    <3> QED BY <3>1, <3>2 DEF Handled
  <2> QED BY <1>5, <2>1, <2>2 DEF PastEvents
<1>6. CASE WatchExit \/ OnceStarted \/ OnceFinalized
  <2>1. PICK kinds : "StartedExit" \in kinds /\ exit' = Unsubscribed(kinds)
    BY <1>6 DEF WatchExit, OnceStarted, OnceFinalized, StopWatching
  <2>2. Due /\ Events(exitWatch, "StartedExit") = {}
    BY <1>1, <2>1, UnsubscribedIs DEF EthType, Due
  <2>3. tasks' = tasks /\ log' = log
    BY <1>6 DEF WatchExit, OnceStarted, OnceFinalized
  <2> QED BY <1>3, <2>2, <2>3 DEF Handled
<1>7. CASE OnStartedExit
  <2>1. PICK i \in NextEvent(exitWatch, "StartedExit") :
          /\ exitWatch' = i + 1
          /\ tasks' = tasks \cup {[event |-> i, awaited |-> FALSE, owner |-> log[i].by, pc |-> "start"]}
    BY <1>7 DEF OnStartedExit
  <2>2. UNCHANGED <<exit, log>> /\ Due
    BY <1>7 DEF OnStartedExit, ethVars, Due
  <2>3. PICK begun \in Begun : log[begun].by = "other" /\ \A j \in Begun : j <= begun
    BY <2>2 DEF LogInv, Due
  <2>4. ASSUME NEW last \in LastEvent("StartedExit"), Handled(last)
        PROVE  \/ last \in Events(exitWatch, "StartedExit")'
               \/ \E t \in tasks' : t.event = last /\ Challenging(t)
    <3>1. last = begun
      BY <2>3 DEF LastEvent, Begun, Events
    <3>2. CASE \E t \in tasks : t.event = last /\ Challenging(t)
      BY <2>1, <3>2
    <3>3. CASE last \in Events(exitWatch, "StartedExit") /\ i = last
      <4> DEFINE t == [event |-> i, awaited |-> FALSE, owner |-> log[i].by, pc |-> "start"]
      <4>1. t \in tasks' /\ t.event = last /\ Challenging(t)
        BY <2>1, <2>3, <3>1, <3>3 DEF Challenging
      <4> QED BY <4>1
    <3>4. CASE last \in Events(exitWatch, "StartedExit") /\ i # last
      <4>1. exitWatch \in Nat
        BY DEF EthType
      <4>2. PICK from \in Nat : from = exitWatch
        BY <4>1
      <4>3. 0 < i + 1 /\ i + 1 <= last
        BY <2>1, <3>4, <4>2, NextBeforeLast
      <4>4. last \in 1 .. Len(log) /\ log[last].kind = "StartedExit"
        BY <3>4 DEF Events
      <4> QED BY <2>1, <2>2, <4>3, <4>4 DEF Events
    <3> QED BY <2>4, <3>2, <3>3, <3>4 DEF Handled
  <2> QED BY <1>3, <2>2, <2>4
<1>8. ASSUME NEW t \in tasks, UNCHANGED <<log, exitWatch>>, Due, tasks \ {t} \subseteq tasks',
             t.event \in LastEvent("StartedExit") /\ Challenging(t) =>
               \E u \in tasks' : u.event = t.event /\ Challenging(u)
      PROVE  (\E i \in LastEvent("StartedExit") : Handled(i))'
  <2>1. Events(exitWatch, "StartedExit")' = Events(exitWatch, "StartedExit")
    BY <1>8 DEF Events
  <2>2. ASSUME NEW i \in LastEvent("StartedExit"), NEW u \in tasks, u.event = i, Challenging(u)
        PROVE  \E v \in tasks' : v.event = i /\ Challenging(v)
    BY <1>8, <2>2
  <2> QED BY <1>3, <1>8, <2>1, <2>2 DEF Handled
<1>9. ASSUME NEW t \in tasks, ReadExit(t)
      PROVE  (\E i \in LastEvent("StartedExit") : Handled(i))'
  <2> DEFINE u == [t EXCEPT !.owner = exit.by, !.pc = "history"]
  <2>1. UNCHANGED <<exit, log, exitWatch>> /\ Due /\ tasks \ {t} \subseteq tasks' /\ t.pc = "start"
    BY <1>9 DEF ReadExit, ethVars, watchVars, Due
  <2>2. exit.by = "other" /\ t \in Tasks
    BY <2>1 DEF Due, TaskType
  <2>3. t.owner # "me" => u \in tasks'
    BY <1>9, <2>2 DEF ReadExit
  <2>4. u.event = t.event /\ Challenging(u)
    BY <2>2 DEF Challenging, Tasks
  <2>5. Challenging(t) => t.owner # "me"
    BY <2>1 DEF Challenging
  <2> HIDE DEF u
  <2> QED BY <1>8, <2>1, <2>3, <2>4, <2>5
<1>10. ASSUME NEW t \in tasks, Submit(t)
       PROVE  (\E i \in LastEvent("StartedExit") : Handled(i))'
  <2>1. PICK kind \in {"spend", "invalid", "none"} :
          /\ t.pc = "history" /\ (t.owner = "other" => kind # "none")
          /\ tasks' = (tasks \ {t}) \cup (IF kind = "none" THEN {} ELSE {[t EXCEPT !.pc = kind, !.awaited = FALSE]})
    BY <1>10 DEF Submit
  <2>2. UNCHANGED <<exit, log, exitWatch>> /\ Due
    BY <1>10 DEF Submit, ethVars, watchVars, Due
  <2>3. Challenging(t) => kind # "none"
    BY <2>1 DEF Challenging
  <2> DEFINE u == [t EXCEPT !.pc = kind, !.awaited = FALSE]
  <2>4. ASSUME kind # "none" PROVE u \in tasks' /\ u.event = t.event /\ Challenging(u)
    BY <2>1, <2>4 DEF TaskType, Challenging, Tasks
  <2>5. tasks \ {t} \subseteq tasks'
    BY <2>1
  <2> HIDE DEF u
  <2> QED BY <1>8, <2>2, <2>3, <2>4, <2>5
<1>11. ASSUME NEW t \in tasks, Mined(t) PROVE FALSE
  <2>1. exit' # NoExit
    BY <1>1 DEF NoExit
  <2>2. ~ Challenge
    BY <1>1 DEF Challenge, EthType, Exits
  <2>3. UNCHANGED exit
    BY <1>11, <2>1, <2>2 DEF Mined, ethVars
  <2>4. ~ exit.challenged
    BY <1>1, <2>3 DEF LogInv
  <2> QED BY <1>1, <1>11, <2>1, <2>2, <2>3, <2>4 DEF Mined
<1>12. ASSUME NEW t \in tasks, ChallengeFails(t)
       PROVE  (\E i \in LastEvent("StartedExit") : Handled(i))'
  <2>1. UNCHANGED <<log, exitWatch>> /\ tasks' = tasks \ {t}
    BY <1>12 DEF ChallengeFails, watchVars
  <2>2. exit' = [exit EXCEPT !.failed = @ \/ (exit.by = "other" /\ t.event \in LastEvent("StartedExit"))]
    BY <1>12 DEF ChallengeFails
  <2>3. Due
    BY <1>1, <2>2 DEF EthType, Exits, Due
  <2>4. t.event \notin LastEvent("StartedExit")
    BY <1>1, <2>2, <2>3 DEF EthType, Exits, Due
  <2> QED BY <1>8, <2>1, <2>3, <2>4
<1>13. CASE OtherChallenges \/ Finalize \/ ExitMined \/ CancelExit
  <2>1. exit' # NoExit /\ ~ StartExit("me")
    <3>1. exit' # NoExit
      BY <1>1 DEF NoExit
    <3>2. StartExit("me") => exit'.by = "me"
      BY DEF StartExit, NoExit
    <3> QED BY <1>1, <3>1, <3>2
  <2>2. exit' # [exit EXCEPT !.final = TRUE]
    BY <1>1 DEF EthType, Exits
  <2>3. ~ OtherChallenges
    BY <1>1 DEF OtherChallenges, Challenge, EthType, Exits
  <2>4. UNCHANGED <<exit, log, exitWatch, tasks>>
    BY <1>13, <2>1, <2>2, <2>3 DEF Finalize, ExitMined, CancelExit, watchVars, ethVars
  <2> QED BY <1>4, <2>4 DEF Due
<1>14. CASE OtherResponds \/ WatchChallenge \/ \E i \in responses : Respond(i) \/ RespondFails(i)
  <2>1. UNCHANGED <<log, exitWatch, tasks>>
    BY <1>14 DEF OtherResponds, WatchChallenge, Respond, RespondFails, watchVars
  <2>2. Due
    <3>1. CASE WatchChallenge
      BY <1>1, <3>1, UnsubscribedIs DEF WatchChallenge, EthType, Due
    <3>2. CASE OtherResponds
      BY <1>1, <3>2 DEF OtherResponds, EthType, Exits, Due
    <3>3. ASSUME NEW i \in responses, Respond(i) PROVE Due
      BY <1>1, <3>3 DEF Respond, EthType, Exits, Due
    <3>4. ASSUME NEW i \in responses, RespondFails(i) PROVE Due
      BY <1>1, <3>4 DEF RespondFails, EthType, Exits, Due
    <3> QED BY <1>14, <3>1, <3>2, <3>3, <3>4
  <2> QED BY <1>4, <2>1, <2>2
<1>15. CASE \/ NewBlock \/ Receive \/ PastChallenged \/ ReceiveFails
            \/ ArmStarted \/ ArmFinalized \/ ArmFails \/ SubmitExit \/ RewatchFails
            \/ OnChallengedExit \/ UNCHANGED vars
  <2>1. UNCHANGED <<exit, log, exitWatch, tasks>>
    BY <1>15 DEF NewBlock, Receive, PastChallenged, ReceiveFails, ArmStarted, ArmFinalized, ArmFails,
         SubmitExit, RewatchFails, OnChallengedExit, vars, ethVars, watchVars
  <2> QED BY <1>4, <2>1 DEF Due
<1> QED BY <1>2, <1>5, <1>6, <1>7, <1>9, <1>10, <1>11, <1>12, <1>13, <1>14, <1>15 DEF Next

\* The client watches and answers challenges only after a call of exitAsync.
UndoInv == challengeWatch # 0 \/ responses # {} \/ exit.met = "undone" => calls > 0

LEMMA UndoStep == TypeInv /\ UndoInv /\ [Next]_vars => UndoInv'
<1> SUFFICES ASSUME EthType, ArmType, UndoInv, [Next]_vars PROVE UndoInv'
  BY DEF TypeInv
<1>1. calls \in Nat /\ calls' \in {calls, calls + 1}
  <2>1. calls \in Nat
    BY Bounds DEF ArmType
  <2>2. CASE ArmStarted
    BY <2>1, <2>2 DEF ArmStarted
  <2>3. ASSUME NEW t \in tasks, ReadExit(t) \/ Submit(t) \/ Mined(t) \/ ChallengeFails(t) PROVE UNCHANGED calls
    BY <2>3 DEF ReadExit, Submit, Mined, ChallengeFails, exitVars
  <2>4. ~ ArmStarted => UNCHANGED calls
    BY <2>3 DEF Next, OtherExits, OtherChallenges, OtherResponds, Finalize, NewBlock, Receive, PastEvents,
         PastChallenged, ReceiveFails, WatchExit, OnStartedExit, ArmFinalized, ArmFails, SubmitExit,
         ExitMined, CancelExit, OnceStarted, WatchChallenge, RewatchFails, OnceFinalized,
         OnChallengedExit, Respond, RespondFails, vars, exitVars
  <2> QED BY <2>1, <2>2, <2>4
<1>2. calls > 0 => calls' > 0
  BY <1>1
<1>3. CASE WatchChallenge
  <2>1. Cardinality(Firing) \in Nat
    <3>1. IsFiniteSet(Firing)
      BY FS_Subset DEF ArmType, Firing
    <3> QED BY <3>1, FS_CardinalityType
  <2>2. rewatch \in Nat /\ rewatch > 0 /\ rewatch + Cardinality(Firing) <= calls
    BY <1>3 DEF WatchChallenge, ArmType
  <2> QED BY <1>1, <1>2, <2>1, <2>2 DEF UndoInv
<1>4. CASE OnChallengedExit
  <2>1. challengeWatch # 0
    BY <1>4 DEF OnChallengedExit, NextEvent, Events
  <2> QED BY <1>2, <2>1 DEF UndoInv
<1>5. ASSUME NEW i \in responses, Respond(i) PROVE UndoInv'
  BY <1>2, <1>5 DEF UndoInv
<1>6. ASSUME challengeWatch' \in {0, challengeWatch}, UNCHANGED responses,
             exit'.met = "undone" => exit.met = "undone"
      PROVE  UndoInv'
  BY <1>2, <1>6 DEF UndoInv
<1>7. ASSUME NEW i \in responses, RespondFails(i) PROVE UndoInv'
  BY <1>2, <1>7 DEF UndoInv
<1>8. ASSUME ~ (\E i \in responses : Respond(i)) PROVE exit'.met = "undone" => exit.met = "undone"
  <2>1. CASE Voided \/ (\E by \in {"me", "other"} : StartExit(by))
    <3>1. ASSUME NEW by \in {"me", "other"}, StartExit(by) PROVE exit'.met = "no"
      BY <3>1 DEF StartExit, NoExit
    <3>2. CASE Voided
      BY <3>2 DEF Voided, NoExit
    <3> QED BY <2>1, <3>1, <3>2
  <2>2. CASE Challenge \/ Finalized
    BY <2>2 DEF Challenge, Finalized, EthType, Exits
  <2>3. ASSUME NEW kinds, exit' = Unsubscribed(kinds) PROVE exit'.met = exit.met
    BY <2>3, UnsubscribedIs DEF EthType
  <2>4. CASE WatchExit \/ OnceStarted \/ WatchChallenge \/ OnceFinalized
    BY <2>3, <2>4 DEF WatchExit, OnceStarted, WatchChallenge, OnceFinalized, StopWatching
  <2>5. CASE \/ OtherResponds \/ PastEvents \/ (\E t \in tasks : ChallengeFails(t))
             \/ (\E i \in responses : RespondFails(i))
    BY <2>5 DEF OtherResponds, PastEvents, ChallengeFails, RespondFails, EthType, Exits
  <2>6. CASE \/ NewBlock \/ Receive \/ PastChallenged \/ ReceiveFails
             \/ OnStartedExit \/ (\E t \in tasks : ReadExit(t) \/ Submit(t))
             \/ ArmStarted \/ ArmFinalized \/ ArmFails \/ SubmitExit \/ RewatchFails
             \/ OnChallengedExit \/ UNCHANGED vars
    BY <2>6 DEF NewBlock, Receive, PastChallenged, ReceiveFails, OnStartedExit, ReadExit, Submit,
         ArmStarted, ArmFinalized, ArmFails, SubmitExit, RewatchFails, OnChallengedExit, vars, ethVars
  <2>7. CASE OtherExits \/ OtherChallenges \/ CancelExit
    BY <2>1, <2>2, <2>7 DEF OtherExits, OtherChallenges, CancelExit, Voided
  <2>8. CASE Finalize
    BY <2>1, <2>2, <2>8 DEF Finalize, Voided, Finalized
  <2>9. CASE ExitMined
    BY <2>1, <2>9 DEF ExitMined, ethVars
  <2>10. CASE \E t \in tasks : Mined(t)
    BY <2>1, <2>2, <2>10 DEF Mined, Voided, ethVars
  <2> QED BY <1>8, <2>4, <2>5, <2>6, <2>7, <2>8, <2>9, <2>10 DEF Next
<1>9. ASSUME ~ WatchChallenge, ~ OnChallengedExit, ~ (\E i \in responses : Respond(i) \/ RespondFails(i))
      PROVE  challengeWatch' \in {0, challengeWatch} /\ UNCHANGED responses
  BY <1>9 DEF Next, OtherExits, OtherChallenges, OtherResponds, Finalize, NewBlock, Receive, PastEvents,
       PastChallenged, ReceiveFails, WatchExit, OnStartedExit, ReadExit, Submit, Mined, ChallengeFails,
       ArmStarted, ArmFinalized, ArmFails, SubmitExit, ExitMined, CancelExit, OnceStarted, RewatchFails,
       OnceFinalized, StopWatching, vars, watchVars
<1> QED BY <1>3, <1>4, <1>5, <1>6, <1>7, <1>8, <1>9

\* Once the client has nothing left to do, an exit of another's that it was told
\* of has had its challenge, unless that rejected; only a watch on challenges
\* that a call of exitAsync had started can have undone it.
THEOREM ForeignExitsAreMet == Spec => []ForeignExitsMet
<1>1. Init => ForeignInv /\ UndoInv
  BY DEF Init, NoExit, ForeignInv, Due, UndoInv
<1>2. TypeInv /\ ForeignInv /\ UndoInv => ForeignExitsMet
  <2> SUFFICES ASSUME EthType, ForeignInv, UndoInv, Quiet, exit.by = "other", ~ exit.final,
                      exit.told, ~ exit.failed
               PROVE  exit.met = "yes" \/ (exit.met = "undone" /\ calls > 0)
    BY DEF TypeInv, ForeignExitsMet
  <2>1. exit.met # "no"
    BY DEF ForeignInv, Due, Handled, Quiet
  <2>2. exit.met \in {"no", "yes", "undone"}
    BY DEF EthType, Exits
  <2> QED BY <2>1, <2>2 DEF UndoInv
<1> QED BY <1>1, <1>2, TypeInit, TypeStep, LogInit, LogStep, ForeignStep, UndoStep, PTL DEF Spec

-----------------------------------------------------------------------------
(* Exits of the user *)

\* A challenge that stands and that the client was told of is still to be handed
\* over by the watcher, or the answer to it is on its way, unless that failed.
Standing == exit.by = "me" /\ exit.toldChallenge /\ ~ exit.failed /\ exit.challenged
Answering(i) == i \in Events(challengeWatch, "ChallengedExit") \/ i \in responses
OwnInv == Standing => \E i \in LastEvent("ChallengedExit") : Answering(i)

LEMMA OwnStep == TypeInv /\ LogInv /\ OwnInv /\ [Next]_vars => OwnInv'
<1> SUFFICES ASSUME EthType, LogInv, OwnInv, [Next]_vars, Standing'
             PROVE  (\E i \in LastEvent("ChallengedExit") : Answering(i))'
  BY DEF TypeInv, OwnInv
<1>1. exit'.by = "me" /\ exit'.toldChallenge /\ ~ exit'.failed /\ exit'.challenged
  BY DEF Standing
<1>2. ASSUME Challenge, UNCHANGED challengeWatch
      PROVE  (\E i \in LastEvent("ChallengedExit") : Answering(i))'
  <2> DEFINE event == Event("ChallengedExit", exit.by)
  <2>1. event \in Logged /\ Emit(event) /\ event.kind = "ChallengedExit"
    BY <1>2 DEF Challenge, Event, Logged, EthType, Exits
  <2>2. challengeWatch # 0
    BY <1>1, <1>2 DEF Challenge, EthType, Exits
  <2> HIDE DEF event
  <2>3. /\ Len(log) + 1 \in LastEvent("ChallengedExit")'
        /\ Len(log) + 1 \in Events(challengeWatch, "ChallengedExit")'
    BY <1>2, <2>1, <2>2, LastIsNew
  <2> QED BY <2>3 DEF Answering
<1>3. ASSUME UNCHANGED log, Standing,
             \A i \in LastEvent("ChallengedExit") : Answering(i) =>
               i \in Events(challengeWatch, "ChallengedExit")' \/ i \in responses'
      PROVE  (\E i \in LastEvent("ChallengedExit") : Answering(i))'
  <2>1. PICK i \in LastEvent("ChallengedExit") : Answering(i)
    BY <1>3 DEF OwnInv
  <2>2. i \in LastEvent("ChallengedExit")'
    BY <1>3 DEF LastEvent, Events
  <2> QED BY <1>3, <2>1, <2>2 DEF Answering
<1>4. ASSUME UNCHANGED <<log, challengeWatch, responses>>, Standing
      PROVE  (\E i \in LastEvent("ChallengedExit") : Answering(i))'
  <2>1. Events(challengeWatch, "ChallengedExit")' = Events(challengeWatch, "ChallengedExit")
    BY <1>4 DEF Events
  <2> QED BY <1>3, <1>4, <2>1 DEF Answering
<1>5. CASE OtherChallenges
  BY <1>2, <1>5 DEF OtherChallenges, watchVars
<1>6. ASSUME NEW t \in tasks, Mined(t)
      PROVE  (\E i \in LastEvent("ChallengedExit") : Answering(i))'
  <2>1. UNCHANGED <<challengeWatch, responses>>
    BY <1>6 DEF Mined, watchVars
  <2>2. CASE UNCHANGED ethVars
    BY <1>4, <2>1, <2>2 DEF ethVars, Standing
  <2>3. exit' # NoExit
    BY <1>1 DEF NoExit
  <2>4. CASE Challenge
    BY <1>2, <2>1, <2>4
  <2> QED BY <1>6, <2>2, <2>3, <2>4 DEF Mined
<1>7. ASSUME NEW kinds, exit' = Unsubscribed(kinds), UNCHANGED <<log, responses>>,
             "ChallengedExit" \in kinds \/ UNCHANGED challengeWatch
      PROVE  (\E i \in LastEvent("ChallengedExit") : Answering(i))'
  <2>1. /\ Standing
        /\ "ChallengedExit" \in kinds => Events(challengeWatch, "ChallengedExit") = {}
    BY <1>1, <1>7, UnsubscribedIs DEF EthType, Standing
  <2>2. CASE "ChallengedExit" \in kinds
    BY <1>3, <1>7, <2>1, <2>2 DEF Answering
  <2>3. CASE UNCHANGED challengeWatch
    BY <1>4, <1>7, <2>1, <2>3
  <2> QED BY <1>7, <2>2, <2>3
<1>8. CASE WatchExit \/ OnceStarted \/ WatchChallenge \/ OnceFinalized
  BY <1>7, <1>8 DEF WatchExit, OnceStarted, WatchChallenge, OnceFinalized, StopWatching
<1>9. CASE OnChallengedExit
  <2>1. PICK i \in NextEvent(challengeWatch, "ChallengedExit") :
          challengeWatch' = i + 1 /\ responses' = responses \cup {i}
    BY <1>9 DEF OnChallengedExit
  <2>2. UNCHANGED <<exit, log>> /\ Standing
    BY <1>9 DEF OnChallengedExit, ethVars, Standing
  <2>3. ASSUME NEW last \in LastEvent("ChallengedExit"), Answering(last)
        PROVE  last \in Events(challengeWatch, "ChallengedExit")' \/ last \in responses'
    <3>1. CASE last \in responses \/ i = last
      BY <2>1, <3>1
    <3>2. CASE last \in Events(challengeWatch, "ChallengedExit") /\ i # last
      <4>1. PICK from \in Nat : from = challengeWatch
        BY DEF EthType
      <4>2. 0 < i + 1 /\ i + 1 <= last
        BY <2>1, <3>2, <4>1, NextBeforeLast
      <4>3. last \in 1 .. Len(log) /\ log[last].kind = "ChallengedExit"
        BY <3>2 DEF Events
      <4> QED BY <2>1, <2>2, <4>2, <4>3 DEF Events
    <3> QED BY <2>3, <3>1, <3>2 DEF Answering
  <2> QED BY <1>3, <2>2, <2>3
<1>10. ASSUME NEW i \in responses, UNCHANGED <<log, challengeWatch>>, responses' = responses \ {i},
              Standing, i \notin LastEvent("ChallengedExit")
       PROVE  (\E j \in LastEvent("ChallengedExit") : Answering(j))'
  <2>1. Events(challengeWatch, "ChallengedExit")' = Events(challengeWatch, "ChallengedExit")
    BY <1>10 DEF Events
  <2> QED BY <1>3, <1>10, <2>1 DEF Answering
<1>11. ASSUME NEW i \in responses, Respond(i)
       PROVE  (\E j \in LastEvent("ChallengedExit") : Answering(j))'
  <2>1. i \notin LastEvent("ChallengedExit") /\ UNCHANGED exit
    BY <1>1, <1>11 DEF Respond, EthType, Exits
  <2> QED BY <1>10, <1>11, <2>1 DEF Respond, Standing, watchVars
<1>12. ASSUME NEW i \in responses, RespondFails(i)
       PROVE  (\E j \in LastEvent("ChallengedExit") : Answering(j))'
  <2>1. exit' = [exit EXCEPT !.failed = @ \/ (exit.by = "me" /\ i \in LastEvent("ChallengedExit"))]
    BY <1>12 DEF RespondFails
  <2>2. Standing
    BY <1>1, <2>1 DEF EthType, Exits, Standing
  <2>3. i \notin LastEvent("ChallengedExit")
    BY <1>1, <2>1, <2>2 DEF EthType, Exits, Standing
  <2> QED BY <1>10, <1>12, <2>2, <2>3 DEF RespondFails, watchVars
<1>13. ~ OtherResponds /\ ~ OtherExits /\ ~ CancelExit /\ ~ StartExit("me") /\ ~ Finalize
  <2>1. OtherResponds => ~ exit'.challenged
    BY DEF OtherResponds, EthType, Exits
  <2>2. ASSUME NEW by \in {"me", "other"}, StartExit(by) PROVE ~ exit'.challenged
    BY <2>2 DEF StartExit, NoExit
  <2>3. exit' # NoExit
    BY <1>1 DEF NoExit
  <2>4. exit' = [exit EXCEPT !.final = TRUE] /\ ~ exit.challenged => ~ exit'.challenged
    BY DEF EthType, Exits
  <2> QED BY <1>1, <2>1, <2>2, <2>3, <2>4 DEF OtherExits, CancelExit, Finalize
<1>14. CASE PastEvents \/ \E t \in tasks : ChallengeFails(t)
  <2>1. UNCHANGED <<log, challengeWatch, responses>>
    BY <1>14 DEF PastEvents, ChallengeFails, watchVars
  <2>2. CASE PastEvents
    <3>1. Standing
      BY <1>1, <2>2 DEF PastEvents, EthType, Exits, Standing
    <3> QED BY <1>4, <2>1, <3>1
  <2>3. ASSUME NEW t \in tasks, ChallengeFails(t) PROVE Standing
    BY <1>1, <2>3 DEF ChallengeFails, EthType, Exits, Standing
  <2> QED BY <1>4, <1>14, <2>1, <2>2, <2>3
<1>15. ASSUME NEW t \in tasks, ReadExit(t) \/ Submit(t)
       PROVE  (\E i \in LastEvent("ChallengedExit") : Answering(i))'
  <2>1. UNCHANGED <<exit, log, challengeWatch, responses>>
    BY <1>15 DEF ReadExit, Submit, ethVars, watchVars
  <2> QED BY <1>4, <2>1 DEF Standing
<1>16. CASE \/ NewBlock \/ Receive \/ PastChallenged \/ ReceiveFails \/ ArmStarted \/ ArmFinalized
            \/ ArmFails \/ SubmitExit \/ RewatchFails \/ ExitMined \/ OnStartedExit \/ UNCHANGED vars
  <2>1. UNCHANGED <<exit, log, challengeWatch, responses>>
    BY <1>13, <1>16 DEF NewBlock, Receive, PastChallenged, ReceiveFails, ArmStarted, ArmFinalized,
         ArmFails, SubmitExit, RewatchFails, ExitMined, OnStartedExit, vars, ethVars, watchVars
  <2> QED BY <1>4, <2>1 DEF Standing
<1> QED BY <1>5, <1>6, <1>8, <1>9, <1>11, <1>12, <1>13, <1>14, <1>15, <1>16 DEF Next

\* Once the client has nothing left to do, a challenge of the user's exit that it
\* was told of is answered, unless the answer rejected or there was none to find.
THEOREM OwnExitIsDefended == Spec => []OwnExitDefended
<1>1. Init => OwnInv
  BY DEF Init, NoExit, OwnInv, Standing
<1>2. OwnInv => OwnExitDefended
  BY DEF OwnInv, Standing, Answering, OwnExitDefended, Quiet
<1> QED BY <1>1, <1>2, TypeInit, TypeStep, LogInit, LogStep, OwnStep, PTL DEF Spec
=============================================================================
