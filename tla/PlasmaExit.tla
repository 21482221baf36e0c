----------------------------- MODULE PlasmaExit -----------------------------
(* The life of the exits of one coin as its owner's client sees them: the     *)
(* watch on exits that receiving the coin starts, the challenges it makes,    *)
(* exitAsync with its once handlers, and the watch on challenges that follows.*)
(* The contract on Ethereum and the coin's former owner are external. Reading *)
(* the block number and subscribing from that block are one step; submitting  *)
(* a transaction, where its promise resolves, and its mining are two.         *)
EXTENDS Naturals, Sequences, FiniteSets

CONSTANTS MaxEvents,  \* bound: events of the coin's exits
          MaxExits,   \* bound: exitAsync calls
          MaxReceives \* bound: receiveAndWatchCoinAsync calls that find the coin valid

ASSUME ExitAssumption == {MaxEvents, MaxExits, MaxReceives} \subseteq Nat

VARIABLES exit,     \* what getExit tells of the coin, and ghosts (see NoExit)
          log,      \* the exit events of the coin, at most one in a block
          recent,   \* is the last of them in the latest block
          exitWatch, challengeWatch,  \* next event of the watcher, 0 if none
          armed,    \* once handlers of exitAsync: [kind, from, call]
          exiting,  \* where exitAsync is
          calls,    \* exitAsync calls so far
          exitTx,   \* is a startExit transaction waiting to be mined
          rewatch,  \* once handlers about to call watchChallenge
          receive,  \* where receiveAndWatchCoinAsync is
          receives, \* such calls so far
          received, \* has one of them got to watchExit
          tasks,    \* challengeExitAsync, by the exit event that called it
          responses \* respondChallengeAsync, by the challenge event

ethVars == <<exit, log, recent>>
watchVars == <<exitWatch, challengeWatch>>
exitVars == <<armed, exiting, calls, exitTx, rewatch>>
receiveVars == <<receive, receives, received>>
vars == <<ethVars, watchVars, exitVars, receiveVars, tasks, responses>>

\* Ghosts. told, toldChallenge: the watcher was on when it happened, and was not
\* stopped before it had the event (told also by the query of past exits). met:
\* "yes" once a challenge of it is mined, "undone" if the client itself answers
\* that challenge of another's exit. failed: what the client last started about
\* it, its challenge or its answer to the challenge that stands, rejected.
NoExit == [by |-> "nobody", final |-> FALSE, challenged |-> FALSE,
           told |-> FALSE, toldChallenge |-> FALSE, met |-> "no", failed |-> FALSE]
Event(kind, by) == [kind |-> kind, by |-> by]

Init == /\ exit = NoExit /\ log = <<>> /\ recent = FALSE
        /\ exitWatch = 0 /\ challengeWatch = 0
        /\ armed = {} /\ exiting = "idle" /\ calls = 0 /\ exitTx = FALSE /\ rewatch = 0
        /\ receive = "idle" /\ receives = 0 /\ received = FALSE
        /\ tasks = {} /\ responses = {}

-----------------------------------------------------------------------------
(* The contract, the other party and the blocks, which are external *)

Emit(event) == /\ Len(log) < MaxEvents
               /\ log' = Append(log, event)
               /\ recent' = TRUE

\* Only one exit of a coin at a time, and none once one is final.
StartExit(by) == /\ exit.by = "nobody"
                 /\ exit' = [NoExit EXCEPT !.by = by, !.told = by = "other" /\ exitWatch # 0]
                 /\ Emit(Event("StartedExit", by))

\* An invalid history challenge that is not answered voids the exit.
Challenge == /\ exit.by # "nobody" /\ ~ exit.final /\ ~ exit.challenged
             /\ exit' = [exit EXCEPT !.challenged = TRUE, !.met = "yes", !.failed = FALSE,
                                     !.toldChallenge = challengeWatch # 0]
             /\ Emit(Event("ChallengedExit", exit.by))

OtherExits == /\ StartExit("other")
              /\ UNCHANGED <<watchVars, exitVars, receiveVars, tasks, responses>>

OtherChallenges == /\ exit.by = "me"
                   /\ Challenge
                   /\ UNCHANGED <<watchVars, exitVars, receiveVars, tasks, responses>>

OtherResponds == /\ exit.by = "other" /\ exit.challenged
                 /\ exit' = [exit EXCEPT !.challenged = FALSE]
                 /\ UNCHANGED <<log, recent, watchVars, exitVars, receiveVars, tasks, responses>>

\* finalizeExit: whoever calls it, once the exit has matured.
Finalize == /\ exit.by # "nobody" /\ ~ exit.final
            /\ \/ exit.challenged /\ exit' = NoExit /\ UNCHANGED <<log, recent>>
               \/ /\ ~ exit.challenged
                  /\ exit' = [exit EXCEPT !.final = TRUE]
                  /\ Emit(Event("FinalizedExit", exit.by))
            /\ UNCHANGED <<watchVars, exitVars, receiveVars, tasks, responses>>

NewBlock == /\ recent
            /\ recent' = FALSE
            /\ UNCHANGED <<exit, log, watchVars, exitVars, receiveVars, tasks, responses>>

-----------------------------------------------------------------------------
(* Subscriptions *)

\* The first event of a subscription made from the block getBlockNumber answers.
FromBlock == IF recent THEN Len(log) ELSE Len(log) + 1

Events(from, kind) == {i \in 1 .. Len(log) : 0 < from /\ from <= i /\ log[i].kind = kind}
NextEvent(from, kind) == {i \in Events(from, kind) : \A j \in Events(from, kind) : i <= j}
LastEvent(kind) == {i \in Events(1, kind) : \A j \in Events(1, kind) : j <= i}

\* What a watcher was to be told is lost if it has not been when it goes.
Unsubscribed(kinds) ==
  [exit EXCEPT
     !.told = @ /\ ~ ("StartedExit" \in kinds /\ Events(exitWatch, "StartedExit") # {}),
     !.toldChallenge = @ /\ ~ ("ChallengedExit" \in kinds
                               /\ Events(challengeWatch, "ChallengedExit") # {})]

StopWatching == /\ exitWatch' = 0 /\ challengeWatch' = 0
                /\ exit' = Unsubscribed({"StartedExit", "ChallengedExit"})

-----------------------------------------------------------------------------
(* Receiving the coin: receiveAndWatchCoinAsync, its history being valid *)

Receive == /\ receive = "idle" /\ receives < MaxReceives
           /\ receive' = "past"
           /\ receives' = receives + 1
           /\ UNCHANGED <<ethVars, watchVars, exitVars, received, tasks, responses>>

\* getPastEvents: if the coin was ever exited, the last exit is challenged first,
\* its owner read from where the event does not have it. The query starts from
\* _startBlock, which may be later than the exits there were: it need not see any.
PastEvents ==
  /\ receive = "past"
  /\ \/ receive' = "watch" /\ UNCHANGED <<exit, tasks>>
     \/ \E i \in LastEvent("StartedExit") :
           /\ receive' = "challenge"
           /\ tasks' = tasks \cup {[event |-> i, awaited |-> TRUE, owner |-> "undefined", pc |-> "start"]}
           /\ exit' = [exit EXCEPT !.told = @ \/ exit.by = "other"]
  /\ UNCHANGED <<log, recent, watchVars, exitVars, receives, received, responses>>

PastChallenged == /\ receive = "challenge"
                  /\ \A t \in tasks : ~ t.awaited
                  /\ receive' = "watch"
                  /\ UNCHANGED <<ethVars, watchVars, exitVars, receives, received, tasks, responses>>

\* getPastEvents, or getBlockNumber before watchExit, rejects: the coin is not
\* watched from here, a watcher there was stays.
ReceiveFails == /\ receive \in {"past", "watch"}
                /\ receive' = "idle"
                /\ UNCHANGED <<ethVars, watchVars, exitVars, receives, received, tasks, responses>>

\* mutant: watches from the block after the current one
WatchExitLate == /\ receive = "watch"
                 /\ receive' = "idle"
                 /\ received' = TRUE
                 /\ exitWatch' = Len(log) + 2
                 /\ exit' = Unsubscribed({"StartedExit"})
                 /\ UNCHANGED <<log, recent, challengeWatch, exitVars, receives, tasks, responses>>

\* watchExit from the current block, in place of the watcher there was.
WatchExit == /\ receive = "watch"
             /\ receive' = "idle"
             /\ received' = TRUE
             /\ exitWatch' = FromBlock
             /\ exit' = Unsubscribed({"StartedExit"})
             /\ UNCHANGED <<log, recent, challengeWatch, exitVars, receives, tasks, responses>>

-----------------------------------------------------------------------------
(* Challenging an exit: challengeExitAsync *)

\* The exit watcher hands its next event to a task, with the owner in it.
OnStartedExit ==
  /\ \E i \in NextEvent(exitWatch, "StartedExit") :
        /\ exitWatch' = i + 1
        /\ tasks' = tasks \cup {[event |-> i, awaited |-> FALSE, owner |-> log[i].by, pc |-> "start"]}
  /\ UNCHANGED <<ethVars, challengeWatch, exitVars, receiveVars, responses>>

\* mutant: leaves the exits of others alone, not the user's own
ReadExitOfOwner(t) ==
  /\ t.pc = "start"
  /\ tasks' = (tasks \ {t}) \cup
       (IF exit.by = "nobody" \/ t.owner # "me" THEN {}
        ELSE {[t EXCEPT !.owner = exit.by, !.pc = "history"]})
  /\ UNCHANGED <<ethVars, watchVars, exitVars, receiveVars, responses>>

\* getExitAsync reads the exit there is by now; no exit, or an own one by the
\* event, ends the task.
ReadExit(t) ==
  /\ t.pc = "start"
  /\ tasks' = (tasks \ {t}) \cup
       (IF exit.by = "nobody" \/ t.owner = "me" THEN {}
        ELSE {[t EXCEPT !.owner = exit.by, !.pc = "history"]})
  /\ UNCHANGED <<ethVars, watchVars, exitVars, receiveVars, responses>>

\* Which challenge the history suggests against the exit read (ExitChallenge): a
\* spend or an invalid history against another's, perhaps the latter against
\* one's own. Its transaction is submitted, which is all the task awaits; two that
\* are alike are one.
Submit(t) ==
  /\ t.pc = "history"
  /\ \E kind \in {"spend", "invalid", "none"} :
        /\ t.owner = "other" => kind # "none"
        /\ t.owner = "me" => kind # "spend"
        /\ tasks' = (tasks \ {t}) \cup (IF kind = "none" THEN {} ELSE {[t EXCEPT !.pc = kind, !.awaited = FALSE]})
  /\ UNCHANGED <<ethVars, watchVars, exitVars, receiveVars, responses>>

\* It is mined: a spend removes the exit of another, an invalid history waits to
\* be answered; against an exit that has gone or is final nothing happens.
Mined(t) ==
  /\ t.pc \in {"spend", "invalid"}
  /\ tasks' = tasks \ {t}
  /\ \/ /\ t.pc = "spend" /\ exit.by = "other" /\ ~ exit.final
        /\ exit' = NoExit
        /\ UNCHANGED <<log, recent>>
     \/ t.pc = "invalid" /\ Challenge
     \/ /\ \/ exit.by = "nobody" \/ exit.final
           \/ t.pc = "spend" /\ exit.by = "me"
           \/ t.pc = "invalid" /\ exit.challenged
        /\ UNCHANGED ethVars
  /\ UNCHANGED <<watchVars, exitVars, receiveVars, responses>>

\* A read or the transaction rejects. Nobody awaits the watcher's task, which is
\* gone; receiveAndWatchCoinAsync awaits its own, and does not get to watchExit.
ChallengeFails(t) ==
  /\ tasks' = tasks \ {t}
  /\ receive' = IF t.awaited THEN "idle" ELSE receive
  /\ exit' = [exit EXCEPT !.failed = @ \/ (exit.by = "other" /\ t.event \in LastEvent("StartedExit"))]
  /\ UNCHANGED <<log, recent, watchVars, exitVars, receives, received, responses>>

-----------------------------------------------------------------------------
(* Exiting: exitAsync *)

\* mutant: stops watching before the exit has started
ArmStartedAndStop ==
  /\ exiting = "idle" /\ calls < MaxExits
  /\ calls' = calls + 1
  /\ armed' = armed \cup {[kind |-> "StartedExit", from |-> FromBlock, call |-> calls']}
  /\ exiting' = "arming"
  /\ StopWatching
  /\ UNCHANGED <<log, recent, exitTx, rewatch, receiveVars, tasks, responses>>

\* Its first handler, from the current block on.
ArmStarted ==
  /\ exiting = "idle" /\ calls < MaxExits
  /\ calls' = calls + 1
  /\ armed' = armed \cup {[kind |-> "StartedExit", from |-> FromBlock, call |-> calls']}
  /\ exiting' = "arming"
  /\ UNCHANGED <<ethVars, watchVars, exitTx, rewatch, receiveVars, tasks, responses>>

ArmFinalized ==
  /\ exiting = "arming"
  /\ armed' = armed \cup {[kind |-> "FinalizedExit", from |-> FromBlock, call |-> calls]}
  /\ exiting' = "finding"
  /\ UNCHANGED <<ethVars, watchVars, calls, exitTx, rewatch, receiveVars, tasks, responses>>

\* getBlockNumber rejects: exitAsync ends with its first handler on.
ArmFails ==
  /\ exiting = "arming"
  /\ exiting' = "idle"
  /\ UNCHANGED <<ethVars, watchVars, armed, calls, exitTx, rewatch, receiveVars, tasks, responses>>

\* findBlocks and the transactions of the exit, which may not be there; then
\* startExit is submitted. Either way the handlers stay.
SubmitExit ==
  /\ exiting = "finding"
  /\ exiting' = "idle"
  /\ exitTx' \in {TRUE, exitTx}
  /\ UNCHANGED <<ethVars, watchVars, armed, calls, rewatch, receiveVars, tasks, responses>>

ExitMined ==
  /\ exitTx
  /\ exitTx' = FALSE
  /\ StartExit("me") \/ (exit.by # "nobody" /\ UNCHANGED ethVars)
  /\ UNCHANGED <<watchVars, armed, exiting, calls, rewatch, receiveVars, tasks, responses>>

\* Any exit of the coin fires the first handler, which stops both watchers, asks
\* for the block and then watches challenges from there.
OnceStarted ==
  /\ \E h \in armed : /\ h.kind = "StartedExit"
                      /\ Events(h.from, "StartedExit") # {}
                      /\ armed' = armed \ {h}
  /\ StopWatching
  /\ rewatch' = rewatch + 1
  /\ UNCHANGED <<log, recent, exiting, calls, exitTx, receiveVars, tasks, responses>>

\* mutant: watches from the block after the current one
WatchChallengeLate ==
  /\ rewatch > 0
  /\ rewatch' = rewatch - 1
  /\ challengeWatch' = Len(log) + 2
  /\ exit' = Unsubscribed({"ChallengedExit"})
  /\ UNCHANGED <<log, recent, exitWatch, armed, exiting, calls, exitTx, receiveVars, tasks, responses>>

WatchChallenge ==
  /\ rewatch > 0
  /\ rewatch' = rewatch - 1
  /\ challengeWatch' = FromBlock
  /\ exit' = Unsubscribed({"ChallengedExit"})
  /\ UNCHANGED <<log, recent, exitWatch, armed, exiting, calls, exitTx, receiveVars, tasks, responses>>

\* getBlockNumber rejects in the first handler: challenges are not watched.
RewatchFails ==
  /\ rewatch > 0
  /\ rewatch' = rewatch - 1
  /\ UNCHANGED <<ethVars, watchVars, armed, exiting, calls, exitTx, receiveVars, tasks, responses>>

OnceFinalized ==
  /\ \E h \in armed : /\ h.kind = "FinalizedExit"
                      /\ Events(h.from, "FinalizedExit") # {}
                      /\ armed' = armed \ {h}
  /\ StopWatching
  /\ UNCHANGED <<log, recent, exiting, calls, exitTx, rewatch, receiveVars, tasks, responses>>

\* cancelExitAsync: only the contract changes.
CancelExit == /\ exit.by = "me" /\ ~ exit.final
              /\ exit' = NoExit
              /\ UNCHANGED <<log, recent, watchVars, exitVars, receiveVars, tasks, responses>>

\* The challenge watcher has every challenge answered, whoever's the exit.
OnChallengedExit ==
  /\ \E i \in NextEvent(challengeWatch, "ChallengedExit") :
        challengeWatch' = i + 1 /\ responses' = responses \cup {i}
  /\ UNCHANGED <<ethVars, exitWatch, exitVars, receiveVars, tasks>>

\* respondChallengeAsync's transaction is mined: it answers the last challenge;
\* one that is about an earlier challenge may do so too. Also the client's own
\* challenge of another's exit is answered.
Respond(i) ==
  /\ responses' = responses \ {i}
  /\ \/ exit' = [exit EXCEPT !.challenged = FALSE,
                             !.met = IF exit.by = "other" /\ exit.challenged THEN "undone" ELSE @]
     \/ i \notin LastEvent("ChallengedExit") /\ UNCHANGED exit
  /\ UNCHANGED <<log, recent, watchVars, exitVars, receiveVars, tasks>>

\* A read or the transaction rejects, or no transaction after the challenging
\* one is found: nobody awaits the task, there is no answer.
RespondFails(i) ==
  /\ responses' = responses \ {i}
  /\ exit' = [exit EXCEPT !.failed = @ \/ (exit.by = "me" /\ i \in LastEvent("ChallengedExit"))]
  /\ UNCHANGED <<log, recent, watchVars, exitVars, receiveVars, tasks>>

Next == \/ OtherExits \/ OtherChallenges \/ OtherResponds \/ Finalize \/ NewBlock
        \/ Receive \/ PastEvents \/ PastChallenged \/ ReceiveFails \/ WatchExit
        \/ OnStartedExit
        \/ (\E t \in tasks : ReadExit(t) \/ Submit(t) \/ Mined(t) \/ ChallengeFails(t))
        \/ ArmStarted \/ ArmFinalized \/ ArmFails \/ SubmitExit \/ ExitMined \/ CancelExit
        \/ OnceStarted \/ WatchChallenge \/ RewatchFails \/ OnceFinalized
        \/ OnChallengedExit \/ (\E i \in responses : Respond(i) \/ RespondFails(i))

Spec == Init /\ [][Next]_vars

-----------------------------------------------------------------------------
(* Properties *)

\* The state is well formed.
TypeOK ==
  /\ exit \in [by : {"nobody", "me", "other"}, final : BOOLEAN, challenged : BOOLEAN,
               told : BOOLEAN, toldChallenge : BOOLEAN,
               met : {"no", "yes", "undone"}, failed : BOOLEAN]
  /\ log \in Seq([kind : {"StartedExit", "ChallengedExit", "FinalizedExit"}, by : {"me", "other"}])
  /\ {recent, exitTx} \subseteq BOOLEAN
  /\ {exitWatch, challengeWatch} \subseteq 0 .. (Len(log) + 1)
  /\ armed \subseteq [kind : {"StartedExit", "FinalizedExit"}, from : 1 .. (MaxEvents + 1),
                      call : 1 .. MaxExits]
  /\ calls \in 0 .. MaxExits /\ rewatch \in 0 .. MaxExits
  /\ exiting \in {"idle", "arming", "finding"}
  /\ receives \in 0 .. MaxReceives /\ received \in BOOLEAN
  /\ receive \in {"idle", "past", "challenge", "watch"}
  /\ tasks \subseteq [event : 1 .. MaxEvents, awaited : BOOLEAN, owner : {"me", "other", "undefined"},
                      pc : {"start", "history", "spend", "invalid"}]
  /\ responses \subseteq 1 .. MaxEvents

\* Nothing that was started is still to be done.
Quiet == /\ Events(exitWatch, "StartedExit") = {} /\ Events(challengeWatch, "ChallengedExit") = {}
         /\ tasks = {} /\ responses = {} /\ rewatch = 0 /\ receive = "idle"

\* An exit of another that the client was told of, by its watcher or by the query
\* of past exits, has been challenged once the client is done with it, unless
\* the challenge of it rejected, which nobody notices. The challenge is undone
\* by the client itself at most where a call of exitAsync had it watch challenges.
ForeignExitsMet ==
  Quiet /\ exit.by = "other" /\ ~ exit.final /\ exit.told /\ ~ exit.failed =>
    exit.met = "yes" \/ (exit.met = "undone" /\ calls > 0)

\* A challenge of the user's exit that came under the watch on challenges is
\* answered once the client is done with it, unless the answer rejected or found
\* no transaction to answer with, which nobody notices.
OwnExitDefended ==
  Quiet /\ exit.by = "me" /\ exit.toldChallenge /\ ~ exit.failed => ~ exit.challenged

\* A coin that was received stays watched until an exit of it has started, also
\* when an exitAsync of the user's has failed or is under way.
WatchedUntilExit == received /\ Events(1, "StartedExit") = {} => exitWatch # 0

\* What the comments of exitAsync say of its exit: once it is started the watch
\* on exits stops. No exit of another party's ends the watch.
StoppedByOwnExit ==
  [][exitWatch # 0 /\ exitWatch' = 0 =>
       \E i \in Events(1, "StartedExit") : log[i].by = "me"]_vars
=============================================================================
