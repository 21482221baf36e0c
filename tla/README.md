# loom-js in TLA+

TLA+ models of the parts of loom-js whose correctness depends on order, failure or
history, model-checked with TLC, with proofs checked by TLAPS. Source paths below are
relative to `src/` of the repository; line numbers of every definition are in the `map`
of `PROJECT.json`.

## 1. The system

loom-js is the client library of a Loom DAppChain. A process holds a `Client` with a
*write* and a *read* JSON-RPC connection, contract objects on top of it, and, for plasma
cash, a `User` who also talks to Ethereum and keeps a small database file. JavaScript runs
one callback at a time, so all concurrency is between *tasks*: every `await`, event and
timer is a point where another task may run, and everything read before it may be stale
after it.

| Component | State it keeps | Operations | Talks to |
|---|---|---|---|
| Transaction commit (`client.ts` `commitTxAsync`, `middleware/`) | retry operation per call; nothing shared between calls | sign with the nonce asked for, send, retry on a bad nonce | read node (nonce), write node (tx) |
| Web socket RPC client (`internal/ws-rpc-client.ts`) | socket, message handler, listeners, `isSubscribed` | connect/reconnect, subscribe, `sendAsync` | rpc-websockets, the server |
| Contract events (`contract.ts`, `evm-contract.ts`, `client.ts`) | listeners of each object, hooks between the stages | `on`, `removeListener`, `removeAllListeners`, event dispatch | the client's event, the web socket client |
| Other RPC clients (`http-`, `dual-rpc-client.ts`, factory) | primary protocol of a dual client | choose a client, send | the server, the web socket client |
| Coin history (`plasma-cash/user.ts`, `entity.ts`, `db.ts`, `dappchain-client.ts`) | rows and saved block of a coin in the database | receive, watch blocks, transfer | DAppChain (blocks, txs), Ethereum (roots) |
| Exits and challenges (`entity.ts`, `user.ts`, `ethereum-client.ts`) | exit and challenge watchers, block subscriptions | exit, withdraw, challenge, respond | Ethereum contract and its events |
| Sparse Merkle tree (`plasma-cash/sparse-merkle-tree.ts`) | nodes per level | root, proof | - |
| Web3 provider (`loom-provider.ts`) | accounts, list of `data` callbacks | `eth_*` calls, receipts, events | `Client` and its queries, web3 |
| Contract wrappers, addresses, numbers, crypto, generated messages | none | stateless | - |

What is hard, and what makes each part correct:

* **Commit.** Concurrent calls of one account race for nonces; the read node may be behind;
  a request may time out and still be executed. *A call must take effect at most once, its
  promise must settle, and what the promise says must be true.*
* **Web socket client.** Replies come after listeners changed; sockets are replaced under a
  handler. *One handler where listeners are; the server's subscription follows the listeners.*
* **Contract events.** Three stages each listening to the next only while listened to.
  *Counts agree; every event heard once and in order; nothing hangs on when nobody listens.*
* **Coin history.** Blocks, roots, block events and several reading tasks interleave, and a
  stored row is never corrected. *Rows are true; a transfer spends the latest transaction.*
* **Exits and challenges.** Position in a history decides what is a spend, a double spend or
  an invalid history. *The right challenge, the right answer.*
* **Web3 provider.** Events are handed to a list that the callbacks themselves change; drops
  reset it; receipts are asked for again. *Who registered hears, once; every request is
  answered to its callback, once.*
* **Merkle tree.** *The sparse root is the dense one; proofs prove exactly what is there.*

## 2. The models

### `TxCommit` and `CallPromise` (abstract)

`CallPromise` is what a caller may rely on: an outcome per call and the attempts that took
effect. `TxCommit` is the code. Per call `pc`, `attempt` (the retry library's counter),
`seq` and `tx` per attempt, and the account's `chainNonce`. Actions of the client:
`Attempt` (op.attempt), `NonceAnswered` (nonce-tx-middleware.ts:21), `Submit`
(`broadcast_tx_commit` leaves), `Reply`, `Timeout`; `RetryOrReject` is `op.retry`. Actions
around it: `Lose`, `CheckTx`, `DeliverTx`, `ForeignCommit` (another client of the account).
Only CheckTx's nonce error is retried (client.ts:256); DeliverTx's is a plain failure.
`stale` is a ghost: the calls the read node gave an outdated nonce.

`ImplementsPromise` is the refinement: `pc` maps to the outcome, committed attempts to
`applied`.

### `WSRPCClient`

`conn`, `socket` and `reconnect` are rpc-websockets' state, `handlers[s]` counts how often
`_onEventMessage` is attached to socket *s*, `calls` is the queue of `subevents` /
`unsubevents` calls in flight on the current socket, `serverSub` the server's side, `failed`
a ghost set when a call of this connection was refused or answered late. `request` follows
each `sendAsync`. `AddListener`/`RemoveListener` are the `newListener`/`removeListener`
hooks, `Open`/`Drop` the socket's events (a `Connected` handler may add or remove a listener
inside `Open`, one at a time, before the code's own check), `CallReply`/`CallTimeout` the
promise continuations.
The defaults are assumed: `autoConnect`, no limit on reconnects. A reconnection already
timed when `disconnect` is called may still happen.

### `RPCClients`

`EXTENDS WSRPCClient`, whose steps are `SocketStep` for the two clients that have a socket.
`CreateJSONRPCClient` is the factory: one URL or one of each protocol, anything else is an
error. `Post`, `PostAnswer`, `PostTimeout` are a request of the HTTP client, or of a dual
client that prefers HTTP; `SendToSelf` is one of a dual client that prefers the web socket,
whose `sendAsync` calls itself until the stack overflows (dual-rpc-client.ts:51); it is not
`async`, so the caller gets an exception, not a promise, and the request is `thrown`. A dual
client inherits the subscription, whose calls go to the socket whatever the protocol.

### `LoomProvider`

The web3 provider and, under it, the EVM queries of `Client`. JavaScript's turns are
explicit: `dispatch` is an event being handed out, during which (`UserRuns`) only the
callback that is running may act, and everything else needs `LoopFree`. `callbacks` is the
array; `On` pushes, `Reset` and `RemoveListener` put a new array in its place (`NewList`)
while a running `forEach` goes on over the `old` one, `RemoveAllListeners` splices the array
under it. `CallNext`, `Return`, `Throw` are the loop of `_onWebSocketMessage`. A request goes
`Send` (up to the first `await`: local methods, unsupported ones, whose callback is called at
once, the sender's middleware),
`Answer` (the node's answer through `Queried`, the client's reading of it, and `Reply`, the
provider's), `Refuse`, for receipts `NoReceipt` and `AskAgain` (the retry operation), and
`Tell`, the callback inside `send`'s `try` (`Told`). `Drop` is a connection going down: the provider
resets, then the user's `end` handler may register again; with a read connection of its own
(`split`) either connection does this, but only one has the subscriptions. `use` is a bound:
which methods the requests are of and how many callbacks there may be. Two ghosts: `hears`
is who registered and was since neither reset nor removed by name, `swept` whom
`removeListener` of another took off the list with it. Abstracted: what blocks, receipts, logs and transactions
contain; `blockByHash` and `blockByNumber` always ask for full blocks (`params[1] || true`).

### `EventChain`

Contract objects over `INSTANCE WSRPCClient`: `on` (listeners), `hooks` (the object's own
two listeners, which `removeAllListeners` takes away), `hooked` (is it a listener of the
client). One atomic step runs a listener change down all stages, as the code does in one
turn (`Listen`, `Leave`, `LeaveAll`, each with `ClientFollows`; in a `Connected` handler inside
`Open`). The instance has `CallsMayFail <- TRUE`: calls may be refused (`Subscription`) and
answered late (`CallTimeout`). `Publish` sends an event on
the wire if subscribed, `Arrive` runs it up the chain once per attached handler.

### `BlockNumbers`, `ExitChallenge`

`GetBlockNumbers` is the list of blocks a coin can have a transaction in (entity.ts:452).
`ExitChallenge` grows every history an operator, honest or not, can give a coin, and states
what `ChallengeExit` (entity.ts:305) and `RespondChallenge` (entity.ts:346) do on it. The
two early returns of `challengeExitAsync` (no exit, own exit) are in `PlasmaExit`.

### `PlasmaExit`

The life of the exits of one coin, as its owner's client sees them. `exit` is what
`getExit` tells, `log` the events on Ethereum, `recent` whether the last is in the block
`getBlockNumber` answers. `exitWatch`/`challengeWatch` are the two watchers (the next event
each will be handed), `armed` the `once` handlers of `exitAsync`. Client actions:
`Receive`, `PastEvents` (whose query need not reach back to an exit there was),
`PastChallenged`, `WatchExit` (`receiveAndWatchCoinAsync`); `OnStartedExit`, `ReadExit`,
`Submit`, `Mined` (`challengeExitAsync`); `ArmStarted`, `ArmFinalized`, `SubmitExit`,
`ExitMined`, `OnceStarted`, `WatchChallenge`, `OnceFinalized`, `CancelExit` (`exitAsync` and
what follows); `OnChallengedExit`, `Respond`. Every one that awaits may reject instead:
`ReceiveFails`, `ChallengeFails` (at any await of a challenge, and with it the receipt that
awaits the challenge), `ArmFails`, `SubmitExit` itself, `RewatchFails`, and `RespondFails`, where
also no transaction may be found to answer with. Nobody tries again, as in the code. The
contract, the former owner and Ethereum's blocks are external. Which challenge `Submit` picks
is left open as far as `ExitChallenge` leaves it: a transaction of the right kind is there to
be sent, the properties are about whether the client gets to send one. Finalising and
withdrawing by the client change only the contract and are in `Finalize`; a coin whose
history is invalid is never watched and does not enter. The ghosts in `exit`: `told` and
`toldChallenge`, whether the client was watching when the exit or challenge came; `met`,
whether the exit was challenged, or the challenge undone again by the client's own answer;
`failed`, whether what the client last started about it rejected.

### `CoinHistory`

One coin, one user, `EXTENDS BlockNumbers`. The chain (`txs`, `current`, `roots`,
`pending`), the database (`rows`, `saved`, `savedBN`: whether the saved block is still a
big number, which it is not after a reload), and the tasks: `receive` for
`receiveAndWatchCoinAsync`, `adding` for a block handler that waits for the row, `spend` for
`transferAsync`. `ReadRoot` and `ReadTx` are one `await` each of `getCoinHistoryAsync`;
`StoreRow` is `receiveCoin`, where a second row of a block is dropped; `FoundBlock` is
`findBlocks` on the rows; `Received` saves the block, watches or removes. `confirm` holds the
block watchers of `transferAndVerifyAsync`; `OnConfirmBlock` is their first event, which
always passes for a verified one. `profile`, chosen once, says what may happen in a run of
the program: roots that lag, a coin that returns, restarts, and how many blocks.
Abstractions: proofs are what they prove, one transfer at a time, `OnSubmittedBlock` reads
owner and rows in one step, `receive` tasks are limited by `Receivers`.

### `SparseMerkleTree`

Leaves are added in any order; `CreateTree`, `Root` and `CreateMerkleProof` follow the code,
hashes are terms. A level holds `Width` indices, `Above` is the index of a slot's path on
each level. A proof's bit field is the set of levels whose bit is set, `Position` the place
of a level's hash among the hashes. `Verifies` is the Ethereum contract's check, external.
The recursion over levels is in recursive functions, so that the module can be proved about;
so are the lists of `LoomProvider`'s splices.

## 3. The runs

| Run | What it shows | Bounds |
|---|---|---|
| `commit` | executed at most once, only the last attempt undecided, promise kept, settles, nonce errors need contention | 2 calls x 2 attempts, lag 1, foreign writes up to nonce 3 |
| `subscription` | one handler, server follows listeners, subscription and requests settle | every choice of up to 2 URLs, 2 listeners, 3 sockets, 3 calls in flight, 1 request |
| `subscribed_handler` | **violation**: after a reconnection `Subscribed(true)` is reported while no handler is on the new socket | `WSRPCClient` alone, otherwise the same |
| `event_chain` | stages agree, heard once and in order, none missed, idle unsubscribes | 2 objects, 2 listeners of one and 1 of the other, 2 sockets, 2 calls in flight that may fail, 2 events |
| `exit_challenge` | blocks listed; challenge and answer of every exit | interval 3, 5 plasma blocks, every deposit block of two intervals |
| `exit_challenge_after` | **violation**: exit of a spent coin with two older transactions is not met with the spend | same |
| `plasma_exit` | exits of others are challenged and challenges of the user's answered, unless the task that was to do it rejected; a coin stays watched until it exits | 1 `exitAsync`; 4 exit events with the coin received once, 2 with it received twice |
| `plasma_exit_once` | **violation**: another's exit fires the handler meant for the user's and stops the watch | 3 exit events, coin received once |
| `merkle` | root and proofs exact | 8 slots, 2 hashes, all 6561 trees |
| `coin_history` | rows exact, one per block; watched until a transfer is sent; a transfer spends the latest tx | 2 receivers; 3 plasma blocks without lag, return, restart; 2 with returns; 2 with all of them |
| `coin_history_restart` | **violation**: after a restart the deposit is spent | 3 plasma blocks, 1 receiver |
| `provider` | who hears an event, who stays registered over drops and removals, patience with receipts, callbacks told once, requests answered | 2 requests, one of any method, without callbacks; 1 subscription with 2 callbacks registered twice at most; 1 retry, 2 accounts |

Why the bounds are enough: two calls are the least that race for a nonce, two attempts the
least where an earlier one could still be alive. Three sockets let a handler be left on one,
missed on the next, and attached again; two listeners separate first/last from others. Two
objects at one address are what the "last one leaves" logic is about. Five blocks hold a
deposit, a double spend, the exit, the spend after it, and a block without the coin. Four
exit events are another's exit and its challenge, the user's own and its challenge; receiving
twice, with two events, replaces a watcher that has one to hand over (the constraint
`Bounded` of `MCPlasmaExit` counts a receipt as two events). Three
plasma blocks hold a receipt, a transfer and a later block; two receiving tasks are the least that
read the same block together. Two registrations are the least that can be neighbours in the
list, one of them being called while the other waits, twice the same function or not; the
requests of the provider share only the node's subscriptions and the accounts. Every bound is named where its constant is declared.

The violations are disagreements between code and documentation, listed under `findings`
in `PROJECT.json`. More that the models or the reading show, without a run of their own:

* entity.ts:148: a block read before its root reached Ethereum is stored as excluded for
  good, and a transfer then spends an older transaction (`CoinHistory` with `lag`).
* user.ts:266, 309: a coin that comes back to its sender keeps the block saved the first
  time, so `findBlocks` stops there (`returns`); a coin whose history was stored before
  it was the user's is never received, so never watched.
* user.ts:387: the search starts at the first row, included or not.
* contract.ts:66: `removeAllListeners()` removes the hooks; later listeners hear nothing.
* user.ts:286-295: an exit mined after the query for past events and before the block the
  watch starts from is seen by neither (`PlasmaExit`, between `PastEvents` and `WatchExit`).
* user.ts:293: `exit.owner` is undefined (it is in `returnValues`), so a user who receives a
  coin with an exit of its own treats it as another's.
* user.ts:332-334: a challenge mined between the stop of the watchers and the block the watch
  on challenges starts from is not answered (`OnceStarted`, `WatchChallenge`).
* entity.ts:274, 295: the watchers' handlers neither await nor catch `challengeExitAsync` and
  `respondChallengeAsync`; one read or transaction that rejects leaves the exit unchallenged, or
  the challenge unanswered, for good (`ChallengeFails`, `RespondFails`).
* entity.ts:294: the watch on challenges answers every challenge of the coin, the client's own
  of another's exit too, which undoes it (`Respond`, `met = "undone"`).
* user.ts:293: a challenge of a past exit that rejects ends `receiveAndWatchCoinAsync` before
  `watchExit`: the coin is the user's and nobody watches it (`ChallengeFails`, `ReceiveFails`).
* user.ts:288: the query for past exits starts at the database's start block, and does not see an
  exit before it (`PastEvents`).
* user.ts:211: the watch on the coin's exits may end at a block that was there before the
  transfer, so a coin whose transfer is never included is no longer watched.
* dual-rpc-client.ts:51: with a web socket URL first, no request is ever sent.
* loom-provider.ts:182: with two connections, a drop of the write connection leaves
  subscriptions whose events nobody hears; 190: `removeListener('data', cb)` drops every
  callback, whichever `cb` is; 207: of two neighbouring registrations one stays;
  249: only the first request of a batch is run; 780: an account not held, or spelled with
  capitals, sends with the client's own middleware.
* loom-provider.ts:371, 384: `params[1] || true` asks for full blocks whatever was asked.
* ws-rpc-client.ts:101, 120: a `subevents` or `unsubevents` that is refused is not repeated: no
  events until the next connection, or events nobody listens to until then.
* ws-rpc-client.ts:139: `isSubscribed` stays true over a drop with no listeners.

That is why `ForeignExitsMet` and `OwnExitDefended` have `~ exit.failed` as a premise and
`IdleUnsubscribes` and `SubscriptionSettles` `~ failed`: each says what is kept as long as the
task or call in question does not fail, whatever else does. `RegisteredHear` likewise excepts
the callbacks in `swept`, and nothing else. `SpendsLatest` speaks of profiles without lag and returns, and the one of
`coin_history` that it applies to has no restarts: there the code keeps it, whatever tasks
interleave. `WatchedUntilSent` says nothing of restarts, which end every watch, nor of late
roots: with them a transfer can be of a stale transaction, and the chain drops it after the
watch has ended.

**Fairness.** `TxCommit`: weak fairness of each call's own steps, since promise callbacks run
and every wait of the code (nonce, connection, reply) has a timeout; nothing is assumed of
the chain. `WSRPCClient`: the server serves, replies are handled, request timers fire;
connections need not come up, stay up, or come back. `RPCClients`: the same, and the timeout
of a post. `LoomProvider`: callbacks return, and each request's next step is strongly fair,
because an event being handed out holds it up but the event loop takes its tasks in order;
that a request of the client settles at all is what `RPCClients` and `TxCommit` show.
`EventChain`: calls served or refused, and
events read. Liveness is checked under these with the connection's stability as a premise
(`<>[]`), never as fairness.

Deadlock is not checked: every model may stop (bounds reached, all calls settled).

## 4. The proofs

Each theorem is proved for every value of the constants. The assumptions are only the named
`ASSUME`s beside them: bounds are naturals, flags Booleans, the deposit block is not a plasma
block (`HistoryAssumption`), a provider has an account (`ProviderAssumption`), contract
objects are finitely many (`ChainAssumption`), a tree has a level (`TreeAssumption`). Every
safety property a run checks is the conclusion of a theorem, and so are its type invariants;
where the property alone is not inductive, this is what had to be known besides.

`TxCommitProofs`, for any calls, retries, lag and other writers:

* `Inv == TypeOK /\ OneLiveAttempt` is inductive. `AtMostOnce` alone is not: one has to know
  that a new attempt is made only after CheckTx refused all earlier ones, so none of them
  can still be delivered. From it: `TypeCorrect`, `OnlyLastAttemptLive`, `ExecutedAtMostOnce`.
* `NoncesKeepStep` (`NonceInv`) and `NonceErrorTakesContention`: the k-th attempt of a call
  given up-to-date nonces is signed with at least k, and a refused nonce is one the chain has
  passed.
* `KeepsPromise`: every step of `TxCommit` is a step or a stutter of `CallPromise`.

`WSRPCClientProofs`, for any requests, listeners, sockets and calls:

* `HandlerComesAndGoes` (`OneHandler`): strengthened by "sockets to come have no handler".
* `ServerFollows` (`ServerFollowsListeners`): the unserved calls are the newest ones of the
  queue, and a connection that is not open has no calls, no subscription and no failure.
  Lemmas `AppendCall`, `TailCall`, `ServeCall`, `GiveUpCall` say what each queue operation
  does to the decision of the last call.
* `TypeCorrect`. The theorems are of `WSRPCClient` by itself; a step of `RPCClients` is one of
  its steps or leaves its variables alone, so they hold there, where the run checks them.

`EventChainProofs`, for any objects, addresses, listeners and events, with
`WSRPCClientProofs` as an instance (`StepOfClient`: each step of the chain is one of the client,
or leaves it alone), whose invariants are cited and not proved again:

* `StagesAlwaysAgree`: `StageInv`, that a hooked object listens to the client exactly while it
  has listeners, and the client's count is that of the hooked objects. `CountListeners` says
  what one object more or less does to it.
* `HeardAtMostOnce`: `EventInv`. The order of what an object heard is kept only because the
  events on the wire are in order too and later than all that was heard, and because
  `OneHandler` lets `Arrive` run an event up the chain no more than once.
* `NoEventMissed`: an action property, from both and from `ConnInv`, that on the first socket
  the handler stays while somebody listens (a later socket may be without it, see the finding).

`ExitChallengeProofs`, for every interval, deposit block and history of any length:

* `Inv`: the coin is in its deposit block and in plasma blocks up to the current one, each
  transaction spending an earlier one. `ListsEveryBlockOnce`, `HistoryGrows`.
* `BeforeIsDeposit`, `EarlyExits`, `SecondSpendRefuted`, `ResponseIsSpend`: what is met with
  what. Their lemmas say where a block is in `GetBlockNumbers`, and what the searches of
  `ChallengeExit` over the list find; the first match of a list is a least element, which
  `LeastExists` gets from the well-foundedness of strict inclusion, so no induction is needed.

`PlasmaExitProofs`, for any number of exit events, `exitAsync` calls and receipts:

* `TypeInv` (the parts `EthType`, `ArmType`, `TaskType`); `StaysWatched`.
* `ForeignExitsAreMet` needs `ForeignInv`, which looks into the tasks: an exit of another that
  is `Due` (told of, not challenged, its challenge not rejected) is still to be handed over, or
  some task has its event and goes on to a challenge (`Handled`); and `LogInv`, that the exit there is was
  the last one started, so that a watcher that still has an event before it also has it
  (`NextBeforeLast`), and a task that reads the exit reads that one. `UndoInv` says that only a
  call of `exitAsync` brings a watch on challenges, so only then is a challenge undone.
* `OwnExitIsDefended`: the same of challenges, with `OwnInv`: a challenge that is `Standing` and
  whose answer did not reject is still to be handed over, or is being answered.

`LoomProviderProofs`, for any requests, retries, callbacks, accounts and uses:

* `EventIsHeard`: `HandInv`. While an event is handed out the elements still to visit are where
  they were when the loop began, whether the provider's list is the same array, grown, or
  another one. `RegisteredHearAlways`, with `swept`, follows one step at a time; what
  `removeAllListeners` takes away is lemma `SplicedIs`.
* `ReceiptsArePatient`, `TellsOnce`: `RequestInv`, per request: every attempt at a receipt but
  the one under way was unlucky; a callback is told nothing before the request is settled,
  then the outcome, then no more than what it threw.

`CoinHistoryProofs`, for any interval, deposit block, chain and number of tasks, with
`ExitChallengeProofs` as an instance for the list of blocks:

* `HistoryInv` is `ChainInv` (the chain), `DataInv` (the database and watches hold blocks the
  client can know of) and `TasksInv` (a task reads its list from the deposit on): `TypeCorrect`.
  `RowsAreUnique` and `RowsStayTrue` are inductive with it.
* `LatestIsSpent`: `ReadsInv` says that, while roots come with their blocks, a task has a row of
  every block it is beyond; `SteadyInv` says in four parts who can own the coin when: a transfer
  is only made by the owner (`OwnerInv`), until the user has sent the coin it has at most the
  deposit and the transaction that made it the user's, and the saved block is not before them
  (`UnsentInv`), and who has sent it and never gets it back sends it no more (`SentInv`).
  Without `UnsentInv` the saved block could hide the latest transaction from `findBlocks`;
  that is what happens when coins return. The theorem has `~ profile.restarts` as a
  premise, as the profile of the run has: `coin_history_restart` shows what a restart does.
* `WatchEndsWithTransfer`: from the same invariant.

`SparseMerkleTreeProofs`, for every depth and every set of leaves:

* `SparseRootIsDense`: on each level, the stored nodes and the level's default are the dense
  tree's level (`LevelsAreDense`), the leaves being in slots of the tree (`LeavesInSlots`).
* `ProofsProveWhatIsThere`: the proof has the dense tree's sibling on every level
  (`SiblingsOfProof`; places in the hashes tell levels apart, `PositionsDiffer`), so the
  check computes the dense tree's path from the leaf that is there, and leaves that path for
  good from any other, because `Sha3` is injective. That hashes do not collide is the
  one idealisation: they are terms.
* The recursive functions (`WidthIs`, `DefaultNodesIs`, `CreateTreeIs`, `DenseTreeIs`,
  `AboveIs`, `PathIs`) are shown to exist by building them level by level, and `LevelByLevel` is
  the induction on levels, stated with a set instead of a predicate.

Model-checked only: liveness (`CallsSettle`, `SubscriptionSettles`, `SendsSettle`,
`SendSettles`, `IdleUnsubscribes`), which is out of the prover's reach, and the four
properties that runs find violated. The lists and trees the proofs are about are of any
length and depth.

## 5. Not modelled

Of plasma cash: withdrawals and bonds, one contract call each (`withdrawAsync` also forgets
the coin's rows). `TransferGateway`'s constructor, which re-emits the gateway's events, is an
object with a listener that is never removed; such an object is in `EventChain`, its
re-emission is not. Stateless
parts: contract wrappers, addresses, numbers, crypto, message encodings, transaction
hashing. Queries of the DAppChain's own contracts (`queryAsync`) are single requests. The
content of EVM blocks, receipts and logs is not modelled. Signing changes no state.

## 6. Plan

1. `ExitChallenge`'s choice in place of the open one in `PlasmaExit`'s `Submit`, so that the
   exits that are met are met with the right challenge, and proved so.
2. The watchers of `transferAndVerifyAsync` composed with those of `PlasmaExit`.
3. The theorems on `WSRPCClient` restated for `RPCSpec`.
