----------------------------- MODULE CoinHistory -----------------------------
(* What a plasma user knows of one coin: the history it reads block by block  *)
(* (getCoinHistoryAsync), the rows it keeps in its database, the block it     *)
(* last saw the coin received at, and the transaction findBlocks then picks   *)
(* to spend. The DAppChain finalizes blocks, Ethereum gets their roots later, *)
(* and reads of both interleave with the user's other tasks.                  *)
EXTENDS BlockNumbers, FiniteSets

CONSTANTS DepositBlock,  \* of the coin, not a multiple of Interval
          MaxBlock,      \* bound: last plasma block
          Receivers,     \* bound: receiveAndWatchCoinAsync tasks at a time
          Profiles       \* what may happen: [lag, the DAppChain is a block ahead of
                         \* Ethereum; returns, the coin comes back to a user who
                         \* sent it; restarts, the client restarts with its
                         \* database file; last, bound: last block made]

ASSUME HistoryAssumption ==
  /\ MaxBlock \in Nat /\ DepositBlock \in 1 .. MaxBlock /\ DepositBlock % Interval # 0
  /\ Profiles \subseteq [lag : BOOLEAN, returns : BOOLEAN, restarts : BOOLEAN, last : 0 .. MaxBlock]

PlasmaBlocks == {b \in 1 .. MaxBlock : b % Interval = 0}
Blocks == PlasmaBlocks \cup {DepositBlock}
None == 0
NoTx == [prev |-> 0, to |-> "nobody"]
Idle == [pc |-> "idle", blocks |-> <<>>, i |-> 1, rooted |-> FALSE, seen |-> {}]

VARIABLES profile,  \* the one of Profiles this run is about
          txs,      \* the coin's transaction in each block, if any
          current,  \* last block the DAppChain finalized
          roots,    \* plasma blocks whose root is on Ethereum
          pending,  \* the coin's tx waiting for the next block, if any
          rows,     \* PlasmaDB coins: [block, included, prev], in order of arrival
          saved,    \* PlasmaDB blocks entry of the coin, None if undefined
          savedBN,  \* is it a BN, or the string a reloaded file holds
          news,     \* SubmittedBlock events not handled yet
          adding,   \* blocks whose handler is reading the row to add
          watched,  \* is there an exit watcher for the coin
          polling,  \* is depositETHAsync still waiting for a block
          receive,  \* the tasks of receiveAndWatchCoinAsync
          spend,    \* the task of transferAsync
          confirm   \* transferAndVerifyAsync's watchers: the last root before each

chainVars == <<profile, txs, current, roots, pending>>
dbVars == <<rows, saved, savedBN>>
vars == <<chainVars, dbVars, news, adding, watched, polling, receive, spend, confirm>>

TxBlocks == {b \in Blocks : txs[b] # NoTx}
Latest == CHOOSE b \in TxBlocks : \A c \in TxBlocks : c <= b
Owner == txs[Latest].to
Rooted(b) == b = DepositBlock \/ b \in roots
LastRoot == CHOOSE b \in roots \cup {0} : \A c \in roots : c <= b
HasRow(b) == \E i \in 1 .. Len(rows) : rows[i].block = b

Init == /\ profile \in Profiles
        /\ \E owner \in {"me", "other"} :
             txs = [b \in Blocks |-> IF b = DepositBlock
                                     THEN [prev |-> 0, to |-> owner] ELSE NoTx]
        /\ current = (DepositBlock \div Interval) * Interval
        /\ roots = {b \in PlasmaBlocks : b <= current}
        /\ pending = {}
        /\ rows = <<>> /\ saved = None /\ savedBN = TRUE
        /\ news = {} /\ adding = {} /\ watched = FALSE
        /\ polling = (Owner = "me")
        /\ receive = [r \in Receivers |-> Idle] /\ spend = Idle
        /\ confirm = {}

-----------------------------------------------------------------------------
(* The DAppChain, Ethereum and the other user, all external *)

\* The root of the oldest block without one reaches Ethereum, which says so.
RootOf(b) == roots' = roots \cup {b} /\ news' = news \cup {b}

\* The next block takes in the pending tx, if it spends the coin's latest.
FinalizeBlock ==
  LET next == current + Interval IN
  /\ next <= profile.last
  /\ \A b \in PlasmaBlocks : b <= current => b \in roots
  /\ current' = next
  /\ txs' = [txs EXCEPT ![next] = IF \E p \in pending : p.prev = Latest
                                  THEN CHOOSE p \in pending : TRUE ELSE @]
  /\ pending' = {}
  /\ IF profile.lag THEN UNCHANGED <<roots, news>> ELSE RootOf(next)
  /\ UNCHANGED <<profile, dbVars, adding, watched, polling, receive, spend, confirm>>

SubmitRoot == /\ \E b \in PlasmaBlocks : b <= current /\ b \notin roots /\ RootOf(b)
              /\ UNCHANGED <<profile, txs, current, pending, dbVars, adding, watched, polling, receive, spend, confirm>>

\* The other user sends the coin to this one.
OtherSends == /\ Owner = "other" /\ pending = {}
              /\ profile.returns \/ \A b \in TxBlocks : txs[b].to = "other"
              /\ pending' = {[prev |-> Latest, to |-> "me"]}
              /\ UNCHANGED <<profile, txs, current, roots, dbVars, news, adding, watched, polling, receive, spend, confirm>>

-----------------------------------------------------------------------------
(* Reading a history: getCoinHistoryAsync, for either task *)

\* checkHistoryAsync lists the blocks up to the one that is current now.
Scan == [Idle EXCEPT !.pc = "root", !.blocks = GetBlockNumbers(DepositBlock, current)]

\* getBlockRootAsync for the next block of the list.
ReadRoot(task) == [task EXCEPT !.pc = "tx", !.rooted = Rooted(task.blocks[task.i])]

\* mutant: a block read again gets another row
StoreAgain(b) == rows' = Append(rows, [block |-> b, prev |-> txs[b].prev,
                                       included |-> txs[b] # NoTx /\ Rooted(b)])

\* mutant: the row is stored without the inclusion check
StoreUnchecked(b) == rows' = IF HasRow(b) THEN rows
                             ELSE Append(rows, [block |-> b, prev |-> txs[b].prev,
                                                included |-> Rooted(b)])

\* receiveCoin: the first row of a block stays.
StoreRow(b) == rows' = IF HasRow(b) THEN rows
                       ELSE Append(rows, [block |-> b, prev |-> txs[b].prev,
                                          included |-> txs[b] # NoTx /\ Rooted(b)])

\* mutant: reads past the last block
ReadTxPast(task) ==
  LET b == task.blocks[task.i] IN
  [task EXCEPT !.pc = IF task.i <= Len(task.blocks) THEN "root" ELSE "verify",
               !.i = @ + 1,
               !.seen = IF txs[b] # NoTx /\ task.rooted THEN @ \cup {b} ELSE @]

\* getPlasmaTxAsync stores the block's row with a root it reads for itself; the
\* proof counts as one of inclusion by the root read before.
ReadTx(task) ==
  LET b == task.blocks[task.i] IN
  [task EXCEPT !.pc = IF task.i < Len(task.blocks) THEN "root" ELSE "verify",
               !.i = @ + 1,
               !.seen = IF txs[b] # NoTx /\ task.rooted THEN @ \cup {b} ELSE @]

\* verifyCoinHistoryAsync: each proof, of inclusion or exclusion, against the
\* root there is by now.
Valid(task) == \A i \in 1 .. Len(task.blocks) :
                  LET b == task.blocks[i]
                  IN  Rooted(b) /\ (b \in task.seen <=> txs[b] # NoTx)

ReceiveReads(r) ==
  LET task == receive[r] IN
  /\ \/ task.pc = "root" /\ receive' = [receive EXCEPT ![r] = ReadRoot(task)] /\ UNCHANGED rows
     \/ /\ task.pc = "tx"
        /\ receive' = [receive EXCEPT ![r] = ReadTx(task)]
        /\ StoreRow(task.blocks[task.i])
  /\ UNCHANGED <<chainVars, saved, savedBN, news, adding, watched, polling, spend, confirm>>

SpendReads ==
  /\ \/ spend.pc = "root" /\ spend' = ReadRoot(spend) /\ UNCHANGED rows
     \/ spend.pc = "tx" /\ spend' = ReadTx(spend) /\ StoreRow(spend.blocks[spend.i])
  /\ UNCHANGED <<chainVars, saved, savedBN, news, adding, watched, polling, receive, confirm>>

-----------------------------------------------------------------------------
(* Receiving the coin *)

Begin(r) == receive[r] = Idle /\ receive' = [receive EXCEPT ![r] = Scan]

\* depositETHAsync waits for a block after the deposit, then receives the coin.
AfterDeposit(r) == /\ polling /\ current > DepositBlock
                   /\ polling' = FALSE
                   /\ Begin(r)
                   /\ UNCHANGED <<chainVars, dbVars, news, adding, watched, spend, confirm>>

\* pollForBlockChange runs out of iterations.
PollEnds == /\ polling /\ polling' = FALSE
            /\ UNCHANGED <<chainVars, dbVars, news, adding, watched, receive, spend, confirm>>

\* watchBlocks: for a coin that is the user's, add the row of the new block if
\* the database knows the coin, else receive it.
OnSubmittedBlock ==
  \E b \in news :
     /\ news' = news \ {b}
     /\ \/ Owner # "me" /\ UNCHANGED <<adding, receive>>
        \/ Owner = "me" /\ rows # <<>> /\ adding' = adding \cup {b} /\ UNCHANGED receive
        \/ Owner = "me" /\ rows = <<>> /\ (\E r \in Receivers : Begin(r)) /\ UNCHANGED adding
     /\ UNCHANGED <<chainVars, dbVars, watched, polling, spend, confirm>>

\* getPlasmaTxAsync answers the handler of a block.
AddRow == /\ \E b \in adding : adding' = adding \ {b} /\ StoreRow(b)
          /\ UNCHANGED <<chainVars, saved, savedBN, news, watched, polling, receive, spend, confirm>>

\* checkHistoryAsync answers; receiveCoinAsync then lists the blocks again and
\* saves the last, valid or not.
Verified(r) == /\ receive[r].pc = "verify"
               /\ receive' = [receive EXCEPT ![r].pc =
                                IF Valid(receive[r]) THEN "valid" ELSE "invalid"]
               /\ UNCHANGED <<chainVars, dbVars, news, adding, watched, polling, spend, confirm>>

\* receiveAndWatchCoinAsync watches the exits of a valid coin and forgets the
\* rows, but not the saved block, of an invalid one.
Received(r) == /\ receive[r].pc \in {"valid", "invalid"}
               /\ saved' = LET blocks == GetBlockNumbers(DepositBlock, current)
                           IN  blocks[Len(blocks)]
               /\ savedBN' = TRUE
               /\ watched' = (watched \/ receive[r].pc = "valid")
               /\ rows' = IF receive[r].pc = "valid" THEN rows ELSE <<>>
               /\ receive' = [receive EXCEPT ![r] = Idle]
               /\ UNCHANGED <<chainVars, news, adding, polling, spend, confirm>>

-----------------------------------------------------------------------------
(* Spending the coin *)

\* mutant: the blocks are watched for before the transfer is sent
StartSpendWatching == /\ Owner = "me" /\ pending = {} /\ spend = Idle
                      /\ spend' = Scan
                      /\ confirm' \in {confirm, confirm \cup {LastRoot}}
                      /\ UNCHANGED <<chainVars, dbVars, news, adding, watched, polling, receive>>

\* transferAsync -> findBlocks -> getCoinHistoryFromDBAsync -> checkHistoryAsync
StartSpend == /\ Owner = "me" /\ pending = {} /\ spend = Idle
              /\ spend' = Scan
              /\ UNCHANGED <<chainVars, dbVars, news, adding, watched, polling, receive, confirm>>

\* mutant: exclusion proofs are not skipped
FoundAnyBlock ==
  LET last  == IF saved = None THEN current ELSE saved
      reach == {i \in 2 .. Len(rows) : \A j \in 2 .. i : rows[j].block <= last}
      found == {rows[1].block} \cup {rows[i].block : i \in reach}
  IN  IF rows = <<>> \/ (~ savedBN /\ Len(rows) > 1) THEN DepositBlock
      ELSE CHOOSE b \in found : \A c \in found : c <= b

\* findBlocks on the rows of the coin: the first row's block, or a later included
\* one up to the saved block; the loop stops at the first included row past it.
\* With a saved block that is no BN, or no rows, it falls back on the deposit.
FoundBlock ==
  LET last  == IF saved = None THEN current ELSE saved
      later == {i \in 2 .. Len(rows) : rows[i].included}
      reach == {i \in later : \A j \in later : j <= i => rows[j].block <= last}
      found == {rows[1].block} \cup {rows[i].block : i \in reach}
  IN  IF rows = <<>> \/ (~ savedBN /\ later # {}) THEN DepositBlock
      ELSE CHOOSE b \in found : \A c \in found : c <= b

\* transferTokenAsync signs a tx that spends that block's, for the other user;
\* transferAndVerifyAsync then watches for blocks, those of the Ethereum block of
\* the moment included, so maybe the last one before.
Spend == /\ spend.pc = "verify"
         /\ pending' = {[prev |-> FoundBlock, to |-> "other"]}
         /\ spend' = Idle
         /\ confirm' \in {confirm, confirm \cup {LastRoot}}
         /\ UNCHANGED <<profile, txs, current, roots, dbVars, news, adding, watched, polling, receive>>

\* The first block seems to verify, for the promise of verifyInclusionAsync is not
\* awaited: the coin's watch stops, and the row of the block is added by and by.
OnConfirmBlock ==
  /\ \E last \in confirm, b \in roots :
        /\ b \in {last, last + Interval}
        /\ confirm' = confirm \ {last}
        /\ adding' = adding \cup {b}
  /\ watched' = FALSE
  /\ UNCHANGED <<chainVars, dbVars, news, polling, receive, spend>>

\* The process stops and starts again with the database file, where a BN comes
\* back as a string; watchers and tasks are gone.
Restart == /\ profile.restarts
           /\ savedBN' = (savedBN /\ saved = None)
           /\ news' = {} /\ adding' = {} /\ watched' = FALSE /\ polling' = FALSE
           /\ receive' = [r \in Receivers |-> Idle] /\ spend' = Idle
           /\ confirm' = {}
           /\ UNCHANGED <<chainVars, rows, saved>>

Next == \/ FinalizeBlock \/ SubmitRoot \/ OtherSends
        \/ \E r \in Receivers : ReceiveReads(r) \/ AfterDeposit(r) \/ Verified(r) \/ Received(r)
        \/ PollEnds \/ OnSubmittedBlock \/ AddRow
        \/ StartSpend \/ SpendReads \/ Spend \/ OnConfirmBlock
        \/ Restart

Spec == Init /\ [][Next]_vars

-----------------------------------------------------------------------------
(* Properties *)

Tasks == [pc : {"idle", "root", "tx", "verify", "valid", "invalid"}, blocks : Seq(Blocks),
          i : Nat, rooted : BOOLEAN, seen : SUBSET Blocks]

\* The state is well formed.
TypeOK == /\ txs \in [Blocks -> [prev : {0} \cup Blocks, to : {"me", "other", "nobody"}]]
          /\ profile \in Profiles /\ current \in {0} \cup PlasmaBlocks
          /\ roots \subseteq PlasmaBlocks /\ confirm \subseteq {0} \cup PlasmaBlocks
          /\ news \cup adding \subseteq PlasmaBlocks
          /\ Cardinality(pending) <= 1
          /\ rows \in Seq([block : Blocks, prev : {0} \cup Blocks, included : BOOLEAN])
          /\ saved \in {None} \cup Blocks
          /\ {savedBN, watched, polling} \subseteq BOOLEAN
          /\ receive \in [Receivers -> Tasks] /\ spend \in Tasks
          /\ \A task \in {spend} \cup {receive[r] : r \in Receivers} :
                task.pc \in {"root", "tx"} => task.i \in 1 .. Len(task.blocks)

\* However the tasks interleave, the database has one row per block.
OneRowPerBlock == \A i, j \in 1 .. Len(rows) : rows[i].block = rows[j].block => i = j

\* A row, which nothing ever corrects (receiveCoin keeps the first of a block),
\* says the truth about its block: if it says the coin has a transaction there,
\* it does, on a root and with that previous block; and while roots come with
\* their blocks, if it says it has none, it has none.
RowsAreTrue == \A i \in 1 .. Len(rows) :
  LET row == rows[i] IN
  /\ row.included => txs[row.block] # NoTx /\ Rooted(row.block) /\ row.prev = txs[row.block].prev
  /\ ~ profile.lag /\ txs[row.block] # NoTx => row.included

\* What findBlocks picks is the coin's latest transaction, the one a transfer
\* has to spend for the DAppChain to take it, while roots come with their blocks
\* and the coin does not come back to a user who has its rows.
SpendsLatest == ~ profile.lag /\ ~ profile.returns => \A p \in pending : p.prev = Latest

\* As long as the client runs, and roots come with their blocks, the exits of a coin
\* stop being watched only after a transfer of it was sent that the chain takes: the
\* watcher of transferAndVerifyAsync, which stops the watch at the first block it hears
\* of, is there only then. (It may stop the watch before the transfer is in a block.)
SentAway == \/ \E p \in pending : p.to = "other"
            \/ \E b \in TxBlocks : txs[b].prev # 0 /\ txs[b].to = "other"
WatchedUntilSent ==
  [][watched /\ ~ watched' /\ ~ profile.lag /\ ~ profile.restarts => SentAway]_vars
=============================================================================
