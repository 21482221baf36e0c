--------------------------- MODULE CoinHistoryProofs ---------------------------
(* Proofs about CoinHistory for any interval, any deposit block, a chain of   *)
(* any length and any number of tasks.                                        *)
EXTENDS CoinHistory, Integers, FiniteSetTheorems, SequenceTheorems, TLAPS

-----------------------------------------------------------------------------
(* Blocks and the list of them, with what is proved of it *)

EC == INSTANCE ExitChallengeProofs
        WITH deposit <- DepositBlock, prevBlock <- txs, current <- current

LEMMA ListAssumptions == EC!IntervalAssumption /\ EC!MaxBlockAssumption
BY IntervalAssumption, HistoryAssumption DEF EC!IntervalAssumption, EC!MaxBlockAssumption

\* A set of block numbers that is not empty has a greatest one.
LEMMA GreatestExists ==
  ASSUME NEW S, S \subseteq 0 .. MaxBlock, S # {}
  PROVE  \E m \in S : \A n \in S : n <= m
<1> DEFINE Down == {MaxBlock - n : n \in S}
<1>1. MaxBlock \in Nat
  BY HistoryAssumption
<1>2. Down \subseteq Nat /\ Down # {}
  <2>1. ASSUME NEW n \in S PROVE MaxBlock - n \in Nat
    BY <1>1
  <2> QED BY <2>1
<1>3. PICK d \in Down : \A e \in Down : d <= e
  <2> HIDE DEF Down
  <2> QED BY <1>2, ListAssumptions, EC!LeastExists
<1>4. PICK m \in S : d = MaxBlock - m
  OBVIOUS
<1>5. ASSUME NEW n \in S PROVE n <= m
  <2>1. d <= MaxBlock - n
    BY <1>3
  <2> QED BY <1>1, <1>4, <2>1
<1> QED BY <1>5

\* Blocks are numbered from one.
LEMMA BlocksAre ==
  /\ Blocks \subseteq 1 .. MaxBlock /\ PlasmaBlocks \subseteq Blocks /\ DepositBlock \in Blocks
  /\ DepositBlock \notin PlasmaBlocks /\ MaxBlock \in Nat /\ Interval \in Nat \ {0}
  /\ DepositBlock \in Nat \ {0} /\ \A b \in Blocks : b \in Nat \ {0}
BY HistoryAssumption, IntervalAssumption DEF Blocks, PlasmaBlocks

-----------------------------------------------------------------------------
(* The inductive invariant *)

InStep == ~ profile.lag
Steady == InStep /\ ~ profile.restarts

\* A block of the coin's history that the client can have heard of.
Known(b) == b \in Blocks /\ (b = DepositBlock \/ b <= current)

\* The chain: the coin's transactions, after the deposit, are in blocks that were
\* finalized, and roots are of such blocks too.
ChainInv ==
  /\ profile \in Profiles
  /\ current \in {0} \cup PlasmaBlocks /\ DepositBlock < current + Interval
  /\ txs \in [Blocks -> [prev : {0} \cup Blocks, to : {"me", "other", "nobody"}]]
  /\ txs[DepositBlock].prev = 0 /\ txs[DepositBlock].to # "nobody"
  /\ \A b \in TxBlocks \ {DepositBlock} :
        /\ DepositBlock < b /\ b <= current
        /\ txs[b].prev # 0 /\ txs[b].to # "nobody"
  /\ roots \subseteq {b \in PlasmaBlocks : b <= current}
  /\ InStep => \A b \in PlasmaBlocks : b <= current => b \in roots
  /\ pending \subseteq [prev : Blocks, to : {"me", "other"}]
  /\ \A p, q \in pending : p = q

\* What the client keeps: blocks it can know of.
DataInv ==
  /\ news \subseteq roots /\ adding \subseteq roots /\ confirm \subseteq {0} \cup roots
  /\ rows \in Seq([block : Blocks, prev : {0} \cup Blocks, included : BOOLEAN])
  /\ \A k \in 1 .. Len(rows) : Known(rows[k].block)
  /\ saved \in {None} \cup Blocks
  /\ savedBN \in BOOLEAN /\ watched \in BOOLEAN /\ polling \in BOOLEAN

\* A task reads its blocks, from the deposit on, one after the other.
TaskInv(task) ==
  /\ task \in Tasks
  /\ task.pc \in {"root", "tx"} => task.i \in 1 .. Len(task.blocks)
  /\ task.pc # "idle" => /\ task.i >= 1 /\ Len(task.blocks) >= 1
                         /\ task.blocks[1] = DepositBlock
  /\ task.pc = "verify" => task.i = Len(task.blocks) + 1
  /\ \A j \in 1 .. Len(task.blocks) : Known(task.blocks[j])

TasksInv == /\ receive \in [Receivers -> Tasks]
            /\ \A r \in Receivers : TaskInv(receive[r])
            /\ TaskInv(spend)

\* While roots come with their blocks, a task has a row of every block it is
\* beyond, and has seen the coin's transactions there.
TaskReads(task) ==
  /\ task.pc = "tx" => task.rooted
  /\ task.pc # "invalid" /\ task.seen \subseteq TxBlocks
  /\ \A j \in 1 .. Len(task.blocks) :
        j < task.i => /\ HasRow(task.blocks[j])
                      /\ task.blocks[j] \in TxBlocks => task.blocks[j] \in task.seen

\* The first row is that of the deposit.
ReadsInv ==
  InStep =>
    /\ \A r \in Receivers : TaskReads(receive[r])
    /\ TaskReads(spend)
    /\ rows # <<>> => rows[1].block = DepositBlock
    /\ (adding # {} \/ confirm # {}) => rows # <<>>

\* The coin was not sent by this user, but for what is pending.
Unsent == \A b \in TxBlocks : txs[b].prev # 0 => txs[b].to = "me"

\* A transfer is only made by the owner, who has read all transactions.
OwnerInv ==
  /\ \A p \in pending : p.to # Owner
  /\ spend.pc # "idle" =>
       /\ spend.pc \in {"root", "tx", "verify"} /\ Owner = "me" /\ pending = {}
       /\ \A b \in TxBlocks : \E j \in 1 .. Len(spend.blocks) : spend.blocks[j] = b

\* Until the user has sent the coin, it has no more than two transactions, and what
\* the user saved is not before them.
UnsentInv ==
  Unsent =>
    /\ \A p \in pending : p.prev = Latest
    /\ \A b \in TxBlocks : b = DepositBlock \/ (b = Latest /\ Owner = "me")
    /\ (saved # None \/ polling \/ \E r \in Receivers : receive[r] # Idle) => Owner = "me"
    /\ saved # None => (\A b \in TxBlocks : b <= saved)

\* A user who has sent the coin and never gets it back sends it no more.
SentInv ==
  ~ Unsent /\ ~ profile.returns =>
    /\ Owner = "other" /\ pending = {}
    /\ \E b \in TxBlocks : txs[b].to = "me"

\* While nothing but the client's own tasks and the chain interleave.
SteadyInv ==
  Steady => /\ savedBN /\ OwnerInv /\ UnsentInv /\ SentInv
            /\ confirm # {} => SentAway

-----------------------------------------------------------------------------
(* The chain *)

\* The coin's latest transaction, and whose the coin is by it.
LEMMA LatestIs ==
  ASSUME ChainInv
  PROVE  /\ Latest \in TxBlocks /\ \A b \in TxBlocks : b <= Latest
         /\ TxBlocks \subseteq Blocks /\ DepositBlock \in TxBlocks
         /\ Owner \in {"me", "other"}
<1>1. TxBlocks \subseteq 0 .. MaxBlock
  <2>1. TxBlocks \subseteq Blocks
    BY DEF TxBlocks
  <2>2. 1 .. MaxBlock \subseteq 0 .. MaxBlock
    OBVIOUS
  <2> QED BY <2>1, <2>2, BlocksAre
<1>2. DepositBlock \in TxBlocks
  BY BlocksAre DEF TxBlocks, ChainInv, NoTx
<1>3. \E m \in TxBlocks : \A n \in TxBlocks : n <= m
  BY <1>1, <1>2, GreatestExists
<1>4. Latest \in TxBlocks /\ \A b \in TxBlocks : b <= Latest
  BY <1>3 DEF Latest
<1>5. \A b \in TxBlocks : txs[b].to \in {"me", "other"}
  <2>1. ASSUME NEW b \in TxBlocks PROVE txs[b].to \in {"me", "other"}
    <3>1. txs[b] \in [prev : {0} \cup Blocks, to : {"me", "other", "nobody"}]
      BY DEF ChainInv, TxBlocks
    <3>2. txs[b].to # "nobody"
      BY <2>1 DEF ChainInv
    <3> QED BY <3>1, <3>2
  <2> QED BY <2>1
<1> QED BY <1>2, <1>4, <1>5 DEF Owner, TxBlocks

\* The blocks a task lists: the deposit's, and every one after it that is final.
LEMMA Listing ==
  ASSUME ChainInv
  PROVE  LET blocks == GetBlockNumbers(DepositBlock, current)
         IN  /\ blocks \in Seq(Blocks) /\ Len(blocks) \in Nat \ {0} /\ blocks[1] = DepositBlock
             /\ \A j \in 1 .. Len(blocks) : Known(blocks[j])
             /\ \A b \in TxBlocks : /\ \E j \in 1 .. Len(blocks) : blocks[j] = b
                                    /\ b <= blocks[Len(blocks)]
<1> USE BlocksAre
<1> DEFINE blocks == GetBlockNumbers(DepositBlock, current)
<1>1. DepositBlock \in Nat /\ current \in Nat /\ DepositBlock % Interval # 0 /\ current <= MaxBlock
  BY HistoryAssumption DEF ChainInv, PlasmaBlocks
<1>2. /\ EC!GetBlockNumbers(DepositBlock, current) = blocks
      /\ EC!ToSet(blocks) = {blocks[j] : j \in DOMAIN blocks}
  BY DEF EC!GetBlockNumbers, GetBlockNumbers, EC!NextNonDepositBlock, NextNonDepositBlock, EC!ToSet
<1>3. /\ blocks \in Seq(Nat) /\ blocks # <<>>
      /\ EC!ToSet(blocks) = {DepositBlock} \cup {b \in DepositBlock .. current : b % Interval = 0}
      /\ \A i, j \in 1 .. Len(blocks) : i < j => blocks[i] < blocks[j]
  <2> HIDE DEF blocks
  <2> QED BY <1>1, <1>2, ListAssumptions, EC!ListedBlocks
<1>4. blocks[1] = DepositBlock
  <2> HIDE DEF blocks
  <2> QED BY <1>1, <1>2, ListAssumptions, EC!ListedOneByOne
<1> HIDE DEF blocks
<1>5. Len(blocks) \in Nat \ {0} /\ DOMAIN blocks = 1 .. Len(blocks)
  BY <1>3
<1>6. ASSUME NEW j \in 1 .. Len(blocks) PROVE Known(blocks[j])
  <2>1. blocks[j] = DepositBlock \/ (blocks[j] \in DepositBlock .. current /\ blocks[j] % Interval = 0)
    BY <1>2, <1>3, <1>5
  <2>2. ASSUME blocks[j] \in DepositBlock .. current, blocks[j] % Interval = 0
        PROVE  blocks[j] \in PlasmaBlocks /\ blocks[j] <= current
    BY <1>1, <2>2 DEF PlasmaBlocks
  <2> QED BY <2>1, <2>2 DEF Known
<1>7. blocks \in Seq(Blocks)
  BY <1>3, <1>5, <1>6 DEF Known
<1>8. ASSUME NEW b \in TxBlocks
      PROVE  /\ \E j \in 1 .. Len(blocks) : blocks[j] = b
             /\ b <= blocks[Len(blocks)]
  <2>1. b = DepositBlock \/ (b \in DepositBlock .. current /\ b % Interval = 0)
    <3>1. b \in Blocks
      BY DEF TxBlocks
    <3>2. ASSUME b # DepositBlock
          PROVE  b \in PlasmaBlocks /\ DepositBlock < b /\ b <= current
      BY <3>1, <3>2 DEF ChainInv, Blocks
    <3> QED BY <1>1, <3>1, <3>2 DEF PlasmaBlocks
  <2>2. \E j \in 1 .. Len(blocks) : blocks[j] = b
    BY <1>2, <1>3, <1>5, <2>1
  <2>3. PICK j \in 1 .. Len(blocks) : blocks[j] = b
    BY <2>2
  <2>4. b \in Nat /\ blocks[Len(blocks)] \in Nat
    BY <1>3, <1>5, <2>3
  <2>5. j = Len(blocks) \/ blocks[j] < blocks[Len(blocks)]
    <3>1. Len(blocks) \in Nat \ {0}
      BY <1>5
    <3>2. Len(blocks) \in 1 .. Len(blocks)
      BY <3>1
    <3>3. j = Len(blocks) \/ j < Len(blocks)
      BY <3>1
    <3> QED BY <1>3, <3>2, <3>3
  <2>6. b <= blocks[Len(blocks)]
    BY <2>3, <2>4, <2>5
  <2> QED BY <2>2, <2>6
<1> QED BY <1>4, <1>5, <1>6, <1>7, <1>8 DEF blocks

\* The last root seen, when a transfer is watched for.
LEMMA LastRootIs ==
  ASSUME ChainInv
  PROVE  LastRoot \in {0} \cup roots
<1>1. roots \cup {0} \subseteq 0 .. MaxBlock /\ roots \cup {0} # {}
  BY BlocksAre DEF ChainInv, Blocks
<1>2. \E b \in roots \cup {0} : \A c \in roots \cup {0} : c <= b
  <2> DEFINE S == roots \cup {0}
  <2> HIDE DEF S
  <2>1. S \subseteq 0 .. MaxBlock /\ S # {}
    BY <1>1 DEF S
  <2> QED BY <2>1, GreatestExists DEF S
<1> QED BY <1>2 DEF LastRoot

\* A block is finalized: with the pending transaction if that spends the latest.
LEMMA Finalized ==
  ASSUME ChainInv, FinalizeBlock
  PROVE  LET next == current + Interval
         IN  /\ next \in PlasmaBlocks /\ current < next /\ DepositBlock < next
             /\ current' = next /\ txs[next] = NoTx /\ pending' = {}
             /\ roots' = IF profile.lag THEN roots ELSE roots \cup {next}
             /\ \/ txs' = txs /\ \A p \in pending : p.prev # Latest
                \/ \E p \in pending : p.prev = Latest /\ txs' = [txs EXCEPT ![next] = p]
<1> USE BlocksAre
<1> DEFINE next == current + Interval
<1>1. current \in Nat /\ current % Interval = 0
  <2>1. 0 % Interval = 0
    OBVIOUS
  <2> QED BY <2>1 DEF ChainInv, PlasmaBlocks
<1>2. next % Interval = 0
  <2> DEFINE q == current \div Interval
  <2>1. q \in Int /\ current = (Interval * q) + 0
    BY <1>1, ListAssumptions, EC!Division
  <2>2. next = (Interval * (q + 1)) + 0
    BY <2>1
  <2>3. next \in Int /\ q + 1 \in Int /\ 0 \in 0 .. (Interval - 1)
    BY <1>1, <2>1
  <2> HIDE DEF q, next
  <2> QED BY <2>2, <2>3, ListAssumptions, EC!DivisionUnique
<1>3. next <= MaxBlock
  <2>1. profile.last \in 0 .. MaxBlock
    BY HistoryAssumption DEF ChainInv
  <2> QED BY <1>1, <2>1 DEF FinalizeBlock
<1>4. next \in PlasmaBlocks /\ current < next /\ DepositBlock < next
  BY <1>1, <1>2, <1>3 DEF PlasmaBlocks, ChainInv
<1>5. txs[next] = NoTx
  <2>1. ASSUME next \in TxBlocks PROVE FALSE
    <3>1. next # DepositBlock
      BY <1>4
    <3>2. next <= current
      BY <2>1, <3>1 DEF ChainInv
    <3> QED BY <1>1, <1>4, <3>2
  <2> QED BY <1>4, <2>1 DEF TxBlocks
<1>6. /\ current' = next /\ pending' = {}
      /\ roots' = IF profile.lag THEN roots ELSE roots \cup {next}
      /\ txs' = [txs EXCEPT ![next] = IF \E p \in pending : p.prev = Latest
                                      THEN CHOOSE p \in pending : TRUE ELSE @]
  BY DEF FinalizeBlock, RootOf
<1>7. CASE \A p \in pending : p.prev # Latest
  <2>1. txs' = [txs EXCEPT ![next] = txs[next]]
    BY <1>6, <1>7
  <2>2. txs = [b \in Blocks |-> txs[b]]
    BY DEF ChainInv
  <2>3. txs' = txs
    BY <2>1, <2>2
  <2> QED BY <1>4, <1>5, <1>6, <1>7, <2>3
<1>8. ASSUME NEW p \in pending, p.prev = Latest
      PROVE  txs' = [txs EXCEPT ![next] = p]
  <2>1. (CHOOSE q \in pending : TRUE) \in pending
    BY <1>8
  <2>2. (CHOOSE q \in pending : TRUE) = p
    BY <2>1 DEF ChainInv
  <2> HIDE DEF next
  <2> QED BY <1>6, <1>8, <2>2
<1>9. CASE \E p \in pending : p.prev = Latest
  BY <1>4, <1>5, <1>6, <1>8, <1>9
<1> QED BY <1>7, <1>9

\* What is picked to spend is a block.
LEMMA FoundIsBlock ==
  ASSUME DataInv
  PROVE  FoundBlock \in Blocks
<1> USE BlocksAre
<1> DEFINE last == IF saved = None THEN current ELSE saved
           later == {k \in 2 .. Len(rows) : rows[k].included}
           reach == {k \in later : \A j \in later : j <= k => rows[j].block <= last}
           found == {rows[1].block} \cup {rows[k].block : k \in reach}
<1>1. CASE rows = <<>>
  BY <1>1 DEF FoundBlock
<1>2. CASE rows # <<>>
  <2>1. Len(rows) \in Nat \ {0} /\ \A k \in 1 .. Len(rows) : rows[k].block \in Blocks
    <3>1. rows \in Seq([block : Blocks, prev : {0} \cup Blocks, included : BOOLEAN])
      BY DEF DataInv
    <3>2. Len(rows) \in Nat \ {0}
      BY <1>2, <3>1
    <3> QED BY <3>2 DEF DataInv, Known
  <2>2. reach \subseteq 1 .. Len(rows)
    BY <2>1
  <2> HIDE DEF reach
  <2>3. found \subseteq Blocks /\ found # {}
    BY <2>1, <2>2
  <2>4. 1 .. MaxBlock \subseteq 0 .. MaxBlock
    OBVIOUS
  <2>5. \E b \in found : \A c \in found : c <= b
    <3> HIDE DEF found
    <3>1. found \subseteq 0 .. MaxBlock
      BY <2>3, <2>4
    <3> QED BY <2>3, <3>1, GreatestExists
  <2>6. (CHOOSE b \in found : \A c \in found : c <= b) \in Blocks
    <3> HIDE DEF found
    <3> QED BY <2>3, <2>5
  <2> QED BY <2>6 DEF FoundBlock, reach
<1> QED BY <1>1, <1>2

\* Blocks and roots stay, and so does what is in a block the client can know of.
LEMMA ChainGrows ==
  ASSUME ChainInv, [Next]_vars
  PROVE  /\ profile' = profile /\ roots \subseteq roots' /\ TxBlocks \subseteq TxBlocks'
         /\ \A b : Known(b) => Known(b)' /\ txs'[b] = txs[b]
<1> USE BlocksAre
<1>1. CASE FinalizeBlock
  <2> DEFINE next == current + Interval
  <2>1. /\ next \in PlasmaBlocks /\ current < next /\ DepositBlock < next
        /\ current' = next /\ txs[next] = NoTx /\ roots \subseteq roots'
    BY <1>1, Finalized
  <2>2. \A b \in Blocks : b # next => txs'[b] = txs[b]
    <3>1. CASE txs' = txs
      BY <3>1
    <3>2. ASSUME NEW p \in pending, txs' = [txs EXCEPT ![next] = p]
          PROVE  \A b \in Blocks : b # next => txs'[b] = txs[b]
      <4> HIDE DEF next
      <4> QED BY <3>2 DEF ChainInv
    <3> HIDE DEF next
    <3> QED BY <1>1, <3>1, <3>2, Finalized DEF next
  <2>3. current \in Nat
    BY DEF ChainInv, PlasmaBlocks
  <2>4. ASSUME NEW b, Known(b) PROVE b \in Blocks /\ b # next /\ Known(b)'
    <3>1. b \in Nat
      BY <2>4 DEF Known
    <3>2. b <= current => b <= next /\ b # next
      BY <2>1, <2>3, <3>1
    <3>3. DepositBlock # next
      BY <2>1
    <3> HIDE DEF next
    <3> QED BY <2>1, <2>4, <3>2, <3>3 DEF Known
  <2> HIDE DEF next
  <2>5. \A b : Known(b) => Known(b)' /\ txs'[b] = txs[b]
    BY <2>2, <2>4
  <2>6. TxBlocks \subseteq TxBlocks'
    BY <2>1, <2>2 DEF TxBlocks
  <2>7. profile' = profile
    BY <1>1 DEF FinalizeBlock
  <2> QED BY <2>1, <2>5, <2>6, <2>7
<1>2. CASE SubmitRoot
  BY <1>2 DEF SubmitRoot, RootOf, TxBlocks, Known
<1>3. CASE UNCHANGED <<profile, txs, current, roots>>
  BY <1>3 DEF TxBlocks, Known
<1>4. FinalizeBlock \/ SubmitRoot \/ UNCHANGED <<profile, txs, current, roots>>
  BY DEF Next, vars, chainVars, OtherSends, ReceiveReads, AfterDeposit, Verified, Received,
         PollEnds, OnSubmittedBlock, AddRow, StartSpend, SpendReads, Spend, OnConfirmBlock, Restart
<1> QED BY <1>1, <1>2, <1>3, <1>4

\* There is no multiple of the interval between one and the next.
LEMMA NoneBetween ==
  ASSUME NEW a \in Nat, NEW b \in Nat, a % Interval = 0, b % Interval = 0,
         a < b, b <= a + Interval
  PROVE  b = a + Interval
<1> USE IntervalAssumption
<1> DEFINE m == a \div Interval
           k == b \div Interval
<1>1. m \in Int /\ k \in Int /\ a = Interval * m /\ b = Interval * k
  BY ListAssumptions, EC!Division
<1> HIDE DEF m, k
<1>2. k - m \in Int /\ Interval * (k - m) = b - a
  BY <1>1
<1>3. k - m >= 1
  <2>1. ASSUME k - m <= 0 PROVE FALSE
    <3>1. Interval * (k - m) <= 0
      BY <1>2, <2>1
    <3> QED BY <1>2, <3>1
  <2> QED BY <1>2, <2>1
<1>4. Interval * (k - m) >= Interval
  BY <1>2, <1>3
<1> QED BY <1>2, <1>4

LEMMA ChainInit == Init => ChainInv
<1> SUFFICES ASSUME Init PROVE ChainInv
  OBVIOUS
<1> USE BlocksAre
<1> DEFINE m == DepositBlock \div Interval
<1>1. m \in Nat /\ DepositBlock % Interval \in 1 .. (Interval - 1)
      /\ DepositBlock = (Interval * m) + (DepositBlock % Interval)
  <2>1. DepositBlock % Interval # 0
    BY HistoryAssumption
  <2>2. m \in Int /\ DepositBlock % Interval \in 0 .. (Interval - 1)
        /\ DepositBlock = (Interval * m) + (DepositBlock % Interval)
    BY ListAssumptions, EC!Division
  <2>3. m \in Nat
    OBVIOUS
  <2> HIDE DEF m
  <2> QED BY <2>1, <2>2, <2>3
<1>2. current = Interval * m
  BY DEF Init
<1>3. current \in Nat /\ current < DepositBlock /\ DepositBlock < current + Interval
  <2> HIDE DEF m
  <2> QED BY <1>1, <1>2
<1>4. current % Interval = 0
  <2>1. current = (Interval * m) + 0 /\ m \in Int /\ 0 \in 0 .. (Interval - 1) /\ current \in Int
    BY <1>1, <1>2, <1>3
  <2> HIDE DEF m
  <2> QED BY <2>1, ListAssumptions, EC!DivisionUnique
<1>5. current \in {0} \cup PlasmaBlocks
  BY <1>3, <1>4 DEF PlasmaBlocks
<1> HIDE DEF m
<1>6. PICK owner \in {"me", "other"} :
        txs = [b \in Blocks |-> IF b = DepositBlock
                                THEN [prev |-> 0, to |-> owner] ELSE NoTx]
  BY DEF Init
<1>7. /\ txs \in [Blocks -> [prev : {0} \cup Blocks, to : {"me", "other", "nobody"}]]
      /\ txs[DepositBlock] = [prev |-> 0, to |-> owner]
      /\ TxBlocks = {DepositBlock}
  BY <1>6 DEF TxBlocks, NoTx
<1> QED BY <1>3, <1>5, <1>7 DEF Init, ChainInv, InStep

LEMMA ChainStep ==
  ASSUME ChainInv, DataInv, [Next]_vars
  PROVE  ChainInv'
<1> USE BlocksAre
<1>1. CASE FinalizeBlock
  <2> DEFINE next == current + Interval
  <2>1. /\ next \in PlasmaBlocks /\ current < next /\ DepositBlock < next
        /\ current' = next /\ txs[next] = NoTx /\ pending' = {}
        /\ roots' = IF profile.lag THEN roots ELSE roots \cup {next}
    BY <1>1, Finalized
  <2>2. \/ txs' = txs
        \/ \E p \in pending : txs' = [txs EXCEPT ![next] = p]
    BY <1>1, Finalized
  <2>3. current \in Nat /\ next \in Nat /\ next = current + Interval /\ (current % Interval = 0)
    <3>1. 0 % Interval = 0
      OBVIOUS
    <3> QED BY <2>1, <3>1 DEF ChainInv, PlasmaBlocks
  <2> HIDE DEF next
  <2>4. profile' = profile /\ current' \in PlasmaBlocks /\ DepositBlock < current' + Interval
    BY <1>1, <2>1, <2>3 DEF FinalizeBlock
  <2>5. txs' \in [Blocks -> [prev : {0} \cup Blocks, to : {"me", "other", "nobody"}]]
    <3>1. \A p \in pending : p \in [prev : {0} \cup Blocks, to : {"me", "other", "nobody"}]
      BY DEF ChainInv
    <3>2. txs \in [Blocks -> [prev : {0} \cup Blocks, to : {"me", "other", "nobody"}]]
      BY DEF ChainInv
    <3> QED BY <2>2, <3>1, <3>2
  <2>6. txs'[DepositBlock].prev = 0 /\ txs'[DepositBlock].to # "nobody"
    <3>1. Known(DepositBlock)
      BY DEF Known
    <3>2. txs'[DepositBlock] = txs[DepositBlock]
      BY <3>1, ChainGrows
    <3> QED BY <3>2 DEF ChainInv
  <2>7. ASSUME NEW b \in TxBlocks', b # DepositBlock
        PROVE  DepositBlock < b /\ b <= current' /\ txs'[b].prev # 0 /\ txs'[b].to # "nobody"
    <3>1. b \in Blocks /\ txs'[b] # NoTx
      BY <2>7 DEF TxBlocks
    <3>2. CASE b = next
      <4>1. PICK p \in pending : txs' = [txs EXCEPT ![next] = p]
        BY <2>1, <2>2, <3>1, <3>2
      <4>2. txs'[b] = p
        BY <3>1, <3>2, <4>1 DEF ChainInv
      <4>3. p \in [prev : Blocks, to : {"me", "other"}]
        BY DEF ChainInv
      <4> QED BY <2>1, <2>3, <3>2, <4>2, <4>3
    <3>3. CASE b # next
      <4>1. txs'[b] = txs[b]
        BY <2>2, <3>1, <3>3 DEF ChainInv
      <4>2. b \in TxBlocks
        BY <3>1, <4>1 DEF TxBlocks
      <4>3. DepositBlock < b /\ b <= current /\ txs[b].prev # 0 /\ txs[b].to # "nobody"
        BY <2>7, <4>2 DEF ChainInv
      <4> QED BY <2>1, <2>3, <3>1, <4>1, <4>3
    <3> QED BY <3>2, <3>3
  <2>8. roots' \subseteq {b \in PlasmaBlocks : b <= current'}
    <3>1. \A b \in roots : b \in PlasmaBlocks /\ b <= current'
      <4>1. \A b \in roots : b \in PlasmaBlocks /\ b \in Nat /\ b <= current
        BY DEF ChainInv, PlasmaBlocks
      <4> QED BY <2>1, <2>3, <4>1
    <3>2. next <= current'
      BY <2>1, <2>3
    <3> QED BY <2>1, <3>1, <3>2
  <2>9. ASSUME InStep', NEW b \in PlasmaBlocks, b <= current'
        PROVE  b \in roots'
    <3>1. b \in Nat /\ b % Interval = 0
      BY DEF PlasmaBlocks
    <3>2. CASE b <= current
      <4>1. b \in roots
        BY <1>1, <3>2 DEF FinalizeBlock
      <4> QED BY <2>1, <4>1
    <3>3. CASE current < b
      <4>1. b = next
        BY <2>1, <2>3, <2>9, <3>1, <3>3, NoneBetween
      <4>2. ~ profile.lag
        BY <2>4, <2>9 DEF InStep
      <4> QED BY <2>1, <4>1, <4>2
    <3> QED BY <2>3, <3>1, <3>2, <3>3
  <2>10. profile' \in Profiles /\ current' \in {0} \cup PlasmaBlocks
         /\ pending' \subseteq [prev : Blocks, to : {"me", "other"}]
         /\ \A p, q \in pending' : p = q
    BY <2>1, <2>4 DEF ChainInv
  <2> QED BY <2>4, <2>5, <2>6, <2>7, <2>8, <2>9, <2>10 DEF ChainInv
<1>2. CASE SubmitRoot
  <2>1. PICK c \in PlasmaBlocks : c <= current /\ roots' = roots \cup {c}
    BY <1>2 DEF SubmitRoot, RootOf
  <2>2. UNCHANGED <<profile, txs, current, pending>>
    BY <1>2 DEF SubmitRoot
  <2>3. TxBlocks' = TxBlocks /\ (InStep' <=> InStep)
    BY <2>2 DEF TxBlocks, InStep
  <2> QED BY <2>1, <2>2, <2>3 DEF ChainInv
<1>3. ASSUME UNCHANGED <<profile, txs, current, roots>>,
             NEW b \in Blocks, NEW to \in {"me", "other"},
             pending' = {[prev |-> b, to |-> to]} \/ pending' = pending
      PROVE  ChainInv'
  <2>1. TxBlocks' = TxBlocks /\ (InStep' <=> InStep)
    BY <1>3 DEF TxBlocks, InStep
  <2>2. pending' \subseteq [prev : Blocks, to : {"me", "other"}] /\ \A p, q \in pending' : p = q
    BY <1>3 DEF ChainInv
  <2> QED BY <1>3, <2>1, <2>2 DEF ChainInv
<1>4. CASE OtherSends
  <2>1. Latest \in Blocks
    BY LatestIs
  <2> QED BY <1>3, <1>4, <2>1 DEF OtherSends
<1>5. CASE Spend
  BY <1>3, <1>5, FoundIsBlock DEF Spend
<1>6. CASE UNCHANGED chainVars
  BY <1>3, <1>6 DEF chainVars
<1>7. FinalizeBlock \/ SubmitRoot \/ OtherSends \/ Spend \/ UNCHANGED chainVars
  BY DEF Next, vars, chainVars, ReceiveReads, AfterDeposit, Verified, Received,
         PollEnds, OnSubmittedBlock, AddRow, StartSpend, SpendReads, OnConfirmBlock, Restart
<1> QED BY <1>1, <1>2, <1>4, <1>5, <1>6, <1>7

-----------------------------------------------------------------------------
(* The tasks *)

\* What becomes of a task: nothing, or it ends, begins, reads (and stores the row of
\* the block it has read) or verifies.
Moved(task, then) ==
  \/ then = task \/ then = Idle \/ then = Scan
  \/ task.pc = "root" /\ then = ReadRoot(task)
  \/ task.pc = "tx" /\ StoreRow(task.blocks[task.i]) /\ then = ReadTx(task)
  \/ task.pc = "verify" /\ Valid(task) /\ then = [task EXCEPT !.pc = "valid"]
  \/ task.pc = "verify" /\ ~ Valid(task) /\ then = [task EXCEPT !.pc = "invalid"]

LEMMA TasksMove ==
  ASSUME TasksInv, [Next]_vars
  PROVE  /\ Moved(spend, spend') /\ DOMAIN receive' = Receivers
         /\ receive' = [r \in Receivers |-> receive'[r]]
         /\ \A r \in Receivers : Moved(receive[r], receive'[r])
<1>1. receive = [r \in Receivers |-> receive[r]]
  BY DEF TasksInv
<1>2. Moved(spend, spend)  /\ \A r \in Receivers : Moved(receive[r], receive[r])
  BY DEF Moved
<1>3. ASSUME NEW q \in Receivers, NEW then, receive' = [receive EXCEPT ![q] = then],
             Moved(receive[q], then), spend' = spend
      PROVE  /\ Moved(spend, spend') /\ DOMAIN receive' = Receivers
             /\ receive' = [r \in Receivers |-> receive'[r]]
             /\ \A r \in Receivers : Moved(receive[r], receive'[r])
  <2>1. /\ DOMAIN receive' = Receivers
        /\ receive' = [r \in Receivers |-> receive'[r]]
    BY <1>1, <1>3
  <2>2. ASSUME NEW r \in Receivers PROVE Moved(receive[r], receive'[r])
    <3>1. CASE r = q
      <4>1. receive'[r] = then
        BY <1>1, <1>3, <3>1
      <4> QED BY <1>3, <3>1, <4>1
    <3>2. CASE r # q
      <4>1. receive'[r] = receive[r]
        BY <1>1, <1>3, <3>2
      <4> QED BY <1>2, <4>1
    <3> QED BY <3>1, <3>2
  <2> QED BY <1>2, <1>3, <2>1, <2>2
<1>4. ASSUME receive' = receive, Moved(spend, spend')
      PROVE  /\ Moved(spend, spend') /\ DOMAIN receive' = Receivers
             /\ receive' = [r \in Receivers |-> receive'[r]]
             /\ \A r \in Receivers : Moved(receive[r], receive'[r])
  BY <1>1, <1>2, <1>4
<1>5. CASE \E r \in Receivers : ReceiveReads(r)
  <2>1. PICK r \in Receivers : ReceiveReads(r)
    BY <1>5
  <2>2. CASE receive[r].pc = "root"
    <3>1. receive' = [receive EXCEPT ![r] = ReadRoot(receive[r])] /\ spend' = spend
      BY <2>1, <2>2 DEF ReceiveReads
    <3>2. Moved(receive[r], ReadRoot(receive[r]))
      BY <2>2 DEF Moved
    <3> QED BY <1>3, <3>1, <3>2
  <2>3. CASE receive[r].pc = "tx"
    <3>1. /\ receive' = [receive EXCEPT ![r] = ReadTx(receive[r])] /\ spend' = spend
          /\ StoreRow(receive[r].blocks[receive[r].i])
      BY <2>1, <2>3 DEF ReceiveReads
    <3>2. Moved(receive[r], ReadTx(receive[r]))
      BY <2>3, <3>1 DEF Moved
    <3> QED BY <1>3, <3>1, <3>2
  <2> QED BY <2>1, <2>2, <2>3 DEF ReceiveReads
<1>6. ASSUME NEW r \in Receivers, Begin(r), spend' = spend
      PROVE  /\ Moved(spend, spend') /\ DOMAIN receive' = Receivers
             /\ receive' = [q \in Receivers |-> receive'[q]]
             /\ \A q \in Receivers : Moved(receive[q], receive'[q])
  <2>1. Moved(receive[r], Scan)
    BY DEF Moved
  <2> QED BY <1>3, <1>6, <2>1 DEF Begin
<1>7. CASE \E r \in Receivers : Verified(r)
  <2>1. PICK r \in Receivers : Verified(r)
    BY <1>7
  <2> DEFINE then == [receive[r] EXCEPT !.pc = IF Valid(receive[r]) THEN "valid" ELSE "invalid"]
  <2>2. /\ receive' = [receive EXCEPT ![r].pc = IF Valid(receive[r]) THEN "valid" ELSE "invalid"]
        /\ spend' = spend /\ receive[r].pc = "verify"
    BY <2>1 DEF Verified
  <2>3. receive' = [receive EXCEPT ![r] = then]
    BY <2>2
  <2>4. Moved(receive[r], then)
    BY <2>2 DEF Moved
  <2> HIDE DEF then
  <2> QED BY <1>3, <2>2, <2>3, <2>4
<1>8. CASE \E r \in Receivers : Received(r)
  <2>1. PICK r \in Receivers : Received(r)
    BY <1>8
  <2>2. Moved(receive[r], Idle)
    BY DEF Moved
  <2> QED BY <1>3, <2>1, <2>2 DEF Received
<1>9. CASE StartSpend \/ SpendReads \/ Spend
  <2>1. Moved(spend, Scan) /\ Moved(spend, Idle)
    BY DEF Moved
  <2>2. spend.pc = "root" => Moved(spend, ReadRoot(spend))
    BY DEF Moved
  <2>3. spend.pc = "tx" /\ StoreRow(spend.blocks[spend.i]) => Moved(spend, ReadTx(spend))
    BY DEF Moved
  <2> QED BY <1>4, <1>9, <2>1, <2>2, <2>3 DEF StartSpend, SpendReads, Spend
<1>10. CASE Restart
  <2>1. Moved(spend, Idle) /\ \A r \in Receivers : Moved(receive[r], Idle)
    BY DEF Moved
  <2>2. spend' = Idle /\ receive' = [r \in Receivers |-> Idle]
    BY <1>10 DEF Restart
  <2> QED BY <2>1, <2>2
<1>11. CASE \E r \in Receivers : AfterDeposit(r)
  BY <1>6, <1>11 DEF AfterDeposit
<1>12. CASE OnSubmittedBlock
  <2>1. spend' = spend /\ (receive' = receive \/ \E r \in Receivers : Begin(r))
    BY <1>12 DEF OnSubmittedBlock
  <2> QED BY <1>2, <1>4, <1>6, <2>1
<1>13. CASE \/ FinalizeBlock \/ SubmitRoot \/ OtherSends \/ PollEnds \/ AddRow
            \/ OnConfirmBlock \/ UNCHANGED vars
  <2>1. receive' = receive /\ spend' = spend
    BY <1>13 DEF FinalizeBlock, SubmitRoot, OtherSends, PollEnds, AddRow, OnConfirmBlock, vars
  <2> QED BY <1>2, <1>4, <2>1
<1> QED BY <1>5, <1>7, <1>8, <1>9, <1>10, <1>11, <1>12, <1>13 DEF Next

\* A new task.
LEMMA ScanIs ==
  Scan = [pc |-> "root", blocks |-> GetBlockNumbers(DepositBlock, current),
          i |-> 1, rooted |-> FALSE, seen |-> {}]
<1> DEFINE blocks == GetBlockNumbers(DepositBlock, current)
<1>1. Scan = [Idle EXCEPT !.pc = "root", !.blocks = blocks]
  BY DEF Scan
<1> HIDE DEF blocks
<1>2. Scan = [pc |-> "root", blocks |-> blocks, i |-> 1, rooted |-> FALSE, seen |-> {}]
  BY <1>1 DEF Idle
<1> QED BY <1>2 DEF blocks

\* A task that moves reads on, in its list or in a new one.
LEMMA TaskMoves ==
  ASSUME ChainInv, NEW task, TaskInv(task), NEW then, Moved(task, then)
  PROVE  TaskInv(then)
<1> USE BlocksAre
<1>1. task \in Tasks
  BY DEF TaskInv
<1>2. TaskInv(Idle)
  BY DEF TaskInv, Idle, Tasks
<1>3. TaskInv(Scan)
  <2> DEFINE blocks == GetBlockNumbers(DepositBlock, current)
  <2>1. /\ blocks \in Seq(Blocks) /\ Len(blocks) \in Nat \ {0} /\ blocks[1] = DepositBlock
        /\ \A j \in 1 .. Len(blocks) : Known(blocks[j])
    BY Listing
  <2> HIDE DEF blocks
  <2>2. Scan = [pc |-> "root", blocks |-> blocks, i |-> 1, rooted |-> FALSE, seen |-> {}]
    BY ScanIs DEF blocks
  <2> QED BY <2>1, <2>2 DEF TaskInv, Tasks
<1>4. ASSUME task.pc = "root" PROVE TaskInv(ReadRoot(task))
  <2>1. Rooted(task.blocks[task.i]) \in BOOLEAN
    BY DEF Rooted
  <2>2. ReadRoot(task) = [task EXCEPT !.pc = "tx", !.rooted = Rooted(task.blocks[task.i])]
    BY DEF ReadRoot
  <2> DEFINE root == Rooted(task.blocks[task.i])
  <2> HIDE DEF root
  <2>3. ReadRoot(task) = [pc |-> "tx", blocks |-> task.blocks, i |-> task.i,
                          rooted |-> root, seen |-> task.seen]
    BY <1>1, <2>2 DEF Tasks, root
  <2>4. root \in BOOLEAN
    BY <2>1 DEF root
  <2> QED BY <1>1, <1>4, <2>3, <2>4 DEF TaskInv, Tasks
<1>5. ASSUME task.pc = "tx" PROVE TaskInv(ReadTx(task))
  <2> DEFINE b == task.blocks[task.i]
             more == IF txs[b] # NoTx /\ task.rooted THEN task.seen \cup {b} ELSE task.seen
             pc == IF task.i < Len(task.blocks) THEN "root" ELSE "verify"
  <2>1. ReadTx(task) = [pc |-> pc, blocks |-> task.blocks, i |-> task.i + 1,
                        rooted |-> task.rooted, seen |-> more]
    <3>1. ReadTx(task) = [task EXCEPT !.pc = pc, !.i = task.i + 1, !.seen = more]
      BY DEF ReadTx
    <3> HIDE DEF b, more, pc
    <3> QED BY <1>1, <3>1 DEF Tasks
  <2>2. /\ task.i \in 1 .. Len(task.blocks) /\ task.i \in Nat /\ Len(task.blocks) \in Nat
        /\ task.blocks[1] = DepositBlock /\ b \in Blocks /\ task.seen \subseteq Blocks
        /\ task.blocks \in Seq(Blocks) /\ task.rooted \in BOOLEAN
    BY <1>1, <1>5 DEF TaskInv, Tasks
  <2>3. more \subseteq Blocks
    BY <2>2
  <2>4. /\ pc = "root" => task.i + 1 \in 1 .. Len(task.blocks)
        /\ pc = "verify" => task.i + 1 = Len(task.blocks) + 1
        /\ pc \in {"root", "verify"}
    BY <2>2
  <2>5. \A j \in 1 .. Len(task.blocks) : Known(task.blocks[j])
    BY DEF TaskInv
  <2> HIDE DEF b, more, pc
  <2>6. ReadTx(task) \in Tasks
    BY <2>1, <2>2, <2>3, <2>4 DEF Tasks
  <2> QED BY <2>1, <2>2, <2>4, <2>5, <2>6 DEF TaskInv
<1>6. ASSUME NEW pc \in {"valid", "invalid"}, task.pc = "verify"
      PROVE  TaskInv([task EXCEPT !.pc = pc])
  <2>1. [task EXCEPT !.pc = pc] = [pc |-> pc, blocks |-> task.blocks, i |-> task.i,
                                   rooted |-> task.rooted, seen |-> task.seen]
    BY <1>1 DEF Tasks
  <2> QED BY <1>1, <1>6, <2>1 DEF TaskInv, Tasks
<1> QED BY <1>2, <1>3, <1>4, <1>5, <1>6 DEF Moved

LEMMA TasksStep ==
  ASSUME ChainInv, TasksInv, [Next]_vars
  PROVE  TasksInv'
<1>1. ASSUME NEW task, TaskInv(task) PROVE TaskInv(task)'
  BY <1>1, ChainGrows DEF TaskInv
<1>2. TaskInv(spend')
  BY TasksMove, TaskMoves DEF TasksInv
<1>3. ASSUME NEW r \in Receivers PROVE TaskInv(receive'[r])
  BY TasksMove, TaskMoves DEF TasksInv
<1>4. TaskInv(spend)'
  <2>1. PICK task : task = spend'
    OBVIOUS
  <2>2. TaskInv(task)'
    BY <1>1, <1>2, <2>1
  <2> QED BY <2>1, <2>2 DEF TaskInv, Known
<1>5. ASSUME NEW r \in Receivers PROVE TaskInv(receive[r])'
  <2>1. PICK task : task = receive'[r]
    OBVIOUS
  <2>2. TaskInv(task)'
    BY <1>1, <1>3, <2>1
  <2> QED BY <2>1, <2>2 DEF TaskInv, Known
<1>6. receive' \in [Receivers -> Tasks]
  <2>1. \A r \in Receivers : receive'[r] \in Tasks
    BY <1>3 DEF TaskInv
  <2> QED BY <2>1, TasksMove
<1> QED BY <1>4, <1>5, <1>6 DEF TasksInv

-----------------------------------------------------------------------------
(* The rows *)

Row == [block : Blocks, prev : {0} \cup Blocks, included : BOOLEAN]
RowOf(b) == [block |-> b, prev |-> txs[b].prev, included |-> txs[b] # NoTx /\ Rooted(b)]

\* Storing the row of a block: there is one already, or it comes last.
LEMMA Stored ==
  ASSUME ChainInv, DataInv, NEW b, Known(b), StoreRow(b)
  PROVE  /\ RowOf(b) \in Row /\ rows' \in Seq(Row)
         /\ \/ HasRow(b) /\ rows' = rows
            \/ /\ ~ HasRow(b) /\ Len(rows') = Len(rows) + 1
               /\ rows'[Len(rows) + 1] = RowOf(b)
               /\ \A k \in 1 .. Len(rows) : rows'[k] = rows[k]
<1>1. RowOf(b) \in Row
  <2>1. b \in Blocks
    BY DEF Known
  <2>2. txs[b].prev \in {0} \cup Blocks
    BY <2>1 DEF ChainInv
  <2>3. Rooted(b) \in BOOLEAN
    BY DEF Rooted
  <2> QED BY <2>1, <2>2, <2>3 DEF Row, RowOf
<1>2. rows \in Seq(Row)
  BY DEF DataInv, Row
<1>3. rows' = IF HasRow(b) THEN rows ELSE Append(rows, RowOf(b))
  BY DEF StoreRow, RowOf
<1> QED BY <1>1, <1>2, <1>3

\* What becomes of the rows: nothing, or a task or the handler of a block stores one,
\* or an invalid coin's go.
LEMMA RowsCome ==
  ASSUME TasksInv, [Next]_vars
  PROVE  \/ rows' = rows
         \/ \E task : /\ TaskInv(task) /\ (task = spend \/ \E r \in Receivers : task = receive[r])
                      /\ task.pc = "tx" /\ StoreRow(task.blocks[task.i])
         \/ \E b \in adding : StoreRow(b)
         \/ rows' = <<>> /\ \E r \in Receivers : receive[r].pc = "invalid"
<1>1. CASE \E r \in Receivers : ReceiveReads(r)
  BY <1>1 DEF ReceiveReads, TasksInv
<1>2. CASE SpendReads
  BY <1>2 DEF SpendReads, TasksInv
<1>3. CASE AddRow
  BY <1>3 DEF AddRow
<1>4. CASE \E r \in Receivers : Received(r)
  BY <1>4 DEF Received
<1>5. ASSUME ~ (\E r \in Receivers : ReceiveReads(r) \/ Received(r)), ~ SpendReads, ~ AddRow
      PROVE  rows' = rows
  BY <1>5 DEF Next, vars, chainVars, dbVars, FinalizeBlock, SubmitRoot, OtherSends, AfterDeposit,
       Verified, PollEnds, OnSubmittedBlock, StartSpend, Spend, OnConfirmBlock, Restart
<1> QED BY <1>1, <1>2, <1>3, <1>4, <1>5

LEMMA RowsMove ==
  ASSUME ChainInv, DataInv, TasksInv, [Next]_vars
  PROVE  \/ rows' = rows
         \/ \E b : Known(b) /\ StoreRow(b)
         \/ rows' = <<>> /\ \E r \in Receivers : receive[r].pc = "invalid"
<1>1. ASSUME NEW task, TaskInv(task), task.pc = "tx" PROVE Known(task.blocks[task.i])
  BY <1>1 DEF TaskInv
<1>2. \A b \in adding : Known(b)
  BY BlocksAre DEF DataInv, ChainInv, Known
<1> QED BY <1>1, <1>2, RowsCome

LEMMA DataInit == Init => DataInv /\ TasksInv
<1> SUFFICES ASSUME Init PROVE DataInv /\ TasksInv
  OBVIOUS
<1>1. TaskInv(Idle)
  BY DEF TaskInv, Idle, Tasks
<1>2. TasksInv
  <2>1. receive = [r \in Receivers |-> Idle] /\ spend = Idle
    BY DEF Init
  <2>2. Idle \in Tasks
    BY <1>1 DEF TaskInv
  <2> QED BY <1>1, <2>1, <2>2 DEF TasksInv
<1>3. DataInv
  <2>1. polling \in BOOLEAN
    BY DEF Init
  <2>2. rows \in Seq([block : Blocks, prev : {0} \cup Blocks, included : BOOLEAN]) /\ Len(rows) = 0
    BY DEF Init
  <2>3. /\ news = {} /\ adding = {} /\ confirm = {} /\ saved = None
        /\ savedBN \in BOOLEAN /\ watched \in BOOLEAN
    BY DEF Init
  <2>4. \A k \in 1 .. Len(rows) : Known(rows[k].block)
    BY <2>2
  <2> QED BY <2>1, <2>2, <2>3, <2>4 DEF DataInv
<1> QED BY <1>2, <1>3

LEMMA DataStep ==
  ASSUME ChainInv, DataInv, TasksInv, [Next]_vars
  PROVE  DataInv'
<1> USE BlocksAre
<1>1. news' \subseteq roots' /\ adding' \subseteq roots' /\ confirm' \subseteq {0} \cup roots'
  <2>1. /\ news \subseteq roots' /\ adding \subseteq roots' /\ confirm \subseteq {0} \cup roots'
        /\ roots \subseteq roots' /\ LastRoot \in {0} \cup roots'
    BY ChainGrows, LastRootIs DEF DataInv
  <2>2. news' \subseteq roots'
    <3>1. CASE FinalizeBlock \/ SubmitRoot
      BY <2>1, <3>1 DEF FinalizeBlock, SubmitRoot, RootOf
    <3>2. CASE OnSubmittedBlock \/ Restart
      BY <2>1, <3>2 DEF OnSubmittedBlock, Restart
    <3>3. CASE news' = news
      BY <2>1, <3>3
    <3>4. FinalizeBlock \/ SubmitRoot \/ OnSubmittedBlock \/ Restart \/ news' = news
      BY DEF Next, vars, chainVars, OtherSends, ReceiveReads, AfterDeposit, Verified, Received,
             PollEnds, AddRow, StartSpend, SpendReads, Spend, OnConfirmBlock
    <3> QED BY <3>1, <3>2, <3>3, <3>4
  <2>3. adding' \subseteq roots'
    <3>1. CASE OnSubmittedBlock
      BY <2>1, <3>1 DEF OnSubmittedBlock
    <3>2. CASE OnConfirmBlock
      BY <2>1, <3>2 DEF OnConfirmBlock
    <3>3. CASE AddRow \/ Restart
      BY <2>1, <3>3 DEF AddRow, Restart
    <3>4. CASE adding' = adding
      BY <2>1, <3>4
    <3>5. OnSubmittedBlock \/ OnConfirmBlock \/ AddRow \/ Restart \/ adding' = adding
      BY DEF Next, vars, chainVars, FinalizeBlock, SubmitRoot, OtherSends, ReceiveReads,
             AfterDeposit, Verified, Received, PollEnds, StartSpend, SpendReads, Spend
    <3> QED BY <3>1, <3>2, <3>3, <3>4, <3>5
  <2>4. confirm' \subseteq {0} \cup roots'
    <3>1. CASE Spend \/ OnConfirmBlock \/ Restart
      BY <2>1, <3>1 DEF Spend, OnConfirmBlock, Restart
    <3>2. CASE confirm' = confirm
      BY <2>1, <3>2
    <3>3. Spend \/ OnConfirmBlock \/ Restart \/ confirm' = confirm
      BY DEF Next, vars, chainVars, FinalizeBlock, SubmitRoot, OtherSends, ReceiveReads,
             AfterDeposit, Verified, Received, PollEnds, OnSubmittedBlock, AddRow, StartSpend,
             SpendReads
    <3> QED BY <3>1, <3>2, <3>3
  <2> QED BY <2>2, <2>3, <2>4
<1>2. /\ rows' \in Seq([block : Blocks, prev : {0} \cup Blocks, included : BOOLEAN])
      /\ \A k \in 1 .. Len(rows') : Known(rows[k].block)'
  <2>1. rows \in Seq(Row) /\ \A k \in 1 .. Len(rows) : Known(rows[k].block)
    BY DEF DataInv, Row
  <2>2. ASSUME NEW b, Known(b) PROVE b \in Blocks /\ (b = DepositBlock \/ b <= current')
    BY <2>2, ChainGrows DEF Known
  <2>3. rows' \in Seq(Row) /\ \A k \in 1 .. Len(rows') : Known(rows'[k].block)
    <3>1. CASE rows' = rows
      BY <2>1, <3>1
    <3>2. CASE \E b : Known(b) /\ StoreRow(b)
      <4>1. PICK b : Known(b) /\ StoreRow(b)
        BY <3>2
      <4>2. ASSUME NEW k \in 1 .. Len(rows') PROVE Known(rows'[k].block)
        <5>1. CASE rows' = rows
          BY <2>1, <5>1
        <5>2. CASE Len(rows') = Len(rows) + 1 /\ rows'[Len(rows) + 1] = RowOf(b)
                   /\ \A j \in 1 .. Len(rows) : rows'[j] = rows[j]
          <6>1. Len(rows) \in Nat
            BY <2>1
          <6>2. k \in 1 .. Len(rows) \/ k = Len(rows) + 1
            BY <5>2, <6>1
          <6>3. RowOf(b).block = b
            BY DEF RowOf
          <6> QED BY <2>1, <4>1, <5>2, <6>2, <6>3
        <5> QED BY <4>1, <5>1, <5>2, Stored
      <4> QED BY <4>1, <4>2, Stored
    <3>3. CASE rows' = <<>>
      BY <3>3
    <3> QED BY <3>1, <3>2, <3>3, RowsMove
  <2> QED BY <2>2, <2>3 DEF Known, Row
<1>3. saved' \in {None} \cup Blocks /\ savedBN' \in BOOLEAN /\ watched' \in BOOLEAN
      /\ polling' \in BOOLEAN
  <2>1. CASE \E r \in Receivers : Received(r)
    <3> DEFINE blocks == GetBlockNumbers(DepositBlock, current)
    <3>1. saved' = blocks[Len(blocks)] /\ savedBN' = TRUE /\ watched' \in BOOLEAN /\ polling' = polling
      BY <2>1 DEF Received
    <3>2. blocks \in Seq(Blocks) /\ Len(blocks) \in Nat \ {0}
      BY Listing
    <3> HIDE DEF blocks
    <3> QED BY <3>1, <3>2 DEF DataInv
  <2>2. CASE Restart
    BY <2>2 DEF Restart, DataInv
  <2>3. CASE UNCHANGED <<saved, savedBN>> /\ watched' \in {watched, FALSE} /\ polling' \in {polling, FALSE}
    BY <2>3 DEF DataInv
  <2>4. \/ \E r \in Receivers : Received(r)
        \/ Restart
        \/ UNCHANGED <<saved, savedBN>> /\ watched' \in {watched, FALSE} /\ polling' \in {polling, FALSE}
    BY DEF Next, vars, dbVars, FinalizeBlock, SubmitRoot, OtherSends, ReceiveReads, AfterDeposit,
           Verified, PollEnds, OnSubmittedBlock, AddRow, StartSpend, SpendReads, Spend, OnConfirmBlock
  <2> QED BY <2>1, <2>2, <2>3, <2>4
<1> QED BY <1>1, <1>2, <1>3 DEF DataInv

HistoryInv == ChainInv /\ DataInv /\ TasksInv

LEMMA HistoryAlways == Spec => []HistoryInv
<1>1. Init => HistoryInv
  BY ChainInit, DataInit DEF HistoryInv
<1>2. HistoryInv /\ [Next]_vars => HistoryInv'
  BY ChainStep, DataStep, TasksStep DEF HistoryInv
<1> QED BY <1>1, <1>2, PTL DEF Spec

\* The state of the coin's history is well formed (TypeOK): in particular a task
\* never reads past its list of blocks, and the coin has at most one transaction
\* waiting for the next block.
THEOREM TypeCorrect == Spec => []TypeOK
<1>1. HistoryInv => TypeOK
  <2> SUFFICES ASSUME HistoryInv PROVE TypeOK
    OBVIOUS
  <2> USE BlocksAre DEF HistoryInv
  <2>1. Cardinality(pending) <= 1
    <3>1. CASE pending = {}
      BY <3>1, FS_EmptySet
    <3>2. CASE pending # {}
      <4>1. PICK p : pending = {p}
        BY <3>2 DEF ChainInv
      <4>2. Cardinality({p}) = 1
        BY FS_Singleton
      <4> QED BY <4>1, <4>2
    <3> QED BY <3>1, <3>2
  <2>2. roots \subseteq PlasmaBlocks /\ confirm \subseteq {0} \cup PlasmaBlocks
        /\ news \cup adding \subseteq PlasmaBlocks
    BY DEF ChainInv, DataInv
  <2>3. receive \in [Receivers -> Tasks] /\ spend \in Tasks
    BY DEF TasksInv, TaskInv
  <2>4. \A task \in {spend} \cup {receive[r] : r \in Receivers} :
           task.pc \in {"root", "tx"} => task.i \in 1 .. Len(task.blocks)
    BY DEF TasksInv, TaskInv
  <2>5. /\ txs \in [Blocks -> [prev : {0} \cup Blocks, to : {"me", "other", "nobody"}]]
        /\ profile \in Profiles /\ current \in {0} \cup PlasmaBlocks
    BY DEF ChainInv
  <2>6. /\ rows \in Seq([block : Blocks, prev : {0} \cup Blocks, included : BOOLEAN])
        /\ saved \in {None} \cup Blocks
        /\ {savedBN, watched, polling} \subseteq BOOLEAN
    BY DEF DataInv
  <2> QED BY <2>1, <2>2, <2>3, <2>4, <2>5, <2>6 DEF TypeOK
<1> QED BY <1>1, HistoryAlways, PTL

\* However reads, handlers and receipts interleave, the database never has two rows
\* of one block (OneRowPerBlock).
THEOREM RowsAreUnique == Spec => []OneRowPerBlock
<1>1. Init => OneRowPerBlock
  <2> SUFFICES ASSUME Init PROVE OneRowPerBlock
    OBVIOUS
  <2>1. Len(rows) = 0
    BY DEF Init
  <2> QED BY <2>1 DEF OneRowPerBlock
<1>2. HistoryInv /\ OneRowPerBlock /\ [Next]_vars => OneRowPerBlock'
  <2> SUFFICES ASSUME HistoryInv, OneRowPerBlock, [Next]_vars PROVE OneRowPerBlock'
    OBVIOUS
  <2>1. CASE rows' = rows
    BY <2>1 DEF OneRowPerBlock
  <2>2. ASSUME NEW b, ~ HasRow(b), Len(rows') = Len(rows) + 1, rows'[Len(rows) + 1] = RowOf(b),
               \A k \in 1 .. Len(rows) : rows'[k] = rows[k],
               NEW i \in 1 .. Len(rows'), NEW j \in 1 .. Len(rows'),
               rows'[i].block = rows'[j].block
        PROVE  i = j
    <3>1. Len(rows) \in Nat
      BY DEF HistoryInv, DataInv
    <3>2. (i \in 1 .. Len(rows) \/ i = Len(rows) + 1) /\ (j \in 1 .. Len(rows) \/ j = Len(rows) + 1)
      BY <2>2, <3>1
    <3>3. RowOf(b).block = b /\ \A k \in 1 .. Len(rows) : rows[k].block # b
      BY <2>2 DEF RowOf, HasRow
    <3> QED BY <2>2, <3>2, <3>3 DEF OneRowPerBlock
  <2>3. CASE \E b : Known(b) /\ StoreRow(b)
    <3>1. PICK b : Known(b) /\ StoreRow(b)
      BY <2>3
    <3> QED BY <2>1, <2>2, <3>1, Stored DEF HistoryInv, OneRowPerBlock
  <2>4. CASE rows' = <<>>
    <3>1. Len(rows') = 0
      BY <2>4
    <3> QED BY <3>1 DEF OneRowPerBlock
  <2> QED BY <2>1, <2>3, <2>4, RowsMove DEF HistoryInv
<1> QED BY <1>1, <1>2, HistoryAlways, PTL DEF Spec

\* While roots come with their blocks, every block the client can know of has one.
LEMMA KnownIsRooted ==
  ASSUME ChainInv, InStep, NEW b, Known(b)
  PROVE  Rooted(b)
BY DEF ChainInv, Known, Rooted, Blocks

\* No row in the database claims a transaction the coin does not have, and without
\* late roots none misses one (RowsAreTrue), though the rows are written by tasks
\* and handlers that read their block and its root at different times, and are
\* never corrected.
THEOREM RowsStayTrue == Spec => []RowsAreTrue
<1>1. Init => RowsAreTrue
  <2> SUFFICES ASSUME Init PROVE RowsAreTrue
    OBVIOUS
  <2>1. Len(rows) = 0
    BY DEF Init
  <2> QED BY <2>1 DEF RowsAreTrue
<1>2. HistoryInv /\ RowsAreTrue /\ [Next]_vars => RowsAreTrue'
  <2> SUFFICES ASSUME HistoryInv, RowsAreTrue, [Next]_vars PROVE RowsAreTrue'
    OBVIOUS
  <2> DEFINE True(row) ==
        /\ row.included => txs[row.block] # NoTx /\ Rooted(row.block) /\ row.prev = txs[row.block].prev
        /\ ~ profile.lag /\ txs[row.block] # NoTx => row.included
  <2>1. ASSUME NEW row, Known(row.block), True(row)
        PROVE  /\ row.included => /\ txs'[row.block] # NoTx /\ Rooted(row.block)'
                                  /\ row.prev = txs'[row.block].prev
               /\ ~ profile'.lag /\ txs'[row.block] # NoTx => row.included
    <3>1. txs'[row.block] = txs[row.block] /\ profile' = profile /\ roots \subseteq roots'
      BY <2>1, ChainGrows DEF HistoryInv
    <3>2. Rooted(row.block) => row.block = DepositBlock \/ row.block \in roots'
      BY <3>1 DEF Rooted
    <3>3. (row.block = DepositBlock \/ row.block \in roots') => Rooted(row.block)'
      BY DEF Rooted
    <3> QED BY <2>1, <3>1, <3>2, <3>3
  <2>2. \A k \in 1 .. Len(rows) : Known(rows[k].block) /\ True(rows[k])
    BY DEF HistoryInv, DataInv, RowsAreTrue
  <2>3. ASSUME NEW b, Known(b) PROVE Known(RowOf(b).block) /\ True(RowOf(b))
    <3>1. /\ RowOf(b).block = b /\ RowOf(b).prev = txs[b].prev
          /\ RowOf(b).included <=> (txs[b] # NoTx /\ Rooted(b))
      BY DEF RowOf
    <3>2. ~ profile.lag => Rooted(b)
      BY <2>3, KnownIsRooted DEF HistoryInv, InStep
    <3> QED BY <2>3, <3>1, <3>2
  <2>4. ASSUME NEW k \in 1 .. Len(rows') PROVE Known(rows'[k].block) /\ True(rows'[k])
    <3> HIDE DEF True
    <3>1. CASE rows' = rows
      BY <2>2, <3>1
    <3>2. CASE \E b : Known(b) /\ StoreRow(b)
      <4>1. PICK b : Known(b) /\ StoreRow(b)
        BY <3>2
      <4>2. CASE Len(rows') = Len(rows) + 1 /\ rows'[Len(rows) + 1] = RowOf(b)
                 /\ \A j \in 1 .. Len(rows) : rows'[j] = rows[j]
        <5>1. Len(rows) \in Nat
          BY DEF HistoryInv, DataInv
        <5>2. k \in 1 .. Len(rows) \/ k = Len(rows) + 1
          BY <4>2, <5>1
        <5> QED BY <2>2, <2>3, <4>1, <4>2, <5>2
      <4> QED BY <3>1, <4>1, <4>2, Stored DEF HistoryInv
    <3>3. CASE rows' = <<>>
      BY <3>3
    <3> QED BY <3>1, <3>2, <3>3, RowsMove DEF HistoryInv
  <2> QED BY <2>1, <2>4 DEF RowsAreTrue, Rooted
<1> QED BY <1>1, <1>2, HistoryAlways, PTL DEF Spec

-----------------------------------------------------------------------------
(* What the tasks have read, while roots come with their blocks *)

\* The step that a task which reads takes has a row of the block it read.
LEMMA StoredHas ==
  ASSUME ChainInv, DataInv, NEW b, Known(b), StoreRow(b)
  PROVE  HasRow(b)'
<1>1. CASE HasRow(b) /\ rows' = rows
  BY <1>1 DEF HasRow
<1>2. CASE Len(rows') = Len(rows) + 1 /\ rows'[Len(rows) + 1] = RowOf(b)
  <2>1. Len(rows) \in Nat /\ RowOf(b).block = b
    BY DEF DataInv, RowOf
  <2>2. Len(rows) + 1 \in 1 .. Len(rows')
    BY <1>2, <2>1
  <2> QED BY <1>2, <2>1, <2>2 DEF HasRow
<1> QED BY <1>1, <1>2, Stored

\* No coin is invalid, so rows are only added.
LEMMA RowsGrow ==
  ASSUME HistoryInv, InStep, ReadsInv, [Next]_vars
  PROVE  /\ \A b : HasRow(b) => HasRow(b)'
         /\ rows # <<>> => rows' # <<>> /\ rows'[1] = rows[1]
<1>1. CASE rows' = rows
  BY <1>1 DEF HasRow
<1>2. CASE \E b : Known(b) /\ StoreRow(b)
  <2>1. Len(rows) \in Nat /\ (rows # <<>> => Len(rows) # 0) /\ Len(<<>>) = 0
    BY DEF HistoryInv, DataInv
  <2>2. CASE Len(rows') = Len(rows) + 1 /\ \A k \in 1 .. Len(rows) : rows'[k] = rows[k]
    <3>1. \A b : HasRow(b) => HasRow(b)'
      <4>1. ASSUME NEW b, NEW k \in 1 .. Len(rows), rows[k].block = b PROVE HasRow(b)'
        <5>1. k \in 1 .. Len(rows') /\ rows'[k].block = b
          BY <2>1, <2>2, <4>1
        <5> QED BY <5>1 DEF HasRow
      <4> QED BY <4>1 DEF HasRow
    <3>2. rows # <<>> => rows' # <<>> /\ rows'[1] = rows[1]
      BY <2>1, <2>2
    <3> QED BY <3>1, <3>2
  <2> QED BY <1>1, <1>2, <2>2, Stored DEF HistoryInv
<1>3. ~ \E r \in Receivers : receive[r].pc = "invalid"
  BY DEF ReadsInv, TaskReads
<1> QED BY <1>1, <1>2, <1>3, RowsMove DEF HistoryInv

\* A task that has read all blocks has seen them right.
LEMMA ReadIsValid ==
  ASSUME ChainInv, InStep, NEW task, TaskInv(task), TaskReads(task), task.pc = "verify"
  PROVE  Valid(task)
<1> SUFFICES ASSUME NEW j \in 1 .. Len(task.blocks)
             PROVE  /\ Rooted(task.blocks[j])
                    /\ task.blocks[j] \in task.seen <=> txs[task.blocks[j]] # NoTx
  BY DEF Valid
<1>1. j < task.i
  <2>1. Len(task.blocks) \in Nat /\ task.i = Len(task.blocks) + 1
    BY DEF TaskInv, Tasks
  <2> QED BY <2>1
<1>2. Known(task.blocks[j])
  BY DEF TaskInv
<1>3. task.blocks[j] \in task.seen <=> task.blocks[j] \in TxBlocks
  BY <1>1 DEF TaskReads
<1> QED BY <1>2, <1>3, KnownIsRooted DEF TxBlocks, Known

LEMMA TaskReadsOn ==
  ASSUME HistoryInv, InStep, ReadsInv, [Next]_vars,
         NEW task, TaskInv(task), TaskReads(task), NEW then, Moved(task, then)
  PROVE  TaskReads(then)'
<1> USE DEF HistoryInv
<1>1. \A b : Known(b) => (b \in TxBlocks <=> b \in TxBlocks')
  <2>1. \A b : Known(b) => b \in Blocks
    BY DEF Known
  <2> QED BY <2>1, ChainGrows DEF TxBlocks
<1>2. TxBlocks \subseteq TxBlocks' /\ \A b : HasRow(b) => HasRow(b)'
  BY ChainGrows, RowsGrow
<1>3. ASSUME NEW u, TaskInv(u), u.pc = "tx" => u.rooted, u.pc # "invalid",
             u.seen \subseteq TxBlocks,
             \A j \in 1 .. Len(u.blocks) : j < u.i =>
                /\ HasRow(u.blocks[j])'
                /\ u.blocks[j] \in TxBlocks => u.blocks[j] \in u.seen
      PROVE  TaskReads(u)'
  <2>1. \A j \in 1 .. Len(u.blocks) : Known(u.blocks[j])
    BY <1>3 DEF TaskInv
  <2>2. \A j \in 1 .. Len(u.blocks) : u.blocks[j] \in TxBlocks' => u.blocks[j] \in TxBlocks
    BY <1>1, <2>1
  <2> QED BY <1>2, <1>3, <2>2 DEF TaskReads
<1>4. TaskInv(then)
  BY TaskMoves
<1>5. task \in Tasks
  BY DEF TaskInv
<1>6. CASE then = task
  BY <1>2, <1>3, <1>4, <1>6 DEF TaskReads
<1>7. CASE then = Idle \/ then = Scan
  <2>1. then.i = 1 /\ then.seen = {} /\ then.pc \in {"idle", "root"}
    BY <1>7, ScanIs DEF Idle
  <2>2. \A j \in 1 .. Len(then.blocks) : ~ (j < then.i)
    <3>1. Len(then.blocks) \in Nat
      BY <1>4 DEF TaskInv, Tasks
    <3> QED BY <2>1, <3>1
  <2> QED BY <1>3, <1>4, <2>1, <2>2
<1>8. CASE task.pc = "root" /\ then = ReadRoot(task)
  <2>1. /\ then.i = task.i /\ then.seen = task.seen /\ then.blocks = task.blocks /\ then.pc = "tx"
        /\ then.rooted = Rooted(task.blocks[task.i])
    BY <1>5, <1>8 DEF ReadRoot, Tasks
  <2>2. Known(task.blocks[task.i])
    BY <1>8 DEF TaskInv
  <2>3. then.rooted
    BY <2>1, <2>2, KnownIsRooted
  <2> QED BY <1>2, <1>3, <1>4, <2>1, <2>3 DEF TaskReads
<1>9. CASE task.pc = "tx" /\ StoreRow(task.blocks[task.i]) /\ then = ReadTx(task)
  <2> DEFINE b == task.blocks[task.i]
  <2>1. /\ then.i = task.i + 1 /\ then.blocks = task.blocks /\ then.pc \in {"root", "verify"}
        /\ then.seen = IF txs[b] # NoTx /\ task.rooted THEN task.seen \cup {b} ELSE task.seen
    BY <1>5, <1>9 DEF ReadTx, Tasks
  <2>2. /\ Known(b) /\ task.rooted /\ HasRow(b)' /\ task.i \in Nat
    BY <1>5, <1>9, StoredHas DEF TaskInv, TaskReads, Tasks
  <2>3. then.seen = IF b \in TxBlocks THEN task.seen \cup {b} ELSE task.seen
    BY <2>1, <2>2 DEF TxBlocks, Known
  <2>4. then.seen \subseteq TxBlocks
    BY <2>3 DEF TaskReads
  <2>5. ASSUME NEW j \in 1 .. Len(then.blocks), j < then.i
        PROVE  /\ HasRow(then.blocks[j])'
               /\ then.blocks[j] \in TxBlocks => then.blocks[j] \in then.seen
    <3>1. j < task.i \/ j = task.i
      BY <2>1, <2>2, <2>5
    <3>2. CASE j < task.i
      <4>1. HasRow(task.blocks[j]) /\ (task.blocks[j] \in TxBlocks => task.blocks[j] \in task.seen)
        BY <2>1, <2>5, <3>2 DEF TaskReads
      <4> QED BY <1>2, <2>1, <2>3, <4>1
    <3>3. CASE j = task.i
      BY <2>1, <2>2, <2>3, <3>3
    <3> QED BY <3>1, <3>2, <3>3
  <2> HIDE DEF b
  <2>6. \A j \in 1 .. Len(then.blocks) : j < then.i =>
           /\ HasRow(then.blocks[j])'
           /\ then.blocks[j] \in TxBlocks => then.blocks[j] \in then.seen
    BY <2>5
  <2> QED BY <1>3, <1>4, <2>1, <2>4, <2>6
<1>10. CASE task.pc = "verify" /\ Valid(task) /\ then = [task EXCEPT !.pc = "valid"]
  <2>1. /\ then.i = task.i /\ then.seen = task.seen /\ then.blocks = task.blocks
        /\ then.pc = "valid"
    BY <1>5, <1>10 DEF Tasks
  <2> QED BY <1>2, <1>3, <1>4, <2>1 DEF TaskReads
<1> QED BY <1>6, <1>7, <1>8, <1>9, <1>10, ReadIsValid DEF Moved

LEMMA ReadsInit == Init => ReadsInv
<1> SUFFICES ASSUME Init PROVE ReadsInv
  OBVIOUS
<1>1. Idle.pc = "idle" /\ Idle.seen = {} /\ Len(Idle.blocks) = 0
  BY DEF Idle
<1>2. TaskReads(Idle)
  BY <1>1 DEF TaskReads
<1> QED BY <1>2 DEF Init, ReadsInv

LEMMA ReadsStep ==
  ASSUME HistoryInv, ReadsInv, [Next]_vars
  PROVE  ReadsInv'
<1> SUFFICES ASSUME InStep' PROVE ReadsInv'
  BY DEF ReadsInv
<1> USE DEF HistoryInv
<1>1. InStep
  BY ChainGrows DEF InStep
<1>2. TaskReads(spend)'
  <2>1. PICK then : then = spend'
    OBVIOUS
  <2>2. TaskReads(then)'
    BY <1>1, <2>1, TasksMove, TaskReadsOn DEF ReadsInv, TasksInv
  <2> QED BY <2>1, <2>2 DEF TaskReads
<1>3. ASSUME NEW r \in Receivers PROVE TaskReads(receive[r])'
  <2>1. PICK then : then = receive'[r]
    OBVIOUS
  <2>2. TaskReads(then)'
    BY <1>1, <2>1, TasksMove, TaskReadsOn DEF ReadsInv, TasksInv
  <2> QED BY <2>1, <2>2 DEF TaskReads
<1>4. ASSUME NEW task, TaskInv(task), TaskReads(task), task.pc \in {"tx", "verify"}, rows = <<>>
      PROVE  task.pc = "tx" /\ task.blocks[task.i] = DepositBlock
  <2>1. task.i \in Nat /\ task.i >= 1 /\ Len(task.blocks) >= 1 /\ Len(task.blocks) \in Nat
    BY <1>4 DEF TaskInv, Tasks
  <2>2. ~ HasRow(task.blocks[1])
    BY <1>4 DEF HasRow
  <2>3. ~ (1 < task.i)
    BY <1>4, <2>1, <2>2 DEF TaskReads
  <2>4. task.i = 1
    BY <2>1, <2>3
  <2> QED BY <1>4, <2>1, <2>4 DEF TaskInv
<1>5. ASSUME rows' # <<>> PROVE rows'[1].block = DepositBlock
  <2>1. CASE rows # <<>>
    BY <1>1, <2>1, RowsGrow DEF ReadsInv
  <2>2. CASE rows = <<>>
    <3>1. adding = {} /\ ~ \E r \in Receivers : receive[r].pc = "invalid"
      BY <1>1, <2>2 DEF ReadsInv, TaskReads
    <3>2. StoreRow(DepositBlock)
      BY <1>1, <1>4, <1>5, <2>2, <3>1, RowsCome DEF ReadsInv
    <3>3. Len(rows) = 0 /\ Known(DepositBlock)
      BY <2>2, BlocksAre DEF Known
    <3>4. rows'[1] = RowOf(DepositBlock)
      BY <1>5, <2>2, <3>2, <3>3, Stored
    <3> QED BY <3>4 DEF RowOf
  <2> QED BY <2>1, <2>2
<1>6. ASSUME adding' # {} \/ confirm' # {} PROVE rows' # <<>>
  <2>1. CASE OnSubmittedBlock
    BY <1>1, <1>6, <2>1, RowsGrow DEF OnSubmittedBlock, ReadsInv
  <2>2. CASE OnConfirmBlock
    BY <1>1, <2>2, RowsGrow DEF OnConfirmBlock, ReadsInv
  <2>3. CASE Spend
    <3>1. rows # <<>>
      BY <1>1, <1>4, <2>3 DEF Spend, ReadsInv, TasksInv
    <3> QED BY <1>1, <3>1, RowsGrow
  <2>4. CASE adding' \subseteq adding /\ confirm' \subseteq confirm
    BY <1>1, <1>6, <2>4, RowsGrow DEF ReadsInv
  <2>5. \/ OnSubmittedBlock \/ OnConfirmBlock \/ Spend
        \/ adding' \subseteq adding /\ confirm' \subseteq confirm
    BY DEF Next, vars, chainVars, FinalizeBlock, SubmitRoot, OtherSends, ReceiveReads, AfterDeposit,
           Verified, Received, PollEnds, AddRow, StartSpend, SpendReads, Restart
  <2> QED BY <2>1, <2>2, <2>3, <2>4, <2>5
<1> QED BY <1>2, <1>3, <1>5, <1>6 DEF ReadsInv

-----------------------------------------------------------------------------
(* Sending the coin *)

\* A greatest element is the one that is chosen.
LEMMA GreatestIs ==
  ASSUME NEW S, S \subseteq Nat, NEW m \in S, \A n \in S : n <= m
  PROVE  (CHOOSE b \in S : \A c \in S : c <= b) = m
<1> DEFINE g == CHOOSE b \in S : \A c \in S : c <= b
<1>1. g \in S /\ \A c \in S : c <= g
  OBVIOUS
<1> HIDE DEF g
<1>2. g <= m /\ m <= g /\ g \in Nat /\ m \in Nat
  BY <1>1
<1>3. g = m
  BY <1>2
<1> QED BY <1>3 DEF g

\* What a finalized block does to the coin: nothing, or the pending transaction,
\* which spends the latest, becomes the latest.
LEMMA Mined ==
  ASSUME ChainInv, FinalizeBlock
  PROVE  \/ /\ txs' = txs /\ TxBlocks' = TxBlocks /\ Latest' = Latest /\ Owner' = Owner
            /\ \A p \in pending : p.prev # Latest
         \/ \E p \in pending : /\ p.prev = Latest /\ TxBlocks' = TxBlocks \cup {Latest'}
                               /\ Latest' \notin TxBlocks
                               /\ txs'[Latest'] = p /\ Owner' = p.to
                               /\ \A b \in TxBlocks : txs'[b] = txs[b] /\ b < Latest'
<1> USE BlocksAre
<1> DEFINE next == current + Interval
<1>1. /\ next \in PlasmaBlocks /\ current < next /\ DepositBlock < next /\ txs[next] = NoTx
  BY Finalized
<1>2. CASE txs' = txs /\ \A p \in pending : p.prev # Latest
  <2>1. TxBlocks' = TxBlocks
    BY <1>2 DEF TxBlocks
  <2>2. Latest' = Latest
    BY <2>1 DEF Latest
  <2> QED BY <1>2, <2>1, <2>2 DEF Owner
<1>3. ASSUME NEW p \in pending, p.prev = Latest, txs' = [txs EXCEPT ![next] = p]
      PROVE  /\ p.prev = Latest /\ TxBlocks' = TxBlocks \cup {Latest'}
             /\ Latest' \notin TxBlocks
             /\ txs'[Latest'] = p /\ Owner' = p.to
             /\ \A b \in TxBlocks : txs'[b] = txs[b] /\ b < Latest'
  <2>1. next \in Blocks /\ next \notin TxBlocks
    BY <1>1 DEF TxBlocks
  <2>2. p # NoTx
    BY <1>3 DEF ChainInv, NoTx
  <2>3. next \in Nat /\ \A b \in TxBlocks : b \in Blocks /\ b \in Nat /\ b < next
    <3>1. next \in Nat /\ current \in Nat
      BY <1>1 DEF ChainInv, PlasmaBlocks
    <3>2. ASSUME NEW b \in TxBlocks PROVE b \in Blocks /\ b \in Nat /\ b < next
      <4>1. b \in Blocks /\ b \in Nat
        BY DEF TxBlocks
      <4>2. b = DepositBlock \/ b <= current
        BY DEF ChainInv
      <4> QED BY <1>1, <3>1, <4>1, <4>2
    <3> QED BY <3>1, <3>2
  <2> HIDE DEF next
  <2>4. /\ DOMAIN txs = Blocks /\ txs'[next] = p
        /\ \A b \in Blocks : b # next => txs'[b] = txs[b]
    BY <1>3, <2>1 DEF ChainInv
  <2>5. TxBlocks' = TxBlocks \cup {next}
    BY <2>1, <2>2, <2>4 DEF TxBlocks
  <2>6. \A b \in TxBlocks' : b <= next
    BY <2>3, <2>5
  <2>7. Latest' = next
    <3>1. Latest' = CHOOSE b \in TxBlocks' : \A c \in TxBlocks' : c <= b
      BY DEF Latest
    <3>2. next \in TxBlocks' /\ TxBlocks' \subseteq Nat
      BY <2>3, <2>5
    <3> QED BY <2>6, <3>1, <3>2, GreatestIs
  <2>8. \A b \in TxBlocks : txs'[b] = txs[b]
    BY <2>3, <2>4
  <2> QED BY <1>3, <2>1, <2>3, <2>4, <2>5, <2>7, <2>8 DEF Owner
<1> HIDE DEF next
<1> QED BY <1>2, <1>3, Finalized DEF next

\* Only a finalized block changes whose the coin is.
LEMMA OwnerStays ==
  ASSUME [Next]_vars, ~ FinalizeBlock
  PROVE  txs' = txs /\ TxBlocks' = TxBlocks /\ Latest' = Latest /\ Owner' = Owner
         /\ current' = current
<1>1. txs' = txs /\ current' = current
  BY DEF Next, vars, chainVars, SubmitRoot, OtherSends, ReceiveReads, AfterDeposit, Verified,
         Received, PollEnds, OnSubmittedBlock, AddRow, StartSpend, SpendReads, Spend,
         OnConfirmBlock, Restart
<1>2. TxBlocks' = TxBlocks
  BY <1>1 DEF TxBlocks
<1>3. Latest' = Latest
  BY <1>2 DEF Latest
<1> QED BY <1>1, <1>2, <1>3 DEF Owner

\* What was sent stays sent.
LEMMA SentStays ==
  ASSUME ChainInv, [Next]_vars, Unsent'
  PROVE  Unsent
<1> SUFFICES ASSUME NEW b \in TxBlocks, txs[b].prev # 0 PROVE txs[b].to = "me"
  BY DEF Unsent
<1>1. Known(b) /\ b \in TxBlocks'
  BY ChainGrows DEF ChainInv, TxBlocks, Known
<1>2. txs'[b] = txs[b]
  BY <1>1, ChainGrows
<1> QED BY <1>1, <1>2 DEF Unsent

\* A user who has read all transactions of a coin not sent yet finds the latest.
LEMMA FoundLatest ==
  ASSUME HistoryInv, OneRowPerBlock, RowsAreTrue, ReadsInv, InStep, savedBN,
         OwnerInv, UnsentInv, Unsent, spend.pc = "verify"
  PROVE  FoundBlock = Latest
<1> USE BlocksAre DEF HistoryInv
<1> DEFINE last == IF saved = None THEN current ELSE saved
           later == {k \in 2 .. Len(rows) : rows[k].included}
           reach == {k \in later : \A j \in later : j <= k => rows[j].block <= last}
           found == {rows[1].block} \cup {rows[k].block : k \in reach}
<1>1. /\ Latest \in TxBlocks /\ DepositBlock \in TxBlocks /\ TxBlocks \subseteq Blocks
      /\ \A b \in TxBlocks : b <= Latest /\ (b = DepositBlock \/ b = Latest)
      /\ DepositBlock \in Nat /\ Latest \in Nat
  <2>1. /\ Latest \in TxBlocks /\ DepositBlock \in TxBlocks /\ TxBlocks \subseteq Blocks
        /\ \A b \in TxBlocks : b <= Latest
    BY LatestIs
  <2> QED BY <2>1 DEF UnsentInv
<1>2. \A b \in TxBlocks : HasRow(b)
  <2>1. ASSUME NEW b \in TxBlocks PROVE HasRow(b)
    <3>1. PICK j \in 1 .. Len(spend.blocks) : spend.blocks[j] = b
      BY DEF OwnerInv
    <3>2. Len(spend.blocks) \in Nat /\ spend.i = Len(spend.blocks) + 1
      BY DEF TasksInv, TaskInv, Tasks
    <3>3. j < spend.i
      BY <3>2
    <3> QED BY <3>1, <3>3 DEF ReadsInv, TaskReads
  <2> QED BY <2>1
<1>3. Len(rows) \in Nat \ {0} /\ rows # <<>> /\ rows[1].block = DepositBlock
  <2>1. HasRow(DepositBlock)
    BY <1>1, <1>2
  <2>2. Len(rows) \in Nat /\ Len(<<>>) = 0
    BY DEF DataInv
  <2>3. Len(rows) # 0
    BY <2>1, <2>2 DEF HasRow
  <2> QED BY <2>2, <2>3 DEF ReadsInv
<1>4. ASSUME NEW k \in later PROVE k \in 2 .. Len(rows) /\ rows[k].block = Latest /\ Latest # DepositBlock
  <2>1. k \in 1 .. Len(rows) /\ k # 1 /\ 1 \in 1 .. Len(rows)
    BY <1>3
  <2>2. txs[rows[k].block] # NoTx /\ rows[k].block \in Blocks
    BY <2>1 DEF RowsAreTrue, DataInv, Known
  <2>3. rows[k].block \in TxBlocks
    BY <2>2 DEF TxBlocks
  <2>4. rows[k].block # DepositBlock
    BY <1>3, <2>1 DEF OneRowPerBlock
  <2> QED BY <1>1, <2>3, <2>4
<1>5. FoundBlock = CHOOSE b \in found : \A c \in found : c <= b
  BY <1>3 DEF FoundBlock
<1>6. CASE Latest = DepositBlock
  <2>1. reach = {}
    BY <1>4, <1>6
  <2> HIDE DEF reach
  <2>2. found = {DepositBlock}
    BY <1>3, <2>1
  <2> HIDE DEF found
  <2>3. DepositBlock <= DepositBlock
    BY <1>1
  <2> QED BY <1>5, <1>6, <2>2, <2>3
<1>7. CASE Latest # DepositBlock
  <2>1. PICK k \in 1 .. Len(rows) : rows[k].block = Latest
    BY <1>1, <1>2 DEF HasRow
  <2>2. k \in later
    <3>1. k \in 2 .. Len(rows)
      <4>1. k # 1
        BY <1>3, <1>7, <2>1
      <4> QED BY <1>3, <4>1
    <3>2. txs[Latest] # NoTx
      BY <1>1 DEF TxBlocks
    <3>3. rows[k].included
      BY <2>1, <3>2 DEF RowsAreTrue, InStep
    <3> QED BY <3>1, <3>3
  <2>3. Latest <= last
    <3>1. CASE saved = None
      BY <1>1, <1>7, <3>1 DEF ChainInv
    <3>2. CASE saved # None
      BY <1>1, <3>2 DEF UnsentInv
    <3> QED BY <3>1, <3>2
  <2>4. reach = later
    <3> HIDE DEF later, last
    <3>1. \A j \in later : rows[j].block <= last
      BY <1>4, <2>3
    <3> QED BY <3>1
  <2> HIDE DEF reach, later
  <2>5. found = {DepositBlock, Latest}
    BY <1>3, <1>4, <2>1, <2>2, <2>4
  <2>6. Latest \in found /\ found \subseteq Nat /\ \A c \in found : c <= Latest
    BY <1>1, <2>5
  <2> HIDE DEF found
  <2> QED BY <1>5, <2>6, GreatestIs
<1> QED BY <1>6, <1>7

LEMMA SteadyInit == Init => SteadyInv
<1> SUFFICES ASSUME Init PROVE SteadyInv
  OBVIOUS
<1> USE BlocksAre
<1>1. ChainInv
  BY ChainInit
<1>2. TxBlocks = {DepositBlock}
  <2>1. PICK owner \in {"me", "other"} :
          txs = [b \in Blocks |-> IF b = DepositBlock
                                  THEN [prev |-> 0, to |-> owner] ELSE NoTx]
    BY DEF Init
  <2> QED BY <2>1 DEF TxBlocks, NoTx
<1>3. txs[DepositBlock].prev = 0
  BY <1>1 DEF ChainInv
<1>4. /\ pending = {} /\ spend = Idle /\ saved = None /\ savedBN /\ confirm = {}
      /\ receive = [r \in Receivers |-> Idle] /\ (polling <=> Owner = "me")
  BY DEF Init
<1>5. Unsent
  BY <1>2, <1>3 DEF Unsent
<1>6. OwnerInv
  BY <1>4 DEF OwnerInv, Idle
<1>7. UnsentInv
  BY <1>2, <1>4 DEF UnsentInv
<1> QED BY <1>4, <1>5, <1>6, <1>7 DEF SteadyInv, SentInv

\* The conditions under which the coin can be sent safely.
SteadyState == /\ HistoryInv /\ OneRowPerBlock /\ RowsAreTrue /\ ReadsInv /\ Steady
               /\ savedBN /\ OwnerInv /\ UnsentInv /\ SentInv

LEMMA OwnerStep ==
  ASSUME SteadyState, [Next]_vars
  PROVE  OwnerInv'
<1> USE DEF SteadyState, HistoryInv
<1>1. CASE FinalizeBlock
  <2>1. pending' = {} /\ spend' = spend
    BY <1>1 DEF FinalizeBlock
  <2>2. ASSUME spend.pc # "idle"
        PROVE  TxBlocks' = TxBlocks /\ Owner' = Owner
    BY <1>1, <2>2, Mined DEF OwnerInv
  <2> QED BY <2>1, <2>2 DEF OwnerInv
<1>2. ASSUME ~ FinalizeBlock PROVE OwnerInv'
  <2>1. TxBlocks' = TxBlocks /\ Owner' = Owner
    BY <1>2, OwnerStays
  <2>2. CASE pending' = pending /\ spend' = spend
    BY <2>1, <2>2 DEF OwnerInv
  <2>3. CASE OtherSends
    <3>1. spend' = spend /\ Owner = "other" /\ pending' = {[prev |-> Latest, to |-> "me"]}
      BY <2>3 DEF OtherSends
    <3>2. spend.pc = "idle"
      BY <3>1 DEF OwnerInv
    <3> QED BY <2>1, <3>1, <3>2 DEF OwnerInv
  <2>4. CASE StartSpend
    <3>1. /\ spend'.pc = "root" /\ spend'.blocks = GetBlockNumbers(DepositBlock, current)
          /\ Owner = "me" /\ pending = {} /\ pending' = {}
      BY <2>4, ScanIs DEF StartSpend, chainVars
    <3>2. \A b \in TxBlocks : \E j \in 1 .. Len(spend'.blocks) : spend'.blocks[j] = b
      BY <3>1, Listing
    <3> QED BY <2>1, <3>1, <3>2 DEF OwnerInv
  <2>5. CASE SpendReads
    <3>1. /\ spend'.pc \in {"root", "tx", "verify"} /\ spend'.blocks = spend.blocks
          /\ spend.pc # "idle" /\ pending' = pending
      BY <2>5 DEF SpendReads, ReadRoot, ReadTx, chainVars, TasksInv, TaskInv, Tasks
    <3> QED BY <2>1, <3>1 DEF OwnerInv
  <2>6. CASE Spend
    <3>1. spend'.pc = "idle" /\ pending' = {[prev |-> FoundBlock, to |-> "other"]} /\ Owner = "me"
      BY <2>6 DEF Spend, Idle, OwnerInv
    <3> QED BY <2>1, <3>1 DEF OwnerInv
  <2>7. \/ pending' = pending /\ spend' = spend
        \/ OtherSends \/ StartSpend \/ SpendReads \/ Spend
    <3>1. ~ Restart
      BY DEF Restart, Steady
    <3> QED BY <1>2, <3>1 DEF Next, vars, chainVars, SubmitRoot, ReceiveReads, AfterDeposit, Verified,
         Received, PollEnds, OnSubmittedBlock, AddRow, OnConfirmBlock
  <2> QED BY <2>2, <2>3, <2>4, <2>5, <2>6, <2>7
<1> QED BY <1>1, <1>2

LEMMA UnsentStep ==
  ASSUME SteadyState, [Next]_vars
  PROVE  UnsentInv'
<1> SUFFICES ASSUME Unsent'
             PROVE  /\ \A p \in pending' : p.prev = Latest'
                    /\ \A b \in TxBlocks' : b = DepositBlock \/ (b = Latest' /\ Owner' = "me")
                    /\ (saved' # None \/ polling' \/ \E r \in Receivers : receive'[r] # Idle)
                          => Owner' = "me"
                    /\ saved' # None => (\A b \in TxBlocks' : b <= saved')
  BY DEF UnsentInv
<1> USE DEF SteadyState, HistoryInv
<1>1. Unsent /\ ~ Restart
  BY SentStays DEF Restart, Steady
<1>2. CASE FinalizeBlock
  <2>1. pending' = {} /\ saved' = saved /\ polling' = polling /\ receive' = receive
    BY <1>2 DEF FinalizeBlock, dbVars
  <2>2. CASE TxBlocks' = TxBlocks /\ Latest' = Latest /\ Owner' = Owner
    BY <1>1, <2>1, <2>2 DEF UnsentInv
  <2>3. ASSUME NEW p \in pending, TxBlocks' = TxBlocks \cup {Latest'},
               txs'[Latest'] = p, Owner' = p.to
        PROVE  Owner' = "me" /\ Owner = "other"
    <3>1. p \in [prev : Blocks, to : {"me", "other"}] /\ p.prev # 0
      BY BlocksAre DEF ChainInv
    <3>2. p.to = "me"
      BY <2>3, <3>1 DEF Unsent
    <3>3. Owner # "me"
      BY <3>2 DEF OwnerInv
    <3> QED BY <2>3, <3>2, <3>3, LatestIs
  <2>4. CASE \E p \in pending : /\ TxBlocks' = TxBlocks \cup {Latest'}
                                /\ txs'[Latest'] = p /\ Owner' = p.to
    <3>1. Owner' = "me" /\ Owner = "other" /\ TxBlocks' = TxBlocks \cup {Latest'}
      BY <2>3, <2>4
    <3>2. \A b \in TxBlocks : b = DepositBlock
      BY <1>1, <3>1 DEF UnsentInv
    <3>3. saved = None
      BY <1>1, <3>1 DEF UnsentInv
    <3> QED BY <2>1, <3>1, <3>2, <3>3
  <2> QED BY <1>2, <2>2, <2>4, Mined
<1>3. ASSUME ~ FinalizeBlock
      PROVE  /\ \A p \in pending' : p.prev = Latest'
             /\ \A b \in TxBlocks' : b = DepositBlock \/ (b = Latest' /\ Owner' = "me")
             /\ (saved' # None \/ polling' \/ \E r \in Receivers : receive'[r] # Idle)
                   => Owner' = "me"
             /\ saved' # None => (\A b \in TxBlocks' : b <= saved')
  <2>1. TxBlocks' = TxBlocks /\ Latest' = Latest /\ Owner' = Owner
    BY <1>3, OwnerStays
  <2>2. \A p \in pending' : p.prev = Latest
    <3>1. CASE OtherSends
      BY <3>1 DEF OtherSends
    <3>2. CASE Spend
      <4>1. FoundBlock = Latest
        BY <1>1, <3>2, FoundLatest DEF Spend, Steady
      <4> QED BY <3>2, <4>1 DEF Spend
    <3>3. CASE pending' = pending
      BY <1>1, <3>3 DEF UnsentInv
    <3>4. OtherSends \/ Spend \/ pending' = pending
      BY <1>3 DEF Next, vars, chainVars, SubmitRoot, ReceiveReads, AfterDeposit, Verified,
           Received, PollEnds, OnSubmittedBlock, AddRow, StartSpend, SpendReads, OnConfirmBlock, Restart
    <3> QED BY <3>1, <3>2, <3>3, <3>4
  <2>3. \/ Owner = "me"
        \/ /\ saved' = saved /\ (polling' => polling)
           /\ \A r \in Receivers : receive'[r] # Idle => receive[r] # Idle
    <3>1. CASE \E r \in Receivers : ReceiveReads(r) \/ Verified(r) \/ Received(r)
      <4>1. \E r \in Receivers : receive[r] # Idle
        <5>1. PICK r \in Receivers : ReceiveReads(r) \/ Verified(r) \/ Received(r)
          BY <3>1
        <5>2. receive[r].pc \in {"root", "tx", "verify", "valid", "invalid"}
          BY <5>1 DEF ReceiveReads, Verified, Received
        <5>3. Idle.pc = "idle"
          BY DEF Idle
        <5> QED BY <5>2, <5>3
      <4> QED BY <1>1, <4>1 DEF UnsentInv
    <3>2. CASE \E r \in Receivers : AfterDeposit(r)
      BY <1>1, <3>2 DEF AfterDeposit, UnsentInv
    <3>3. CASE OnSubmittedBlock
      <4>1. saved' = saved /\ polling' = polling /\ (Owner # "me" => receive' = receive)
        BY <3>3 DEF OnSubmittedBlock, dbVars
      <4> QED BY <4>1
    <3>4. CASE saved' = saved /\ polling' \in {polling, FALSE} /\ receive' = receive
      BY <3>4
    <3>5. \/ \E r \in Receivers : ReceiveReads(r) \/ Verified(r) \/ Received(r) \/ AfterDeposit(r)
          \/ OnSubmittedBlock
          \/ saved' = saved /\ polling' \in {polling, FALSE} /\ receive' = receive
      BY <1>1, <1>3 DEF Next, vars, dbVars, SubmitRoot, OtherSends, PollEnds, AddRow, StartSpend,
           SpendReads, Spend, OnConfirmBlock
    <3> QED BY <3>1, <3>2, <3>3, <3>4, <3>5
  <2>4. (saved' # None \/ polling' \/ \E r \in Receivers : receive'[r] # Idle) => Owner = "me"
    BY <1>1, <2>3 DEF UnsentInv
  <2>5. saved' # None => \A b \in TxBlocks : b <= saved'
    <3>1. CASE \E r \in Receivers : Received(r)
      <4> DEFINE blocks == GetBlockNumbers(DepositBlock, current)
      <4>1. saved' = blocks[Len(blocks)]
        BY <3>1 DEF Received
      <4>2. \A b \in TxBlocks : b <= blocks[Len(blocks)]
        BY Listing
      <4> HIDE DEF blocks
      <4> QED BY <4>1, <4>2
    <3>2. CASE saved' = saved
      BY <1>1, <3>2 DEF UnsentInv
    <3>3. (\E r \in Receivers : Received(r)) \/ saved' = saved
      BY <1>1, <1>3 DEF Next, vars, dbVars, SubmitRoot, OtherSends, ReceiveReads, AfterDeposit, Verified,
           PollEnds, OnSubmittedBlock, AddRow, StartSpend, SpendReads, Spend, OnConfirmBlock
    <3> QED BY <3>1, <3>2, <3>3
  <2>6. \A b \in TxBlocks : b = DepositBlock \/ (b = Latest /\ Owner = "me")
    BY <1>1 DEF UnsentInv
  <2> QED BY <2>1, <2>2, <2>4, <2>5, <2>6
<1> QED BY <1>2, <1>3

LEMMA SentStep ==
  ASSUME SteadyState, [Next]_vars
  PROVE  SentInv'
<1> SUFFICES ASSUME ~ Unsent', ~ profile.returns
             PROVE  Owner' = "other" /\ pending' = {} /\ \E b \in TxBlocks' : txs'[b].to = "me"
  BY ChainGrows DEF SentInv, SteadyState, HistoryInv
<1> USE DEF SteadyState, HistoryInv
<1>1. CASE FinalizeBlock
  <2>1. pending' = {}
    BY <1>1 DEF FinalizeBlock
  <2>2. CASE txs' = txs /\ TxBlocks' = TxBlocks /\ Owner' = Owner
    <3>1. ~ Unsent
      BY <2>2 DEF Unsent
    <3> QED BY <2>1, <2>2, <3>1 DEF SentInv
  <2>3. ASSUME NEW p \in pending, TxBlocks' = TxBlocks \cup {Latest'}, txs'[Latest'] = p,
               Owner' = p.to, \A b \in TxBlocks : txs'[b] = txs[b]
        PROVE  Owner' = "other" /\ \E b \in TxBlocks' : txs'[b].to = "me"
    <3>1. Unsent
      BY DEF SentInv
    <3>2. p \in [prev : Blocks, to : {"me", "other"}]
      BY DEF ChainInv
    <3>3. p.to # "me"
      BY <2>3, <3>1 DEF Unsent
    <3>4. p.to = "other"
      BY <3>2, <3>3
    <3>5. Owner = "me" /\ Latest \in TxBlocks
      BY <3>4, LatestIs DEF OwnerInv
    <3>6. txs'[Latest].to = "me" /\ Latest \in TxBlocks'
      BY <2>3, <3>5 DEF Owner
    <3> QED BY <2>3, <3>4, <3>6
  <2> QED BY <1>1, <2>1, <2>2, <2>3, Mined
<1>2. CASE ~ FinalizeBlock
  <2>1. txs' = txs /\ TxBlocks' = TxBlocks /\ Owner' = Owner
    BY <1>2, OwnerStays
  <2>2. ~ Unsent
    BY <2>1 DEF Unsent
  <2>3. Owner = "other" /\ pending = {} /\ \E b \in TxBlocks : txs[b].to = "me"
    BY <2>2 DEF SentInv
  <2>4. ~ OtherSends
    BY <2>3 DEF OtherSends
  <2>5. ~ Spend
    BY <2>3 DEF Spend, OwnerInv
  <2>6. pending' = pending
    BY <1>2, <2>4, <2>5 DEF Next, vars, chainVars, SubmitRoot, ReceiveReads, AfterDeposit, Verified,
         Received, PollEnds, OnSubmittedBlock, AddRow, StartSpend, SpendReads, OnConfirmBlock, Restart
  <2> QED BY <2>1, <2>3, <2>6
<1> QED BY <1>1, <1>2

\* A transfer that was sent stays sent: the chain takes it.
LEMMA SentAwayStays ==
  ASSUME SteadyState, [Next]_vars, SentAway
  PROVE  SentAway'
<1> USE DEF SteadyState, HistoryInv
<1>1. CASE \E b \in TxBlocks : txs[b].prev # 0 /\ txs[b].to = "other"
  <2>1. PICK b \in TxBlocks : txs[b].prev # 0 /\ txs[b].to = "other"
    BY <1>1
  <2>2. Known(b) /\ b \in TxBlocks'
    BY ChainGrows DEF ChainInv, TxBlocks, Known
  <2>3. txs'[b] = txs[b]
    BY <2>2, ChainGrows
  <2> QED BY <2>1, <2>2, <2>3 DEF SentAway
<1>2. ASSUME NEW p \in pending, p.to = "other",
             ~ \E b \in TxBlocks : txs[b].prev # 0 /\ txs[b].to = "other"
      PROVE  SentAway'
  <2>1. Unsent
    <3>1. \A b \in TxBlocks : txs[b].to \in {"me", "other"}
      <4>1. \A b \in TxBlocks : b \in Blocks /\ txs[b].to # "nobody"
        BY DEF ChainInv, TxBlocks
      <4> QED BY <4>1 DEF ChainInv
    <3> QED BY <1>2, <3>1 DEF Unsent
  <2>2. p.prev = Latest /\ p.prev # 0 /\ \A q \in pending : q = p
    BY <2>1, BlocksAre DEF UnsentInv, ChainInv
  <2>3. CASE FinalizeBlock
    <3>1. TxBlocks' = TxBlocks \cup {Latest'} /\ txs'[Latest'] = p
      BY <2>2, <2>3, Mined
    <3> QED BY <1>2, <2>2, <3>1 DEF SentAway
  <2>4. CASE ~ FinalizeBlock
    <3>1. ~ OtherSends
      BY <1>2 DEF OtherSends
    <3>2. CASE Spend
      BY <3>2 DEF Spend, SentAway
    <3>3. CASE pending' = pending
      BY <1>2, <3>3 DEF SentAway
    <3>4. Spend \/ pending' = pending
      BY <2>4, <3>1 DEF Next, vars, chainVars, SubmitRoot, ReceiveReads, AfterDeposit, Verified,
           Received, PollEnds, OnSubmittedBlock, AddRow, StartSpend, SpendReads, OnConfirmBlock, Restart
    <3> QED BY <3>2, <3>3, <3>4
  <2> QED BY <2>3, <2>4
<1> QED BY <1>1, <1>2 DEF SentAway

LEMMA SteadyStep ==
  ASSUME HistoryInv, OneRowPerBlock, RowsAreTrue, ReadsInv, SteadyInv, [Next]_vars
  PROVE  SteadyInv'
<1> SUFFICES ASSUME Steady' PROVE SteadyInv'
  BY DEF SteadyInv
<1>1. Steady /\ ~ Restart
  BY ChainGrows DEF Steady, InStep, HistoryInv, Restart
<1>2. SteadyState /\ (confirm # {} => SentAway)
  BY <1>1 DEF SteadyInv, SteadyState
<1>3. savedBN'
  <2>1. savedBN
    BY <1>2 DEF SteadyState
  <2>2. savedBN' = savedBN \/ savedBN' = TRUE
    BY <1>1 DEF Next, vars, dbVars, FinalizeBlock, SubmitRoot, OtherSends, ReceiveReads, AfterDeposit,
         Verified, Received, PollEnds, OnSubmittedBlock, AddRow, StartSpend, SpendReads, Spend,
         OnConfirmBlock
  <2> QED BY <2>1, <2>2
<1>4. ASSUME confirm' # {} PROVE SentAway'
  <2>1. CASE Spend
    BY <2>1 DEF Spend, SentAway
  <2>2. CASE confirm' \subseteq confirm
    BY <1>2, <1>4, <2>2, SentAwayStays
  <2>3. Spend \/ confirm' \subseteq confirm
    BY <1>1 DEF Next, vars, FinalizeBlock, SubmitRoot, OtherSends, ReceiveReads, AfterDeposit,
         Verified, Received, PollEnds, OnSubmittedBlock, AddRow, StartSpend, SpendReads, OnConfirmBlock
  <2> QED BY <2>1, <2>2, <2>3
<1> QED BY <1>2, <1>3, <1>4, OwnerStep, UnsentStep, SentStep DEF SteadyInv

LEMMA SteadyAlways == Spec => [](HistoryInv /\ OneRowPerBlock /\ RowsAreTrue /\ ReadsInv /\ SteadyInv)
<1>1. Init => ReadsInv /\ SteadyInv
  BY ReadsInit, SteadyInit
<1>2. HistoryInv /\ OneRowPerBlock /\ RowsAreTrue /\ ReadsInv /\ SteadyInv /\ [Next]_vars
        => ReadsInv' /\ SteadyInv'
  BY ReadsStep, SteadyStep
<1> QED BY <1>1, <1>2, HistoryAlways, RowsAreUnique, RowsStayTrue, PTL DEF Spec

\* In a client that has not restarted, every transfer spends the coin's latest
\* transaction, while roots come with their blocks and the coin does not come back
\* to who sent it (SpendsLatest), on a chain of any length: findBlocks, which looks
\* at the rows in the database only, finds it whichever task wrote them.
THEOREM LatestIsSpent == Spec => [](~ profile.restarts => SpendsLatest)
<1>1. HistoryInv /\ SteadyInv => (~ profile.restarts => SpendsLatest)
  <2> SUFFICES ASSUME SteadyInv, ~ profile.restarts, ~ profile.lag, ~ profile.returns,
                      NEW p \in pending
               PROVE  p.prev = Latest
    BY DEF SpendsLatest
  <2>1. UnsentInv /\ SentInv
    BY DEF SteadyInv, Steady, InStep
  <2> QED BY <2>1 DEF UnsentInv, SentInv
<1> QED BY <1>1, SteadyAlways, PTL

\* The watch on a coin's exits ends only when a transfer of it is on its way or in a
\* block (WatchedUntilSent).
THEOREM WatchEndsWithTransfer == Spec => WatchedUntilSent
<1>1. ASSUME SteadyInv, [Next]_vars, watched, ~ watched', ~ profile.lag, ~ profile.restarts
      PROVE  SentAway
  <2>1. OnConfirmBlock
    BY <1>1 DEF Next, vars, FinalizeBlock, SubmitRoot, OtherSends, ReceiveReads, AfterDeposit,
         Verified, Received, PollEnds, OnSubmittedBlock, AddRow, StartSpend, SpendReads, Spend, Restart
  <2>2. confirm # {}
    BY <2>1 DEF OnConfirmBlock
  <2> QED BY <1>1, <2>2 DEF SteadyInv, Steady, InStep
<1>2. SteadyInv /\ [Next]_vars
        => [watched /\ ~ watched' /\ ~ profile.lag /\ ~ profile.restarts => SentAway]_vars
  BY <1>1
<1> QED BY <1>2, SteadyAlways, PTL DEF Spec, WatchedUntilSent
=============================================================================
