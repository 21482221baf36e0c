--------------------------- MODULE ExitChallenge ---------------------------
(* Which challenge Entity.challengeExitAsync picks for an exit of a coin, and *)
(* which transaction respondChallengeAsync answers a challenge with, on every *)
(* history a coin can have. An exit names its transaction's block and that of *)
(* the transaction it spends.                                                 *)
EXTENDS BlockNumbers, SequencesExt

CONSTANT MaxBlock  \* bound: last plasma block

ASSUME MaxBlockAssumption == MaxBlock \in Nat

VARIABLES deposit,    \* coin.depositBlockNum
          prevBlock,  \* the coin's txs: block -> block of the tx it spends
          current     \* the current plasma block

vars == <<deposit, prevBlock, current>>

Inclusion == DOMAIN prevBlock
History == GetBlockNumbers(deposit, current)

Init == /\ deposit \in {b \in 1 .. MaxBlock : b % Interval # 0}
        /\ prevBlock = [b \in {deposit} |-> 0]
        /\ current \in {(deposit \div Interval) * Interval, deposit}

\* The operator, which is external, closes the next plasma block, with a tx of
\* the coin or without; an honest one lets no tx be spent twice.
NextBlock ==
  /\ current + Interval <= MaxBlock
  /\ current' = (current \div Interval + 1) * Interval
  /\ \/ UNCHANGED prevBlock
     \/ \E prev \in Inclusion :
           prevBlock' = [b \in Inclusion \cup {current'} |->
                           IF b = current' THEN prev ELSE prevBlock[b]]
  /\ UNCHANGED deposit

Spec == Init /\ [][NextBlock]_vars

-----------------------------------------------------------------------------
(* The client *)

None == [kind |-> "none", block |-> 0]
Exit(b) == [exitBlock |-> b, prevBlock |-> prevBlock[b]]

\* The first block of the history that is one of these inclusion blocks.
FirstIncluded(blocks) ==
  LET found == {i \in 1 .. Len(History) : History[i] \in blocks}
  IN  IF found = {} THEN 0 ELSE History[CHOOSE i \in found : \A j \in found : i <= j]

\* mutant: the block of the previous tx challenges too
ChallengeLoosely(exit) ==
  LET blk == FirstIncluded(Inclusion \ {exit.exitBlock})
  IN  IF blk = 0 THEN None
      ELSE [block |-> blk,
            kind |-> IF blk > exit.exitBlock THEN "after"
                     ELSE IF exit.prevBlock <= blk THEN "between" ELSE "before"]

\* mutant: the history is searched from its end
ChallengeBackwards(exit) ==
  LET found == SelectSeq(History, LAMBDA b :
                 b \in Inclusion /\ b \notin {exit.prevBlock, exit.exitBlock})
      blk   == found[Len(found)]
  IN  IF found = <<>> THEN None
      ELSE [block |-> blk,
            kind |-> IF blk > exit.exitBlock THEN "after"
                     ELSE IF exit.prevBlock < blk THEN "between" ELSE "before"]

\* challengeExitAsync, past its two early returns (there is an exit, and it is not
\* the user's own): the first inclusion block that is neither the exit's nor its
\* previous one decides, by where it lies.
ChallengeExit(exit) ==
  LET blk == FirstIncluded(Inclusion \ {exit.prevBlock, exit.exitBlock})
  IN  IF blk = 0 THEN None
      ELSE [block |-> blk,
            kind |-> IF blk > exit.exitBlock THEN "after"
                     ELSE IF exit.prevBlock < blk THEN "between" ELSE "before"]

\* mutant: answers with the challenging tx itself
RespondWithSame(challengingBlock) == FirstIncluded({b \in Inclusion : b >= challengingBlock})

\* respondChallengeAsync: the first inclusion block after the challenging one.
RespondChallenge(challengingBlock) == FirstIncluded({b \in Inclusion : b > challengingBlock})

-----------------------------------------------------------------------------
(* Properties *)

\* The blocks where the coin can have a transaction: its deposit block and every
\* later multiple of the interval, in ascending order, none left out or twice.
ListsCoinBlocks ==
  /\ ToSet(History) = {deposit} \cup {b \in deposit .. current : b % Interval = 0}
  /\ \A i, j \in 1 .. Len(History) : i < j => History[i] < History[j]

\* As the chain grows the history only grows at its end, so what was read and
\* stored for the blocks before stays where it was.
HistoryOnlyGrows == [][IsPrefix(History, History')]_vars

Spends(b) == {s \in Inclusion : prevBlock[s] = b}
HonestOperator == \A b \in Inclusion : \A s, t \in Spends(b) : s = t

\* With an honest operator, an exit of the deposit or of its first transfer is
\* challenged with the tx that spends it if there is one, and not otherwise.
EarlyExitsChallengedRight ==
  HonestOperator =>
    \A e \in Inclusion :
       prevBlock[e] \in {0, deposit} =>
         ChallengeExit(Exit(e)) = IF Spends(e) = {} THEN None
                                  ELSE [kind |-> "after", block |-> CHOOSE s \in Spends(e) : TRUE]

\* Whatever the operator includes, an exit of a second spend of the deposit is
\* challenged with the first spend of it.
SecondSpendOfDepositRefuted ==
  \A e \in Spends(deposit) :
     LET first == CHOOSE s \in Spends(deposit) : \A t \in Spends(deposit) : s <= t
     IN  e # first => ChallengeExit(Exit(e)) = [kind |-> "between", block |-> first]

\* A challenge of invalid history is always made with the deposit: nothing
\* earlier than the exit's previous tx comes first.
InvalidHistoryByDeposit ==
  \A e \in Inclusion : ChallengeExit(Exit(e)).kind = "before"
                         => ChallengeExit(Exit(e)).block = deposit

\* With an honest operator, the answer to a challenge with an earlier tx is the
\* very tx that spends it.
ResponseSpendsChallenge ==
  HonestOperator =>
    \A c \in Inclusion : Spends(c) # {} => RespondChallenge(c) \in Spends(c)

\* The doc of challengeAfterAsync: the exit of a coin that was spent is
\* challenged with a spend after the exit's blocks.
SpentChallengedAfter ==
  HonestOperator =>
    \A e \in Inclusion : Spends(e) # {} => ChallengeExit(Exit(e)).kind = "after"
=============================================================================
