\* every deposit and every history of five plasma blocks
CONSTANTS
  Interval = 3
  MaxBlock = 15
SPECIFICATION Spec
INVARIANTS ListsCoinBlocks EarlyExitsChallengedRight SecondSpendOfDepositRefuted
           InvalidHistoryByDeposit ResponseSpendsChallenge
PROPERTY HistoryOnlyGrows
CHECK_DEADLOCK FALSE
