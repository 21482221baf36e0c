---------------------------- MODULE BlockNumbers ----------------------------
(* Entity.getBlockNumbersAsync: the plasma blocks a coin's history is read    *)
(* from. A coin is deposited in a block of its own, whose number is not a     *)
(* multiple of the child block interval; all other blocks are multiples.      *)
EXTENDS Naturals, Sequences

CONSTANT Interval  \* childBlockInterval

ASSUME IntervalAssumption == Interval \in Nat \ {0}

\* Math.ceil(startBlock / interval) * interval
NextNonDepositBlock(start) == ((start + Interval - 1) \div Interval) * Interval

\* mutant: the current block is left out
GetOlderBlockNumbers(start, end) ==
  LET next   == NextNonDepositBlock(start)
      count  == IF next < end THEN (end - next) \div Interval ELSE 0
      blocks == [k \in 1 .. count |-> next + (k - 1) * Interval]
  IN  IF start = end THEN <<start>>
      ELSE IF start = next THEN blocks
      ELSE <<start>> \o blocks

\* mutant: the deposit block comes last
GetBlockNumbersDepositLast(start, end) ==
  LET next   == NextNonDepositBlock(start)
      count  == IF next <= end THEN (end - next) \div Interval + 1 ELSE 0
      blocks == [k \in 1 .. count |-> next + (k - 1) * Interval]
  IN  IF start = end THEN <<start>>
      ELSE IF start = next THEN blocks
      ELSE blocks \o <<start>>

\* The deposit block, unless it is one of them, and the plasma blocks after it.
GetBlockNumbers(start, end) ==
  LET next   == NextNonDepositBlock(start)
      count  == IF next <= end THEN (end - next) \div Interval + 1 ELSE 0
      blocks == [k \in 1 .. count |-> next + (k - 1) * Interval]
  IN  IF start = end THEN <<start>>
      ELSE IF start = next THEN blocks
      ELSE <<start>> \o blocks
=============================================================================
