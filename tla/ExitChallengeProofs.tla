------------------------- MODULE ExitChallengeProofs -------------------------
(* Proofs about ExitChallenge for every interval, every deposit block and     *)
(* histories of any length.                                                   *)
EXTENDS ExitChallenge, Integers, FiniteSetTheorems, TLAPS

-----------------------------------------------------------------------------
(* Arithmetic *)

\* A set of natural numbers that is not empty has a least element.
LEMMA LeastExists ==
  ASSUME NEW S, S \subseteq Nat, S # {}
  PROVE  \E m \in S : \A n \in S : m <= n
<1> DEFINE Below == {0 .. n : n \in S}
           Smaller == StrictSubsetOrdering(Nat)
<1>1. Below \subseteq FiniteSubsetsOf(Nat) /\ Below # {}
  <2> SUFFICES ASSUME NEW n \in S PROVE 0 .. n \in FiniteSubsetsOf(Nat)
    OBVIOUS
  <2>1. IsFiniteSet(0 .. n)
    BY FS_Interval
  <2> QED BY <2>1 DEF FiniteSubsetsOf
<1>2. PICK I \in Below : \A J \in Below : ~ (<<J, I>> \in Smaller)
  <2> HIDE DEF Below, Smaller
  <2>1. IsWellFoundedOn(Smaller, FiniteSubsetsOf(Nat))
    BY FS_StrictSubsetOrderingWellFounded DEF Smaller
  <2> QED BY <1>1, <2>1, WFMin
<1>3. PICK m \in S : I = 0 .. m
  OBVIOUS
<1>4. ASSUME NEW n \in S, n < m PROVE FALSE
  <2>1. /\ 0 .. n \subseteq 0 .. m /\ 0 .. n # 0 .. m
        /\ 0 .. n \in SUBSET Nat /\ 0 .. m \in SUBSET Nat
    BY <1>4
  <2>2. <<0 .. n, 0 .. m>> \in Smaller
    BY <2>1 DEF StrictSubsetOrdering
  <2> HIDE DEF Smaller
  <2> QED BY <1>2, <1>3, <2>2
<1> QED BY <1>4

\* Quotient and remainder, and that there is only one of each.
LEMMA Division ==
  ASSUME NEW a \in Int, NEW d \in Nat \ {0}
  PROVE  /\ a \div d \in Int /\ a % d \in 0 .. (d - 1)
         /\ a = (d * (a \div d)) + (a % d)
OBVIOUS

LEMMA DivisionUnique ==
  ASSUME NEW a \in Int, NEW d \in Nat \ {0}, NEW q \in Int, NEW r \in 0 .. (d - 1),
         a = (d * q) + r
  PROVE  a \div d = q /\ a % d = r
<1> DEFINE k == (a \div d) - q
<1>1. d * k = r - (a % d) /\ k \in Int
  BY Division
<1>2. r - (a % d) < d /\ (a % d) - r < d
  BY Division
<1>3. k = 0
  <2>1. CASE k >= 1
    <3>1. d * k >= d
      BY <1>1, <2>1
    <3> QED BY <1>1, <1>2, <3>1
  <2>2. CASE k <= -1
    <3>1. d * k <= -d
      BY <1>1, <2>2
    <3> QED BY <1>1, <1>2, <3>1
  <2> QED BY <1>1, <2>1, <2>2
<1>4. d * k = 0
  BY <1>3
<1>5. a \div d = q
  BY <1>3, Division
<1>6. a % d = r
  <2>1. a % d \in Int
    BY Division
  <2> HIDE DEF k
  <2> QED BY <1>1, <1>4, <2>1
<1> QED BY <1>5, <1>6

\* The greater the dividend, the greater the quotient.
LEMMA DivisionMonotonic ==
  ASSUME NEW a \in Int, NEW b \in Int, NEW d \in Nat \ {0}, a <= b
  PROVE  a \div d <= b \div d
<1>1. SUFFICES ASSUME (a \div d) - (b \div d) >= 1 PROVE FALSE
  BY Division
<1> DEFINE k == (a \div d) - (b \div d)
<1>2. k \in Int /\ d * k = (a - (a % d)) - (b - (b % d))
  BY Division
<1>3. d * k >= d
  BY <1>1, <1>2
<1>4. a % d \in 0 .. (d - 1) /\ b % d \in 0 .. (d - 1)
  BY Division
<1> HIDE DEF k
<1> QED BY <1>2, <1>3, <1>4

-----------------------------------------------------------------------------
(* The list of blocks *)

\* How many blocks are listed after the first.
Later(start, end) ==
  LET next == NextNonDepositBlock(start)
  IN  IF next <= end THEN ((end - next) \div Interval) + 1 ELSE 0

\* The first multiple of the interval after a block that is none.
LEMMA NextIsMultiple ==
  ASSUME NEW start \in Nat, start % Interval # 0
  PROVE  LET next == NextNonDepositBlock(start)
         IN  /\ next \in Nat /\ start < next /\ next < start + Interval
             /\ next = Interval * ((start \div Interval) + 1)
<1> USE IntervalAssumption
<1> DEFINE q == start \div Interval
           r == start % Interval
<1>1. q \in Int /\ r \in 1 .. (Interval - 1) /\ start = (Interval * q) + r
  BY Division
<1>2. (start + Interval - 1) \div Interval = q + 1
  <2>1. start + Interval - 1 = (Interval * (q + 1)) + (r - 1)
    BY <1>1
  <2>2. start + Interval - 1 \in Int /\ q + 1 \in Int /\ r - 1 \in 0 .. (Interval - 1)
    BY <1>1
  <2> HIDE DEF q, r
  <2> QED BY <2>1, <2>2, DivisionUnique
<1>3. NextNonDepositBlock(start) = Interval * (q + 1)
  BY <1>1, <1>2 DEF NextNonDepositBlock
<1>4. Interval * (q + 1) = start - r + Interval
  BY <1>1
<1> QED BY <1>1, <1>3, <1>4

\* Block by block: the first, the next multiple, and then by the interval.
LEMMA ListedOneByOne ==
  ASSUME NEW start \in Nat, NEW end \in Nat, start % Interval # 0
  PROVE  LET blocks == GetBlockNumbers(start, end)
             n == Later(start, end)
         IN  /\ n \in Nat /\ blocks \in Seq(Int) /\ Len(blocks) = n + 1
             /\ blocks[1] = start
             /\ \A i \in 2 .. (n + 1) :
                   blocks[i] = NextNonDepositBlock(start) + (i - 2) * Interval
<1> USE IntervalAssumption
<1> DEFINE next == NextNonDepositBlock(start)
           n == Later(start, end)
           blocks == GetBlockNumbers(start, end)
           after == [k \in 1 .. n |-> next + (k - 1) * Interval]
<1>1. next \in Nat /\ start < next
  BY NextIsMultiple
<1>2. n \in Nat
  <2>1. ASSUME next <= end PROVE (end - next) \div Interval \in Nat
    BY <1>1, <2>1
  <2> QED BY <2>1 DEF Later
<1>3. blocks = <<start>> \o after
  <2>1. CASE start = end
    <3>1. n = 0 /\ after = <<>>
      BY <1>1, <2>1 DEF Later
    <3>2. blocks = <<start>>
      BY <2>1 DEF GetBlockNumbers
    <3> QED BY <3>1, <3>2
  <2>2. CASE start # end
    <3>1. start # next
      BY <1>1
    <3> QED BY <2>2, <3>1 DEF GetBlockNumbers, Later
  <2> QED BY <2>1, <2>2
<1>4. after \in Seq(Int) /\ Len(after) = n /\ \A k \in 1 .. n : after[k] = next + (k - 1) * Interval
  <2>1. \A k \in 1 .. n : next + (k - 1) * Interval \in Int
    BY <1>1, <1>2
  <2> HIDE DEF n, next
  <2> QED BY <1>2, <2>1
<1> HIDE DEF after, n, next, blocks
<1>5. /\ blocks \in Seq(Int) /\ Len(blocks) = n + 1 /\ blocks[1] = start
      /\ \A i \in 2 .. (n + 1) : blocks[i] = after[i - 1]
  BY <1>2, <1>3, <1>4
<1>6. \A i \in 2 .. (n + 1) : blocks[i] = next + (i - 2) * Interval
  <2> TAKE i \in 2 .. (n + 1)
  <2>1. i - 1 \in 1 .. n /\ (i - 1) - 1 = i - 2
    BY <1>2
  <2> QED BY <1>4, <1>5, <2>1
<1> QED BY <1>2, <1>5, <1>6 DEF n, next, blocks

\* The first block and every multiple of the interval after it, in their order.
LEMMA ListedBlocks ==
  ASSUME NEW start \in Nat, NEW end \in Nat, start % Interval # 0
  PROVE  LET blocks == GetBlockNumbers(start, end)
         IN  /\ blocks \in Seq(Nat) /\ blocks # <<>>
             /\ ToSet(blocks) = {start} \cup {b \in start .. end : b % Interval = 0}
             /\ \A i, j \in 1 .. Len(blocks) : i < j => blocks[i] < blocks[j]
<1> USE IntervalAssumption
<1> DEFINE next == NextNonDepositBlock(start)
           q == start \div Interval
           n == Later(start, end)
           blocks == GetBlockNumbers(start, end)
<1>1. /\ n \in Nat /\ blocks \in Seq(Int) /\ Len(blocks) = n + 1 /\ blocks[1] = start
      /\ \A i \in 2 .. (n + 1) : blocks[i] = next + (i - 2) * Interval
  BY ListedOneByOne
<1>2. /\ next \in Nat /\ start < next /\ next < start + Interval
      /\ q \in Nat /\ next = Interval * (q + 1)
  <2>1. /\ q \in Int /\ start = (Interval * q) + (start % Interval)
        /\ start % Interval \in 0 .. (Interval - 1)
    BY Division
  <2>2. q \in Nat
    <3> DEFINE r == start % Interval
    <3>1. q <= -1 => Interval * q <= -Interval
      BY <2>1
    <3>2. start = (Interval * q) + r /\ r \in 0 .. (Interval - 1) /\ q \in Int
      BY <2>1
    <3>3. Interval * q \in Int
      BY <3>2
    <3> HIDE DEF q, r
    <3> QED BY <3>1, <3>2, <3>3
  <2> QED BY <2>2, NextIsMultiple
<1>3. ASSUME NEW i \in 2 .. (n + 1)
      PROVE  blocks[i] \in start .. end /\ blocks[i] > start /\ blocks[i] % Interval = 0
  <2>1. next <= end /\ n = ((end - next) \div Interval) + 1
    BY <1>1 DEF Later
  <2>2. (i - 2) * Interval <= end - next
    <3> DEFINE k == (end - next) \div Interval
    <3>1. k \in Int /\ (Interval * k) <= end - next
      <4>1. end - next \in Int
        BY <1>2
      <4> DEFINE span == end - next
                 r == span % Interval
      <4>2. /\ span = (Interval * k) + r /\ k \in Int
            /\ r \in 0 .. (Interval - 1)
        <5> HIDE DEF next
        <5> QED BY <4>1, Division
      <4>3. Interval * k \in Int
        BY <4>2
      <4>4. Interval * k <= span
        <5> HIDE DEF k, r, span
        <5> QED BY <4>1, <4>2, <4>3
      <4> QED BY <4>2, <4>4
    <3>3. i - 2 <= k /\ i - 2 \in Nat
      BY <1>1, <2>1, <3>1
    <3> HIDE DEF k, next
    <3>2. (i - 2) * Interval <= Interval * k
      BY <3>1, <3>3
    <3> QED BY <1>2, <3>1, <3>2, <3>3
  <2>3. (i - 2) * Interval \in Nat
    OBVIOUS
  <2>4. blocks[i] = (Interval * (q + 1 + (i - 2))) + 0
    <3> HIDE DEF q, next, blocks, n
    <3> QED BY <1>1, <1>2
  <2>5. blocks[i] \in Nat /\ blocks[i] <= end /\ blocks[i] > start
    <3> HIDE DEF q, next, blocks, n
    <3>1. next \in Nat /\ next > start /\ blocks[i] = next + (i - 2) * Interval
      BY <1>1, <1>2
    <3>2. (i - 2) * Interval \in Int /\ end \in Int
      BY <2>3
    <3> QED BY <2>2, <2>3, <3>1, <3>2
  <2>6. blocks[i] % Interval = 0
    <3>1. q + 1 + (i - 2) \in Int /\ 0 \in 0 .. (Interval - 1)
      BY <1>2
    <3> HIDE DEF q, blocks, n
    <3> QED BY <2>4, <2>5, <3>1, DivisionUnique
  <2> QED BY <2>5, <2>6
<1>4. ASSUME NEW b \in start .. end, b % Interval = 0
      PROVE  \E i \in 2 .. (n + 1) : blocks[i] = b
  <2> DEFINE m == b \div Interval
  <2>1. m \in Int /\ b = Interval * m
    BY <1>4, Division
  <2>2. m >= q + 1
    <3>1. b # start /\ b > start
      BY <1>4
    <3>2. m >= q
      BY <3>1, DivisionMonotonic
    <3>3. m # q
      <4>1. start = (Interval * q) + (start % Interval) /\ start % Interval < Interval
        BY Division
      <4>2. CASE m = q
        <5>1. b < start
          <6>1. start % Interval > 0
            BY Division
          <6> QED BY <2>1, <4>1, <4>2, <6>1
        <5> QED BY <3>1, <5>1
      <4> QED BY <4>2
    <3> QED BY <1>2, <2>1, <3>2, <3>3
  <2>3. b - next = Interval * (m - (q + 1))
    <3> HIDE DEF m, q, next
    <3> QED BY <1>2, <2>1
  <2>4. b >= next
    <3>1. Interval * (m - (q + 1)) >= 0
      <4> HIDE DEF m, q
      <4> QED BY <1>2, <2>1, <2>2
    <3> HIDE DEF m, q, next
    <3> QED BY <1>2, <2>3, <3>1
  <2>5. m - (q + 1) <= (end - next) \div Interval
    <3>1. (b - next) \div Interval = m - (q + 1)
      <4>1. b - next \in Int /\ m - (q + 1) \in Int /\ 0 \in 0 .. (Interval - 1)
            /\ b - next = (Interval * (m - (q + 1))) + 0
        BY <1>2, <2>1, <2>3
      <4> HIDE DEF m, q, next
      <4> QED BY <4>1, DivisionUnique
    <3>2. b - next <= end - next /\ b - next \in Int /\ end - next \in Int
      BY <1>2
    <3> HIDE DEF next, m, q
    <3> QED BY <3>1, <3>2, DivisionMonotonic
  <2>6. n = ((end - next) \div Interval) + 1
    BY <1>2, <2>4 DEF Later
  <2> DEFINE i == m - (q + 1) + 2
  <2>7. i \in 2 .. (n + 1)
    <3>1. (end - next) \div Interval \in Int
      BY <1>2
    <3> HIDE DEF m, q, n, next
    <3> QED BY <1>1, <1>2, <2>1, <2>2, <2>5, <2>6, <3>1
  <2>8. blocks[i] = b
    <3>1. blocks[i] = next + (m - (q + 1)) * Interval
      <4>1. i - 2 = m - (q + 1)
        BY <1>2, <2>1
      <4> HIDE DEF blocks, n, next, m, q
      <4> QED BY <1>1, <2>7, <4>1
    <3> HIDE DEF blocks, next, m, q
    <3> QED BY <1>2, <2>1, <2>3, <3>1
  <2> QED BY <2>7, <2>8
<1>5. blocks \in Seq(Nat) /\ blocks # <<>>
  <2> HIDE DEF blocks, n, next
  <2>1. \A i \in 1 .. Len(blocks) : blocks[i] \in Nat
    BY <1>1, <1>3
  <2> QED BY <1>1, <2>1
<1>6. ToSet(blocks) = {start} \cup {b \in start .. end : b % Interval = 0}
  <2> HIDE DEF blocks, n, next
  <2>1. ToSet(blocks) = {blocks[i] : i \in 1 .. (n + 1)} /\ 1 \in 1 .. (n + 1)
    BY <1>1 DEF ToSet
  <2>2. ToSet(blocks) = {start} \cup {blocks[i] : i \in 2 .. (n + 1)}
    BY <1>1, <2>1
  <2>3. {blocks[i] : i \in 2 .. (n + 1)} = {b \in start .. end : b % Interval = 0}
    BY <1>3, <1>4
  <2> QED BY <2>2, <2>3
<1>7. \A i, j \in 1 .. Len(blocks) : i < j => blocks[i] < blocks[j]
  <2> HIDE DEF blocks, n, next
  <2> SUFFICES ASSUME NEW i \in 1 .. (n + 1), NEW j \in 2 .. (n + 1), i < j
               PROVE  blocks[i] < blocks[j]
    BY <1>1
  <2>1. CASE i = 1
    BY <1>1, <1>3, <2>1
  <2>2. CASE i # 1
    <3>1. (j - 2) * Interval - (i - 2) * Interval = (j - i) * Interval /\ (j - i) * Interval > 0
      BY <1>1
    <3>2. (j - 2) * Interval \in Int /\ (i - 2) * Interval \in Int
      BY <1>1
    <3>3. blocks[i] = next + (i - 2) * Interval /\ blocks[j] = next + (j - 2) * Interval
      BY <1>1, <2>2
    <3> QED BY <1>2, <3>1, <3>2, <3>3
  <2> QED BY <2>1, <2>2
<1> QED BY <1>5, <1>6, <1>7

\* The later the last block, the longer the list, and it is the same till then.
LEMMA ListGrows ==
  ASSUME NEW start \in Nat, NEW end \in Nat, NEW longer \in Nat, start % Interval # 0,
         end <= longer
  PROVE  IsPrefix(GetBlockNumbers(start, end), GetBlockNumbers(start, longer))
<1> USE IntervalAssumption
<1> DEFINE next == NextNonDepositBlock(start)
           s == GetBlockNumbers(start, end)
           t == GetBlockNumbers(start, longer)
<1>1. Later(start, end) <= Later(start, longer)
  <2>1. next \in Nat
    BY NextIsMultiple
  <2>2. CASE next <= end
    <3> DEFINE m == (end - next) \div Interval
               n == (longer - next) \div Interval
    <3>1. m \in Int /\ n \in Int /\ m <= n
      <4>1. end - next \in Int /\ longer - next \in Int /\ end - next <= longer - next
        BY <2>1
      <4> HIDE DEF next
      <4> QED BY <4>1, Division, DivisionMonotonic
    <3>2. Later(start, end) = m + 1 /\ Later(start, longer) = n + 1
      BY <2>1, <2>2 DEF Later
    <3> HIDE DEF m, n
    <3> QED BY <3>1, <3>2
  <2>3. CASE ~ (next <= end)
    <3>1. Later(start, end) = 0 /\ Later(start, longer) \in Nat
      BY <2>3, ListedOneByOne DEF Later
    <3> QED BY <3>1
  <2> QED BY <2>2, <2>3
<1>2. /\ s \in Seq(Int) /\ t \in Seq(Int) /\ Len(s) <= Len(t)
      /\ \A i \in 1 .. Len(s) : s[i] = t[i]
  <2>1. /\ Later(start, end) \in Nat /\ s \in Seq(Int) /\ Len(s) = Later(start, end) + 1
        /\ s[1] = start
        /\ \A i \in 2 .. (Later(start, end) + 1) : s[i] = next + (i - 2) * Interval
    BY ListedOneByOne
  <2>2. /\ Later(start, longer) \in Nat /\ t \in Seq(Int) /\ Len(t) = Later(start, longer) + 1
        /\ t[1] = start
        /\ \A i \in 2 .. (Later(start, longer) + 1) : t[i] = next + (i - 2) * Interval
    BY ListedOneByOne
  <2> HIDE DEF s, t, next
  <2>3. ASSUME NEW i \in 1 .. Len(s) PROVE s[i] = t[i]
    <3>1. CASE i = 1
      BY <2>1, <2>2, <3>1
    <3>2. CASE i # 1
      <4>1. i \in 2 .. (Later(start, end) + 1) /\ i \in 2 .. (Later(start, longer) + 1)
        BY <1>1, <2>1, <2>2, <3>2
      <4> QED BY <2>1, <2>2, <4>1
    <3> QED BY <3>1, <3>2
  <2> QED BY <1>1, <2>1, <2>2, <2>3
<1> HIDE DEF s, t
<1>3. SubSeq(s, 1, Len(s)) = SubSeq(t, 1, Len(s))
  BY <1>2
<1> QED BY <1>2, <1>3 DEF IsPrefix, s, t

-----------------------------------------------------------------------------
(* The histories there can be *)

\* The strengthening: the coin is in its deposit block, and in plasma blocks up to
\* the current one, each transaction spending an earlier one.
Inv == /\ deposit \in Nat /\ deposit > 0 /\ deposit % Interval # 0
       /\ current \in Nat /\ deposit \div Interval <= current \div Interval
       /\ Inclusion \subseteq Nat /\ deposit \in Inclusion /\ prevBlock[deposit] = 0
       /\ \A b \in Inclusion \ {deposit} :
             /\ deposit < b /\ b <= current /\ b % Interval = 0
             /\ prevBlock[b] \in Inclusion /\ prevBlock[b] < b

LEMMA InitInv == Init => Inv
<1> SUFFICES ASSUME Init PROVE Inv
  OBVIOUS
<1> USE IntervalAssumption, MaxBlockAssumption
<1>1. deposit \in Nat /\ deposit > 0 /\ deposit % Interval # 0
  BY DEF Init
<1>2. Inclusion = {deposit} /\ prevBlock[deposit] = 0
  BY DEF Init, Inclusion
<1>3. current \in Nat /\ deposit \div Interval <= current \div Interval
  <2> DEFINE q == deposit \div Interval
  <2>1. q \in Int /\ q >= 0
    <3>1. 0 = (Interval * 0) + 0 /\ 0 \div Interval = 0
      BY DivisionUnique
    <3> QED BY <1>1, <3>1, Division, DivisionMonotonic
  <2>2. CASE current = deposit
    BY <1>1, <2>1, <2>2
  <2>3. CASE current = q * Interval
    <3>1. q * Interval \in Nat
      <4> HIDE DEF q
      <4> QED BY <2>1
    <3>2. q * Interval = (Interval * q) + 0 /\ 0 \in 0 .. (Interval - 1)
      <4> HIDE DEF q
      <4> QED BY <2>1
    <3>3. current \div Interval = q
      <4> HIDE DEF q
      <4> QED BY <2>1, <2>3, <3>1, <3>2, DivisionUnique
    <3> QED BY <2>1, <2>3, <3>1, <3>3
  <2> QED BY <2>2, <2>3 DEF Init
<1> QED BY <1>1, <1>2, <1>3 DEF Inv

\* The next block is a later one, a multiple of the interval, after the deposit.
LEMMA NextBlockNumber ==
  ASSUME Inv, NextBlock
  PROVE  /\ current' \in Nat /\ current < current' /\ deposit < current'
         /\ current' % Interval = 0 /\ current' \div Interval = (current \div Interval) + 1
<1> USE IntervalAssumption
<1> DEFINE q == current \div Interval
           r == current % Interval
           p == deposit \div Interval
           o == deposit % Interval
<1>1. /\ q \in Int /\ r \in 0 .. (Interval - 1) /\ current = (Interval * q) + r
      /\ p \in Int /\ o \in 0 .. (Interval - 1) /\ deposit = (Interval * p) + o
      /\ p <= q /\ current \in Nat /\ deposit \in Nat
  <2>1. current \in Nat /\ deposit \in Nat /\ p <= q
    BY DEF Inv
  <2> QED BY <2>1, Division
<1>2. current' = (q + 1) * Interval
  BY DEF NextBlock
<1> HIDE DEF q, r, p, o
<1>3. current' = Interval * q + Interval /\ Interval * q \in Int
  BY <1>1, <1>2
<1>4. current < current' /\ current' \in Nat
  BY <1>1, <1>3
<1>5. deposit < current'
  <2>1. Interval * p <= Interval * q /\ Interval * p \in Int
    BY <1>1
  <2> QED BY <1>1, <1>3, <2>1
<1>6. current' = (Interval * (q + 1)) + 0 /\ q + 1 \in Int /\ 0 \in 0 .. (Interval - 1)
  BY <1>1, <1>2
<1>7. current' \div Interval = q + 1 /\ current' % Interval = 0
  <2>1. ASSUME NEW b \in Nat, b = (Interval * (q + 1)) + 0
        PROVE  b \div Interval = q + 1 /\ b % Interval = 0
    BY <1>6, <2>1, DivisionUnique
  <2> QED BY <1>4, <1>6, <2>1
<1> QED BY <1>4, <1>5, <1>7 DEF q

LEMMA StepInv == Inv /\ [NextBlock]_vars => Inv'
<1> SUFFICES ASSUME Inv, [NextBlock]_vars PROVE Inv'
  OBVIOUS
<1>1. CASE UNCHANGED vars
  BY <1>1 DEF Inv, Inclusion, vars
<1>2. CASE NextBlock
  <2>1. /\ current' \in Nat /\ current < current' /\ deposit < current'
        /\ current' % Interval = 0 /\ current' \div Interval = (current \div Interval) + 1
    BY <1>2, NextBlockNumber
  <2>2. /\ deposit' = deposit /\ deposit \in Nat /\ deposit > 0 /\ deposit % Interval # 0
        /\ current \in Nat
    BY <1>2 DEF NextBlock, Inv
  <2>3. (deposit \div Interval <= current \div Interval)'
    <3>1. deposit \div Interval \in Int /\ current \div Interval \in Int
          /\ deposit \div Interval <= current \div Interval
      BY IntervalAssumption, <2>2, Division DEF Inv
    <3> QED BY <2>1, <2>2, <3>1
  <2>4. CASE UNCHANGED prevBlock
    BY <2>1, <2>2, <2>3, <2>4 DEF Inv, Inclusion
  <2>5. CASE ~ UNCHANGED prevBlock
    <3>1. PICK prev \in Inclusion :
             prevBlock' = [b \in Inclusion \cup {current'} |->
                             IF b = current' THEN prev ELSE prevBlock[b]]
      BY <1>2, <2>5 DEF NextBlock
    <3>2. /\ Inclusion' = Inclusion \cup {current'} /\ prevBlock'[current'] = prev
          /\ \A b \in Inclusion \ {current'} : prevBlock'[b] = prevBlock[b]
      BY <3>1 DEF Inclusion
    <3>3. prev < current' /\ current' \notin Inclusion
      BY <2>1, <2>2 DEF Inv
    <3> QED BY <2>1, <2>2, <2>3, <3>2, <3>3 DEF Inv
  <2> QED BY <2>4, <2>5
<1> QED BY <1>1, <1>2

LEMMA Invariance == Spec => []Inv
BY InitInv, StepInv, PTL DEF Spec

\* getBlockNumbersAsync lists the blocks of a coin, in ascending order and once.
THEOREM ListsEveryBlockOnce == Spec => []ListsCoinBlocks
<1>1. Inv => ListsCoinBlocks
  BY ListedBlocks DEF Inv, ListsCoinBlocks, History
<1> QED BY <1>1, Invariance, PTL

\* The history of a coin only ever grows at its end.
THEOREM HistoryGrows == Spec => HistoryOnlyGrows
<1>1. Inv /\ [NextBlock]_vars => [IsPrefix(History, History')]_vars
  <2> SUFFICES ASSUME Inv, NextBlock PROVE IsPrefix(History, History')
    BY DEF vars
  <2>1. /\ deposit \in Nat /\ deposit % Interval # 0 /\ current \in Nat
        /\ deposit' = deposit
    BY DEF NextBlock, Inv
  <2>2. current' \in Nat /\ current < current'
    BY NextBlockNumber
  <2>3. History' = GetBlockNumbers(deposit, current')
    BY <2>1 DEF History
  <2> QED BY <2>1, <2>2, <2>3, ListGrows DEF History
<1> QED BY <1>1, Invariance, PTL DEF Spec, HistoryOnlyGrows

-----------------------------------------------------------------------------
(* Challenges *)

\* The first included block of a history is the least.
LEMMA FirstIsLeast ==
  ASSUME Inv, NEW B, B \subseteq Inclusion
  PROVE  /\ B = {} => FirstIncluded(B) = 0
         /\ B # {} => FirstIncluded(B) \in B /\ \A b \in B : FirstIncluded(B) <= b
<1> DEFINE found == {i \in 1 .. Len(History) : History[i] \in B}
<1>1. /\ History \in Seq(Nat)
      /\ ToSet(History) = {deposit} \cup {b \in deposit .. current : b % Interval = 0}
      /\ \A i, j \in 1 .. Len(History) : i < j => History[i] < History[j]
  BY ListedBlocks DEF Inv, History
<1>2. \A b \in B : \E i \in found : History[i] = b
  <2> TAKE b \in B
  <2>1. b \in Inclusion /\ b \in Nat
    BY DEF Inv
  <2>2. b \in ToSet(History)
    BY <1>1, <2>1 DEF Inv
  <2>3. DOMAIN History = 1 .. Len(History)
    BY <1>1
  <2> QED BY <2>2, <2>3 DEF ToSet
<1>3. CASE B = {}
  <2>1. found = {}
    BY <1>3
  <2> QED BY <1>3, <2>1 DEF FirstIncluded
<1>4. CASE B # {}
  <2>1. found # {} /\ found \subseteq Nat
    BY <1>2, <1>4
  <2> DEFINE i == CHOOSE k \in found : \A j \in found : k <= j
  <2>2. i \in found /\ \A j \in found : i <= j
    <3> HIDE DEF found
    <3> QED BY <2>1, LeastExists
  <2>3. FirstIncluded(B) = History[i]
    BY <2>1 DEF FirstIncluded
  <2>4. ASSUME NEW b \in B PROVE History[i] <= b
    <3>1. PICK j \in found : History[j] = b
      BY <1>2
    <3>2. i = j \/ i < j
      BY <2>2, <3>1
    <3>3. /\ i \in 1 .. Len(History) /\ History[i] \in Nat
          /\ j \in 1 .. Len(History) /\ History[j] \in Nat
      <4>1. i \in 1 .. Len(History) /\ j \in 1 .. Len(History)
        BY <2>2, <3>1
      <4> HIDE DEF i
      <4> QED BY <1>1, <4>1
    <3>4. i < j => History[i] < History[j]
      BY <1>1, <3>3
    <3> HIDE DEF i
    <3> QED BY <3>1, <3>2, <3>3, <3>4
  <2>5. History[i] \in B
    BY <2>2
  <2> QED BY <1>4, <2>3, <2>4, <2>5
<1> QED BY <1>3, <1>4

\* A challenge with the whole history exits cannot be proved against: it is
\* always made with the deposit.
THEOREM BeforeIsDeposit == Spec => []InvalidHistoryByDeposit
<1>1. ASSUME Inv, NEW e \in Inclusion, ChallengeExit(Exit(e)).kind = "before"
      PROVE  ChallengeExit(Exit(e)).block = deposit
  <2> DEFINE B == Inclusion \ {prevBlock[e], e}
             blk == FirstIncluded(B)
  <2>1. /\ ChallengeExit(Exit(e)).block = blk
        /\ blk # 0 /\ ~ (blk > e) /\ ~ (prevBlock[e] < blk)
    BY <1>1 DEF ChallengeExit, Exit, None
  <2>2. B # {} /\ blk \in B /\ \A b \in B : blk <= b
    BY <1>1, <2>1, FirstIsLeast
  <2>3. blk \in Nat /\ e \in Nat /\ deposit \in Inclusion /\ deposit \in Nat /\ blk \in Inclusion
    BY <1>1, <2>2 DEF Inv
  <2>4. e # deposit
    BY <1>1, <2>1, <2>2, <2>3 DEF Inv
  <2>5. prevBlock[e] # deposit
    BY <1>1, <2>1, <2>2, <2>3, <2>4 DEF Inv
  <2>6. deposit \in B
    BY <2>3, <2>4, <2>5
  <2>7. blk = deposit
    BY <1>1, <2>2, <2>3, <2>6 DEF Inv
  <2> QED BY <2>1, <2>7
<1>2. Inv => InvalidHistoryByDeposit
  BY <1>1 DEF InvalidHistoryByDeposit
<1> QED BY <1>2, Invariance, PTL

\* Of the spends of a block, the first of the inclusion blocks after it is one,
\* if what lies between is out of the way: the earlier transaction a spend names
\* is itself included.
LEMMA LeastSpends ==
  ASSUME Inv, NEW B, B \subseteq Inclusion \ {deposit}, NEW x \in B, \A b \in B : x <= b
  PROVE  prevBlock[x] \in Inclusion \ B /\ prevBlock[x] < x
<1>1. /\ prevBlock[x] \in Inclusion /\ prevBlock[x] < x
      /\ prevBlock[x] \in Nat /\ x \in Nat
  BY DEF Inv
<1>2. prevBlock[x] \in B => x <= prevBlock[x]
  OBVIOUS
<1> QED BY <1>1, <1>2

\* The deposit and its first transfer are challenged with their spend, if any.
THEOREM EarlyExits == Spec => []EarlyExitsChallengedRight
<1>1. ASSUME Inv, HonestOperator, NEW e \in Inclusion, prevBlock[e] \in {0, deposit}
      PROVE  ChallengeExit(Exit(e)) =
               IF Spends(e) = {} THEN None
               ELSE [kind |-> "after", block |-> CHOOSE s \in Spends(e) : TRUE]
  <2> DEFINE B == Inclusion \ {prevBlock[e], e}
             blk == FirstIncluded(B)
  <2>1. /\ B = {} => blk = 0
        /\ B # {} => blk \in B /\ \A b \in B : blk <= b
    BY <1>1, FirstIsLeast
  <2>2. Inclusion \subseteq Nat /\ deposit \in Inclusion /\ 0 \notin Inclusion
    BY <1>1 DEF Inv
  <2>3. deposit \in {prevBlock[e], e}
    BY <1>1, <2>2 DEF Inv
  <2>4. Spends(e) \subseteq B
    BY <1>1, <2>2, <2>3 DEF Inv, Spends
  <2>5. ASSUME B # {} PROVE blk \in Spends(e) /\ blk > e
    <3>1. prevBlock[blk] \in Inclusion \ B /\ prevBlock[blk] < blk
      BY <1>1, <2>1, <2>3, <2>5, LeastSpends
    <3>2. prevBlock[blk] \in {prevBlock[e], e}
      BY <3>1
    <3>3. prevBlock[blk] = e
      <4>1. CASE prevBlock[e] = 0
        BY <2>2, <3>1, <3>2, <4>1
      <4>2. CASE prevBlock[e] = deposit /\ prevBlock[blk] = deposit
        <5>1. blk \in Spends(deposit) /\ e \in Spends(deposit)
          BY <2>1, <2>5, <4>2 DEF Spends
        <5>2. blk = e
          BY <1>1, <2>2, <5>1 DEF HonestOperator
        <5> QED BY <2>1, <2>5, <5>2
      <4> QED BY <1>1, <3>2, <4>1, <4>2
    <3> QED BY <2>1, <2>2, <2>5, <3>1, <3>3 DEF Spends
  <2>6. CASE B = {}
    BY <2>1, <2>4, <2>6 DEF ChallengeExit, Exit
  <2>7. CASE B # {}
    <3>1. \A s \in Spends(e) : s = blk
      BY <1>1, <2>5, <2>7 DEF HonestOperator
    <3>2. Spends(e) # {} /\ (CHOOSE s \in Spends(e) : TRUE) = blk
      BY <2>5, <2>7, <3>1
    <3>3. blk # 0 /\ blk > e
      BY <2>1, <2>2, <2>5, <2>7
    <3>4. ChallengeExit(Exit(e)) = [block |-> blk, kind |-> "after"]
      BY <3>3 DEF ChallengeExit, Exit
    <3> QED BY <3>2, <3>4
  <2> QED BY <2>6, <2>7
<1>2. Inv => EarlyExitsChallengedRight
  BY <1>1 DEF EarlyExitsChallengedRight
<1> QED BY <1>2, Invariance, PTL

\* A second spend of the deposit is refuted by the first, honest operator or not.
THEOREM SecondSpendRefuted == Spec => []SecondSpendOfDepositRefuted
<1>1. ASSUME Inv, NEW e \in Spends(deposit), NEW first \in Spends(deposit),
             \A t \in Spends(deposit) : first <= t, e # first
      PROVE  ChallengeExit(Exit(e)) = [kind |-> "between", block |-> first]
  <2> DEFINE B == Inclusion \ {prevBlock[e], e}
             blk == FirstIncluded(B)
  <2>1. /\ Inclusion \subseteq Nat /\ deposit \in Inclusion /\ deposit > 0
        /\ e \in Inclusion /\ first \in Inclusion
        /\ prevBlock[e] = deposit /\ prevBlock[first] = deposit
        /\ first # deposit /\ deposit < first
    BY <1>1 DEF Spends, Inv
  <2>2. first \in B
    BY <1>1, <2>1
  <2>3. blk \in B /\ \A b \in B : blk <= b
    BY <1>1, <2>2, FirstIsLeast
  <2>4. prevBlock[blk] \in {deposit, e} /\ prevBlock[blk] < blk
    <3>1. B \subseteq Inclusion \ {deposit}
      BY <2>1
    <3>2. prevBlock[blk] \in Inclusion \ B /\ prevBlock[blk] < blk
      <4> HIDE DEF B, blk
      <4> QED BY <1>1, <2>3, <3>1, LeastSpends
    <3> QED BY <2>1, <3>2
  <2>5. first < e
    BY <1>1, <2>1
  <2>6. blk <= first
    BY <2>2, <2>3
  <2>7. prevBlock[blk] = deposit
    <3>1. blk \in Nat /\ first \in Nat /\ e \in Nat
      BY <2>1, <2>3
    <3> HIDE DEF B, blk
    <3> QED BY <2>4, <2>5, <2>6, <3>1
  <2>8. blk = first
    <3>1. blk \in Spends(deposit)
      BY <2>3, <2>7 DEF Spends
    <3>2. first <= blk /\ blk \in Nat /\ first \in Nat
      BY <1>1, <2>1, <2>3, <3>1
    <3> HIDE DEF B, blk
    <3> QED BY <2>6, <3>2
  <2>9. first # 0 /\ ~ (first > e) /\ deposit < first
    BY <2>1, <2>5
  <2> QED BY <2>1, <2>8, <2>9 DEF ChallengeExit, Exit
<1>2. Inv => SecondSpendOfDepositRefuted
  <2> SUFFICES ASSUME Inv, NEW e \in Spends(deposit)
               PROVE  LET first == CHOOSE s \in Spends(deposit) :
                                      \A t \in Spends(deposit) : s <= t
                      IN  e # first =>
                            ChallengeExit(Exit(e)) = [kind |-> "between", block |-> first]
    BY DEF SecondSpendOfDepositRefuted
  <2> DEFINE first == CHOOSE s \in Spends(deposit) : \A t \in Spends(deposit) : s <= t
  <2>1. Spends(deposit) \subseteq Nat
    BY DEF Spends, Inv
  <2>2. first \in Spends(deposit) /\ \A t \in Spends(deposit) : first <= t
    BY <2>1, LeastExists
  <2> HIDE DEF first
  <2> QED BY <1>1, <2>2
<1> QED BY <1>2, Invariance, PTL

\* With an honest operator the included blocks form a chain: each spends the
\* last one before it.
LEMMA SpendsPredecessor ==
  ASSUME Inv, HonestOperator, NEW s \in Inclusion \ {deposit},
         NEW x \in Inclusion, x < s
  PROVE  x <= prevBlock[s]
<1> DEFINE Skips(b) == \E y \in Inclusion : prevBlock[b] < y /\ y < b
           Bad == {b \in Inclusion \ {deposit} : Skips(b)}
<1>1. Inclusion \subseteq Nat /\ \A b \in Inclusion \ {deposit} : prevBlock[b] \in Inclusion
  BY DEF Inv
<1>2. SUFFICES Bad = {}
  <2>1. s \in Nat /\ x \in Nat /\ prevBlock[s] \in Nat
    BY <1>1
  <2>2. prevBlock[s] < x => Skips(s)
    OBVIOUS
  <2>3. Skips(s) => s \in Bad
    OBVIOUS
  <2> HIDE DEF Skips, Bad
  <2> QED BY <2>1, <2>2, <2>3
<1>3. SUFFICES ASSUME Bad # {} PROVE FALSE
  OBVIOUS
<1>4. PICK b \in Bad : \A c \in Bad : b <= c
  <2>1. Bad \subseteq Nat
    BY <1>1
  <2> HIDE DEF Bad
  <2> QED BY <1>3, <2>1, LeastExists
<1> DEFINE Skipped == {y \in Inclusion : prevBlock[b] < y /\ y < b}
<1>5. PICK y \in Skipped : \A z \in Skipped : y <= z
  <2>1. Skipped \subseteq Nat /\ Skipped # {}
    BY <1>1, <1>4
  <2> HIDE DEF Skipped
  <2> QED BY <2>1, LeastExists
<1>6. /\ b \in Inclusion \ {deposit} /\ b \in Nat
      /\ y \in Inclusion /\ y \in Nat /\ y < b /\ prevBlock[b] < y
      /\ prevBlock[b] \in Inclusion /\ prevBlock[b] \in Nat
  BY <1>1, <1>4, <1>5
<1>7. y # deposit
  <2>1. deposit <= prevBlock[b] /\ deposit \in Nat
    BY <1>6 DEF Inv
  <2> QED BY <1>6, <2>1
<1>8. prevBlock[y] = prevBlock[b]
  <2>1. prevBlock[y] \in Inclusion /\ prevBlock[y] \in Nat /\ prevBlock[y] < y
    BY <1>1, <1>6, <1>7 DEF Inv
  <2>2. ~ (prevBlock[y] < prevBlock[b])
    <3>1. ~ Skips(y)
      <4>1. y \in Bad => b <= y
        BY <1>4
      <4> QED BY <1>6, <1>7, <4>1
    <3> QED BY <1>6, <3>1
  <2>3. ~ (prevBlock[b] < prevBlock[y])
    <3>1. prevBlock[b] < prevBlock[y] => prevBlock[y] \in Skipped
      BY <1>6, <2>1
    <3>2. prevBlock[y] \in Skipped => y <= prevBlock[y]
      BY <1>5
    <3> HIDE DEF Skipped
    <3> QED BY <1>6, <2>1, <3>1, <3>2
  <2> HIDE DEF Bad, Skipped
  <2> QED BY <1>6, <2>1, <2>2, <2>3
<1>9. y = b
  <2>1. /\ prevBlock[b] \in Inclusion
        /\ y \in Spends(prevBlock[b]) /\ b \in Spends(prevBlock[b])
    BY <1>6, <1>8 DEF Spends
  <2> QED BY <2>1 DEF HonestOperator
<1> QED BY <1>6, <1>9

\* The answer to a challenge with an earlier transaction is its very spend.
THEOREM ResponseIsSpend == Spec => []ResponseSpendsChallenge
<1>1. ASSUME Inv, HonestOperator, NEW c \in Inclusion, NEW s \in Spends(c)
      PROVE  RespondChallenge(c) \in Spends(c)
  <2> DEFINE B == {b \in Inclusion : b > c}
             blk == FirstIncluded(B)
  <2>1. /\ Inclusion \subseteq Nat /\ s \in Inclusion \ {deposit} /\ prevBlock[s] = c /\ c < s
        /\ deposit <= c
    BY <1>1 DEF Inv, Spends
  <2>2. s \in B /\ B \subseteq Inclusion
    BY <2>1
  <2>3. blk \in B /\ \A b \in B : blk <= b
    BY <1>1, <2>2, FirstIsLeast
  <2>4. blk <= s /\ c < blk
    BY <2>1, <2>2, <2>3
  <2>5. blk = s
    <3>1. blk < s => blk <= c
      BY <1>1, <2>1, <2>3, SpendsPredecessor
    <3>2. blk \in Nat /\ s \in Nat /\ c \in Nat
      BY <2>1, <2>3
    <3> HIDE DEF blk
    <3> QED BY <2>4, <3>1, <3>2
  <2> QED BY <2>5 DEF RespondChallenge
<1>2. Inv => ResponseSpendsChallenge
  BY <1>1 DEF ResponseSpendsChallenge
<1> QED BY <1>2, Invariance, PTL
=============================================================================
