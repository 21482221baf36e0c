-------------------------- MODULE LoomProviderProofs --------------------------
(* Proofs about LoomProvider for any requests, retries, callbacks, accounts   *)
(* and uses.                                                                  *)
EXTENDS LoomProvider, Integers, FiniteSetTheorems, SequenceTheorems, TLAPS

-----------------------------------------------------------------------------
(* removeAllListeners *)

\* A set of natural numbers that is not empty has a least element.
LEMMA LeastExists ==
  ASSUME NEW S, S \subseteq Nat, S # {}
  PROVE  \E m \in S : \A n \in S : m <= n
<1> DEFINE Below == {0 .. n : n \in S}
           Smaller == StrictSubsetOrdering(Nat)
<1>1. Below \subseteq FiniteSubsetsOf(Nat) /\ Below # {}
  <2> SUFFICES ASSUME NEW n \in S PROVE 0 .. n \in FiniteSubsetsOf(Nat)
    OBVIOUS
  <2>1. IsFiniteSet(0 .. n)
    BY FS_Interval
  <2> QED BY <2>1 DEF FiniteSubsetsOf
<1>2. PICK I \in Below : \A J \in Below : ~ (<<J, I>> \in Smaller)
  <2> HIDE DEF Below, Smaller
  <2>1. IsWellFoundedOn(Smaller, FiniteSubsetsOf(Nat))
    BY FS_StrictSubsetOrderingWellFounded DEF Smaller
  <2> QED BY <1>1, <2>1, WFMin
<1>3. PICK m \in S : I = 0 .. m
  OBVIOUS
<1>4. ASSUME NEW n \in S, n < m PROVE FALSE
  <2>1. /\ 0 .. n \subseteq 0 .. m /\ 0 .. n # 0 .. m
        /\ 0 .. n \in SUBSET Nat /\ 0 .. m \in SUBSET Nat
    BY <1>4
  <2>2. <<0 .. n, 0 .. m>> \in Smaller
    BY <2>1 DEF StrictSubsetOrdering
  <2> HIDE DEF Smaller
  <2> QED BY <1>2, <1>3, <2>2
<1> QED BY <1>4

LEMMA RemoveAtIs ==
  ASSUME NEW S, NEW s \in Seq(S), NEW k \in 1 .. Len(s)
  PROVE  /\ RemoveAt(s, k) \in Seq(S) /\ Len(RemoveAt(s, k)) <= Len(s)
         /\ \A i \in 1 .. Len(s) : i # k => s[i] \in ToSet(RemoveAt(s, k))
<1> DEFINE a == SubSeq(s, 1, k - 1)
           b == SubSeq(s, k + 1, Len(s))
<1>1. /\ Len(s) \in Nat /\ k \in Nat /\ 1 <= k /\ k <= Len(s) /\ \A i \in 1 .. Len(s) : s[i] \in S
  OBVIOUS
<1>2. /\ a \in Seq(S) /\ Len(a) = k - 1
      /\ \A i \in 1 .. (k - 1) : a[i] = s[i]
  BY <1>1
<1>3. /\ b \in Seq(S) /\ Len(b) = Len(s) - k
      /\ \A i \in 1 .. (Len(s) - k) : b[i] = s[i + k]
  BY <1>1
<1> DEFINE t == a \o b
<1>4. RemoveAt(s, k) = t
  BY DEF RemoveAt
<1> HIDE DEF a, b
<1>5. /\ t \in Seq(S) /\ Len(t) = Len(s) - 1 /\ DOMAIN t = 1 .. (Len(s) - 1)
      /\ \A i \in 1 .. (k - 1) : t[i] = s[i]
      /\ \A i \in k .. (Len(s) - 1) : t[i] = s[i + 1]
  <2>1. t \in Seq(S) /\ Len(t) = Len(s) - 1 /\ DOMAIN t = 1 .. (Len(s) - 1)
    <3>1. t \in Seq(S) /\ Len(t) = Len(a) + Len(b)
      BY <1>2, <1>3, ConcatProperties
    <3>2. Len(t) = Len(s) - 1
      BY <1>1, <1>2, <1>3, <3>1
    <3> HIDE DEF t
    <3> QED BY <3>1, <3>2
  <2>2. \A i \in 1 .. (k - 1) : t[i] = s[i]
    BY <1>1, <1>2, <1>3
  <2>3. ASSUME NEW i \in k .. (Len(s) - 1) PROVE t[i] = s[i + 1]
    <3>1. t[i] = b[i - (k - 1)] /\ i - (k - 1) \in 1 .. (Len(s) - k) /\ (i - (k - 1)) + k = i + 1
      BY <1>1, <1>2, <1>3
    <3> QED BY <1>3, <3>1
  <2> QED BY <2>1, <2>2, <2>3
<1> HIDE DEF t
<1>6. ASSUME NEW i \in 1 .. Len(s), i # k PROVE s[i] \in ToSet(t)
  <2>1. CASE i < k
    <3>1. i \in 1 .. (k - 1) /\ i \in DOMAIN t
      BY <1>1, <1>5, <2>1
    <3> QED BY <1>5, <3>1 DEF ToSet
  <2>2. CASE i > k
    <3>1. i - 1 \in k .. (Len(s) - 1) /\ i - 1 \in DOMAIN t /\ (i - 1) + 1 = i
      BY <1>1, <1>5, <2>2
    <3>2. t[i - 1] = s[i]
      BY <1>5, <3>1
    <3> QED BY <3>1, <3>2 DEF ToSet
  <2> QED BY <1>1, <1>6, <2>1, <2>2
<1> QED BY <1>1, <1>4, <1>5, <1>6

\* What a visit of index k makes of the list.
Visit(s, k, c) == IF k <= Len(s) /\ s[k] = c THEN RemoveAt(s, k) ELSE s

\* Is g the list after each of n visits?
Visited(g, list, c, n) == g = [k \in 0 .. n |-> IF k = 0 THEN list ELSE Visit(g[k - 1], k, c)]

\* The visits are well defined: there is a list after each of them.
LEMMA VisitsExist ==
  ASSUME NEW list, NEW c, NEW n \in Nat
  PROVE  \E g : Visited(g, list, c, n)
<1> DEFINE Visits(g, m) == Visited(g, list, c, m)
           Missing == {m \in Nat : ~ \E g : Visits(g, m)}
<1> SUFFICES ASSUME Missing # {} PROVE FALSE
  OBVIOUS
<1>1. PICK m \in Missing : \A l \in Missing : m <= l
  <2> HIDE DEF Visits
  <2> QED BY LeastExists
<1>2. CASE m = 0
  <2>1. Visits([k \in 0 .. 0 |-> list], 0)
    BY DEF Visited
  <2> HIDE DEF Visits
  <2> QED BY <1>1, <1>2, <2>1
<1>3. CASE m # 0
  <2>1. m - 1 \in Nat /\ ~ (m - 1 \in Missing) /\ m \in Nat
    <3> HIDE DEF Visits
    <3> QED BY <1>1, <1>3
  <2>2. PICK g : Visits(g, m - 1)
    <3> HIDE DEF Visits
    <3> QED BY <2>1
  <2> DEFINE h == [k \in 0 .. m |-> IF k = m THEN Visit(g[m - 1], m, c) ELSE g[k]]
  <2>3. \A k \in 0 .. (m - 1) : h[k] = g[k] /\ g[k] = IF k = 0 THEN list ELSE Visit(g[k - 1], k, c)
    BY <2>1, <2>2 DEF Visited
  <2>4. ASSUME NEW k \in 0 .. m
        PROVE  h[k] = IF k = 0 THEN list ELSE Visit(h[k - 1], k, c)
    <3>1. CASE k = m
      <4>1. h[k] = Visit(g[m - 1], m, c) /\ m - 1 \in 0 .. (m - 1)
        BY <2>1, <3>1
      <4> QED BY <1>3, <2>3, <3>1, <4>1
    <3>2. CASE k # m
      <4>1. k \in 0 .. (m - 1) /\ (k # 0 => k - 1 \in 0 .. (m - 1))
        BY <2>1, <3>2
      <4> QED BY <2>3, <4>1
    <3> QED BY <3>1, <3>2
  <2>5. Visits(h, m)
    <3>1. h = [k \in 0 .. m |-> h[k]]
      OBVIOUS
    <3> HIDE DEF h
    <3> QED BY <2>4, <3>1 DEF Visited
  <2> HIDE DEF Visits, h
  <2> QED BY <1>1, <2>5
<1> QED BY <1>2, <1>3

\* The callback's elements are all that removeAllListeners takes away.
LEMMA SplicedIs ==
  ASSUME NEW S, NEW list \in Seq(S), NEW c
  PROVE  /\ Spliced(list, c) \in Seq(S) /\ Len(Spliced(list, c)) <= Len(list)
         /\ ToSet(list) \ {c} \subseteq ToSet(Spliced(list, c))
<1> DEFINE visited == CHOOSE g : g = [k \in 0 .. Len(list) |->
                         IF k = 0 THEN list
                         ELSE LET s == g[k - 1]
                              IN  IF k <= Len(s) /\ s[k] = c THEN RemoveAt(s, k) ELSE s]
<1>1. Len(list) \in Nat
  OBVIOUS
<1>2. Spliced(list, c) = visited[Len(list)]
  BY DEF Spliced
<1>3. visited = [k \in 0 .. Len(list) |-> IF k = 0 THEN list ELSE Visit(visited[k - 1], k, c)]
  <2>1. \E g : Visited(g, list, c, Len(list))
    BY <1>1, VisitsExist
  <2> QED BY <2>1 DEF Visited, Visit
<1> HIDE DEF visited
<1> DEFINE Good(s) == s \in Seq(S) /\ Len(s) <= Len(list) /\ ToSet(list) \ {c} \subseteq ToSet(s)
           Bad == {k \in 0 .. Len(list) : ~ Good(visited[k])}
<1>4. Bad = {}
  <2> SUFFICES ASSUME Bad # {} PROVE FALSE
    OBVIOUS
  <2>1. PICK k \in Bad : \A l \in Bad : k <= l
    <3>1. Bad \subseteq Nat
      OBVIOUS
    <3> HIDE DEF Bad
    <3> QED BY <3>1, LeastExists
  <2>2. k \in 0 .. Len(list) /\ ~ Good(visited[k])
    OBVIOUS
  <2>3. k # 0
    <3>1. Good(list)
      BY <1>1
    <3> HIDE DEF Good
    <3> QED BY <1>1, <1>3, <2>2, <3>1
  <2>4. k - 1 \in 0 .. Len(list) /\ Good(visited[k - 1])
    <3> HIDE DEF Good
    <3> QED BY <1>1, <2>1, <2>2, <2>3
  <2> DEFINE s == visited[k - 1]
  <2>5. visited[k] = Visit(s, k, c)
    BY <1>3, <2>2, <2>3
  <2>6. s \in Seq(S) /\ Len(s) <= Len(list) /\ ToSet(list) \ {c} \subseteq ToSet(s) /\ Len(s) \in Nat
    BY <2>4
  <2> HIDE DEF s
  <2>7. CASE k <= Len(s) /\ s[k] = c
    <3>1. k \in 1 .. Len(s)
      BY <2>2, <2>3, <2>6, <2>7
    <3>2. /\ RemoveAt(s, k) \in Seq(S) /\ Len(RemoveAt(s, k)) <= Len(s)
          /\ \A i \in 1 .. Len(s) : i # k => s[i] \in ToSet(RemoveAt(s, k))
      BY <2>6, <3>1, RemoveAtIs
    <3>3. ToSet(s) \ {c} \subseteq ToSet(RemoveAt(s, k))
      BY <2>6, <2>7, <3>2 DEF ToSet
    <3>4. Len(RemoveAt(s, k)) <= Len(list) /\ visited[k] = RemoveAt(s, k)
      BY <1>1, <2>5, <2>6, <2>7, <3>2 DEF Visit
    <3> QED BY <2>2, <2>6, <3>2, <3>3, <3>4
  <2>8. CASE ~ (k <= Len(s) /\ s[k] = c)
    BY <2>2, <2>5, <2>6, <2>8 DEF Visit
  <2> QED BY <2>7, <2>8
<1> QED BY <1>1, <1>2, <1>4

-----------------------------------------------------------------------------
(* The list of callbacks and the event being handed out *)

ListType == /\ use \in Uses /\ use.length \in Nat
            /\ callbacks \in Seq(Callbacks) /\ Len(callbacks) <= use.length
            /\ endHandler \in {None} \cup Callbacks
            /\ (endHandler # None => use.length > 0 /\ endHandler \in Callbacks)
            /\ hears \subseteq Callbacks /\ swept \subseteq Callbacks
            /\ dispatch \in Dispatches /\ dispatch.i > 0
            /\ (dispatch.running => dispatch.on)

\* What changes neither the list nor the event leaves all this as it is.
listVars == <<use, callbacks, endHandler, hears, swept, dispatch>>

LEMMA OtherSteps ==
  ASSUME \/ \E r \in Requests : (\E m \in Methods : Send(r, m)) \/ Answer(r) \/ Progress(r)
         \/ \E a \in Accounts : AddAccount(a)
         \/ UNCHANGED vars
  PROVE  UNCHANGED <<listVars, split>>
BY DEF Send, Answer, Progress, Refuse, NoReceipt, AskAgain, Tell, AddAccount, vars, dataVars, listVars

LEMMA QuietType == Quiet \in Dispatches /\ Quiet.i = 1 /\ ~ Quiet.on /\ ~ Quiet.running /\ ~ Quiet.spliced
<1>1. <<>> \in Seq(Callbacks)
  OBVIOUS
<1> QED BY <1>1 DEF Quiet, Dispatches

LEMMA ListInit == Init => ListType
<1> SUFFICES ASSUME Init PROVE ListType
  OBVIOUS
<1>1. use \in Uses /\ use.length \in Nat
  BY ProviderAssumption DEF Init
<1>2. callbacks = <<>> /\ callbacks \in Seq(Callbacks) /\ Len(callbacks) = 0
  BY DEF Init
<1>3. /\ endHandler \in {None} \cup Callbacks
      /\ (endHandler # None => use.length > 0 /\ endHandler \in Callbacks)
  BY DEF Init
<1> QED BY <1>1, <1>2, <1>3, QuietType DEF Init, ListType

LEMMA ListStep == ListType /\ [Next]_vars => ListType'
<1> SUFFICES ASSUME ListType, [Next]_vars PROVE ListType'
  OBVIOUS
<1>1. ASSUME NEW c \in Callbacks, On(c) PROVE ListType'
  <2>1. callbacks' \in Seq(Callbacks) /\ Len(callbacks') = Len(callbacks) + 1
    BY <1>1 DEF On, ListType
  <2>2. Len(callbacks) \in Nat /\ Len(callbacks) < use.length
    BY <1>1 DEF On, ListType
  <2>3. Len(callbacks') <= use.length
    BY <2>1, <2>2 DEF ListType
  <2> QED BY <1>1, <2>1, <2>3 DEF On, ListType
<1>2. ASSUME NEW c \in Callbacks, RemoveAllListeners(c) PROVE ListType'
  <2>1. callbacks' \in Seq(Callbacks) /\ Len(callbacks') <= Len(callbacks)
    BY <1>2, SplicedIs DEF RemoveAllListeners, ListType
  <2>2. Len(callbacks) \in Nat /\ Len(callbacks') \in Nat /\ Len(callbacks') <= use.length
    BY <2>1 DEF ListType
  <2>3. /\ dispatch' \in Dispatches /\ dispatch'.i = dispatch.i
        /\ dispatch'.running = dispatch.running /\ dispatch'.on = dispatch.on
    BY <1>2 DEF RemoveAllListeners, ListType, Dispatches
  <2> QED BY <1>2, <2>1, <2>2, <2>3 DEF RemoveAllListeners, ListType
<1>3. Handed \in Seq(Callbacks)
  BY DEF Handed, ListType, Dispatches
<1>4. ASSUME Reset \/ \E c \in Callbacks : RemoveListener(c) PROVE ListType'
  <2>0. NewList /\ UNCHANGED <<use, endHandler>> /\ hears' \subseteq Callbacks /\ swept' \subseteq Callbacks
    <3>1. ToSet(callbacks) \subseteq Callbacks
      BY DEF ToSet, ListType
    <3> QED BY <1>4, <3>1 DEF Reset, RemoveListener, ListType
  <2>1. callbacks' = <<>> /\ callbacks' \in Seq(Callbacks) /\ Len(callbacks') = 0
    BY <2>0 DEF NewList
  <2>2. /\ dispatch' \in Dispatches /\ dispatch'.i = dispatch.i
        /\ dispatch'.running = dispatch.running /\ dispatch'.on = dispatch.on
    BY <1>3, <2>0 DEF NewList, ListType, Dispatches
  <2> QED BY <2>0, <2>1, <2>2 DEF ListType
<1>5. CASE OnWebSocketMessage
  <2>1. dispatch' = [Quiet EXCEPT !.on = TRUE, !.start = callbacks]
    BY <1>5 DEF OnWebSocketMessage
  <2>2. dispatch' \in Dispatches /\ dispatch'.i = 1 /\ ~ dispatch'.running
    BY <2>1, QuietType DEF Quiet, ListType, Dispatches
  <2> QED BY <1>5, <2>2 DEF OnWebSocketMessage, ListType
<1>6. CASE CallNext
  <2>1. CASE dispatch' = Quiet
    BY <1>6, <2>1, QuietType DEF CallNext, ListType
  <2>2. CASE ~ Finished
    <3>1. dispatch.i \in 1 .. Len(Handed) /\ Handed[dispatch.i] \in Callbacks
      BY <1>3, <2>2 DEF Finished, ListType, Dispatches
    <3>2. dispatch.heard \in Seq(Callbacks)
      BY DEF ListType, Dispatches
    <3>3. Append(dispatch.heard, Handed[dispatch.i]) \in Seq(Callbacks)
      BY <3>1, <3>2
    <3>4. dispatch' = [dispatch EXCEPT !.running = TRUE,
                                       !.heard = Append(dispatch.heard, Handed[dispatch.i])]
      BY <1>6, <2>2 DEF CallNext, ListType, Dispatches
    <3>5. dispatch' \in Dispatches /\ dispatch'.i = dispatch.i /\ dispatch'.on
      BY <1>6, <3>3, <3>4 DEF CallNext, ListType, Dispatches
    <3> QED BY <1>6, <3>5 DEF CallNext, ListType
  <2> QED BY <1>6, <2>1, <2>2 DEF CallNext
<1>7. CASE Return
  <2>1. dispatch' \in Dispatches /\ dispatch'.i = dispatch.i + 1 /\ ~ dispatch'.running
    <3>1. dispatch' = [dispatch EXCEPT !.running = FALSE, !.i = dispatch.i + 1]
      BY <1>7 DEF Return
    <3>2. dispatch \in Dispatches /\ dispatch.i + 1 \in Nat
      BY DEF ListType, Dispatches
    <3> QED BY <3>1, <3>2 DEF Dispatches
  <2>2. dispatch'.i > 0
    BY <2>1 DEF ListType, Dispatches
  <2> QED BY <1>7, <2>1, <2>2 DEF Return, ListType
<1>8. CASE Throw
  BY <1>8, QuietType DEF Throw, ListType
<1>9. CASE Drop
  <2>1. callbacks' \in {<<>>, <<endHandler>>} /\ (callbacks' # <<>> => endHandler # None)
    BY <1>9 DEF Drop
  <2>2. callbacks' \in Seq(Callbacks) /\ Len(callbacks') <= use.length
    <3>1. CASE callbacks' = <<>>
      <4>1. callbacks' \in Seq(Callbacks) /\ Len(callbacks') = 0
        BY <3>1
      <4> QED BY <4>1 DEF ListType
    <3>2. CASE callbacks' # <<>>
      <4>1. callbacks' = <<endHandler>> /\ endHandler \in Callbacks /\ use.length > 0
        BY <2>1, <3>2 DEF ListType
      <4>2. callbacks' \in Seq(Callbacks) /\ Len(callbacks') = 1
        BY <4>1
      <4> QED BY <4>1, <4>2 DEF ListType
    <3> QED BY <3>1, <3>2
  <2>3. hears' \subseteq Callbacks /\ swept' \subseteq Callbacks
    BY <1>9 DEF Drop, ListType
  <2> QED BY <1>9, <2>2, <2>3 DEF Drop, ListType
<1>10. CASE UNCHANGED listVars
  BY <1>10 DEF listVars, ListType
<1> QED BY <1>1, <1>2, <1>4, <1>5, <1>6, <1>7, <1>8, <1>9, <1>10, OtherSteps DEF Next

\* The elements the loop has still to visit are where they were when it began,
\* and what it visited it has handed the event to.
InStep(d, handed) ==
  /\ Len(d.start) <= Len(handed) /\ \A j \in 1 .. Len(d.start) : handed[j] = d.start[j]
  /\ d.i <= Len(d.start) + 1 /\ (d.running => d.i <= Len(d.start))
  /\ Len(d.heard) = IF d.running THEN d.i ELSE d.i - 1
  /\ \A j \in 1 .. Len(d.heard) : d.heard[j] = d.start[j]

HandInv == dispatch.on /\ ~ dispatch.spliced => InStep(dispatch, Handed)

LEMMA HandStep == ListType /\ HandInv /\ [Next]_vars => HandInv'
<1> SUFFICES ASSUME ListType, HandInv, [Next]_vars, dispatch'.on, ~ dispatch'.spliced
             PROVE  InStep(dispatch', Handed')
  BY DEF HandInv
<1>1. /\ dispatch \in Dispatches /\ dispatch.i \in Nat /\ dispatch.i > 0
      /\ Len(dispatch.start) \in Nat /\ dispatch.start \in Seq(Callbacks)
      /\ Len(dispatch.heard) \in Nat /\ dispatch.heard \in Seq(Callbacks)
      /\ callbacks \in Seq(Callbacks) /\ Handed \in Seq(Callbacks)
  BY DEF ListType, Dispatches, Handed
<1>2. ASSUME dispatch.on, ~ dispatch.spliced PROVE InStep(dispatch, Handed)
  BY <1>2 DEF HandInv
<1>3. ASSUME NEW c \in Callbacks, On(c) PROVE InStep(dispatch', Handed')
  <2>1. dispatch' = dispatch /\ callbacks' = Append(callbacks, c) /\ InStep(dispatch, Handed)
    BY <1>2, <1>3 DEF On
  <2>2. /\ Len(callbacks') = Len(callbacks) + 1 /\ Len(callbacks) \in Nat
        /\ \A j \in 1 .. Len(callbacks) : callbacks'[j] = callbacks[j]
    BY <1>1, <2>1
  <2>3. Len(Handed) \in Nat /\ Len(Handed') \in Nat /\ Len(Handed) <= Len(Handed')
    BY <1>1, <2>1, <2>2 DEF Handed
  <2>4. \A j \in 1 .. Len(Handed) : Handed'[j] = Handed[j]
    BY <2>1, <2>2 DEF Handed
  <2>5. \A j \in 1 .. Len(dispatch.start) : j \in 1 .. Len(Handed)
    BY <1>1, <2>1, <2>3 DEF InStep
  <2> QED BY <1>1, <2>1, <2>3, <2>4, <2>5 DEF InStep
<1>4. ASSUME NEW c \in Callbacks, RemoveAllListeners(c) PROVE InStep(dispatch', Handed')
  <2>1. dispatch' = [dispatch EXCEPT !.spliced = dispatch.spliced \/ (dispatch.on /\ dispatch.live)]
    BY <1>4 DEF RemoveAllListeners
  <2>2. dispatch.on /\ ~ dispatch.spliced /\ ~ dispatch.live
    BY <1>1, <2>1 DEF Dispatches
  <2>3. /\ dispatch'.start = dispatch.start /\ dispatch'.heard = dispatch.heard
        /\ dispatch'.i = dispatch.i /\ dispatch'.running = dispatch.running
        /\ dispatch'.live = dispatch.live /\ dispatch'.old = dispatch.old
    BY <1>1, <2>1 DEF Dispatches
  <2>4. Handed' = Handed
    BY <2>2, <2>3 DEF Handed
  <2> QED BY <1>2, <2>2, <2>3, <2>4 DEF InStep
<1>5. ASSUME Reset \/ \E c \in Callbacks : RemoveListener(c) PROVE InStep(dispatch', Handed')
  <2>1. dispatch' = IF dispatch.on THEN [dispatch EXCEPT !.live = FALSE, !.old = Handed] ELSE dispatch
    BY <1>5 DEF Reset, RemoveListener, NewList
  <2>2. dispatch.on /\ dispatch' = [dispatch EXCEPT !.live = FALSE, !.old = Handed]
    BY <2>1
  <2>3. /\ dispatch'.start = dispatch.start /\ dispatch'.heard = dispatch.heard
        /\ dispatch'.i = dispatch.i /\ dispatch'.running = dispatch.running
        /\ ~ dispatch'.live /\ dispatch'.old = Handed /\ dispatch'.spliced = dispatch.spliced
    BY <1>1, <2>2 DEF Dispatches
  <2>4. Handed' = Handed
    BY <2>3 DEF Handed
  <2> QED BY <1>2, <2>2, <2>3, <2>4 DEF InStep
<1>6. CASE OnWebSocketMessage
  <2>1. dispatch' = [Quiet EXCEPT !.on = TRUE, !.start = callbacks] /\ callbacks' = callbacks
    BY <1>6 DEF OnWebSocketMessage
  <2>2. /\ dispatch'.start = callbacks /\ dispatch'.heard = <<>> /\ dispatch'.i = 1
        /\ ~ dispatch'.running /\ dispatch'.live
    BY <2>1 DEF Quiet
  <2>3. Handed' = callbacks /\ Len(dispatch'.heard) = 0 /\ Len(callbacks) \in Nat
    BY <1>1, <2>1, <2>2 DEF Handed
  <2> QED BY <2>2, <2>3 DEF InStep
<1>7. CASE CallNext
  <2>1. ~ Finished
    BY <1>7 DEF CallNext, Quiet
  <2> DEFINE next == Handed[dispatch.i]
  <2>2. /\ dispatch.on /\ ~ dispatch.running /\ callbacks' = callbacks
        /\ dispatch' = [dispatch EXCEPT !.running = TRUE, !.heard = Append(dispatch.heard, next)]
    BY <1>1, <1>7, <2>1 DEF CallNext, Dispatches
  <2>3. /\ dispatch'.start = dispatch.start /\ dispatch'.heard = Append(dispatch.heard, next)
        /\ dispatch'.i = dispatch.i /\ dispatch'.running /\ dispatch'.live = dispatch.live
        /\ dispatch'.old = dispatch.old /\ dispatch'.spliced = dispatch.spliced
    BY <1>1, <2>2 DEF Dispatches
  <2>4. Handed' = Handed
    BY <2>2, <2>3 DEF Handed
  <2>5. InStep(dispatch, Handed)
    BY <1>2, <2>2, <2>3
  <2>6. dispatch.i <= Len(dispatch.start) /\ dispatch.i <= Len(Handed) /\ Len(Handed) \in Nat
    BY <1>1, <2>1 DEF Finished
  <2>7. dispatch.i \in 1 .. Len(dispatch.start) /\ next = dispatch.start[dispatch.i] /\ next \in Callbacks
    BY <1>1, <2>5, <2>6 DEF InStep
  <2>8. Len(dispatch.heard) = dispatch.i - 1
    BY <2>2, <2>5 DEF InStep
  <2> DEFINE h == dispatch'.heard
  <2>9. /\ Len(h) = dispatch.i /\ h[dispatch.i] = next
        /\ \A j \in 1 .. (dispatch.i - 1) : h[j] = dispatch.heard[j]
    <3> HIDE DEF next
    <3> QED BY <1>1, <2>3, <2>7, <2>8
  <2>10. ASSUME NEW j \in 1 .. Len(h) PROVE h[j] = dispatch.start[j]
    <3>1. CASE j = dispatch.i
      BY <2>7, <2>9, <3>1
    <3>2. CASE j # dispatch.i
      <4>1. j \in 1 .. (dispatch.i - 1)
        BY <1>1, <2>9, <3>2
      <4> QED BY <2>5, <2>8, <2>9, <4>1 DEF InStep
    <3> QED BY <3>1, <3>2
  <2>11. /\ Len(dispatch.start) <= Len(Handed)
         /\ \A j \in 1 .. Len(dispatch.start) : Handed[j] = dispatch.start[j]
         /\ dispatch.i <= Len(dispatch.start) + 1
    BY <2>5 DEF InStep
  <2> QED BY <2>3, <2>4, <2>6, <2>9, <2>10, <2>11 DEF InStep
<1>8. CASE Return
  <2>1. dispatch.running /\ dispatch' = [dispatch EXCEPT !.running = FALSE, !.i = dispatch.i + 1]
        /\ callbacks' = callbacks
    BY <1>8 DEF Return
  <2>2. /\ dispatch'.start = dispatch.start /\ dispatch'.heard = dispatch.heard
        /\ dispatch'.i = dispatch.i + 1 /\ ~ dispatch'.running /\ dispatch'.live = dispatch.live
        /\ dispatch'.old = dispatch.old /\ dispatch'.spliced = dispatch.spliced
        /\ dispatch'.on = dispatch.on
    BY <1>1, <2>1 DEF Dispatches
  <2>3. Handed' = Handed
    BY <2>1, <2>2 DEF Handed
  <2>4. InStep(dispatch, Handed)
    BY <1>2, <2>2
  <2> QED BY <1>1, <2>1, <2>2, <2>3, <2>4 DEF InStep
<1>9. ~ Throw
  BY DEF Throw, Quiet
<1>10. ~ Drop
  BY DEF Drop, LoopFree
<1>11. CASE UNCHANGED listVars
  BY <1>2, <1>11 DEF listVars, InStep, Handed
<1> QED BY <1>3, <1>4, <1>5, <1>6, <1>7, <1>8, <1>9, <1>10, <1>11, OtherSteps DEF Next

\* An event reaches, in order and once for each time, the callbacks registered
\* when it came, whatever they register or reset meanwhile.
THEOREM EventIsHeard == Spec => []EventHeard
<1>1. Init => HandInv
  BY QuietType DEF Init, HandInv
<1>2. ListType /\ HandInv => EventHeard
  <2> SUFFICES ASSUME ListType, HandInv, dispatch.on, ~ dispatch.running, Finished, ~ dispatch.spliced
               PROVE  dispatch.heard = dispatch.start
    BY DEF EventHeard
  <2>1. InStep(dispatch, Handed)
    BY DEF HandInv
  <2>2. /\ dispatch.i \in Nat /\ dispatch.start \in Seq(Callbacks) /\ dispatch.heard \in Seq(Callbacks)
        /\ Len(dispatch.start) \in Nat /\ Len(Handed) \in Nat
    BY DEF ListType, Dispatches, Handed
  <2>3. Len(dispatch.heard) = Len(dispatch.start)
    BY <2>1, <2>2 DEF InStep, Finished
  <2>4. \A j \in 1 .. Len(dispatch.heard) : dispatch.heard[j] = dispatch.start[j]
    BY <2>1 DEF InStep
  <2> QED BY <2>2, <2>3, <2>4, SeqEqual
<1> QED BY <1>1, <1>2, ListInit, ListStep, HandStep, PTL DEF Spec

\* With one connection nobody who is to hear is missing from the list.
LEMMA RegisteredStep == ListType /\ RegisteredHear /\ [Next]_vars => RegisteredHear'
<1> SUFFICES ASSUME ListType, RegisteredHear, [Next]_vars, ~ split'
             PROVE  hears' \subseteq ToSet(callbacks') \cup swept'
  BY DEF RegisteredHear, ToSet
<1>1. callbacks \in Seq(Callbacks)
  BY DEF ListType
<1>2. ~ split => hears \subseteq ToSet(callbacks) \cup swept
  BY DEF RegisteredHear
<1>3. ASSUME NEW c \in Callbacks, On(c)
      PROVE  hears' \subseteq ToSet(callbacks') \cup swept'
  <2>1. /\ hears' = hears \cup {c} /\ swept' = swept \ {c}
        /\ callbacks' = Append(callbacks, c) /\ ~ split /\ Len(callbacks) \in Nat
    BY <1>1, <1>3 DEF On
  <2>2. /\ DOMAIN callbacks' = 1 .. (Len(callbacks) + 1) /\ DOMAIN callbacks = 1 .. Len(callbacks)
        /\ callbacks'[Len(callbacks) + 1] = c
        /\ \A j \in 1 .. Len(callbacks) : callbacks'[j] = callbacks[j]
    BY <1>1, <2>1
  <2>3. c \in ToSet(callbacks')
    BY <2>1, <2>2 DEF ToSet
  <2>4. ToSet(callbacks) \subseteq ToSet(callbacks')
    BY <2>1, <2>2 DEF ToSet
  <2> QED BY <1>2, <2>1, <2>3, <2>4
<1>4. ASSUME NEW c \in Callbacks, RemoveAllListeners(c)
      PROVE  hears' \subseteq ToSet(callbacks') \cup swept'
  <2>1. hears' = hears \ {c} /\ swept' = swept /\ callbacks' = Spliced(callbacks, c) /\ ~ split
    BY <1>4 DEF RemoveAllListeners
  <2>2. ToSet(callbacks) \ {c} \subseteq ToSet(callbacks')
    BY <1>1, <2>1, SplicedIs
  <2> QED BY <1>2, <2>1, <2>2
<1>5. ASSUME Reset \/ \E c \in Callbacks : RemoveListener(c)
      PROVE  hears' \subseteq ToSet(callbacks') \cup swept'
  BY <1>2, <1>5 DEF Reset, RemoveListener
<1>6. CASE Drop
  <2>1. ~ split
    BY <1>6 DEF Drop
  <2>2. hears' = {} \/ (endHandler # None /\ hears' = {endHandler} /\ callbacks' = <<endHandler>>)
    BY <1>6, <2>1 DEF Drop
  <2>3. callbacks' = <<endHandler>> => endHandler \in ToSet(callbacks')
    BY DEF ToSet
  <2> QED BY <2>2, <2>3
<1>7. CASE OnWebSocketMessage \/ CallNext \/ Return \/ Throw \/ UNCHANGED <<listVars, split>>
  <2>1. UNCHANGED <<callbacks, hears, swept, split>>
    BY <1>7 DEF OnWebSocketMessage, CallNext, Return, Throw, listVars
  <2> QED BY <1>2, <2>1
<1> QED BY <1>3, <1>4, <1>5, <1>6, <1>7, OtherSteps DEF Next

\* With one connection, who registered and was not removed is on the list, drops
\* notwithstanding, if removeListener of another did not take all off the list.
THEOREM RegisteredHearAlways == Spec => []RegisteredHear
<1>1. Init => RegisteredHear
  BY DEF Init, RegisteredHear
<1> QED BY <1>1, ListInit, ListStep, RegisteredStep, PTL DEF Spec

-----------------------------------------------------------------------------
(* Requests *)

Reqs == [stage : {"idle", "asked", "lost", "pause", "settled", "done"},
         method : Methods \cup {None}, signer : Accounts \cup {None, "client"},
         tries : 0 .. Retries + 1, unlucky : 0 .. Retries + 1,
         outcome : {None, "result", "error"}, told : Seq({"result", "error"}), threw : BOOLEAN]

\* The callback hears nothing before the request is settled, then the outcome,
\* then at most what it threw.
Telling(req) ==
  /\ req.stage \in {"idle", "asked", "lost", "pause"} => req.told = <<>> /\ ~ req.threw
  /\ req.stage = "settled" =>
       /\ req.outcome \in {"result", "error"}
       /\ IF req.threw THEN req.told = <<"result">> /\ req.outcome = "error" ELSE req.told = <<>>
  /\ req.stage = "done" =>
       req.told \in {<<"result">>, <<"error">>}
         \cup (IF req.threw THEN {<<"result", "error">>} ELSE {})

\* Every attempt at a receipt but the one under way was unlucky, and there are
\* Retries + 1 of them at most.
Patience(req) ==
  /\ req.stage = "pause" => req.method = Receipt /\ req.tries = req.unlucky /\ req.tries <= Retries
  /\ req.stage \in {"asked", "lost"} /\ req.method = Receipt => req.tries = req.unlucky + 1
  /\ req.stage = "settled" /\ req.method = Receipt /\ ~ req.threw =>
       (req.outcome = "error" <=> req.unlucky = Retries + 1)

Fine(req) == req \in Reqs /\ Telling(req) /\ Patience(req)

RequestInv == request \in [Requests -> Reqs] /\ \A r \in Requests : Fine(request[r])

LEMMA Empty == <<>> \in Seq({"result", "error"})
OBVIOUS

LEMMA Counts == Retries \in Nat /\ {0, 1} \subseteq 0 .. (Retries + 1)
BY ProviderAssumption

LEMMA OneMore == \A n, m \in 0 .. (Retries + 1) : n = m + 1 => m # Retries + 1
BY Counts

LEMMA IdleIsFine == Idle \in Reqs /\ Fine(Idle)
<1>1. Idle \in Reqs
  BY Empty, Counts DEF Idle, Reqs
<1>2. Idle.stage = "idle" /\ Idle.told = <<>> /\ ~ Idle.threw
  BY DEF Idle
<1> QED BY <1>1, <1>2 DEF Fine, Telling, Patience

\* A request that is settled with an outcome.
LEMMA SettledIsFine ==
  ASSUME NEW req \in Reqs, req.told = <<>>, ~ req.threw, NEW outcome \in {"result", "error"},
         req.method = Receipt => (outcome = "error" <=> req.unlucky = Retries + 1)
  PROVE  Fine(Settled(req, outcome))
<1> DEFINE q == Settled(req, outcome)
<1>1. /\ q \in Reqs /\ q.stage = "settled" /\ q.outcome = outcome /\ q.told = <<>> /\ ~ q.threw
      /\ q.method = req.method /\ q.unlucky = req.unlucky
  BY DEF Settled, Reqs
<1> HIDE DEF q
<1>2. Fine(q)
  BY <1>1 DEF Fine, Telling, Patience
<1> QED BY <1>2 DEF q

\* Telling: what the callback throws at a reply is what it is told next, once.
LEMMA ToldIsFine ==
  ASSUME NEW req \in Reqs, Telling(req), req.stage = "settled", NEW throws \in BOOLEAN
  PROVE  Fine(Told(req, throws))
<1>1. /\ req.outcome \in {"result", "error"} /\ req.told \in Seq({"result", "error"})
      /\ req.threw => req.told = <<"result">> /\ req.outcome = "error"
      /\ ~ req.threw => req.told = <<>>
  BY DEF Telling, Reqs
<1> DEFINE told == Append(req.told, req.outcome)
           again == throws /\ req.outcome = "result"
           heard == [req EXCEPT !.told = told, !.threw = req.threw \/ again]
<1>2. /\ told \in Seq({"result", "error"})
      /\ req.threw => told = <<"result", "error">>
      /\ ~ req.threw => told = <<req.outcome>>
  <2>1. Append(<<"result">>, "error") = <<"result", "error">>
    <3> DEFINE s == Append(<<"result">>, "error")
               both == <<"result", "error">>
    <3>1. s \in Seq({"result", "error"}) /\ Len(s) = 2 /\ s[1] = "result" /\ s[2] = "error"
      <4>1. <<"result">> \in Seq({"result", "error"}) /\ Len(<<"result">>) = 1
        OBVIOUS
      <4> QED BY <4>1
    <3>2. /\ both \in Seq({"result", "error"}) /\ Len(both) = 2
          /\ both[1] = "result" /\ both[2] = "error"
      OBVIOUS
    <3> HIDE DEF s, both
    <3>3. \A i \in 1 .. Len(s) : s[i] = both[i]
      BY <3>1, <3>2
    <3>4. s = both
      BY <3>1, <3>2, <3>3, SeqEqual
    <3> QED BY <3>4 DEF s, both
  <2>2. \A x : Append(<<>>, x) = <<x>>
    OBVIOUS
  <2>3. told \in Seq({"result", "error"})
    BY <1>1
  <2> QED BY <1>1, <2>1, <2>2, <2>3
<1> HIDE DEF told
<1>3. Told(req, throws) = IF again THEN Settled(heard, "error")
                          ELSE [heard EXCEPT !.stage = "done", !.method = None, !.signer = None]
  BY DEF Told, told
<1>4. CASE again
  <2> DEFINE q == Settled(heard, "error")
  <2>1. ~ req.threw /\ told = <<"result">>
    BY <1>1, <1>2, <1>4
  <2>2. heard \in Reqs /\ heard.told = told /\ heard.threw
    BY <1>2, <1>4 DEF Reqs
  <2> HIDE DEF heard
  <2>3. q \in Reqs /\ q.stage = "settled" /\ q.told = told /\ q.threw /\ q.outcome = "error"
    BY <2>2 DEF Settled, Reqs
  <2> HIDE DEF q
  <2>4. Fine(q)
    BY <2>1, <2>3 DEF Fine, Telling, Patience
  <2> QED BY <1>3, <1>4, <2>4 DEF q
<1>5. CASE ~ again
  <2> DEFINE q == [heard EXCEPT !.stage = "done", !.method = None, !.signer = None]
  <2>1. heard \in Reqs /\ heard.told = told /\ (heard.threw <=> req.threw)
    BY <1>2, <1>5 DEF Reqs
  <2> HIDE DEF heard
  <2>2. q \in Reqs /\ q.stage = "done" /\ q.told = told /\ (q.threw <=> req.threw)
    BY <2>1 DEF Reqs
  <2>3. told \in {<<"result">>, <<"error">>} \cup (IF req.threw THEN {<<"result", "error">>} ELSE {})
    BY <1>1, <1>2
  <2> HIDE DEF q
  <2>4. Fine(q)
    BY <2>2, <2>3 DEF Fine, Telling, Patience
  <2> QED BY <1>3, <1>5, <2>4 DEF q
<1> QED BY <1>4, <1>5

\* send leaves a request settled, or with a query out, or refused.
LEMMA SendIsFine ==
  ASSUME NEW r \in Requests, NEW m \in Methods, Send(r, m)
  PROVE  \E q : Fine(q) /\ request' = [request EXCEPT ![r] = q]
<1>1. PICK from \in Accounts, lowerCase \in BOOLEAN :
        LET held == lowerCase /\ from \in accounts
            req  == [Idle EXCEPT !.method = m]
        IN  request' = [request EXCEPT ![r] =
              CASE m = "unsupported" -> Told(Settled(req, "error"), FALSE)
                [] m \in LocalMethods -> Local(req, held)
                [] m = "eth_sendTransaction" -> SendTransaction(req, from, held)
                [] OTHER -> [req EXCEPT !.stage = "asked", !.tries = 1]]
  BY DEF Send
<1> DEFINE held == lowerCase /\ from \in accounts
           req == [Idle EXCEPT !.method = m]
<1>2. /\ req \in Reqs /\ req.told = <<>> /\ ~ req.threw /\ req.method = m /\ req.unlucky = 0
      /\ req.stage = "idle"
  <2>1. Idle.told = <<>> /\ ~ Idle.threw /\ Idle.unlucky = 0 /\ Idle.stage = "idle"
    BY DEF Idle
  <2> QED BY <2>1, IdleIsFine DEF Reqs
<1>3. Receipt \notin LocalMethods /\ Receipt # "unsupported" /\ Receipt # "eth_sendTransaction"
  BY DEF Receipt, LocalMethods
<1> HIDE DEF req, held
<1>4. CASE m = "unsupported"
  <2> DEFINE q == Settled(req, "error")
  <2>1. request' = [request EXCEPT ![r] = Told(q, FALSE)]
    BY <1>1, <1>4 DEF req, held, LocalMethods
  <2>2. q \in Reqs /\ Telling(q) /\ q.stage = "settled"
    <3>1. Fine(q)
      BY <1>2, <1>3, <1>4, SettledIsFine
    <3>2. q.stage = "settled"
      BY <1>2 DEF Settled, Reqs
    <3> QED BY <3>1, <3>2 DEF Fine
  <2>3. Fine(Told(q, FALSE))
    BY <2>2, ToldIsFine
  <2> QED BY <2>1, <2>3
<1>5. CASE m # "unsupported" /\ m \in LocalMethods
  <2>1. request' = [request EXCEPT ![r] = Local(req, held)]
    BY <1>1, <1>5 DEF req, held, LocalMethods
  <2>2. PICK outcome \in {"result", "error"} : Local(req, held) = Settled(req, outcome)
    BY DEF Local
  <2> QED BY <1>2, <1>3, <1>5, <2>1, <2>2, SettledIsFine
<1>6. CASE m = "eth_sendTransaction"
  <2> DEFINE q == SendTransaction(req, from, held)
  <2>1. request' = [request EXCEPT ![r] = q]
    BY <1>1, <1>6 DEF req, held, LocalMethods
  <2>2. /\ q \in Reqs /\ q.stage = "asked" /\ q.told = <<>> /\ ~ q.threw
        /\ q.method = "eth_sendTransaction"
    BY <1>2, <1>6 DEF SendTransaction, Signer, Reqs
  <2> HIDE DEF q
  <2>3. Fine(q)
    BY <1>3, <2>2 DEF Fine, Telling, Patience
  <2> QED BY <2>1, <2>3
<1>7. CASE m # "unsupported" /\ m \notin LocalMethods /\ m # "eth_sendTransaction"
  <2> DEFINE q == [req EXCEPT !.stage = "asked", !.tries = 1]
  <2>1. request' = [request EXCEPT ![r] = q]
    BY <1>1, <1>7 DEF req, held
  <2>2. /\ q \in Reqs /\ q.stage = "asked" /\ q.told = <<>> /\ ~ q.threw
        /\ q.tries = 1 /\ q.unlucky = 0
    BY <1>2, Counts DEF Reqs
  <2> HIDE DEF q
  <2>3. Fine(q)
    BY <2>2 DEF Fine, Telling, Patience
  <2> QED BY <2>1, <2>3
<1> QED BY <1>4, <1>5, <1>6, <1>7

\* A query that is answered settles its request; an answer to a query for a
\* receipt, which is never empty, with a result.
LEMMA AnswerIsFine ==
  ASSUME RequestInv, NEW r \in Requests, Answer(r)
  PROVE  \E q : Fine(q) /\ request' = [request EXCEPT ![r] = q]
<1> DEFINE req == request[r]
<1>1. PICK answer \in {"value", "empty", "no list"} :
        /\ answer = "empty" => req.method \notin {Receipt, "eth_blockNumber"}
        /\ answer = "no list" => req.method = "eth_getFilterChanges"
        /\ request' = [request EXCEPT ![r] = Settled(request[r], Reply(req.method, Queried(req.method, answer)))]
  BY DEF Answer
<1>2. req.stage = "asked"
  BY DEF Answer
<1>3. /\ req \in Reqs /\ req.told = <<>> /\ ~ req.threw
      /\ (req.method = Receipt => req.tries = req.unlucky + 1)
  BY <1>2 DEF RequestInv, Fine, Telling, Patience
<1> DEFINE outcome == Reply(req.method, Queried(req.method, answer))
<1>4. outcome \in {"result", "error"}
  BY DEF Reply
<1>5. req.method = Receipt => outcome = "result" /\ req.unlucky # Retries + 1
  <2>1. req.method = Receipt => answer = "value"
    BY <1>1 DEF Receipt
  <2>2. req.method = Receipt => outcome = "result"
    BY <2>1 DEF Queried, Reply
  <2>3. req.tries \in 0 .. Retries + 1 /\ req.unlucky \in 0 .. Retries + 1
    BY <1>3 DEF Reqs
  <2>4. req.method = Receipt => req.unlucky # Retries + 1
    BY <1>3, <2>3, OneMore
  <2> QED BY <2>2, <2>4
<1> HIDE DEF outcome
<1>6. Fine(Settled(req, outcome))
  BY <1>3, <1>4, <1>5, SettledIsFine
<1> QED BY <1>1, <1>6 DEF outcome

\* A query that is refused, or whose answer is lost, settles its request with an
\* error.
LEMMA RefuseIsFine ==
  ASSUME RequestInv, NEW r \in Requests, Refuse(r)
  PROVE  \E q : Fine(q) /\ request' = [request EXCEPT ![r] = q]
<1>1. /\ request' = [request EXCEPT ![r] = Settled(request[r], "error")]
      /\ request[r].stage \in {"asked", "lost"} /\ request[r].method # Receipt
  BY DEF Refuse
<1>2. request[r] \in Reqs /\ request[r].told = <<>> /\ ~ request[r].threw
  BY <1>1 DEF RequestInv, Fine, Telling
<1>3. Fine(Settled(request[r], "error"))
  BY <1>1, <1>2, SettledIsFine
<1> QED BY <1>1, <1>3

LEMMA Attempts == \A n, m \in 0 .. (Retries + 1) : n = m + 1 =>
                    /\ m + 1 \in 0 .. (Retries + 1)
                    /\ (n <= Retries <=> m + 1 # Retries + 1)
                    /\ (n <= Retries => n + 1 \in 0 .. (Retries + 1))
BY Counts

LEMMA NextAttempt == \A n \in 0 .. (Retries + 1) : n <= Retries => n + 1 \in 0 .. (Retries + 1)
BY Counts

\* An attempt that brought no receipt is followed by another, or by an error if
\* it was the last of Retries + 1.
LEMMA NoReceiptIsFine ==
  ASSUME RequestInv, NEW r \in Requests, NoReceipt(r)
  PROVE  \E q : Fine(q) /\ request' = [request EXCEPT ![r] = q]
<1> DEFINE req == request[r]
           once == [req EXCEPT !.unlucky = req.unlucky + 1]
<1>1. /\ request' = [request EXCEPT ![r] = Unlucky(request[r])]
      /\ req.stage \in {"asked", "lost"} /\ req.method = Receipt
  BY DEF NoReceipt
<1>2. /\ req \in Reqs /\ req.told = <<>> /\ ~ req.threw /\ req.tries = req.unlucky + 1
  BY <1>1 DEF RequestInv, Fine, Telling, Patience
<1>3. req.tries \in 0 .. (Retries + 1) /\ req.unlucky \in 0 .. (Retries + 1)
  BY <1>2 DEF Reqs
<1>4. /\ req.unlucky + 1 \in 0 .. (Retries + 1)
      /\ (req.tries <= Retries <=> req.unlucky + 1 # Retries + 1)
  BY <1>2, <1>3, Attempts
<1>5. /\ once \in Reqs /\ once.told = <<>> /\ ~ once.threw /\ once.method = Receipt
      /\ once.unlucky = req.unlucky + 1 /\ once.tries = req.tries
  BY <1>1, <1>2, <1>4 DEF Reqs
<1>6. CASE req.tries <= Retries
  <2> DEFINE q == [req EXCEPT !.unlucky = req.unlucky + 1, !.stage = "pause"]
  <2>1. Unlucky(request[r]) = q
    BY <1>2, <1>6 DEF Unlucky, Reqs
  <2>2. /\ q \in Reqs /\ q.stage = "pause" /\ q.told = <<>> /\ ~ q.threw /\ q.method = Receipt
        /\ q.unlucky = req.unlucky + 1 /\ q.tries = req.tries
    BY <1>1, <1>2, <1>4 DEF Reqs
  <2>3. q.tries = q.unlucky /\ q.tries <= Retries
    BY <1>2, <1>6, <2>2
  <2> HIDE DEF q
  <2>4. Fine(q)
    BY <2>2, <2>3 DEF Fine, Telling, Patience
  <2> QED BY <1>1, <2>1, <2>4
<1>7. CASE ~ (req.tries <= Retries)
  <2>1. Unlucky(request[r]) = Settled(once, "error")
    BY <1>2, <1>7 DEF Unlucky, Reqs
  <2>2. once.unlucky = Retries + 1
    BY <1>4, <1>5, <1>7
  <2>3. Fine(Settled(once, "error"))
    BY <1>5, <2>2, SettledIsFine
  <2> QED BY <1>1, <2>1, <2>3
<1> QED BY <1>6, <1>7

LEMMA AskAgainIsFine ==
  ASSUME RequestInv, NEW r \in Requests, AskAgain(r)
  PROVE  \E q : Fine(q) /\ request' = [request EXCEPT ![r] = q]
<1> DEFINE req == request[r]
           q == [req EXCEPT !.stage = "asked", !.tries = req.tries + 1]
<1>1. request[r].stage = "pause" /\ request \in [Requests -> Reqs]
  BY DEF AskAgain, RequestInv
<1>2. request' = [request EXCEPT ![r] = q]
  BY <1>1 DEF AskAgain, Reqs
<1>3. /\ req \in Reqs /\ req.told = <<>> /\ ~ req.threw
      /\ req.method = Receipt /\ req.tries = req.unlucky /\ req.tries <= Retries
  BY <1>1 DEF RequestInv, Fine, Telling, Patience
<1>4. req.tries \in 0 .. (Retries + 1)
  BY <1>3 DEF Reqs
<1>5. req.tries + 1 \in 0 .. (Retries + 1)
  BY <1>3, <1>4, NextAttempt
<1>6. /\ q \in Reqs /\ q.stage = "asked" /\ q.told = <<>> /\ ~ q.threw
      /\ q.tries = q.unlucky + 1
  BY <1>3, <1>5 DEF Reqs
<1> HIDE DEF q
<1>7. Fine(q)
  BY <1>6 DEF Fine, Telling, Patience
<1> QED BY <1>2, <1>7

LEMMA TellIsFine ==
  ASSUME RequestInv, NEW r \in Requests, Tell(r)
  PROVE  \E q : Fine(q) /\ request' = [request EXCEPT ![r] = q]
<1>1. request[r] \in Reqs /\ Telling(request[r]) /\ request[r].stage = "settled"
  BY DEF RequestInv, Fine, Tell
<1>2. PICK throws \in BOOLEAN : request' = [request EXCEPT ![r] = Told(request[r], throws)]
  BY DEF Tell
<1> QED BY <1>1, <1>2, ToldIsFine

LEMMA RequestInit == Init => RequestInv
BY IdleIsFine DEF Init, RequestInv

LEMMA RequestStep == RequestInv /\ [Next]_vars => RequestInv'
<1> SUFFICES ASSUME RequestInv, [Next]_vars PROVE RequestInv'
  OBVIOUS
<1>1. ASSUME NEW r \in Requests, \E q : Fine(q) /\ request' = [request EXCEPT ![r] = q]
      PROVE  RequestInv'
  <2>1. PICK q : Fine(q) /\ request' = [request EXCEPT ![r] = q]
    BY <1>1
  <2>2. q \in Reqs
    BY <2>1 DEF Fine
  <2>3. request \in [Requests -> Reqs] /\ \A s \in Requests : Fine(request[s])
    BY DEF RequestInv
  <2>4. request' \in [Requests -> Reqs] /\ \A s \in Requests : Fine(request'[s])
    BY <2>1, <2>2, <2>3
  <2> QED BY <2>4 DEF RequestInv
<1>2. ASSUME NEW r \in Requests, (\E m \in Methods : Send(r, m)) \/ Answer(r) \/ Progress(r)
      PROVE  RequestInv'
  BY <1>1, <1>2, SendIsFine, AnswerIsFine, RefuseIsFine, NoReceiptIsFine, AskAgainIsFine,
     TellIsFine DEF Progress
<1>3. CASE Drop
  <2>1. PICK which \in {"read", "write", "both"} :
          request' = [r \in Requests |-> IF Over(request[r], which)
                                         THEN [request[r] EXCEPT !.stage = "lost"] ELSE request[r]]
    BY <1>3 DEF Drop
  <2>2. ASSUME NEW r \in Requests PROVE Fine(request'[r])
    <3>1. Fine(request[r])
      BY DEF RequestInv
    <3>2. CASE Over(request[r], which)
      <4> DEFINE q == [request[r] EXCEPT !.stage = "lost"]
      <4>1. request'[r] = q /\ request[r].stage = "asked"
        BY <2>1, <3>2 DEF Over
      <4>2. /\ q \in Reqs /\ q.stage = "lost" /\ q.told = request[r].told /\ q.threw = request[r].threw
            /\ q.method = request[r].method /\ q.tries = request[r].tries
            /\ q.unlucky = request[r].unlucky
        BY <3>1 DEF Fine, Reqs
      <4> HIDE DEF q
      <4>3. Fine(q)
        BY <3>1, <4>1, <4>2 DEF Fine, Telling, Patience
      <4> QED BY <4>1, <4>3
    <3>3. CASE ~ Over(request[r], which)
      BY <2>1, <3>1, <3>3
    <3> QED BY <3>2, <3>3
  <2>3. request' = [r \in Requests |-> request'[r]]
    BY <2>1
  <2>4. \A r \in Requests : request'[r] \in Reqs
    BY <2>2 DEF Fine
  <2> QED BY <2>2, <2>3, <2>4 DEF RequestInv
<1>4. CASE UNCHANGED request
  BY <1>4 DEF RequestInv
<1>5. CASE \/ \E c \in Callbacks : On(c) \/ RemoveListener(c) \/ RemoveAllListeners(c)
           \/ Reset \/ OnWebSocketMessage \/ CallNext \/ Return \/ Throw
           \/ \E a \in Accounts : AddAccount(a)
           \/ UNCHANGED vars
  BY <1>4, <1>5 DEF On, RemoveListener, RemoveAllListeners, Reset, OnWebSocketMessage, CallNext, Return, Throw,
       AddAccount, vars
<1> QED BY <1>2, <1>3, <1>5 DEF Next

\* A receipt is given up after Retries + 1 attempts that brought none, and never
\* before.
THEOREM ReceiptsArePatient == Spec => []ReceiptPatient
<1>1. RequestInv => ReceiptPatient
  BY DEF RequestInv, Fine, Patience, ReceiptPatient
<1> QED BY <1>1, RequestInit, RequestStep, PTL DEF Spec

\* A callback is told one outcome, and a second one only if it threw at a result.
THEOREM TellsOnce == Spec => []ToldOnce
<1>1. RequestInv => ToldOnce
  <2> SUFFICES ASSUME RequestInv, NEW r \in Requests
               PROVE  request[r].told \in {<<>>, <<"result">>, <<"error">>}
                        \cup (IF request[r].threw THEN {<<"result", "error">>} ELSE {})
    BY DEF ToldOnce
  <2>1. Fine(request[r])
    BY DEF RequestInv
  <2>2. request[r].stage \in {"idle", "asked", "lost", "pause", "settled", "done"}
    BY <2>1 DEF Fine, Reqs
  <2> QED BY <2>1, <2>2 DEF Fine, Telling
<1> QED BY <1>1, RequestInit, RequestStep, PTL DEF Spec

\* The state stays well formed.
RestType == split \in BOOLEAN /\ accounts \subseteq Accounts /\ subs \in Nat

LEMMA RestStep == RestType /\ [Next]_vars => RestType'
<1> SUFFICES ASSUME RestType, [Next]_vars PROVE RestType'
  OBVIOUS
<1>1. CASE UNCHANGED <<split, accounts, subs>>
  BY <1>1 DEF RestType
<1>2. ASSUME NEW r \in Requests, Answer(r) \/ Refuse(r) PROVE RestType'
  <2>1. \A m : Served(m) \in Nat
    BY DEF Served, RestType
  <2> QED BY <1>2, <2>1 DEF Answer, Refuse, RestType
<1>3. ASSUME NEW r \in Requests,
             (\E m \in Methods : Send(r, m)) \/ NoReceipt(r) \/ AskAgain(r) \/ Tell(r)
      PROVE  RestType'
  BY <1>1, <1>3 DEF Send, NoReceipt, AskAgain, Tell
<1>4. ASSUME NEW a \in Accounts, AddAccount(a) PROVE RestType'
  BY <1>4 DEF AddAccount, RestType
<1>5. CASE Drop
  BY <1>5 DEF Drop, RestType
<1>6. CASE \/ \E c \in Callbacks : On(c) \/ RemoveListener(c) \/ RemoveAllListeners(c)
           \/ Reset \/ OnWebSocketMessage \/ CallNext \/ Return \/ Throw \/ UNCHANGED vars
  BY <1>1, <1>6 DEF On, RemoveListener, RemoveAllListeners, Reset, OnWebSocketMessage, CallNext, Return, Throw, vars
<1> QED BY <1>2, <1>3, <1>4, <1>5, <1>6 DEF Next, Progress

\* Among the rest: removing listeners never makes the list longer, and no receipt
\* is asked for more than Retries + 1 times.
THEOREM TypeCorrect == Spec => []TypeOK
<1>1. Init => RestType
  BY ProviderAssumption DEF Init, RestType
<1>2. ListType /\ RequestInv /\ RestType => TypeOK
  BY DEF ListType, RequestInv, RestType, TypeOK, Reqs
<1> QED BY <1>1, <1>2, ListInit, ListStep, RequestInit, RequestStep, RestStep, PTL DEF Spec
=============================================================================
