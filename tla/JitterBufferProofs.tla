--------------------------- MODULE JitterBufferProofs ---------------------------
(***************************************************************************)
(* Theorems about the two halves of the jitter buffer, which share no      *)
(* variable: SkipList for any finite set of scores, any packets and any    *)
(* number of levels, JitterBuffer for any number of packets and copies,    *)
(* any deadline and any bound on the clock.                                *)
(***************************************************************************)
EXTENDS JitterBuffer, SkipList, FiniteSetTheorems, WellFoundedInduction, TLAPS

-----------------------------------------------------------------------------
(* The invariant of the skip list.                                         *)

\* n is a node of level i, the nodes behind it, and x is the first of them.
On(n, i) == n = head \/ height[n] >= i
Later(n, i) == {k \in After(n) : height[k] >= i}
NextOn(n, i, x) == \/ x = Nil /\ Later(n, i) = {}
                   \/ x \in Later(n, i) /\ \A k \in Later(n, i) : x <= k

Live == {k \in Key : height[k] > 0}

ListTypes ==
    /\ height \in [Key -> 0..MaxLevel]
    /\ packet \in [Key -> Value \cup {NoValue}]
    /\ forward \in [Node -> [1..MaxLevel -> Key \cup {Nil}]]
    /\ level \in 1..MaxLevel
    /\ ret \in (Value \cup {NoValue}) \X BOOLEAN

\* LevelsLinked without Min; nothing is left of the pointers a node does not
\* have; level is the largest height; the packets are those of the live nodes.
Linked == \A n \in Node, i \in 1..MaxLevel : On(n, i) => NextOn(n, i, forward[n][i])
Loose == \A k \in Key, i \in 1..MaxLevel : height[k] < i => forward[k][i] = Nil
TopExact == /\ \A k \in Key : height[k] <= level
            /\ level = 1 \/ \E k \in Key : height[k] = level
Filled == \A k \in Key : packet[k] # NoValue <=> height[k] > 0

ListInv == ListTypes /\ Linked /\ Loose /\ TopExact /\ Filled /\ size = Cardinality(Live)

LEMMA ListConstants == /\ Key \subseteq Nat /\ IsFiniteSet(Key) /\ head \notin Key /\ Nil \notin Key
                       /\ NoValue \notin Value /\ MaxLevel \in Nat /\ MaxLevel >= 1
  BY SkipListAssumption

LEMMA Pointers ==
  ASSUME ListInv
  PROVE  \A n \in Node, i \in 1..MaxLevel : forward[n][i] \in Key \cup {Nil}
<1>1. forward \in [Node -> [1..MaxLevel -> Key \cup {Nil}]]
  BY DEF ListInv, ListTypes
<1>2. \A n \in Node : forward[n] \in [1..MaxLevel -> Key \cup {Nil}]
  BY <1>1
<1> QED
  BY <1>2

\* A set of numbers that is not empty has a least one, and when it is bounded a
\* greatest one.
LEMMA LeastIn ==
  ASSUME NEW S, S \subseteq Nat, S # {}
  PROVE  \E x \in S : \A y \in S : x <= y
<1>1. PICK x \in S : \A y \in S : ~ (<<y, x>> \in OpToRel(<, Nat))
  BY NatLessThanWellFounded, WFMin
<1>2. ASSUME NEW y \in S PROVE x <= y
  <2>1. <<y, x>> \in Nat \X Nat /\ <<y, x>> \notin OpToRel(<, Nat)
    BY <1>1
  <2>2. <<y, x>>[1] = y /\ <<y, x>>[2] = x
    OBVIOUS
  <2>3. ~ (y < x)
    BY <2>1, <2>2 DEF OpToRel
  <2> QED
    BY <2>3
<1> QED
  BY <1>2

LEMMA GreatestIn ==
  ASSUME NEW S, S \subseteq Nat, S # {}, NEW n \in Nat, \A x \in S : x <= n
  PROVE  \E x \in S : \A y \in S : y <= x
<1> DEFINE D == {n - x : x \in S}
<1>0. \A x \in S : n - x \in Nat
  OBVIOUS
<1>1. D \subseteq Nat /\ D # {}
  BY <1>0
<1> HIDE DEF D
<1>2. PICK d \in D : \A y \in D : d <= y
  BY <1>1, LeastIn
<1>3. PICK x \in S : d = n - x
  BY DEF D
<1>4. ASSUME NEW y \in S PROVE y <= x
  <2>1. n - x <= n - y
    BY <1>2, <1>3 DEF D
  <2> QED
    BY <2>1
<1> QED
  BY <1>4

LEMMA MinIs ==
  ASSUME NEW S, S \subseteq Nat, NEW x \in S, \A y \in S : x <= y
  PROVE  Min(S) = x
<1>1. Min(S) \in S /\ \A y \in S : Min(S) <= y
  BY DEF Min
<1>2. Min(S) <= x /\ x <= Min(S) /\ x \in Nat /\ Min(S) \in Nat
  BY <1>1
<1> QED
  BY <1>2

LEMMA MaxIs ==
  ASSUME NEW S, S \subseteq Nat, NEW x \in S, \A y \in S : y <= x
  PROVE  Max(S) = x
<1>1. \A y \in S : x >= y
  OBVIOUS
<1>2. Max(S) \in S /\ \A y \in S : Max(S) >= y
  BY <1>1 DEF Max
<1>3. Max(S) <= x /\ x <= Max(S) /\ x \in Nat /\ Max(S) \in Nat
  BY <1>2
<1> QED
  BY <1>3

\* The invariant in the words of the property.
LEMMA ListInvMeans == ListInv => IsSkipList
<1> SUFFICES ASSUME ListInv PROVE IsSkipList
  OBVIOUS
<1>1. LevelsLinked
  <2> SUFFICES ASSUME NEW n \in Node, NEW i \in 1..MaxLevel, On(n, i)
               PROVE  forward[n][i] = IF Later(n, i) = {} THEN Nil ELSE Min(Later(n, i))
    BY DEF LevelsLinked, Later, On
  <2>1. NextOn(n, i, forward[n][i])
    BY DEF ListInv, Linked
  <2>2. Later(n, i) \subseteq Nat
    BY ListConstants DEF Later, After
  <2> QED
    BY <2>1, <2>2, MinIs DEF NextOn
<1>2. level = Max({1} \cup {height[k] : k \in Key})
  <2> DEFINE S == {1} \cup {height[k] : k \in Key}
  <2>1. S \subseteq Nat /\ level \in S
    BY ListConstants DEF ListInv, ListTypes, TopExact
  <2>2. \A y \in S : y <= level
    BY ListConstants DEF ListInv, ListTypes, TopExact
  <2> HIDE DEF S
  <2>3. level = Max(S)
    BY <2>1, <2>2, MaxIs
  <2> QED
    BY <2>3 DEF S
<1>3. size = Cardinality({k \in Key : height[k] > 0})
  BY DEF ListInv, Live
<1>4. size \in 0..Cardinality(Key)
  <2>1. Live \subseteq Key
    BY DEF Live
  <2>2. IsFiniteSet(Live) /\ Cardinality(Live) <= Cardinality(Key)
    BY <2>1, ListConstants, FS_Subset
  <2>3. Cardinality(Live) \in Nat /\ Cardinality(Key) \in Nat
    BY <2>2, ListConstants, FS_CardinalityType
  <2> QED
    BY <2>2, <2>3 DEF ListInv
<1> QED
  BY <1>1, <1>2, <1>3, <1>4 DEF IsSkipList, LevelAndSizeExact, ListTypeOK, ListInv, ListTypes

-----------------------------------------------------------------------------
(* The search.                                                             *)

\* p is the last node of level i before score.
IsPred(p, i, score) ==
    /\ p \in Node /\ On(p, i)
    /\ p = head \/ p < score
    /\ \A k \in Key : height[k] >= i /\ k < score => p # head /\ k <= p

Pred(i, score) == CHOOSE p \in Node : IsPred(p, i, score)

LEMMA OnePred ==
  ASSUME NEW p, NEW q, NEW i, NEW score, IsPred(p, i, score), IsPred(q, i, score)
  PROVE  p = q
<1>1. p \in Key \/ p = head
  BY DEF IsPred, Node
<1>2. q \in Key \/ q = head
  BY DEF IsPred, Node
<1>3. p \in Key => height[p] >= i /\ p < score /\ q # head /\ p <= q
  BY ListConstants DEF IsPred, On
<1>4. q \in Key => height[q] >= i /\ q < score /\ p # head /\ q <= p
  BY ListConstants DEF IsPred, On
<1>5. p \in Key /\ q \in Key => p <= q /\ q <= p /\ p \in Nat /\ q \in Nat
  BY <1>3, <1>4, ListConstants
<1>6. p \in Key /\ q \in Key => p = q
  BY <1>5
<1> QED
  BY <1>1, <1>2, <1>3, <1>4, <1>6

LEMMA PredIs ==
  ASSUME NEW i \in 1..MaxLevel, NEW score \in Key
  PROVE  /\ IsPred(Pred(i, score), i, score)
         /\ \A p : IsPred(p, i, score) => p = Pred(i, score)
<1> DEFINE B == {k \in Key : height[k] >= i /\ k < score}
<1>1. \E p \in Node : IsPred(p, i, score)
  <2>1. CASE B = {}
    <3>1. IsPred(head, i, score)
      BY <2>1 DEF IsPred, Node, On
    <3> QED
      BY <3>1 DEF Node
  <2>2. CASE B # {}
    <3>0. B \subseteq Nat /\ score \in Nat /\ \A x \in B : x < score
      BY ListConstants
    <3> HIDE DEF B
    <3>1. \A x \in B : x <= score
      BY <3>0
    <3>2. PICK x \in B : \A y \in B : y <= x
      BY <2>2, <3>0, <3>1, GreatestIn
    <3>3. x \in Key /\ height[x] >= i /\ x < score /\ x # head
      BY ListConstants DEF B
    <3>4. IsPred(x, i, score)
      BY <3>2, <3>3 DEF IsPred, Node, On, B
    <3> QED
      BY <3>3, <3>4 DEF Node
  <2> QED
    BY <2>1, <2>2
<1>2. IsPred(Pred(i, score), i, score)
  BY <1>1 DEF Pred
<1> QED
  BY <1>2, OnePred

\* Where the inner loop stops there is the last node before score ...
LEMMA StopsAtPred ==
  ASSUME ListInv, NEW i \in 1..MaxLevel, NEW score \in Key, NEW m \in Node, On(m, i),
         m = head \/ m < score, ~ shouldAdvance(forward[m][i], score)
  PROVE  m = Pred(i, score)
<1>1. NextOn(m, i, forward[m][i])
  BY DEF ListInv, Linked
<1>2. PICK x : x = forward[m][i]
  OBVIOUS
<1>3. ASSUME NEW k \in Key, height[k] >= i, k < score PROVE m # head /\ k <= m
  <2>1. k \notin Later(m, i)
    <3>1. ASSUME k \in Later(m, i) PROVE FALSE
      <4>1. x \in Later(m, i) /\ x <= k
        BY <1>1, <1>2, <3>1 DEF NextOn
      <4>2. x \in Key
        BY <4>1 DEF Later, After
      <4>3. x # Nil /\ ~ (x < score)
        BY <1>2, <4>2, ListConstants DEF shouldAdvance
      <4>4. x \in Nat /\ k \in Nat /\ score \in Nat
        BY <4>2, ListConstants
      <4> QED
        BY <1>3, <4>1, <4>3, <4>4
    <3> QED
      BY <3>1
  <2>2. k \notin After(m)
    BY <1>3, <2>1 DEF Later
  <2>3. m # head /\ m \in Key /\ ~ (k > m)
    BY <2>2 DEF After, Node
  <2>4. k \in Nat /\ m \in Nat
    BY <2>3, ListConstants
  <2> QED
    BY <2>3, <2>4
<1>4. IsPred(m, i, score)
  BY <1>3 DEF IsPred
<1> QED
  BY <1>4, PredIs

\* ... and as long as it goes on it goes up, along the level.
LEMMA GoesUp ==
  ASSUME ListInv, NEW i \in 1..MaxLevel, NEW score \in Key, NEW m \in Node, NEW x,
         x = forward[m][i], shouldAdvance(x, score)
  PROVE  /\ On(m, i) /\ x \in Key /\ height[x] >= i /\ x < score
         /\ m # head => m \in Key /\ m < x
<1>1. x # Nil /\ x < score
  BY DEF shouldAdvance
<1>2. On(m, i)
  <2>1. CASE m = head
    BY <2>1 DEF On
  <2>2. CASE m # head
    <3>1. m \in Key /\ height[m] \in Nat /\ i \in Nat
      BY <2>2, ListConstants DEF Node, ListInv, ListTypes
    <3>2. ~ (height[m] < i)
      BY <1>1, <3>1 DEF ListInv, Loose
    <3> QED
      BY <3>1, <3>2 DEF On
  <2> QED
    BY <2>1, <2>2
<1>3. x \in Later(m, i)
  BY <1>1, <1>2 DEF ListInv, Linked, NextOn
<1> QED
  BY <1>1, <1>2, <1>3 DEF Later, After, Node

\* The inner loop is a recursive function on the nodes; the function that says
\* where it ends is one that satisfies its equation, and the only one.
LEMMA WalkIsPred ==
  ASSUME ListInv, NEW i \in 1..MaxLevel, NEW score \in Key, NEW n \in Node, On(n, i),
         n = head \/ n < score
  PROVE  Walk(i, n, score) = Pred(i, score)
<1> DEFINE next(m) == forward[m][i]
           G(f, m) == IF shouldAdvance(next(m), score) THEN f[next(m)] ELSE m
           end == [m \in Node |-> IF shouldAdvance(next(m), score) THEN Pred(i, score) ELSE m]
           walk == CHOOSE f : f = [m \in Node |-> G(f, m)]
<1>1. ASSUME NEW m \in Node, shouldAdvance(next(m), score)
      PROVE  /\ next(m) \in Node /\ next(m) \in Key /\ (m # head => m \in Key /\ m < next(m))
             /\ next(m) < score
             /\ ~ shouldAdvance(next(next(m)), score) => next(m) = Pred(i, score)
  <2>1. PICK x : x = next(m)
    OBVIOUS
  <2>2. On(m, i) /\ x \in Key /\ height[x] >= i /\ x < score /\ (m # head => m \in Key /\ m < x)
    BY <1>1, <2>1, GoesUp
  <2>3. x \in Node /\ On(x, i)
    BY <2>2 DEF Node, On
  <2>4. ~ shouldAdvance(forward[x][i], score) => x = Pred(i, score)
    BY <2>2, <2>3, StopsAtPred
  <2> QED
    BY <2>1, <2>2, <2>3, <2>4
<1>2. end = [m \in Node |-> G(end, m)]
  <2>1. ASSUME NEW m \in Node PROVE end[m] = G(end, m)
    <3>1. CASE shouldAdvance(next(m), score)
      <4> HIDE DEF next
      <4> QED
        BY <1>1, <3>1
    <3>2. CASE ~ shouldAdvance(next(m), score)
      BY <3>2
    <3> QED
      BY <3>1, <3>2
  <2> HIDE DEF G, next
  <2> QED
    BY <2>1
<1> HIDE DEF end
<1>3. walk = [m \in Node |-> G(walk, m)]
  <2> HIDE DEF G
  <2> QED
    BY <1>2
<1>4. Walk(i, n, score) = walk[n]
  BY DEF Walk
<1> HIDE DEF walk, next
<1>5. \A m \in Node : walk[m] = IF shouldAdvance(next(m), score) THEN walk[next(m)] ELSE m
  BY <1>3
<1>6. ASSUME NEW m \in Key, shouldAdvance(next(m), score) PROVE walk[m] = Pred(i, score)
  <2> DEFINE B == {k \in Key : shouldAdvance(next(k), score) /\ walk[k] # Pred(i, score)}
  <2>1. CASE B = {}
    BY <1>6, <2>1
  <2>2. CASE B # {}
    <3>1. \A k \in B : k \in Key /\ k \in Node /\ shouldAdvance(next(k), score) /\ k # head
      BY ListConstants DEF Node
    <3>2. B \subseteq Nat /\ score \in Nat
      BY <3>1, ListConstants
    <3>3. ASSUME NEW k \in B PROVE k <= score
      <4>1. next(k) \in Key /\ k < next(k) /\ next(k) < score
        BY <1>1, <3>1
      <4>2. k \in Nat /\ next(k) \in Nat /\ score \in Nat
        BY <3>1, <4>1, ListConstants
      <4> QED
        BY <4>1, <4>2
    <3>4. PICK b \in B : \A k \in B : k <= b
      <4> HIDE DEF B
      <4> QED
        BY <2>2, <3>2, <3>3, GreatestIn
    <3>5. PICK x : x = next(b)
      OBVIOUS
    <3>6. /\ x \in Key /\ x \in Node /\ b < x /\ walk[b] = walk[x]
          /\ ~ shouldAdvance(next(x), score) => x = Pred(i, score)
      BY <1>1, <1>5, <3>1, <3>5
    <3>7. x \notin B
      <4>1. x \in Nat /\ b \in Nat
        BY <3>1, <3>6, ListConstants
      <4>2. ~ (x <= b)
        BY <3>6, <4>1
      <4> QED
        BY <3>4, <4>2
    <3>8. walk[x] = Pred(i, score)
      BY <1>5, <3>6, <3>7
    <3> QED
      BY <3>6, <3>8
  <2> QED
    BY <2>1, <2>2
<1>7. CASE shouldAdvance(next(n), score)
  <2>1. PICK x : x = next(n)
    OBVIOUS
  <2>2. /\ x \in Key /\ x \in Node /\ walk[n] = walk[x]
        /\ ~ shouldAdvance(next(x), score) => x = Pred(i, score)
    BY <1>1, <1>5, <1>7, <2>1
  <2>3. walk[x] = Pred(i, score)
    BY <1>5, <1>6, <2>2
  <2> QED
    BY <1>4, <2>2, <2>3
<1>8. CASE ~ shouldAdvance(next(n), score)
  <2>1. walk[n] = n
    BY <1>5, <1>8
  <2>2. n = Pred(i, score)
    BY <1>8, StopsAtPred DEF next
  <2> QED
    BY <1>4, <2>1, <2>2
<1> QED
  BY <1>7, <1>8

\* The predecessors, from the top level down.
LEMMA PredecessorsAre ==
  ASSUME ListInv, NEW score \in Key
  PROVE  Predecessors(score) = [i \in 1..level |-> Pred(i, score)]
<1> DEFINE start(f, i) == IF i = level THEN head ELSE f[i + 1]
           G(f, i) == Walk(i, start(f, i), score)
           end == [i \in 1..level |-> Pred(i, score)]
           pred == CHOOSE f : f = [i \in 1..level |-> G(f, i)]
<1>0. /\ level \in Nat /\ level >= 1 /\ level <= MaxLevel
      /\ \A i \in 1..level : i \in Nat /\ i \in 1..MaxLevel
      /\ \A i \in 1..level : i # level => i + 1 \in 1..level
  BY ListConstants DEF ListInv, ListTypes
<1>1. ASSUME NEW i \in 1..level, NEW p, i = level => p = head, i # level => p = Pred(i + 1, score)
      PROVE  Walk(i, p, score) = Pred(i, score)
  <2>1. CASE i = level
    <3>1. head \in Node /\ On(head, i)
      BY DEF Node, On
    <3> QED
      BY <1>0, <1>1, <2>1, <3>1, WalkIsPred
  <2>2. CASE i # level
    <3>1. IsPred(p, i + 1, score)
      BY <1>0, <1>1, <2>2, PredIs
    <3>2. p = head \/ height[p] >= i + 1
      BY <3>1 DEF IsPred, On
    <3>3. p \in Node /\ (p = head \/ p < score)
      BY <3>1 DEF IsPred
    <3>4. p # head => p \in Key /\ height[p] \in Nat
      BY <3>3, ListConstants DEF Node, ListInv, ListTypes
    <3>5. On(p, i)
      BY <1>0, <3>2, <3>4 DEF On
    <3> QED
      BY <1>0, <3>3, <3>5, WalkIsPred
  <2> QED
    BY <2>1, <2>2
<1>2. end = [i \in 1..level |-> G(end, i)]
  <2>1. ASSUME NEW i \in 1..level PROVE end[i] = G(end, i)
    <3>1. i = level => start(end, i) = head
      OBVIOUS
    <3>2. i # level => start(end, i) = Pred(i + 1, score)
      BY <1>0
    <3> HIDE DEF start
    <3>3. G(end, i) = Pred(i, score)
      BY <1>1, <3>1, <3>2
    <3> QED
      BY <3>3
  <2> HIDE DEF G
  <2> QED
    BY <2>1
<1> HIDE DEF end
<1>3. pred = [i \in 1..level |-> G(pred, i)]
  <2> HIDE DEF G
  <2> QED
    BY <1>2
<1>4. Predecessors(score) = pred
  BY DEF Predecessors
<1> HIDE DEF pred
<1>5. \A i \in 1..level : pred[i] = Walk(i, IF i = level THEN head ELSE pred[i + 1], score)
  BY <1>3
<1>6. ASSUME NEW i \in 1..level PROVE pred[i] = Pred(i, score)
  <2> DEFINE B == {j \in 1..level : pred[j] # Pred(j, score)}
  <2>1. CASE B = {}
    BY <2>1
  <2>2. CASE B # {}
    <3>1. B \subseteq Nat /\ level \in Nat /\ \A j \in B : j <= level
      BY <1>0
    <3>2. PICK b \in B : \A j \in B : j <= b
      <4> HIDE DEF B
      <4> QED
        BY <2>2, <3>1, GreatestIn
    <3>3. b \in 1..level /\ pred[b] # Pred(b, score)
      OBVIOUS
    <3>4. b # level => b + 1 \in 1..level /\ b + 1 \notin B
      <4>1. ~ (b + 1 <= b)
        BY <1>0, <3>3
      <4> QED
        BY <1>0, <3>2, <3>3, <4>1
    <3>5. b # level => pred[b + 1] = Pred(b + 1, score)
      BY <3>4
    <3> DEFINE p == IF b = level THEN head ELSE pred[b + 1]
    <3>6. (b = level => p = head) /\ (b # level => p = Pred(b + 1, score))
      BY <3>5
    <3>7. pred[b] = Walk(b, p, score)
      BY <1>5, <3>3
    <3> HIDE DEF p, B
    <3> QED
      BY <1>1, <3>3, <3>6, <3>7
  <2> QED
    BY <2>1, <2>2
<1>7. pred = [i \in 1..level |-> pred[i]]
  BY <1>3
<1> QED
  BY <1>4, <1>6, <1>7

\* Above the level in use there is no node.
LEMMA PredAbove ==
  ASSUME ListInv, NEW score \in Key, NEW i \in 1..MaxLevel, ~ (i <= level)
  PROVE  Pred(i, score) = head
<1>1. \A k \in Key : height[k] \in Nat /\ height[k] <= level
  BY ListConstants DEF ListInv, ListTypes, TopExact
<1>2. level \in Nat /\ i \in Nat
  BY ListConstants DEF ListInv, ListTypes
<1>3. \A k \in Key : ~ (height[k] >= i)
  BY <1>1, <1>2
<1>4. IsPred(head, i, score)
  BY <1>3 DEF IsPred, Node, On
<1> QED
  BY <1>4, PredIs

\* Behind the last node before score come those from score on.
LEMMA BehindPred ==
  ASSUME ListInv, NEW score \in Key, NEW i \in 1..MaxLevel
  PROVE  Later(Pred(i, score), i) = {k \in Key : height[k] >= i /\ score <= k}
<1>1. PICK p : p = Pred(i, score)
  OBVIOUS
<1>2. IsPred(p, i, score)
  BY <1>1, PredIs
<1>3. ASSUME NEW k \in Key, height[k] >= i PROVE k \in After(p) <=> score <= k
  <2>1. k \in Nat /\ score \in Nat
    BY ListConstants
  <2>2. CASE k < score
    <3>1. p # head /\ k <= p /\ p \in Nat
      BY <1>2, <1>3, <2>2, ListConstants DEF IsPred, Node
    <3> QED
      BY <2>1, <2>2, <3>1 DEF After
  <2>3. CASE score <= k
    <3>1. p = head \/ (p \in Nat /\ p < score)
      BY <1>2, ListConstants DEF IsPred, Node
    <3> QED
      BY <2>1, <2>3, <3>1 DEF After
  <2> QED
    BY <2>1, <2>2, <2>3
<1>4. After(p) \subseteq Key
  BY DEF After
<1> QED
  BY <1>1, <1>3, <1>4 DEF Later

\* The node behind the lowest predecessor is score's, if there is one.
LEMMA CandidateIs ==
  ASSUME ListInv, NEW score \in Key
  PROVE  Candidate(score) = score <=> height[score] > 0
<1>0. 1 \in 1..level /\ 1 \in 1..MaxLevel /\ height[score] \in Nat
  BY ListConstants DEF ListInv, ListTypes
<1>1. PICK p, x : p = Pred(1, score) /\ x = forward[p][1]
  OBVIOUS
<1>2. Candidate(score) = x
  BY <1>0, <1>1, PredecessorsAre DEF Candidate
<1>3. NextOn(p, 1, x)
  BY <1>0, <1>1, PredIs DEF IsPred, ListInv, Linked
<1>4. Later(p, 1) = {k \in Key : height[k] >= 1 /\ score <= k}
  BY <1>0, <1>1, BehindPred
<1>5. CASE height[score] > 0
  <2>1. score \in Later(p, 1)
    BY <1>0, <1>4, <1>5, ListConstants
  <2>2. x \in Later(p, 1) /\ x <= score
    BY <1>3, <2>1 DEF NextOn
  <2>3. x \in Nat /\ score \in Nat /\ score <= x
    BY <1>4, <2>2, ListConstants
  <2>4. x = score
    BY <2>2, <2>3
  <2> QED
    BY <1>2, <1>5, <2>4
<1>6. CASE ~ (height[score] > 0)
  <2>1. score \notin Later(p, 1)
    BY <1>0, <1>4, <1>6
  <2>2. x # score
    BY <1>3, <2>1, ListConstants DEF NextOn
  <2> QED
    BY <1>2, <1>6, <2>2
<1> QED
  BY <1>5, <1>6

\* The first node is that of the smallest score.
LEMMA FirstIs ==
  ASSUME ListInv
  PROVE  LET x == forward[head][1]
         IN  \/ x = Nil /\ Live = {}
             \/ x \in Live /\ \A k \in Live : x <= k
<1>1. head \in Node /\ On(head, 1) /\ 1 \in 1..MaxLevel
  BY ListConstants DEF Node, On
<1>2. NextOn(head, 1, forward[head][1])
  BY <1>1 DEF ListInv, Linked
<1>3. Later(head, 1) = Live
  <2>1. \A k \in Key : height[k] \in Nat
    BY ListConstants DEF ListInv, ListTypes
  <2> QED
    BY <2>1 DEF Later, After, Live
<1> QED
  BY <1>2, <1>3 DEF NextOn

-----------------------------------------------------------------------------
(* The operations.                                                         *)

\* A node before score that is not its predecessor has the predecessor behind it.
LEMMA PredLater ==
  ASSUME ListInv, NEW score \in Key, NEW i \in 1..MaxLevel, NEW n \in Node, On(n, i),
         score \in After(n), n # Pred(i, score)
  PROVE  Pred(i, score) \in Later(n, i) /\ Pred(i, score) < score
<1>1. PICK p : p = Pred(i, score)
  OBVIOUS
<1>2. IsPred(p, i, score)
  BY <1>1, PredIs
<1>3. n # head => n \in Key /\ height[n] >= i /\ n < score
  BY ListConstants DEF Node, On, After
<1>4. p # head
  BY <1>1, <1>2, <1>3 DEF IsPred
<1>5. p \in Key /\ height[p] >= i /\ p < score
  BY <1>2, <1>4 DEF IsPred, Node, On
<1>6. n # head => n <= p /\ n # p
  BY <1>1, <1>2, <1>3 DEF IsPred
<1>7. p \in After(n)
  <2>1. CASE n = head
    BY <1>5, <2>1 DEF After
  <2>2. CASE n # head
    <3>1. n \in Nat /\ p \in Nat
      BY <1>3, <1>5, <2>2, ListConstants
    <3>2. p > n
      BY <1>6, <2>2, <3>1
    <3> QED
      BY <1>5, <2>2, <3>2 DEF After
  <2> QED
    BY <2>1, <2>2
<1> QED
  BY <1>1, <1>5, <1>7 DEF Later

\* Insert of a new node of height h links it behind its predecessors.
LEMMA LinkInsert ==
  ASSUME ListInv, NEW score \in Key, height[score] = 0, NEW h \in 1..MaxLevel,
         height' = [height EXCEPT ![score] = h],
         forward' = [n \in Node |-> [i \in 1..MaxLevel |->
                        IF i > h THEN (IF n = score THEN Nil ELSE forward[n][i])
                        ELSE IF n = score THEN forward[Pred(i, score)][i]
                        ELSE IF n = Pred(i, score) THEN score
                        ELSE forward[n][i]]]
  PROVE  Linked' /\ Loose' /\ forward' \in [Node -> [1..MaxLevel -> Key \cup {Nil}]]
<1>0. /\ \A k \in Key : height[k] \in Nat /\ height'[k] \in Nat
      /\ \A k \in Key : height'[k] = IF k = score THEN h ELSE height[k]
      /\ \A i \in 1..MaxLevel : i \in Nat /\ i >= 1
      /\ h \in Nat /\ score \in Node /\ score # head
  BY ListConstants DEF ListInv, ListTypes, Node
<1>1. \A n \in Node, i \in 1..MaxLevel :
        forward'[n][i] = IF i > h THEN (IF n = score THEN Nil ELSE forward[n][i])
                         ELSE IF n = score THEN forward[Pred(i, score)][i]
                         ELSE IF n = Pred(i, score) THEN score
                         ELSE forward[n][i]
  OBVIOUS
<1>2. \A n \in Node, i \in 1..MaxLevel : forward[n][i] \in Key \cup {Nil}
  BY Pointers
<1>3. ASSUME NEW i \in 1..MaxLevel
      PROVE  IsPred(Pred(i, score), i, score) /\ Pred(i, score) \in Node /\ Pred(i, score) # score
  <2>1. IsPred(Pred(i, score), i, score)
    BY PredIs
  <2>2. ~ (score < score)
    BY ListConstants
  <2> QED
    BY <1>0, <2>1, <2>2 DEF IsPred
<1>4. forward' \in [Node -> [1..MaxLevel -> Key \cup {Nil}]]
  BY <1>2, <1>3
<1>5. ASSUME NEW n \in Node, NEW i \in 1..MaxLevel
      PROVE  /\ i <= h /\ score \in After(n) => Later(n, i)' = Later(n, i) \cup {score}
             /\ ~ (i <= h /\ score \in After(n)) => Later(n, i)' = Later(n, i)
  <2>1. \A k \in After(n) : k \in Key
    BY DEF After
  <2>2. Later(n, i)' = {k \in After(n) : height'[k] >= i}
    BY DEF Later
  <2>3. ~ (height[score] >= i) /\ (height'[score] >= i <=> i <= h)
    BY <1>0
  <2>4. \A k \in After(n) : height'[k] >= i <=> height[k] >= i \/ (k = score /\ i <= h)
    BY <1>0, <2>1, <2>3
  <2> HIDE DEF After
  <2> QED
    BY <2>2, <2>3, <2>4 DEF Later
<1>6. ASSUME NEW n \in Node, NEW i \in 1..MaxLevel, On(n, i)'
      PROVE  NextOn(n, i, forward[n][i])'
  <2>0. n # score => On(n, i) /\ NextOn(n, i, forward[n][i])
    BY <1>0, <1>6 DEF On, ListInv, Linked, Node
  <2>1. CASE i > h
    <3>1. n # score
      BY <1>0, <1>6, <2>1 DEF On
    <3>2. Later(n, i)' = Later(n, i)
      BY <1>0, <1>5, <2>1
    <3> QED
      BY <1>1, <2>0, <2>1, <3>1, <3>2 DEF NextOn
  <2>2. CASE i <= h /\ n = score
    <3>1. PICK p, x : p = Pred(i, score) /\ x = forward[p][i]
      OBVIOUS
    <3>2. NextOn(p, i, x)
      BY <1>3, <3>1 DEF IsPred, ListInv, Linked
    <3>3. Later(p, i) = {k \in Key : height[k] >= i /\ score <= k}
      BY <3>1, BehindPred
    <3>4. ~ (score > score) /\ After(score) = {k \in Key : k > score}
      BY <1>0, ListConstants DEF After
    <3>5. Later(n, i)' = Later(score, i)
      BY <1>5, <2>2, <3>4
    <3>6. \A k \in Key : height[k] >= i => (score <= k <=> k > score)
      <4>1. ~ (height[score] >= i)
        BY <1>0
      <4>2. \A k \in Key : k \in Nat
        BY ListConstants
      <4>3. score \in Nat
        BY <4>2
      <4>4. \A k \in Key : k # score => (score <= k <=> k > score)
        BY <4>2, <4>3
      <4> QED
        BY <4>1, <4>4
    <3>7. Later(score, i) = Later(p, i)
      BY <3>3, <3>4, <3>6 DEF Later
    <3>8. forward[n][i]' = x
      BY <1>0, <1>1, <2>2, <3>1
    <3> QED
      BY <3>2, <3>5, <3>7, <3>8 DEF NextOn
  <2>3. CASE i <= h /\ n = Pred(i, score)
    <3>1. Later(n, i) = {k \in Key : height[k] >= i /\ score <= k}
      BY <2>3, BehindPred
    <3>2. score \in After(n)
      BY <1>3, <2>3, ListConstants DEF IsPred, After, Node
    <3>3. Later(n, i)' = Later(n, i) \cup {score}
      BY <1>5, <2>3, <3>2
    <3>4. forward[n][i]' = score
      BY <1>0, <1>1, <1>3, <2>3
    <3>5. score <= score
      BY ListConstants
    <3> QED
      BY <3>1, <3>3, <3>4, <3>5 DEF NextOn
  <2>4. CASE i <= h /\ n # score /\ n # Pred(i, score)
    <3>1. forward[n][i]' = forward[n][i]
      BY <1>0, <1>1, <2>4
    <3>2. CASE score \notin After(n)
      BY <1>5, <2>0, <2>4, <3>1, <3>2 DEF NextOn
    <3>3. CASE score \in After(n)
      <4>1. PICK p : p = Pred(i, score) /\ p \in Later(n, i) /\ p < score
        BY <2>0, <2>4, <3>3, PredLater
      <4>2. PICK y : /\ y = forward[n][i] /\ y \in Later(n, i)
                     /\ \A k \in Later(n, i) : y <= k
        BY <2>0, <2>4, <4>1 DEF NextOn
      <4>3. y <= score
        <5>1. y \in Nat /\ p \in Nat /\ score \in Nat
          BY <4>1, <4>2, ListConstants DEF Later, After
        <5> QED
          BY <4>1, <4>2, <5>1
      <4>4. Later(n, i)' = Later(n, i) \cup {score}
        BY <1>5, <2>4, <3>3
      <4> QED
        BY <3>1, <4>2, <4>3, <4>4 DEF NextOn
    <3> QED
      BY <3>2, <3>3
  <2> QED
    BY <1>0, <2>1, <2>2, <2>3, <2>4
<1>7. Linked'
  BY <1>6 DEF Linked
<1>8. Loose'
  <2> SUFFICES ASSUME NEW k \in Key, NEW i \in 1..MaxLevel, height'[k] < i
               PROVE  forward'[k][i] = Nil
    BY DEF Loose
  <2>0. k \in Node /\ k # head
    BY ListConstants DEF Node
  <2>1. CASE k = score
    BY <1>0, <1>1, <2>0, <2>1
  <2>2. CASE k # score
    <3>1. height[k] < i
      BY <1>0, <2>2
    <3>2. k # Pred(i, score)
      <4>1. ~ On(k, i)
        BY <1>0, <2>0, <3>1 DEF On
      <4> QED
        BY <1>3, <4>1 DEF IsPred
    <3>3. forward'[k][i] = forward[k][i]
      BY <1>1, <2>0, <2>2, <3>2
    <3> QED
      BY <3>1, <3>3 DEF ListInv, Loose
  <2> QED
    BY <2>1, <2>2
<1> QED
  BY <1>4, <1>7, <1>8

\* Removing a node links its predecessors to what came behind it.
LEMMA LinkRemove ==
  ASSUME ListInv, NEW score \in Key, height[score] > 0,
         height' = [height EXCEPT ![score] = 0],
         forward' = [n \in Node |-> [i \in 1..MaxLevel |->
                        IF n = score THEN Nil
                        ELSE IF i <= height[score] /\ n = Pred(i, score) THEN forward[score][i]
                        ELSE forward[n][i]]]
  PROVE  Linked' /\ Loose' /\ forward' \in [Node -> [1..MaxLevel -> Key \cup {Nil}]]
<1>0. /\ \A k \in Key : height[k] \in Nat /\ height'[k] \in Nat
      /\ \A k \in Key : height'[k] = IF k = score THEN 0 ELSE height[k]
      /\ \A i \in 1..MaxLevel : i \in Nat /\ i >= 1
      /\ score \in Node /\ score # head
  BY ListConstants DEF ListInv, ListTypes, Node
<1>1. \A n \in Node, i \in 1..MaxLevel :
        forward'[n][i] = IF n = score THEN Nil
                         ELSE IF i <= height[score] /\ n = Pred(i, score) THEN forward[score][i]
                         ELSE forward[n][i]
  OBVIOUS
<1>2. \A n \in Node, i \in 1..MaxLevel : forward[n][i] \in Key \cup {Nil}
  BY Pointers
<1>3. ASSUME NEW i \in 1..MaxLevel
      PROVE  IsPred(Pred(i, score), i, score) /\ Pred(i, score) # score
  <2>1. IsPred(Pred(i, score), i, score)
    BY PredIs
  <2>2. ~ (score < score)
    BY ListConstants
  <2> QED
    BY <1>0, <2>1, <2>2 DEF IsPred
<1>4. forward' \in [Node -> [1..MaxLevel -> Key \cup {Nil}]]
  BY <1>0, <1>2
<1>5. ASSUME NEW n \in Node, NEW i \in 1..MaxLevel PROVE Later(n, i)' = Later(n, i) \ {score}
  <2>1. \A k \in After(n) : k \in Key
    BY DEF After
  <2>2. Later(n, i)' = {k \in After(n) : height'[k] >= i}
    BY DEF Later
  <2>3. \A k \in After(n) : height'[k] >= i <=> height[k] >= i /\ k # score
    BY <1>0, <2>1
  <2> HIDE DEF After
  <2> QED
    BY <2>2, <2>3 DEF Later
<1>6. ASSUME NEW n \in Node, NEW i \in 1..MaxLevel, On(n, i)'
      PROVE  NextOn(n, i, forward[n][i])'
  <2>0. n # score /\ On(n, i) /\ NextOn(n, i, forward[n][i])
    <3>1. n # score
      BY <1>0, <1>6 DEF On
    <3>2. On(n, i)
      BY <1>0, <1>6, <3>1 DEF On, Node
    <3> QED
      BY <3>1, <3>2 DEF ListInv, Linked
  <2>1. CASE ~ (i <= height[score])
    <3>1. score \notin Later(n, i)
      BY <1>0, <2>1 DEF Later
    <3>2. Later(n, i)' = Later(n, i)
      BY <1>5, <3>1
    <3> QED
      BY <1>1, <2>0, <2>1, <3>2 DEF NextOn
  <2>2. CASE i <= height[score] /\ n = Pred(i, score)
    <3>1. PICK x : x = forward[score][i]
      OBVIOUS
    <3>2. NextOn(score, i, x)
      BY <1>0, <2>2, <3>1 DEF On, ListInv, Linked
    <3>3. Later(n, i) = {k \in Key : height[k] >= i /\ score <= k}
      BY <2>2, BehindPred
    <3>4. Later(score, i) = {k \in Key : k > score /\ height[k] >= i}
      BY <1>0 DEF Later, After
    <3>5. \A k \in Key : k > score <=> score <= k /\ k # score
      BY ListConstants
    <3>6. Later(n, i)' = Later(score, i)
      BY <1>5, <3>3, <3>4, <3>5
    <3>7. Later(score, i)' = Later(score, i)
      BY <1>0, <1>5, <3>4, <3>5
    <3>8. forward[n][i]' = x
      BY <1>1, <2>0, <2>2, <3>1
    <3> QED
      BY <3>2, <3>6, <3>8 DEF NextOn
  <2>3. CASE i <= height[score] /\ n # Pred(i, score)
    <3>1. PICK y : y = forward[n][i] /\ y = forward[n][i]'
      BY <1>1, <2>0, <2>3
    <3>2. y # score
      <4>1. SUFFICES ASSUME y = score PROVE FALSE
        OBVIOUS
      <4>2. score \in Later(n, i) /\ \A k \in Later(n, i) : score <= k
        BY <2>0, <3>1, <4>1, ListConstants DEF NextOn
      <4>3. PICK p : p \in Later(n, i) /\ p < score
        BY <2>0, <2>3, <4>2, PredLater DEF Later
      <4>4. p \in Nat /\ score \in Nat
        BY <4>3, ListConstants DEF Later, After
      <4> QED
        BY <4>2, <4>3, <4>4
    <3> QED
      BY <1>5, <2>0, <3>1, <3>2 DEF NextOn
  <2> QED
    BY <2>1, <2>2, <2>3
<1>7. Linked'
  BY <1>6 DEF Linked
<1>8. Loose'
  <2> SUFFICES ASSUME NEW k \in Key, NEW i \in 1..MaxLevel, height'[k] < i
               PROVE  forward'[k][i] = Nil
    BY DEF Loose
  <2>0. k \in Node /\ k # head
    BY ListConstants DEF Node
  <2>1. CASE k = score
    BY <1>1, <2>0, <2>1
  <2>2. CASE k # score
    <3>1. height[k] < i
      BY <1>0, <2>2
    <3>2. k # Pred(i, score)
      <4>1. ~ On(k, i)
        BY <1>0, <2>0, <3>1 DEF On
      <4> QED
        BY <1>3, <4>1 DEF IsPred
    <3>3. forward'[k][i] = forward[k][i]
      BY <1>1, <2>0, <2>2, <3>2
    <3> QED
      BY <3>1, <3>3 DEF ListInv, Loose
  <2> QED
    BY <2>1, <2>2
<1> QED
  BY <1>4, <1>7, <1>8

\* After a removal the levels above the highest that the head still leads
\* into are given up, and those are the empty ones.
LEMMA LowerRemove ==
  ASSUME ListInv, NEW score \in Key, height' = [height EXCEPT ![score] = 0],
         Linked', forward' \in [Node -> [1..MaxLevel -> Key \cup {Nil}]],
         level' = Lowered(level, forward'[head])
  PROVE  TopExact' /\ level' \in 1..MaxLevel
<1> DEFINE S == {1} \cup {i \in 1..level : forward'[head][i] # Nil}
<1>0. /\ \A k \in Key : height'[k] \in Nat /\ height'[k] <= level /\ height'[k] <= MaxLevel
      /\ level \in Nat /\ level >= 1 /\ level <= MaxLevel
  BY ListConstants DEF ListInv, ListTypes, TopExact
<1>1. S \subseteq Nat /\ S # {} /\ (\A i \in S : i <= level) /\ 1 \in S
  BY <1>0
<1>2. PICK m \in S : \A i \in S : i <= m
  <2> HIDE DEF S
  <2> QED
    BY <1>0, <1>1, GreatestIn
<1>3. level' = m
  <2>1. Max(S) = m
    <3> HIDE DEF S
    <3> QED
      BY <1>1, <1>2, MaxIs
  <2>2. level' = Max(S)
    BY DEF Lowered
  <2> HIDE DEF S
  <2> QED
    BY <2>1, <2>2
<1>4. m \in Nat /\ 1 <= m /\ m <= level /\ (m # 1 => forward'[head][m] # Nil)
  BY <1>0, <1>1, <1>2
<1>5. ASSUME NEW i \in 1..MaxLevel
      PROVE  /\ forward'[head][i] # Nil => \E k \in Key : height'[k] >= i
             /\ \A k \in Key : height'[k] >= i => forward'[head][i] # Nil
  <2>1. NextOn(head, i, forward[head][i])'
    BY DEF Linked, On, Node
  <2>2. Later(head, i)' = {k \in Key : height'[k] >= i}
    BY DEF Later, After
  <2> QED
    BY <2>1, <2>2, ListConstants DEF NextOn
<1>6. ASSUME NEW k \in Key PROVE height'[k] <= m
  <2>1. CASE height'[k] = 0
    BY <1>4, <2>1
  <2>2. CASE height'[k] # 0
    <3>1. PICK j \in Nat : j = height'[k] /\ j >= 1 /\ j <= level /\ j <= MaxLevel
      BY <1>0, <2>2
    <3>2. j \in 1..MaxLevel /\ j \in 1..level /\ height'[k] >= j
      BY <1>0, <3>1
    <3>3. forward'[head][j] # Nil
      BY <1>5, <3>2
    <3>4. j \in S
      BY <3>2, <3>3
    <3> QED
      BY <1>2, <3>1, <3>4
  <2> QED
    BY <2>1, <2>2
<1>7. m = 1 \/ \E k \in Key : height'[k] = m
  <2>1. CASE m # 1
    <3>1. m \in 1..MaxLevel
      BY <1>0, <1>4, ListConstants
    <3>2. PICK k \in Key : height'[k] >= m
      BY <1>4, <1>5, <2>1, <3>1
    <3>3. height'[k] <= m /\ height'[k] \in Nat
      BY <1>0, <1>6
    <3>4. height'[k] = m
      BY <1>4, <3>2, <3>3
    <3> QED
      BY <3>4
  <2> QED
    BY <2>1
<1>8. m \in 1..MaxLevel
  BY <1>0, <1>4, ListConstants
<1> HIDE DEF S
<1> QED
  BY <1>3, <1>6, <1>7, <1>8 DEF TopExact

\* Delete and PopFront leave a skip list without the node.
LEMMA RemoveKeeps ==
  ASSUME ListInv, NEW score \in Key, height[score] > 0, Unlinked(score),
         forward' = [n \in Node |-> [i \in 1..MaxLevel |->
                        IF n = score THEN Nil
                        ELSE IF i <= height[score] /\ n = Pred(i, score) THEN forward[score][i]
                        ELSE forward[n][i]]],
         level' = Lowered(level, forward'[head]),
         ret' \in (Value \cup {NoValue}) \X BOOLEAN
  PROVE  ListInv'
<1>1. /\ height' = [height EXCEPT ![score] = 0]
      /\ packet' = [packet EXCEPT ![score] = NoValue]
      /\ size' = size - 1
  BY DEF Unlinked
<1>2. /\ height \in [Key -> 0..MaxLevel] /\ packet \in [Key -> Value \cup {NoValue}]
      /\ size = Cardinality(Live) /\ Filled
  BY DEF ListInv, ListTypes
<1>3. Linked' /\ Loose' /\ forward' \in [Node -> [1..MaxLevel -> Key \cup {Nil}]]
  BY <1>1, LinkRemove
<1>4. TopExact' /\ level' \in 1..MaxLevel
  BY <1>1, <1>3, LowerRemove
<1>5. height' \in [Key -> 0..MaxLevel] /\ packet' \in [Key -> Value \cup {NoValue}]
  BY <1>1, <1>2, ListConstants
<1>6. \A k \in Key : /\ height'[k] = IF k = score THEN 0 ELSE height[k]
                     /\ packet'[k] = IF k = score THEN NoValue ELSE packet[k]
  BY <1>1, <1>2
<1>7. Filled'
  BY <1>2, <1>6 DEF Filled
<1>8. size' = Cardinality(Live')
  <2>1. Live' = Live \ {score} /\ score \in Live
    BY <1>6 DEF Live
  <2>2. IsFiniteSet(Live)
    BY ListConstants, FS_Subset DEF Live
  <2>3. Cardinality(Live') = Cardinality(Live) - 1
    BY <2>1, <2>2, FS_RemoveElement
  <2> QED
    BY <1>1, <1>2, <2>3
<1> QED
  BY <1>3, <1>4, <1>5, <1>7, <1>8 DEF ListInv, ListTypes

\* The head is the predecessor of the first node on every level.
LEMMA RemoveFrontKeeps ==
  ASSUME ListInv, NEW node, node = forward[head][1], node # Nil, RemoveFront(node)
  PROVE  ListInv' /\ node \in Live /\ \A k \in Live : node <= k
<1>1. node \in Live /\ \A k \in Live : node <= k
  BY FirstIs
<1>2. node \in Key /\ height[node] > 0 /\ node # head /\ node \in Node /\ head \in Node
  BY <1>1, ListConstants DEF Live, Node
<1>3. ASSUME NEW i \in 1..MaxLevel PROVE Pred(i, node) = head
  <2>1. ASSUME NEW k \in Key, height[k] >= i, k < node PROVE FALSE
    <3>1. height[k] \in Nat
      BY ListConstants DEF ListInv, ListTypes
    <3>2. k \in Live
      BY <2>1, <3>1 DEF Live
    <3>3. node <= k /\ node \in Nat /\ k \in Nat
      BY <1>1, <1>2, <3>2, ListConstants
    <3> QED
      BY <2>1, <3>3
  <2>2. IsPred(head, i, node)
    BY <1>2, <2>1 DEF IsPred, On
  <2> QED
    BY <1>2, <2>2, PredIs
<1>4. forward \in [Node -> [1..MaxLevel -> Key \cup {Nil}]]
  BY DEF ListInv, ListTypes
<1>5. forward' = [n \in Node |-> [i \in 1..MaxLevel |->
                    IF n = node THEN Nil
                    ELSE IF i <= height[node] /\ n = Pred(i, node) THEN forward[node][i]
                    ELSE forward[n][i]]]
  <2> DEFINE row(n) == [i \in 1..MaxLevel |->
                          IF n = node THEN Nil
                          ELSE IF i <= height[node] /\ n = Pred(i, node) THEN forward[node][i]
                          ELSE forward[n][i]]
  <2>1. forward' = [forward EXCEPT ![head] = Relinked(node), ![node] = [i \in 1..MaxLevel |-> Nil]]
    BY DEF RemoveFront
  <2>2. forward' = [n \in Node |-> IF n = node THEN [i \in 1..MaxLevel |-> Nil]
                                   ELSE IF n = head THEN Relinked(node) ELSE forward[n]]
    <3> HIDE DEF Relinked
    <3> QED
      BY <1>2, <1>4, <2>1
  <2>3. row(node) = [i \in 1..MaxLevel |-> Nil]
    OBVIOUS
  <2>4. row(head) = Relinked(node)
    BY <1>2, <1>3 DEF Relinked
  <2>5. ASSUME NEW n \in Node, n # node, n # head PROVE row(n) = forward[n]
    <3>1. forward[n] = [i \in 1..MaxLevel |-> forward[n][i]]
      BY <1>4
    <3>2. row(n) = [i \in 1..MaxLevel |-> forward[n][i]]
      BY <1>3, <2>5
    <3> QED
      BY <3>1, <3>2
  <2>6. forward' = [n \in Node |-> row(n)]
    <3> HIDE DEF row
    <3> QED
      BY <2>2, <2>3, <2>4, <2>5
  <2> QED
    BY <2>6
<1>6. Unlinked(node) /\ level' = Lowered(level, forward'[head]) /\ ret' = <<packet[node], TRUE>>
  BY DEF RemoveFront
<1>7. ret' \in (Value \cup {NoValue}) \X BOOLEAN
  BY <1>2, <1>6 DEF ListInv, ListTypes
<1>8. ListInv'
  BY <1>2, <1>5, <1>6, <1>7, RemoveKeeps
<1> QED
  BY <1>1, <1>8

\* What leaves the list alone.
LEMMA SameList ==
  ASSUME ListInv, UNCHANGED <<height, packet, forward, level, size>>,
         ret' \in (Value \cup {NoValue}) \X BOOLEAN
  PROVE  ListInv'
<1>1. /\ ListTypes' /\ Live' = Live /\ Filled' /\ TopExact' /\ Loose'
  BY DEF ListInv, ListTypes, Live, Filled, TopExact, Loose
<1>2. \A n, i : (On(n, i)' <=> On(n, i)) /\ Later(n, i)' = Later(n, i)
  BY DEF On, Later
<1>3. Linked'
  BY <1>2 DEF ListInv, Linked, NextOn
<1> QED
  BY <1>1, <1>3 DEF ListInv

\* Insert of a score that is there, and of one that is not.
LEMMA InsertKeeps ==
  ASSUME ListInv, NEW score \in Key, NEW p \in Value, Insert(score, p)
  PROVE  ListInv' /\ packet' = [packet EXCEPT ![score] = p] /\ ret' = ret
<1>0. /\ height \in [Key -> 0..MaxLevel] /\ packet \in [Key -> Value \cup {NoValue}]
      /\ size = Cardinality(Live) /\ Filled /\ level \in 1..MaxLevel /\ TopExact
      /\ ret \in (Value \cup {NoValue}) \X BOOLEAN /\ p # NoValue
  BY ListConstants DEF ListInv, ListTypes
<1>1. ret' = ret /\ packet' = [packet EXCEPT ![score] = p]
  BY DEF Insert
<1>2. packet' \in [Key -> Value \cup {NoValue}]
      /\ \A k \in Key : packet'[k] = IF k = score THEN p ELSE packet[k]
  BY <1>0, <1>1
<1>3. CASE Candidate(score) = score
  <2>1. UNCHANGED <<height, forward, level, size>> /\ height[score] > 0
    BY <1>3, CandidateIs DEF Insert
  <2>2. Live' = Live /\ Filled' /\ TopExact' /\ Loose'
    BY <1>0, <1>2, <2>1 DEF ListInv, Live, Filled, TopExact, Loose
  <2>3. \A n, i : (On(n, i)' <=> On(n, i)) /\ Later(n, i)' = Later(n, i)
    BY <2>1 DEF On, Later
  <2>4. Linked'
    BY <2>1, <2>3 DEF ListInv, Linked, NextOn
  <2>5. ListTypes'
    BY <1>0, <1>1, <1>2, <2>1 DEF ListInv, ListTypes
  <2> QED
    BY <1>0, <1>1, <2>1, <2>2, <2>4, <2>5 DEF ListInv
<1>4. CASE Candidate(score) # score
  <2>1. height[score] = 0
    <3>1. height[score] \in Nat /\ ~ (height[score] > 0)
      BY <1>0, <1>4, CandidateIs, ListConstants
    <3> QED
      BY <3>1
  <2>2. PICK h \in 1..MaxLevel :
          /\ LET pred == [i \in 1..MaxLevel |->
                            IF i <= level THEN Predecessors(score)[i] ELSE head]
             IN  forward' = [n \in Node |-> [i \in 1..MaxLevel |->
                     IF i > h THEN (IF n = score THEN Nil ELSE forward[n][i])
                     ELSE IF n = score THEN forward[pred[i]][i]
                     ELSE IF n = pred[i] THEN score
                     ELSE forward[n][i]]]
          /\ height' = [height EXCEPT ![score] = h]
          /\ level' = Max({level, h})
          /\ size' = size + 1
    BY <1>4 DEF Insert
  <2>3. \A i \in 1..MaxLevel :
           (IF i <= level THEN Predecessors(score)[i] ELSE head) = Pred(i, score)
    <3>1. \A i \in 1..MaxLevel : i <= level => i \in 1..level
      BY <1>0, ListConstants
    <3> QED
      BY <3>1, PredecessorsAre, PredAbove
  <2>4. forward' = [n \in Node |-> [i \in 1..MaxLevel |->
                     IF i > h THEN (IF n = score THEN Nil ELSE forward[n][i])
                     ELSE IF n = score THEN forward[Pred(i, score)][i]
                     ELSE IF n = Pred(i, score) THEN score
                     ELSE forward[n][i]]]
    <3> DEFINE pred == [i \in 1..MaxLevel |->
                          IF i <= level THEN Predecessors(score)[i] ELSE head]
    <3>1. \A i \in 1..MaxLevel : pred[i] = Pred(i, score)
      BY <2>3
    <3>2. forward' = [n \in Node |-> [i \in 1..MaxLevel |->
                     IF i > h THEN (IF n = score THEN Nil ELSE forward[n][i])
                     ELSE IF n = score THEN forward[pred[i]][i]
                     ELSE IF n = pred[i] THEN score
                     ELSE forward[n][i]]]
      BY <2>2
    <3> HIDE DEF pred
    <3> QED
      BY <3>1, <3>2
  <2>5. Linked' /\ Loose' /\ forward' \in [Node -> [1..MaxLevel -> Key \cup {Nil}]]
    BY <2>1, <2>2, <2>4, LinkInsert
  <2>6. height' \in [Key -> 0..MaxLevel] /\ \A k \in Key : height'[k] = IF k = score THEN h ELSE height[k]
    BY <1>0, <2>2, ListConstants
  <2>7. /\ level' \in 1..MaxLevel /\ level <= level' /\ h <= level'
        /\ level' = level \/ level' = h
    <3>1. level \in Nat /\ h \in Nat
      BY <1>0, ListConstants
    <3>2. CASE h <= level
      <4>1. Max({level, h}) = level
        BY <3>1, <3>2, MaxIs
      <4> QED
        BY <1>0, <2>2, <3>1, <3>2, <4>1
    <3>3. CASE ~ (h <= level)
      <4>1. Max({level, h}) = h
        BY <3>1, <3>3, MaxIs
      <4> QED
        BY <1>0, <2>2, <3>1, <3>3, <4>1
    <3> QED
      BY <3>2, <3>3
  <2>8. TopExact'
    <3>1. ASSUME NEW k \in Key PROVE height'[k] <= level'
      <4>1. height[k] <= level /\ height[k] \in Nat /\ level \in Nat /\ level' \in Nat
        BY <1>0, <2>7, ListConstants DEF TopExact
      <4> QED
        BY <2>6, <2>7, <4>1
    <3>2. level' = 1 \/ \E k \in Key : height'[k] = level'
      <4>1. CASE level' = h
        BY <2>6, <4>1
      <4>2. CASE level' = level /\ level # 1
        <5>1. PICK k \in Key : height[k] = level
          BY <1>0, <4>2 DEF TopExact
        <5>2. k # score
          BY <1>0, <2>1, <5>1, ListConstants
        <5> QED
          BY <2>6, <4>2, <5>1, <5>2
      <4> QED
        BY <2>7, <4>1, <4>2
    <3> QED
      BY <3>1, <3>2 DEF TopExact
  <2>9. Filled'
    <3>1. h > 0
      OBVIOUS
    <3> QED
      BY <1>0, <1>2, <2>6, <3>1 DEF Filled
  <2>10. size' = Cardinality(Live')
    <3>1. Live' = Live \cup {score} /\ score \notin Live
      BY <2>1, <2>6 DEF Live
    <3>2. IsFiniteSet(Live)
      BY ListConstants, FS_Subset DEF Live
    <3>3. Cardinality(Live') = Cardinality(Live) + 1
      BY <3>1, <3>2, FS_AddElement
    <3> QED
      BY <1>0, <2>2, <3>3
  <2> QED
    BY <1>0, <1>1, <1>2, <2>5, <2>6, <2>7, <2>8, <2>9, <2>10 DEF ListInv, ListTypes
<1> QED
  BY <1>1, <1>3, <1>4

LEMMA DeleteKeeps ==
  ASSUME ListInv, NEW score \in Key, Delete(score)
  PROVE  /\ ListInv'
         /\ \/ score \notin Live /\ ret' = NotFound /\ packet' = packet
            \/ /\ score \in Live /\ ret' = <<NoValue, TRUE>>
               /\ packet' = [packet EXCEPT ![score] = NoValue]
<1>1. CASE Candidate(score) # score
  <2>1. ret' = NotFound /\ UNCHANGED <<height, packet, forward, level, size>>
    BY <1>1 DEF Delete
  <2>2. score \notin Live
    BY <1>1, CandidateIs DEF Live
  <2>3. ListInv'
    BY <2>1, SameList DEF NotFound
  <2> QED
    BY <2>1, <2>2, <2>3
<1>2. CASE Candidate(score) = score
  <2>1. /\ forward' = [n \in Node |-> [i \in 1..MaxLevel |->
                  IF n = score THEN Nil
                  ELSE IF i <= height[score] /\ n = Predecessors(score)[i] THEN forward[score][i]
                  ELSE forward[n][i]]]
        /\ level' = Lowered(level, forward'[head])
        /\ Unlinked(score)
        /\ ret' = <<NoValue, TRUE>>
    BY <1>2 DEF Delete
  <2>2. height[score] > 0
    BY <1>2, CandidateIs
  <2>3. \A i \in 1..MaxLevel : i <= height[score] => Predecessors(score)[i] = Pred(i, score)
    <3>1. height[score] <= level /\ height[score] \in Nat /\ level \in Nat
      BY ListConstants DEF ListInv, ListTypes, TopExact
    <3>2. \A i \in 1..MaxLevel : i <= height[score] => i \in 1..level
      BY <3>1, ListConstants
    <3> QED
      BY <3>2, PredecessorsAre
  <2>4. forward' = [n \in Node |-> [i \in 1..MaxLevel |->
                  IF n = score THEN Nil
                  ELSE IF i <= height[score] /\ n = Pred(i, score) THEN forward[score][i]
                  ELSE forward[n][i]]]
    BY <2>1, <2>3
  <2>5. ListInv'
    BY <2>1, <2>2, <2>4, RemoveKeeps
  <2> QED
    BY <2>1, <2>2, <2>5 DEF Unlinked, Live
<1> QED
  BY <1>1, <1>2

LEMMA ListStep == ListInv /\ [ListNext]_listVars => ListInv'
<1> SUFFICES ASSUME ListInv, [ListNext]_listVars PROVE ListInv'
  OBVIOUS
<1>0. /\ NotFound \in (Value \cup {NoValue}) \X BOOLEAN
      /\ ret \in (Value \cup {NoValue}) \X BOOLEAN
      /\ \A k \in Key : <<packet[k], TRUE>> \in (Value \cup {NoValue}) \X BOOLEAN
  BY DEF NotFound, ListInv, ListTypes
<1>1. ASSUME RemoveNothing PROVE ListInv'
  BY <1>0, <1>1, SameList DEF RemoveNothing
<1>2. ASSUME NEW k \in Key, Search(k) PROVE ListInv'
  <2>1. ret' = <<packet[k], TRUE>> \/ ret' = NotFound
    BY <1>2 DEF Search
  <2> QED
    BY <1>0, <1>2, <2>1, SameList DEF Search
<1>3. CASE Front
  <2>1. PICK x : x = forward[head][1]
    OBVIOUS
  <2>2. ret' = IF x = Nil THEN NotFound ELSE <<packet[x], TRUE>>
    BY <1>3, <2>1 DEF Front
  <2>3. x # Nil => x \in Key
    BY <2>1, FirstIs DEF Live
  <2>4. ret' \in (Value \cup {NoValue}) \X BOOLEAN
    <3>1. CASE x = Nil
      BY <1>0, <2>2, <3>1
    <3>2. CASE x # Nil
      BY <1>0, <2>2, <2>3, <3>2
    <3> QED
      BY <3>1, <3>2
  <2> QED
    BY <1>3, <2>4, SameList DEF Front
<1>4. CASE PopFront
  BY <1>1, <1>4, RemoveFrontKeeps DEF PopFront
<1>5. ASSUME NEW D \in SUBSET Value, PopFrontWithCond(D) PROVE ListInv'
  BY <1>1, <1>5, RemoveFrontKeeps DEF PopFrontWithCond
<1>6. CASE UNCHANGED listVars
  BY <1>0, <1>6, SameList DEF listVars
<1> QED
  BY <1>2, <1>3, <1>4, <1>5, <1>6, InsertKeeps, DeleteKeeps DEF ListNext

LEMMA ListStart == ListInit => ListInv
<1> SUFFICES ASSUME ListInit PROVE ListInv
  OBVIOUS
<1>1. /\ \A k \in Key : height[k] = 0 /\ packet[k] = NoValue
      /\ \A n \in Node, i \in 1..MaxLevel : forward[n][i] = Nil
      /\ level = 1 /\ size = 0 /\ ret = NotFound
  BY DEF ListInit
<1>2. ListTypes
  <2>1. height \in [Key -> 0..MaxLevel]
    BY ListConstants DEF ListInit
  <2>2. packet \in [Key -> Value \cup {NoValue}]
    BY DEF ListInit
  <2>3. forward \in [Node -> [1..MaxLevel -> Key \cup {Nil}]]
    BY DEF ListInit
  <2>4. level \in 1..MaxLevel
    BY <1>1, ListConstants
  <2>5. ret \in (Value \cup {NoValue}) \X BOOLEAN
    BY <1>1 DEF NotFound
  <2> QED
    BY <2>1, <2>2, <2>3, <2>4, <2>5 DEF ListTypes
<1>3. \A n \in Node, i \in 1..MaxLevel : Later(n, i) = {}
  BY <1>1 DEF Later, After
<1>4. Linked /\ Loose
  BY <1>1, <1>3, ListConstants DEF Linked, Loose, NextOn, Node
<1>5. TopExact /\ Filled /\ Live = {}
  BY <1>1 DEF TopExact, Filled, Live
<1>6. size = Cardinality(Live)
  BY <1>1, <1>5, FS_EmptySet
<1> QED
  BY <1>2, <1>4, <1>5, <1>6 DEF ListInv

LEMMA ListInvHolds == ListSpec => []ListInv
  BY ListStart, ListStep, PTL DEF ListSpec

\* The pointers are a skip list after any sequence of operations: every level
\* sorted and complete, height and size those of the nodes (skipList.go 61-262).
THEOREM SkipListTheorem == ListSpec => []IsSkipList
  BY ListInvHolds, ListInvMeans, PTL

-----------------------------------------------------------------------------
(* The skip list implements the ordered map.                               *)

LEMMA MapStep == ListInv /\ [ListNext]_listVars => [Map!Next]_Map!vars
<1> SUFFICES ASSUME ListInv, [ListNext]_listVars PROVE [Map!Next]_Map!vars
  OBVIOUS
<1>0. /\ \A k \in Key : packet[k] # NoValue <=> k \in Live
      /\ \A k \in Live : k \in Key
      /\ packet \in [Key -> Value \cup {NoValue}]
  BY DEF ListInv, ListTypes, Filled, Live
<1>1. Map!Entries = Live /\ Map!NotFound = NotFound
  BY <1>0 DEF Map!Entries, Map!NotFound, NotFound
<1>2. ASSUME NEW k, k \in Live, \A j \in Live : k <= j PROVE k \in Key /\ Map!IsFirst(k)
  BY <1>0, <1>1, <1>2 DEF Map!IsFirst
<1>3. ASSUME NEW k \in Key, NEW v \in Value, Insert(k, v) PROVE Map!Next
  <2>1. Map!Insert(k, v)
    BY <1>3, InsertKeeps DEF Map!Insert
  <2> QED
    BY <2>1 DEF Map!Next
<1>4. ASSUME NEW k \in Key, Search(k) PROVE Map!Next
  <2>1. Candidate(k) = k <=> k \in Live
    BY CandidateIs DEF Live
  <2>2. Map!Search(k)
    BY <1>1, <1>4, <2>1 DEF Search, Map!Search
  <2> QED
    BY <2>2 DEF Map!Next
<1>5. ASSUME NEW k \in Key, Delete(k) PROVE Map!Next
  <2>1. \/ k \notin Live /\ ret' = NotFound /\ packet' = packet
        \/ /\ k \in Live /\ ret' = <<NoValue, TRUE>>
           /\ packet' = [packet EXCEPT ![k] = NoValue]
    BY <1>5, DeleteKeeps
  <2>2. k \notin Live => packet = [packet EXCEPT ![k] = NoValue]
    BY <1>0
  <2>3. packet' = [packet EXCEPT ![k] = NoValue]
    BY <2>1, <2>2
  <2>4. ret' = <<NoValue, k \in Map!Entries>>
    <3>1. CASE k \in Live
      <4>1. (k \in Map!Entries) = TRUE
        BY <1>1, <3>1
      <4> QED
        BY <2>1, <3>1, <4>1
    <3>2. CASE k \notin Live
      <4>1. (k \in Map!Entries) = FALSE
        BY <1>1, <3>2
      <4> QED
        BY <2>1, <3>2, <4>1 DEF NotFound
    <3> QED
      BY <3>1, <3>2
  <2>5. Map!Delete(k)
    BY <2>3, <2>4 DEF Map!Delete
  <2> QED
    BY <2>5 DEF Map!Next
<1>6. ASSUME RemoveNothing PROVE ret' = NotFound /\ packet' = packet
  BY <1>6 DEF RemoveNothing
<1>7. ASSUME NEW node, node = forward[head][1], node # Nil, RemoveFront(node)
      PROVE  /\ node \in Key /\ Map!IsFirst(node)
             /\ ret' = <<packet[node], TRUE>> /\ packet' = [packet EXCEPT ![node] = NoValue]
  BY <1>2, <1>7, FirstIs DEF RemoveFront, Unlinked
<1>8. CASE Front
  <2>1. Map!Front
    <3>1. CASE forward[head][1] = Nil
      <4>1. Live = {}
        BY <3>1, FirstIs, ListConstants DEF Live
      <4> QED
        BY <1>1, <1>8, <3>1, <4>1 DEF Front, Map!Front
    <3>2. CASE forward[head][1] # Nil
      <4>1. PICK k : k = forward[head][1] /\ k \in Key /\ Map!IsFirst(k)
        BY <1>2, <3>2, FirstIs
      <4> QED
        BY <1>8, <3>2, <4>1 DEF Front, Map!Front
    <3> QED
      BY <3>1, <3>2
  <2> QED
    BY <2>1 DEF Map!Next
<1>9. CASE PopFront
  <2>1. CASE forward[head][1] = Nil
    <3>1. Live = {} /\ RemoveNothing
      BY <1>9, <2>1, FirstIs, ListConstants DEF PopFront, Live
    <3>2. Map!PopFront
      BY <1>1, <1>6, <3>1 DEF Map!PopFront
    <3> QED
      BY <3>2 DEF Map!Next
  <2>2. CASE forward[head][1] # Nil
    <3>1. PICK k : k = forward[head][1] /\ RemoveFront(k)
      BY <1>9, <2>2 DEF PopFront
    <3>2. Map!PopFront
      BY <1>7, <2>2, <3>1 DEF Map!PopFront
    <3> QED
      BY <3>2 DEF Map!Next
  <2> QED
    BY <2>1, <2>2
<1>10. ASSUME NEW D \in SUBSET Value, PopFrontWithCond(D) PROVE Map!Next
  <2>0. PICK k : k = forward[head][1]
    OBVIOUS
  <2>1. CASE k = Nil \/ packet[k] \notin D
    <3>1. RemoveNothing
      BY <1>10, <2>0, <2>1 DEF PopFrontWithCond
    <3>2. ASSUME NEW j \in Key, Map!IsFirst(j) PROVE packet[j] \notin D
      <4>1. j \in Live /\ \A l \in Live : j <= l
        BY <1>1, <3>2 DEF Map!IsFirst
      <4>2. k \in Live /\ k <= j
        BY <2>0, <4>1, FirstIs
      <4>3. j <= k /\ j \in Nat /\ k \in Nat
        BY <1>0, <4>1, <4>2, ListConstants
      <4>4. j = k
        BY <4>2, <4>3
      <4> QED
        BY <1>0, <2>1, <4>2, <4>4, ListConstants
    <3>3. Map!PopFrontWithCond(D)
      BY <1>1, <1>6, <3>1, <3>2 DEF Map!PopFrontWithCond
    <3> QED
      BY <3>3 DEF Map!Next
  <2>2. CASE ~ (k = Nil \/ packet[k] \notin D)
    <3>1. RemoveFront(k)
      BY <1>10, <2>0, <2>2 DEF PopFrontWithCond
    <3>2. Map!PopFrontWithCond(D)
      BY <1>7, <2>0, <2>2, <3>1 DEF Map!PopFrontWithCond
    <3> QED
      BY <3>2 DEF Map!Next
  <2> QED
    BY <2>1, <2>2
<1>11. CASE UNCHANGED listVars
  BY <1>11 DEF listVars, Map!vars
<1> QED
  BY <1>3, <1>4, <1>5, <1>8, <1>9, <1>10, <1>11 DEF ListNext

\* Whatever the operations leave behind and return is what the ordered map
\* would (skipList.go 61-262).
THEOREM MapRefinement == ListSpec => ImplementsOrderedMap
<1>1. ListInit => Map!Init
  BY DEF ListInit, Map!Init, NotFound, Map!NotFound
<1> QED
  BY <1>1, MapStep, ListInvHolds, PTL DEF ListSpec, Map!Spec, ImplementsOrderedMap

-----------------------------------------------------------------------------
(* The buffer, its receptor and its player.                                *)

USE DEF Packet, NoPacket, receptorVars, playerVars, vars

\* The types of the constants, one by one.
LEMMA ConstantTypes ==
  MaxSeq \in Nat /\ MaxCopies \in Nat /\ Deadline \in Nat /\ MaxTime \in Nat
  BY JitterBufferAssumption

USE ConstantTypes

-----------------------------------------------------------------------------
(* Lemmas about the operators.                                             *)

\* A set of packets has a smallest one, and Smallest is it.
LEMMA FrontIsLeast ==
  ASSUME NEW S \in SUBSET Packet, S # {}
  PROVE  Smallest(S) \in S /\ \A y \in S : Smallest(S) <= y
<1>1. S \subseteq Nat
  OBVIOUS
<1>2. PICK x \in S : \A y \in S : x <= y
  BY <1>1, LeastIn
<1> QED
  BY <1>2 DEF Smallest, Min

\* Playing a packet adds it to those that were played.
LEMMA RangeAppend ==
  ASSUME NEW S, NEW s \in Seq(S), NEW x \in S
  PROVE  Range(Append(s, x)) = Range(s) \cup {x}
<1>1. Range(Append(s, x)) \subseteq Range(s) \cup {x}
  BY DEF Range
<1>2. \A i \in DOMAIN s : i \in DOMAIN Append(s, x) /\ Append(s, x)[i] = s[i]
  OBVIOUS
<1>3. Append(s, x)[Len(s) + 1] = x /\ Len(s) + 1 \in DOMAIN Append(s, x)
  OBVIOUS
<1> QED
  BY <1>1, <1>2, <1>3 DEF Range

-----------------------------------------------------------------------------
(* Types.                                                                  *)

LEMMA TypeInit == Init => TypeOK
  BY DEF Init, TypeOK

LEMMA TypeStep == TypeOK /\ [Next]_vars => TypeOK'
<1> SUFFICES ASSUME TypeOK, [Next]_vars PROVE TypeOK'
  OBVIOUS
<1>1. CASE TimePasses
  BY <1>1 DEF TypeOK, TimePasses
<1>2. ASSUME NEW s \in Packet, handleRead(s) PROVE TypeOK'
  <2>1. copies' \in [Packet -> 0..MaxCopies]
    BY <1>2 DEF TypeOK, handleRead
  <2>2. late' \subseteq Packet /\ buffer' \subseteq Packet
    BY <1>2 DEF TypeOK, handleRead
  <2>3. /\ initialized' \in BOOLEAN /\ LastSeqNum' \in Packet
        /\ Delayed' \in Nat /\ SeqGaps' \in Nat
    <3>1. Classify(s) /\ initialized \in BOOLEAN
      BY <1>2 DEF TypeOK, handleRead
    <3>2. initialized' \in BOOLEAN
      BY <3>1 DEF Classify
    <3>3. LastSeqNum' \in Packet
      BY <3>1 DEF TypeOK, Classify
    <3>4. Delayed' \in Nat /\ SeqGaps' \in Nat
      BY <3>1 DEF TypeOK, Classify
    <3> QED
      BY <3>2, <3>3, <3>4
  <2> QED
    BY <1>2, <2>1, <2>2, <2>3 DEF TypeOK, handleRead
<1>3. CASE Tick
  BY <1>3 DEF TypeOK, Tick
<1>4. CASE ReleaseFront
  <2>1. PICK s \in buffer : held' = s /\ buffer' = buffer \ {s}
    BY <1>4 DEF ReleaseFront
  <2>2. s \in Packet /\ s # NoPacket
    BY <2>1 DEF TypeOK
  <2> QED
    BY <1>4, <2>1, <2>2 DEF TypeOK, ReleaseFront
<1>5. CASE StopDraining
  BY <1>5 DEF TypeOK, StopDraining
<1>6. CASE Play
  <2>1. held \in Packet
    BY <1>6 DEF TypeOK, Play
  <2>2. Missed(held) \in Nat
    BY <2>1 DEF TypeOK, Missed
  <2> QED
    BY <1>6, <2>1, <2>2 DEF TypeOK, Play
<1>7. CASE UNCHANGED vars
  BY <1>7 DEF TypeOK
<1> QED
  BY <1>1, <1>2, <1>3, <1>4, <1>5, <1>6, <1>7 DEF Next, Bootstrap

\* Every variable keeps its type (receptor.go 16-37, player.go 9-26).
THEOREM TypeCorrect == Spec => []TypeOK
  BY TypeInit, TypeStep, PTL DEF Spec

-----------------------------------------------------------------------------
(* The window.                                                             *)

\* What a step does to the packets that were released.
LEMMA ReleasedStep ==
  ASSUME TypeOK, [Next]_vars
  PROVE  /\ Released \subseteq Released'
         /\ ReleaseFront => Released' = Released \cup {held'}
         /\ ~ReleaseFront => Released' = Released
<1>1. CASE ReleaseFront
  BY <1>1 DEF ReleaseFront, Released, TypeOK
<1>2. CASE Play
  <2>1. held \in Packet /\ held # NoPacket
    BY <1>2 DEF TypeOK, Play
  <2>2. Range(played') = Range(played) \cup {held}
    <3>1. played \in Seq(Packet) /\ played' = Append(played, held)
      BY <1>2 DEF TypeOK, Play
    <3> QED
      BY <2>1, <3>1, RangeAppend
  <2>3. ~ReleaseFront
    BY <1>2 DEF Play, ReleaseFront
  <2> QED
    BY <1>2, <2>1, <2>2, <2>3 DEF Play, Released
<1>3. CASE ~ReleaseFront /\ ~Play
  <2>1. UNCHANGED <<played, held>>
    BY <1>3 DEF Next, Bootstrap, TimePasses, handleRead, Tick, StopDraining
  <2> QED
    BY <1>3, <2>1 DEF Released
<1> QED
  BY <1>1, <1>2, <1>3

LEMMA WindowStep == TypeOK /\ WindowKept /\ [Next]_vars => WindowKept'
<1> SUFFICES ASSUME TypeOK, WindowKept, [Next]_vars PROVE WindowKept'
  OBVIOUS
<1> USE DEF WindowKept, Arrived
<1>1. now \in Nat /\ now' \in Nat /\ now' >= now
  <2>1. now \in Nat
    BY DEF TypeOK
  <2>2. now' = now \/ now' = now + 1
    BY DEF Next, Bootstrap, TimePasses, handleRead, Tick, ReleaseFront, StopDraining, Play
  <2> QED
    BY <2>1, <2>2
<1>2. Released \subseteq Nat
  <2>1. played \in Seq(Packet) /\ held \in Packet \cup {NoPacket}
    BY DEF TypeOK
  <2>2. Range(played) \subseteq Packet
    BY <2>1 DEF Range
  <2> QED
    BY <2>1, <2>2 DEF Released
<1>3. CASE ReleaseFront
  <2>1. PICK s \in buffer : Due(s) /\ held' = s /\ buffer' = buffer \ {s}
    BY <1>3 DEF ReleaseFront
  <2>2. Released' = Released \cup {s}
    BY <1>3, <2>1, ReleasedStep
  <2> QED
    BY <1>1, <1>3, <2>1, <2>2 DEF ReleaseFront, Due
<1>4. ASSUME NEW s \in Packet, handleRead(s), ~ReleaseFront PROVE WindowKept'
  <2>1. Released' = Released
    BY <1>4, ReleasedStep
  <2> QED
    BY <1>4, <2>1 DEF handleRead, TypeOK
<1>5. CASE ~ReleaseFront /\ UNCHANGED <<copies, buffer>>
  <2>1. Released' = Released
    BY <1>5, ReleasedStep
  <2> QED
    BY <1>1, <1>2, <1>5, <2>1
<1> QED
  BY <1>3, <1>4, <1>5 DEF Next, Bootstrap, TimePasses, Tick, StopDraining, Play

\* Nothing that arrived is dropped, and nothing is released before it has aged
\* Deadline (jitterBuffer.go 43-55).
THEOREM WindowTheorem == Spec => []WindowKept
<1>1. Init => WindowKept
  BY DEF Init, WindowKept, Arrived, Released, Range
<1> QED
  BY <1>1, TypeCorrect, WindowStep, PTL DEF Spec

-----------------------------------------------------------------------------
(* The order.                                                              *)

\* What is on its way to the player, in the buffer or in the release loop's
\* hands, is late when a packet was released that should have been behind it.
OrderInv ==
    /\ \A s \in buffer, r \in Released : r >= s => s \in late
    /\ held # NoPacket => \A r \in Range(played) : r >= held => held \in late
    /\ OnlyLateOutOfOrder

LEMMA OrderStep == TypeOK /\ OrderInv /\ [Next]_vars => OrderInv'
<1> SUFFICES ASSUME TypeOK, OrderInv, [Next]_vars PROVE OrderInv'
  OBVIOUS
<1>1. late \subseteq late'
  BY DEF Next, Bootstrap, TimePasses, handleRead, Tick, ReleaseFront, StopDraining, Play
<1>2. CASE ReleaseFront
  <2>1. PICK s \in buffer : s = Smallest(buffer) /\ held' = s /\ buffer' = buffer \ {s}
    BY <1>2 DEF ReleaseFront
  <2>2. \A o \in buffer' : o > s
    <3>1. buffer \in SUBSET Packet /\ buffer # {}
      BY <2>1 DEF TypeOK
    <3>2. \A o \in buffer : s <= o
      BY <2>1, <3>1, FrontIsLeast
    <3> QED
      BY <2>1, <3>1, <3>2
  <2>3. Released' = Released \cup {s}
    BY <1>2, <2>1, ReleasedStep
  <2>4. \A o \in buffer', r \in Released' : r >= o => o \in late'
    BY <1>1, <2>1, <2>2, <2>3 DEF OrderInv, TypeOK
  <2>5. \A r \in Range(played') : r >= s => s \in late'
    BY <1>1, <1>2, <2>1 DEF OrderInv, ReleaseFront, Released
  <2>6. OnlyLateOutOfOrder'
    BY <1>1, <1>2 DEF OrderInv, OnlyLateOutOfOrder, ReleaseFront
  <2> QED
    BY <2>1, <2>4, <2>5, <2>6 DEF OrderInv
<1>3. CASE Play
  <2>1. held \in Packet /\ held # NoPacket
    BY <1>3 DEF TypeOK, Play
  <2>2. played \in Seq(Packet) /\ played' = Append(played, held) /\ held' = NoPacket
    BY <1>3 DEF TypeOK, Play
  <2>3. Released' = Released
    BY <1>3, ReleasedStep DEF Play, ReleaseFront
  <2>4. \A i, j \in 1..Len(played') : i < j /\ played'[i] >= played'[j] => played'[j] \in late'
    <3> SUFFICES ASSUME NEW i \in 1..Len(played'), NEW j \in 1..Len(played'),
                        i < j, played'[i] >= played'[j]
                 PROVE  played'[j] \in late'
      OBVIOUS
    <3>1. i \in 1..Len(played) /\ played'[i] = played[i]
      BY <2>2
    <3>2. CASE j <= Len(played)
      <4>1. j \in 1..Len(played) /\ played'[j] = played[j]
        BY <2>2, <3>2
      <4> QED
        BY <1>1, <3>1, <4>1 DEF OrderInv, OnlyLateOutOfOrder
    <3>3. CASE j > Len(played)
      <4>1. played'[j] = held
        BY <2>1, <2>2, <3>3
      <4>2. played[i] \in Range(played)
        BY <2>2, <3>1 DEF Range
      <4> QED
        BY <1>1, <2>1, <3>1, <4>1, <4>2 DEF OrderInv
    <3> QED
      BY <3>2, <3>3 DEF TypeOK
  <2> QED
    BY <1>1, <1>3, <2>2, <2>3, <2>4 DEF OrderInv, OnlyLateOutOfOrder, Play
<1>4. ASSUME NEW s \in Packet, handleRead(s) PROVE OrderInv'
  <2>1. ~ReleaseFront /\ UNCHANGED <<held, played>> /\ buffer' = buffer \cup {s}
    BY <1>4 DEF handleRead, playerVars, ReleaseFront
  <2>2. Released' = Released
    BY <2>1 DEF Released
  <2>3. \A r \in Released' : r >= s => s \in late'
    BY <1>4, <2>2 DEF handleRead
  <2> QED
    BY <1>1, <2>1, <2>2, <2>3 DEF OrderInv, OnlyLateOutOfOrder
<1>5. CASE UNCHANGED <<held, played, late>> /\ buffer' = buffer
  BY <1>5 DEF OrderInv, OnlyLateOutOfOrder, Released
<1> QED
  BY <1>2, <1>3, <1>4, <1>5 DEF Next, Bootstrap, TimePasses, Tick, StopDraining

\* Only a packet that arrived after a later one had been released can be played
\* out of order (jitterBuffer.go 44-54, skipList.go 244-262).
THEOREM OrderTheorem == Spec => []OnlyLateOutOfOrder
<1>1. Init => OrderInv
  BY DEF Init, OrderInv, OnlyLateOutOfOrder, Range
<1>2. OrderInv => OnlyLateOutOfOrder
  BY DEF OrderInv
<1> QED
  BY <1>1, <1>2, TypeCorrect, OrderStep, PTL DEF Spec

-----------------------------------------------------------------------------
(* The report.  Both counts are compared with how many numbers there are in *)
(* a set, so that what matters is by how many a step can make it grow.      *)

LEMMA PacketsFinite == \A S \in SUBSET Packet : IsFiniteSet(S) /\ Cardinality(S) \in Nat
<1>1. IsFiniteSet(0..MaxSeq)
  BY FS_Interval
<1> QED
  BY <1>1, FS_Subset, FS_CardinalityType

\* A set that grows by no more than one element.
LEMMA OneMore ==
  ASSUME NEW S \in SUBSET Packet, NEW T \in SUBSET Packet, NEW x, T \subseteq S \cup {x}
  PROVE  Cardinality(T) <= Cardinality(S) + 1
<1>1. IsFiniteSet(S) /\ Cardinality(S) \in Nat /\ Cardinality(T) \in Nat
  BY PacketsFinite
<1>2. /\ IsFiniteSet(S \cup {x})
      /\ Cardinality(S \cup {x}) \in {Cardinality(S), Cardinality(S) + 1}
  BY <1>1, FS_AddElement
<1>3. Cardinality(T) <= Cardinality(S \cup {x})
  BY <1>2, FS_Subset
<1> QED
  BY <1>1, <1>2, <1>3

LEMMA NoMore ==
  ASSUME NEW S \in SUBSET Packet, NEW T \in SUBSET Packet, T \subseteq S
  PROVE  Cardinality(T) <= Cardinality(S)
<1>1. IsFiniteSet(S)
  BY PacketsFinite
<1> QED
  BY <1>1, FS_Subset

\* The numbers that follow a hole: they are in the set, the one before is not,
\* but something before that is.
Edges(S) == {s \in S : s - 1 \notin S /\ \E r \in S : r < s}

LEMMA EdgesAre ==
  ASSUME NEW S \in SUBSET Packet
  PROVE  Edges(S) = {s \in S : s - 1 \notin S /\ s # Min(S)}
<1> SUFFICES ASSUME NEW s \in S PROVE s # Min(S) <=> \E r \in S : r < s
  BY DEF Edges
<1>1. Min(S) \in S /\ \A y \in S : Min(S) <= y
  BY FrontIsLeast DEF Smallest
<1>2. \A y \in S : y \in Nat
  OBVIOUS
<1> HIDE DEF Packet
<1> QED
  BY <1>1, <1>2

\* One more packet makes one more edge at the most, and none when it comes
\* right behind the highest.
LEMMA EdgesGrow ==
  ASSUME NEW S \in SUBSET Packet, NEW s \in Packet
  PROVE  \E x \in Packet : Edges(S \cup {s}) \subseteq Edges(S) \cup {x}
<1>1. s \in Nat /\ \A r \in S : r \in Nat
  OBVIOUS
<1>2. CASE s \in S \/ \E r \in S : r < s
  <2>1. ASSUME NEW h \in Edges(S \cup {s}), h # s PROVE h \in Edges(S)
    <3>1. h \in S /\ h - 1 \notin S
      BY <2>1 DEF Edges
    <3>2. PICK r \in S \cup {s} : r < h
      BY <2>1 DEF Edges
    <3>3. \E q \in S : q < h
      <4>1. CASE r \in S
        BY <3>2, <4>1
      <4>2. CASE r \notin S
        <5>1. r = s
          BY <4>2
        <5>2. PICK q \in S : q < s
          BY <1>2, <4>2, <5>1
        <5>3. q < h
          BY <1>1, <3>1, <3>2, <5>1, <5>2
        <5> QED
          BY <5>3
      <4> QED
        BY <4>1, <4>2
    <3> QED
      BY <3>1, <3>3 DEF Edges
  <2> QED
    BY <2>1
<1>3. CASE s \notin S /\ \A r \in S : s <= r
  <2>1. CASE S = {}
    <3>1. Edges(S \cup {s}) = {}
      BY <1>1, <2>1 DEF Edges
    <3> QED
      BY <3>1
  <2>2. CASE S # {}
    <3> DEFINE m == Smallest(S)
    <3>1. m \in S /\ \A y \in S : m <= y
      BY <2>2, FrontIsLeast
    <3> HIDE DEF m
    <3>2. Edges(S \cup {s}) \subseteq Edges(S) \cup {m}
      <4> SUFFICES ASSUME NEW h \in Edges(S \cup {s}), h # m PROVE h \in Edges(S)
        OBVIOUS
      <4>1. h \in S \cup {s} /\ h - 1 \notin S \cup {s} /\ \E r \in S \cup {s} : r < h
        BY DEF Edges
      <4>2. h # s
        BY <1>1, <1>3, <4>1
      <4>3. h \in S /\ m < h
        BY <1>1, <3>1, <4>1, <4>2
      <4> QED
        BY <3>1, <4>1, <4>3 DEF Edges
    <3> QED
      BY <3>1, <3>2
  <2> QED
    BY <2>1, <2>2
<1> QED
  BY <1>1, <1>2, <1>3

LEMMA EdgesNext ==
  ASSUME NEW S \in SUBSET Packet, NEW s \in Packet, s - 1 \in S, \A r \in S : r < s
  PROVE  Edges(S \cup {s}) \subseteq Edges(S)
<1>1. s \in Nat /\ \A r \in S : r \in Nat
  OBVIOUS
<1> SUFFICES ASSUME NEW h \in Edges(S \cup {s}) PROVE h \in Edges(S)
  OBVIOUS
<1>2. h \in S \cup {s} /\ h - 1 \notin S \cup {s}
  BY DEF Edges
<1>3. PICK r \in S \cup {s} : r < h
  BY DEF Edges
<1>4. h \in S
  BY <1>2
<1>5. r # s
  BY <1>1, <1>3, <1>4
<1> QED
  BY <1>2, <1>3, <1>4, <1>5 DEF Edges

\* LastSeqNum is the highest number that has arrived.
HolesInv ==
    /\ ~initialized => Arrived = {}
    /\ initialized => LastSeqNum \in Arrived /\ \A s \in Arrived : s <= LastSeqNum
    /\ Cardinality(Edges(Arrived)) <= SeqGaps + Delayed

LEMMA ArrivedStep ==
  ASSUME TypeOK, NEW s \in Packet, handleRead(s)
  PROVE  Arrived' = Arrived \cup {s}
<1>1. copies \in [Packet -> Nat] /\ copies' = [copies EXCEPT ![s] = @ + 1]
  BY DEF handleRead, TypeOK
<1>2. \A r \in Packet : copies'[r] = IF r = s THEN copies[r] + 1 ELSE copies[r]
  BY <1>1
<1> HIDE DEF Packet
<1> QED
  BY <1>1, <1>2 DEF Arrived

LEMMA HolesStep == TypeOK /\ HolesInv /\ [Next]_vars => HolesInv'
<1> SUFFICES ASSUME TypeOK, HolesInv, [Next]_vars PROVE HolesInv'
  OBVIOUS
<1>1. ASSUME NEW s \in Packet, handleRead(s) PROVE HolesInv'
  <2>1. Arrived' = Arrived \cup {s} /\ Classify(s) /\ Arrived \subseteq Packet
    BY <1>1, ArrivedStep DEF handleRead, Arrived
  <2> DEFINE more == Edges(Arrived \cup {s})
             edges == Edges(Arrived)
  <2>2. edges \in SUBSET Packet /\ more \in SUBSET Packet
    BY <2>1 DEF Edges
  <2>3. PICK x \in Packet : more \subseteq edges \cup {x}
    BY <2>1, EdgesGrow
  <2>4. PICK a \in Nat, b \in Nat, g \in Nat, d \in Nat, last \in Nat :
          /\ a = Cardinality(edges) /\ b = Cardinality(more)
          /\ g = SeqGaps /\ d = Delayed /\ last = LastSeqNum /\ a <= g + d
    <3>1. Cardinality(edges) \in Nat /\ Cardinality(more) \in Nat
      BY <2>2, PacketsFinite
    <3>2. SeqGaps \in Nat /\ Delayed \in Nat /\ LastSeqNum \in Nat
      BY DEF TypeOK
    <3>3. Cardinality(edges) <= SeqGaps + Delayed
      BY DEF HolesInv
    <3> HIDE DEF edges, more
    <3> QED
      BY <3>1, <3>2, <3>3
  <2>5. b <= a + 1
    BY <2>2, <2>3, <2>4, OneMore
  <2>6. Edges(Arrived') = more
    BY <2>1
  <2>7. s \in Nat /\ \A r \in Arrived : r \in Nat
    BY <2>1
  <2> HIDE DEF more, edges
  <2>8. CASE ~initialized
    <3>1. /\ initialized' = TRUE /\ LastSeqNum' = s
          /\ UNCHANGED <<Delayed, SeqGaps>>
      BY <2>1, <2>8 DEF Classify
    <3>2. Arrived' = {s}
      BY <2>1, <2>8 DEF HolesInv
    <3>3. more = {}
      BY <2>6, <2>7, <3>2 DEF Edges
    <3>4. b = 0
      BY <2>4, <3>3, FS_EmptySet
    <3>5. Cardinality(Edges(Arrived')) <= SeqGaps' + Delayed'
      BY <2>4, <2>6, <3>1, <3>4
    <3> QED
      BY <2>7, <3>1, <3>2, <3>5 DEF HolesInv
  <2>9. CASE initialized /\ Gap(s)
    <3>1. initialized' = TRUE /\ LastSeqNum' = s /\ SeqGaps' = g + 1 /\ Delayed' = d /\ s > last + 1
      <4>1. s > last + 1
        BY <2>4, <2>9 DEF Gap
      <4>2. ~ (s <= LastSeqNum)
        BY <2>4, <2>7, <4>1
      <4>3. initialized /\ SeqGaps' = SeqGaps + 1 /\ LastSeqNum' = s /\ UNCHANGED <<initialized, Delayed>>
        BY <2>1, <2>9, <4>2 DEF Classify
      <4> QED
        BY <2>4, <4>1, <4>3
    <3>2. \A r \in Arrived' : r <= s
      BY <2>1, <2>4, <2>7, <2>9, <3>1 DEF HolesInv
    <3>3. b <= (g + 1) + d
      BY <2>4, <2>5
    <3> QED
      BY <2>1, <2>4, <2>6, <3>1, <3>2, <3>3 DEF HolesInv
  <2>10. CASE initialized /\ s <= LastSeqNum
    <3>1. initialized' = TRUE /\ LastSeqNum' = LastSeqNum /\ SeqGaps' = g /\ Delayed' = d + 1
      <4>1. ~Gap(s) /\ ~ (s > LastSeqNum)
        BY <2>4, <2>7, <2>10 DEF Gap
      <4>2. initialized /\ Delayed' = Delayed + 1 /\ UNCHANGED <<initialized, LastSeqNum, SeqGaps>>
        BY <2>1, <2>10, <4>1 DEF Classify
      <4> QED
        BY <2>4, <4>2
    <3>2. LastSeqNum \in Arrived' /\ \A r \in Arrived' : r <= LastSeqNum
      BY <2>1, <2>10 DEF HolesInv
    <3>3. b <= g + (d + 1)
      BY <2>4, <2>5
    <3> QED
      BY <2>4, <2>6, <3>1, <3>2, <3>3 DEF HolesInv
  <2>11. CASE initialized /\ s > LastSeqNum /\ ~Gap(s)
    <3>1. /\ initialized' = TRUE /\ LastSeqNum' = s /\ SeqGaps' = g /\ Delayed' = d
          /\ s = last + 1
      <4>1. s = last + 1
        BY <2>4, <2>7, <2>11 DEF Gap
      <4>2. ~ (s <= LastSeqNum)
        BY <2>4, <2>7, <2>11
      <4>3. initialized /\ LastSeqNum' = s /\ UNCHANGED <<initialized, Delayed, SeqGaps>>
        BY <2>1, <2>11, <4>2 DEF Classify
      <4> QED
        BY <2>4, <4>1, <4>3
    <3>2. s - 1 \in Arrived /\ \A r \in Arrived : r < s
      BY <2>4, <2>7, <2>11, <3>1 DEF HolesInv
    <3>3. more \subseteq edges
      BY <2>1, <3>2, EdgesNext DEF more, edges
    <3>4. b <= a
      BY <2>2, <2>4, <3>3, NoMore
    <3>5. b <= g + d
      BY <2>4, <3>4
    <3>6. \A r \in Arrived' : r <= s
      BY <2>1, <2>7, <3>2
    <3> QED
      BY <2>1, <2>4, <2>6, <3>1, <3>5, <3>6 DEF HolesInv
  <2> QED
    BY <2>8, <2>9, <2>10, <2>11, <2>4, <2>7 DEF TypeOK
<1>2. CASE UNCHANGED <<copies, receptorVars>>
  BY <1>2 DEF HolesInv, Arrived
<1> QED
  BY <1>1, <1>2 DEF Next, Bootstrap, TimePasses, Tick, ReleaseFront, StopDraining, Play

-----------------------------------------------------------------------------
(* The losses.                                                             *)

\* Of the numbers up to h, played next, those below e that were not played are
\* missing still and those from e on are missing now.
LEMMA MissingNow ==
  ASSUME NEW e \in Nat, NEW h \in Nat, e <= h,
         NEW R, \A r \in R : r \in Nat /\ r < e
  PROVE  Cardinality((0..h) \ (R \cup {h})) = Cardinality((0..(e - 1)) \ R) + (h - e)
<1> DEFINE old == (0..(e - 1)) \ R
           new == e..(h - 1)
<1>1. (0..h) \ (R \cup {h}) = old \cup new
  OBVIOUS
<1>2. old \cap new = {}
  OBVIOUS
<1>3. e - 1 \in Int /\ h - 1 \in Int
  OBVIOUS
<1>4. IsFiniteSet(old) /\ Cardinality(old) \in Nat
  <2>1. IsFiniteSet(0..(e - 1))
    BY <1>3, FS_Interval
  <2> QED
    BY <2>1, FS_Difference, FS_CardinalityType
<1>5. IsFiniteSet(new) /\ Cardinality(new) = h - e
  <2>1. IsFiniteSet(new) /\ Cardinality(new) = IF e > h - 1 THEN 0 ELSE (h - 1) - e + 1
    BY <1>3, FS_Interval
  <2> HIDE DEF new
  <2> QED
    BY <2>1
<1> HIDE DEF old, new
<1>6. Cardinality(old \cup new) = Cardinality(old) + Cardinality(new) - 0
  <2>1. Cardinality(old \cup new)
          = Cardinality(old) + Cardinality(new) - Cardinality(old \cap new)
    BY ONLY <1>4, <1>5, FS_Union
  <2>2. Cardinality(old \cap new) = 0
    BY <1>2, FS_EmptySet
  <2> QED
    BY <2>1, <2>2
<1>7. Cardinality(old \cup new) = Cardinality(old) + (h - e)
  <2>1. PICK a \in Nat, b \in Nat : a = Cardinality(old) /\ b = Cardinality(new) /\ b = h - e
    <3>1. h - e \in Nat
      OBVIOUS
    <3> QED
      BY <1>4, <1>5, <3>1
  <2> QED
    BY <1>6, <2>1
<1> QED
  BY <1>1, <1>7 DEF old

\* The player expects the number behind the one it played last, and as long as
\* nothing is late that is the highest.
LossInv ==
    /\ expectedSeq = 0 => Range(played) = {}
    /\ expectedSeq # 0 => expectedSeq - 1 \in Range(played)
    /\ late = {} => \A r \in Range(played) : r < expectedSeq
    /\ LossCountExact

LEMMA LossStep == TypeOK /\ OrderInv /\ LossInv /\ [Next]_vars => LossInv'
<1> SUFFICES ASSUME TypeOK, OrderInv, LossInv, [Next]_vars PROVE LossInv'
  OBVIOUS
<1>1. CASE Play
  <2>1. /\ held \in Packet /\ held # NoPacket /\ held \in Nat /\ expectedSeq \in Nat /\ TotalLost \in Nat
        /\ played \in Seq(Packet)
    BY <1>1 DEF TypeOK, Play
  <2>2. /\ expectedSeq' = held + 1 /\ TotalLost' = TotalLost + Missed(held)
        /\ played' = Append(played, held) /\ late' = late
    BY <1>1 DEF Play
  <2>3. Range(played') = Range(played) \cup {held}
    BY <2>1, <2>2, RangeAppend
  <2>4. expectedSeq' # 0 /\ expectedSeq' - 1 \in Range(played')
    BY <2>1, <2>2, <2>3
  <2>5. ASSUME late = {}
        PROVE  /\ \A r \in Range(played') : r < expectedSeq'
               /\ TotalLost' = Cardinality((0..(expectedSeq' - 1)) \ Range(played'))
    <3>1. \A r \in Range(played) : r \in Nat /\ r < expectedSeq
      <4>1. Range(played) \subseteq Packet
        BY <2>1 DEF Range
      <4> QED
        BY <2>5, <4>1 DEF LossInv
    <3>2. expectedSeq <= held
      <4>1. CASE expectedSeq = 0
        BY <2>1, <4>1
      <4>2. CASE expectedSeq # 0
        <5>1. expectedSeq - 1 \in Range(played)
          BY <4>2 DEF LossInv
        <5>2. ~ (expectedSeq - 1 >= held)
          BY <2>1, <2>5, <5>1 DEF OrderInv
        <5> QED
          BY <2>1, <5>2
      <4> QED
        BY <4>1, <4>2
    <3>3. Missed(held) = held - expectedSeq
      BY <2>1, <3>2 DEF Missed
    <3>4. TotalLost = Cardinality((0..(expectedSeq - 1)) \ Range(played))
      BY <2>5 DEF LossInv, LossCountExact
    <3>5. Cardinality((0..held) \ (Range(played) \cup {held}))
            = Cardinality((0..(expectedSeq - 1)) \ Range(played)) + (held - expectedSeq)
      BY <2>1, <3>1, <3>2, MissingNow
    <3>6. TotalLost' = Cardinality((0..held) \ (Range(played) \cup {held}))
      BY <2>2, <3>3, <3>4, <3>5
    <3>7. expectedSeq' - 1 = held
      BY <2>1, <2>2
    <3>8. \A r \in Range(played') : r < expectedSeq'
      BY <2>1, <2>2, <2>3, <3>1, <3>2
    <3> QED
      BY <2>3, <3>6, <3>7, <3>8
  <2> QED
    BY <2>2, <2>4, <2>5 DEF LossInv, LossCountExact
<1>2. CASE ~Play
  <2>1. UNCHANGED <<expectedSeq, played, TotalLost>> /\ late \subseteq late'
    BY <1>2 DEF Next, Bootstrap, TimePasses, handleRead, Tick, ReleaseFront, StopDraining
  <2>2. late' = {} => late = {}
    BY <2>1
  <2> QED
    BY <2>1, <2>2 DEF LossInv, LossCountExact
<1> QED
  BY <1>1, <1>2

-----------------------------------------------------------------------------
\* In every state each statistic that main prints keeps its own promise:
\* every hole in what arrived was reported, as a gap or as a packet out of
\* order, and while no packet came too late the losses counted are exactly the
\* numbers below the highest played that were not (receptor.go 76-90,
\* player.go 33-47).
THEOREM ReportTheorem == Spec => []ReportHolds
<1>1. Init => OrderInv /\ HolesInv /\ LossInv
  <2> SUFFICES ASSUME Init PROVE OrderInv /\ HolesInv /\ LossInv
    OBVIOUS
  <2>1. OrderInv
    BY DEF Init, OrderInv, OnlyLateOutOfOrder, Range
  <2>2. HolesInv
    <3>1. Arrived = {} /\ ~initialized /\ SeqGaps = 0 /\ Delayed = 0
      BY DEF Init, Arrived
    <3>2. Edges(Arrived) = {}
      BY <3>1 DEF Edges
    <3> QED
      BY <3>1, <3>2, FS_EmptySet DEF HolesInv
  <2>3. LossInv
    <3>1. Range(played) = {} /\ expectedSeq = 0 /\ TotalLost = 0
      BY DEF Init, Range
    <3>2. (0..(expectedSeq - 1)) \ Range(played) = {}
      BY <3>1
    <3> QED
      BY <3>1, <3>2, FS_EmptySet DEF LossInv, LossCountExact
  <2> QED
    BY <2>1, <2>2, <2>3
<1>2. TypeOK /\ HolesInv /\ LossInv => ReportHolds
  <2> SUFFICES ASSUME TypeOK, HolesInv, LossInv PROVE ReportHolds
    OBVIOUS
  <2>1. Arrived \subseteq Packet
    BY DEF Arrived
  <2>2. Edges(Arrived) = {s \in Arrived : s - 1 \notin Arrived /\ s # Min(Arrived)}
    BY <2>1, EdgesAre
  <2> QED
    BY <2>2 DEF ReportHolds, HolesReported, HolesInv, LossInv
<1> QED
  BY <1>1, <1>2, TypeInit, TypeStep, OrderStep, HolesStep, LossStep, PTL DEF Spec

=============================================================================
