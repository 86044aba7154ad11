----------------------------- MODULE MiningPoolProofs -----------------------------
(***************************************************************************)
(* Theorems about MiningPool, and about the Exchange it may be over, for   *)
(* any connections, prices, hashrates and numbers of orders and events.    *)
(***************************************************************************)
EXTENDS MiningPool, FiniteSetTheorems, WellFoundedInduction, TLAPS

\* What the proofs use of the constants.
LEMMA ConstantTypes ==
  /\ Price \subseteq Nat /\ DefaultAskPrice \in Price
  /\ \E top \in Price : \A p \in Price : p <= top
  /\ SocketCap \in Nat /\ PricePerTH \in Nat /\ MaxId \in Nat
  /\ Hashrate \subseteq Nat
  BY MiningPoolAssumption DEF E!ExchangeAssumption

USE ConstantTypes

-----------------------------------------------------------------------------
(* What may happen to the book of the Exchange, whoever calls.             *)

Placing(m, p, h) == E!PlaceAsk(m, p, h) \/ E!PlaceBid(m, p, h)

BookStep ==
    \/ \E m \in Id, p \in Price, h \in Nat : Placing(m, p, h)
    \/ \E m \in Id : E!UnregisterMiner(m)
    \/ E!Match \/ E!MatchEnds \/ UNCHANGED exchangeVars

-----------------------------------------------------------------------------
(* A heap that is not empty has a top: prices are natural numbers and there *)
(* is a highest one.                                                       *)

\* A set of numbers that is not empty has a least one.
LEMMA LeastOf ==
  ASSUME NEW S \in SUBSET Nat, S # {}
  PROVE  \E x \in S : \A y \in S : x <= y
<1>1. PICK x \in S : \A y \in S : ~ (<<y, x>> \in OpToRel(<, Nat))
  BY S \subseteq Nat, NatLessThanWellFounded, WFMin
<1>2. ASSUME NEW y \in S PROVE x <= y
  <2>1. <<y, x>> \in Nat \X Nat /\ <<y, x>> \notin OpToRel(<, Nat)
    BY <1>1
  <2>2. <<y, x>>[1] = y /\ <<y, x>>[2] = x
    OBVIOUS
  <2>3. ~ (y < x)
    BY <2>1, <2>2 DEF OpToRel
  <2> QED
    BY <2>3
<1> QED
  BY <1>2

LEMMA BestAskExists ==
  ASSUME asks \subseteq E!Order, asks # {}
  PROVE  \E a \in asks : E!BestAsk(a)
<1> DEFINE S == {a.price : a \in asks}
<1>1. \A a \in asks : a.price \in Nat
  BY DEF E!Order
<1>2. S \in SUBSET Nat /\ S # {}
  BY <1>1
<1>3. PICK p \in S : \A q \in S : p <= q
  BY <1>2, LeastOf
<1>4. PICK a \in asks : a.price = p
  BY <1>3
<1> QED
  BY <1>3, <1>4 DEF E!BestAsk

LEMMA BestBidExists ==
  ASSUME bids \subseteq E!Order, bids # {}
  PROVE  \E b \in bids : E!BestBid(b)
<1>1. PICK top \in Price : \A p \in Price : p <= top
  OBVIOUS
<1> DEFINE S == {top - b.price : b \in bids}
<1>2. top \in Nat /\ \A b \in bids : b.price \in Nat /\ b.price <= top
  BY <1>1 DEF E!Order
<1>3. S \in SUBSET Nat /\ S # {}
  BY <1>2
<1>4. PICK p \in S : \A q \in S : p <= q
  BY <1>3, LeastOf
<1>5. PICK b \in bids : top - b.price = p
  BY <1>4
<1>6. ASSUME NEW o \in bids PROVE b.price >= o.price
  <2>1. p <= top - o.price
    BY <1>4
  <2> QED
    BY <1>2, <1>5, <2>1
<1> QED
  BY <1>5, <1>6 DEF E!BestBid

-----------------------------------------------------------------------------
(* Types.                                                                  *)

\* What is left of an order has its type, its id and its price.
LEMMA RestOf ==
  ASSUME NEW o \in E!Order, NEW q \in Nat, q <= o.hashrate
  PROVE  \A r \in E!Rest(o, q) : /\ r \in E!Order /\ r.id = o.id /\ r.price = o.price
                                  /\ r.hashrate = o.hashrate - q /\ r.hashrate > 0
<1>1. o.id \in Nat /\ o.miner \in Id /\ o.price \in Price /\ o.hashrate \in Nat
  BY DEF E!Order
<1>2. ASSUME NEW r \in E!Rest(o, q) PROVE r = [o EXCEPT !.hashrate = @ - q] /\ o.hashrate # q
  BY <1>2 DEF E!Rest
<1>3. ASSUME NEW r \in E!Rest(o, q)
      PROVE  r \in E!Order /\ r.id = o.id /\ r.price = o.price /\ r.hashrate = o.hashrate - q
  BY <1>2, <1>3 DEF E!Order
<1>4. o.hashrate - q \in Nat
  BY <1>1
<1> QED
  BY <1>1, <1>2, <1>3, <1>4

\* What a turn of the loop does to the book.
LEMMA MatchStep ==
  ASSUME E!ExchangeTypeOK, E!Match
  PROVE  \E a \in asks, b \in bids, q \in Nat :
            /\ q <= a.hashrate /\ q <= b.hashrate
            /\ q \in {a.hashrate, b.hashrate} /\ a.price <= b.price
            /\ asks' = (asks \ {a}) \cup E!Rest(a, q)
            /\ bids' = (bids \ {b}) \cup E!Rest(b, q)
            /\ revenue' = E!Credit(a, q)
            /\ trades' = trades \cup {[ask |-> a, bid |-> b, quantity |-> q]}
            /\ matching /\ UNCHANGED <<matching, placed>>
<1>1. PICK a \in asks, b \in bids :
        LET quantity == IF a.hashrate <= b.hashrate THEN a.hashrate ELSE b.hashrate IN
          /\ a.price <= b.price
          /\ asks' = (asks \ {a}) \cup E!Rest(a, quantity)
          /\ bids' = (bids \ {b}) \cup E!Rest(b, quantity)
          /\ revenue' = E!Credit(a, quantity)
          /\ trades' = trades \cup {[ask |-> a, bid |-> b, quantity |-> quantity]}
  BY DEF E!Match, E!Crosses
<1> DEFINE q == IF a.hashrate <= b.hashrate THEN a.hashrate ELSE b.hashrate
<1>2. a.hashrate \in Nat /\ b.hashrate \in Nat
  BY DEF E!ExchangeTypeOK, E!Order
<1>3. q \in Nat /\ q <= a.hashrate /\ q <= b.hashrate /\ q \in {a.hashrate, b.hashrate}
  BY <1>2
<1>4. /\ a.price <= b.price
      /\ asks' = (asks \ {a}) \cup E!Rest(a, q)
      /\ bids' = (bids \ {b}) \cup E!Rest(b, q)
      /\ revenue' = E!Credit(a, q)
      /\ trades' = trades \cup {[ask |-> a, bid |-> b, quantity |-> q]}
  BY <1>1
<1>5. matching /\ UNCHANGED <<matching, placed>>
  BY DEF E!Match
<1> QED
  BY <1>3, <1>4, <1>5

\* An order that is placed has its type.
LEMMA NewOrderType ==
  ASSUME E!ExchangeTypeOK,
         NEW m \in Id, NEW p \in Price, NEW h \in Nat
  PROVE  E!NewOrder(m, p, h) \in E!Order /\ E!NewOrder(m, p, h).id = placed + 1
  BY DEF E!ExchangeTypeOK, E!NewOrder, E!Order

LEMMA BookTypeInit == E!Init => E!ExchangeTypeOK
<1> SUFFICES ASSUME E!Init PROVE E!ExchangeTypeOK
  OBVIOUS
<1>1. placed \in 0..MaxId
  BY DEF E!Init
<1>2. asks \subseteq E!Order /\ bids \subseteq E!Order /\ matching \in BOOLEAN
  BY DEF E!Init
<1>3. revenue \in [Id -> Nat]
  BY DEF E!Init
<1> QED
  BY <1>1, <1>2, <1>3 DEF E!ExchangeTypeOK

LEMMA BookTypeStep == E!ExchangeTypeOK /\ BookStep => E!ExchangeTypeOK'
<1> SUFFICES ASSUME E!ExchangeTypeOK, BookStep PROVE E!ExchangeTypeOK'
  OBVIOUS
<1>1. ASSUME NEW m \in Id, NEW p \in Price, NEW h \in Nat, Placing(m, p, h)
      PROVE  E!ExchangeTypeOK'
  <2>1. /\ asks' \cup bids' = asks \cup bids \cup {E!NewOrder(m, p, h)}
        /\ matching' = TRUE /\ placed' = placed + 1 /\ placed < MaxId
        /\ UNCHANGED revenue
    BY <1>1 DEF Placing, E!PlaceAsk, E!PlaceBid
  <2>2. asks' \subseteq E!Order /\ bids' \subseteq E!Order
    BY <2>1, NewOrderType DEF E!ExchangeTypeOK
  <2> QED
    BY <2>1, <2>2 DEF E!ExchangeTypeOK
<1>2. ASSUME NEW m \in Id, E!UnregisterMiner(m) PROVE E!ExchangeTypeOK'
  BY <1>2 DEF E!UnregisterMiner, E!ExchangeTypeOK
<1>3. CASE E!Match
  <2>1. PICK a \in asks, b \in bids, q \in Nat :
            /\ q <= a.hashrate /\ q <= b.hashrate
            /\ asks' = (asks \ {a}) \cup E!Rest(a, q)
            /\ bids' = (bids \ {b}) \cup E!Rest(b, q)
            /\ revenue' = E!Credit(a, q)
            /\ matching /\ UNCHANGED <<matching, placed>>
    BY <1>3, MatchStep
  <2>2. a \in E!Order /\ b \in E!Order
    BY DEF E!ExchangeTypeOK
  <2>3. asks' \subseteq E!Order /\ bids' \subseteq E!Order
    BY <2>1, <2>2, RestOf DEF E!ExchangeTypeOK
  <2>4. a.miner \in Id /\ a.price \in Nat
    BY <2>2 DEF E!Order
  <2>5. q * a.price \in Nat
    BY <2>4
  <2>6. revenue' \in [Id -> Nat]
    BY <2>1, <2>4, <2>5 DEF E!Credit, E!ExchangeTypeOK
  <2> QED
    BY <2>1, <2>3, <2>6 DEF E!ExchangeTypeOK
<1>4. CASE E!MatchEnds
  BY <1>4 DEF E!MatchEnds, E!ExchangeTypeOK
<1>5. CASE UNCHANGED exchangeVars
  BY <1>5 DEF exchangeVars, E!ExchangeTypeOK
<1> QED
  BY <1>1, <1>2, <1>3, <1>4, <1>5 DEF BookStep, Placing

-----------------------------------------------------------------------------
(* The book between two calls.                                             *)

LEMMA SettledStep ==
  E!ExchangeTypeOK /\ E!NoCrossedBook /\ BookStep => E!NoCrossedBook'
<1> SUFFICES ASSUME E!ExchangeTypeOK, E!NoCrossedBook, BookStep
             PROVE  E!NoCrossedBook'
  OBVIOUS
<1>1. CASE E!MatchEnds
  <2> SUFFICES ASSUME NEW a \in asks, NEW b \in bids PROVE a.price > b.price
    BY <1>1 DEF E!MatchEnds, E!NoCrossedBook
  <2>1. PICK best \in asks : E!BestAsk(best)
    BY BestAskExists DEF E!ExchangeTypeOK
  <2>2. PICK most \in bids : E!BestBid(most)
    BY BestBidExists DEF E!ExchangeTypeOK
  <2>3. ~ (best.price <= most.price)
    BY <1>1, <2>1, <2>2 DEF E!MatchEnds, E!Crosses
  <2>4. best.price <= a.price /\ most.price >= b.price
    BY <2>1, <2>2 DEF E!BestAsk, E!BestBid
  <2>5. \A o \in asks \cup bids : o.price \in Nat
    BY DEF E!ExchangeTypeOK, E!Order
  <2> QED
    BY <2>3, <2>4, <2>5
<1>2. ASSUME NEW m \in Id, NEW p \in Price, NEW h \in Nat, Placing(m, p, h)
      PROVE  E!NoCrossedBook'
  BY <1>2 DEF Placing, E!PlaceAsk, E!PlaceBid, E!NoCrossedBook
<1>3. ASSUME NEW m \in Id, E!UnregisterMiner(m) PROVE E!NoCrossedBook'
  BY <1>3 DEF E!UnregisterMiner, E!NoCrossedBook
<1>4. CASE E!Match
  BY <1>4 DEF E!Match, E!NoCrossedBook
<1>5. CASE UNCHANGED exchangeVars
  BY <1>5 DEF exchangeVars, E!NoCrossedBook
<1> QED
  BY <1>1, <1>2, <1>3, <1>4, <1>5 DEF BookStep, Placing

-----------------------------------------------------------------------------
(* Orders.                                                                 *)

\* An id is one order's, in one heap; the ids that have been traded are among
\* those that were placed; what a trade has left of an order is not nothing.
EntriesInv ==
    /\ \A o \in asks \cup bids : o.id <= placed
    /\ \A t \in trades : /\ t.ask.id \in Nat /\ t.ask.id <= placed
                         /\ t.bid.id \in Nat /\ t.bid.id <= placed
    /\ \A a \in asks, b \in bids : a.id # b.id
    /\ E!OneEntryPerOrder

LEMMA EntriesStep ==
  E!ExchangeTypeOK /\ EntriesInv /\ BookStep => EntriesInv'
<1> SUFFICES ASSUME E!ExchangeTypeOK, EntriesInv, BookStep
             PROVE  EntriesInv'
  OBVIOUS
<1>0. placed \in Nat /\ \A o \in asks \cup bids : o \in E!Order /\ o.id \in Nat
  BY DEF E!ExchangeTypeOK, E!Order
<1> USE DEF EntriesInv, E!OneEntryPerOrder
<1>1. ASSUME NEW m \in Id, NEW p \in Price, NEW h \in Nat, Placing(m, p, h)
      PROVE  EntriesInv'
  <2> DEFINE new == E!NewOrder(m, p, h)
  <2>1. new.id = placed + 1
    BY NewOrderType
  <2>2. /\ \/ asks' = asks \cup {new} /\ bids' = bids
           \/ asks' = asks /\ bids' = bids \cup {new}
        /\ placed' = placed + 1 /\ trades' = trades
    BY <1>1 DEF Placing, E!PlaceAsk, E!PlaceBid
  <2> HIDE DEF new
  <2>3. /\ \A o \in asks \cup bids : o.id # new.id /\ o.id <= placed'
        /\ \A t \in trades : t.ask.id # new.id /\ t.bid.id # new.id
        /\ \A t \in trades : t.ask.id <= placed' /\ t.bid.id <= placed'
        /\ new.id <= placed'
    BY <1>0, <2>1, <2>2
  <2>4. asks' \cup bids' = asks \cup bids \cup {new}
    BY <2>2
  <2>5. E!OneEntryPerOrder'
    BY <2>2, <2>3, <2>4
  <2> QED
    BY <2>2, <2>3, <2>4, <2>5
<1>2. ASSUME NEW m \in Id, E!UnregisterMiner(m) PROVE EntriesInv'
  <2>1. asks' \subseteq asks /\ UNCHANGED <<bids, trades, placed>>
    BY <1>2 DEF E!UnregisterMiner
  <2> QED
    BY <2>1
<1>3. CASE E!Match
  <2>1. PICK a \in asks, b \in bids, q \in Nat :
            /\ q <= a.hashrate /\ q <= b.hashrate
            /\ asks' = (asks \ {a}) \cup E!Rest(a, q)
            /\ bids' = (bids \ {b}) \cup E!Rest(b, q)
            /\ trades' = trades \cup {[ask |-> a, bid |-> b, quantity |-> q]}
            /\ UNCHANGED placed
    BY <1>3, MatchStep
  <2>2. \A r \in E!Rest(a, q) : r.id = a.id /\ r.hashrate > 0
    BY <1>0, <2>1, RestOf
  <2>3. \A r \in E!Rest(b, q) : r.id = b.id /\ r.hashrate > 0
    BY <1>0, <2>1, RestOf
  <2>4. \A r, s \in E!Rest(a, q) : r = s
    BY DEF E!Rest
  <2>5. \A r, s \in E!Rest(b, q) : r = s
    BY DEF E!Rest
  <2> DEFINE t0 == [ask |-> a, bid |-> b, quantity |-> q]
  <2>6. t0.ask = a /\ t0.bid = b
    OBVIOUS
  <2>7. trades' = trades \cup {t0}
    BY <2>1
  <2> HIDE DEF t0
  <2>8. \A o \in asks' : (o \in asks /\ o # a) \/ o \in E!Rest(a, q)
    BY <2>1
  <2>9. \A o \in bids' : (o \in bids /\ o # b) \/ o \in E!Rest(b, q)
    BY <2>1
  <2>10. /\ \A o \in asks' : o.id <= placed /\ \E p \in asks : p.id = o.id
         /\ \A o \in bids' : o.id <= placed /\ \E p \in bids : p.id = o.id
    BY <2>1, <2>2, <2>3, <2>8, <2>9
  <2>11. \A o \in asks', p \in bids' : o.id # p.id
    BY <2>10
  <2>12. \A o, p \in asks' : o.id = p.id => o = p
    BY <2>1, <2>2, <2>4, <2>8
  <2>13. \A o, p \in bids' : o.id = p.id => o = p
    BY <2>1, <2>3, <2>5, <2>9
  <2>14. \A o \in asks' : (o \in asks /\ o.id # a.id /\ o.id # b.id) \/ o.hashrate > 0
    BY <2>1, <2>2, <2>8
  <2>15. \A o \in bids' : (o \in bids /\ o.id # a.id /\ o.id # b.id) \/ o.hashrate > 0
    BY <2>1, <2>3, <2>9
  <2>16. \A o \in asks' \cup bids', t \in trades' :
            o.id \in {t.ask.id, t.bid.id} => o.hashrate > 0
    BY <2>6, <2>7, <2>14, <2>15
  <2>17. \A t \in trades' : /\ t.ask.id \in Nat /\ t.ask.id <= placed
                           /\ t.bid.id \in Nat /\ t.bid.id <= placed
    BY <1>0, <2>1, <2>6, <2>7
  <2> QED
    BY <2>1, <2>10, <2>11, <2>12, <2>13, <2>16, <2>17
<1>4. CASE E!MatchEnds
  BY <1>4 DEF E!MatchEnds
<1>5. CASE UNCHANGED exchangeVars
  BY <1>5 DEF exchangeVars
<1> QED
  BY <1>1, <1>2, <1>3, <1>4, <1>5 DEF BookStep, Placing

-----------------------------------------------------------------------------
(* The sum over a set of trades, a fold.  It is a recursive function over  *)
(* the subsets; what it computes is shown by the least counterexample.     *)

Amount(t) == t.quantity * t.ask.price
Total(S) == E!MapThenSumSet(LAMBDA t : t.quantity * t.ask.price, S)

Any(s) == CHOOSE t \in s : TRUE

\* The equation of the fold for a subset s, and for all of them.
Turn(s, g) == IF s = {} THEN 0 ELSE Amount(Any(s)) + g[s \ {Any(s)}]
Recurs(S, g) == g = [s \in SUBSET S |-> Turn(s, g)]

Payable(S) == IsFiniteSet(S) /\ \A t \in S : Amount(t) \in Nat

LEMMA TotalIsFold == ASSUME NEW S PROVE Total(S) = (CHOOSE g : Recurs(S, g))[S]
  BY DEF Total, E!MapThenSumSet, E!MapThenFoldSet, Amount, Any, Recurs, Turn

\* One subset after the other, by their size.
LEMMA Smaller ==
  ASSUME NEW S, Payable(S), NEW s \in SUBSET S
  PROVE  /\ Cardinality(s) \in Nat
         /\ \A t \in s : s \ {t} \in SUBSET S /\ Cardinality(s \ {t}) = Cardinality(s) - 1
         /\ s # {} => Any(s) \in s
<1>1. IsFiniteSet(s)
  BY FS_Subset DEF Payable
<1>2. Cardinality(s) \in Nat
  BY <1>1, FS_CardinalityType
<1>3. ASSUME NEW t \in s PROVE Cardinality(s \ {t}) = Cardinality(s) - 1
  BY <1>1, FS_RemoveElement
<1> QED
  BY <1>2, <1>3 DEF Any

\* The recursion has a solution: those that hold up to some size grow.
LEMMA FoldExists ==
  ASSUME NEW S, Payable(S)
  PROVE  \E g : Recurs(S, g) /\ g \in [SUBSET S -> Nat]
<1> DEFINE UpTo(k) == \E g \in [SUBSET S -> Nat] :
                        \A s \in SUBSET S : Cardinality(s) < k => g[s] = Turn(s, g)
           Bad == {k \in Nat : ~UpTo(k)}
<1>1. UpTo(0)
  <2> DEFINE g == [s \in SUBSET S |-> 0]
  <2>1. g \in [SUBSET S -> Nat]
    OBVIOUS
  <2>2. \A s \in SUBSET S : ~ (Cardinality(s) < 0)
    BY Smaller
  <2> QED
    BY <2>1, <2>2
<1>2. ASSUME NEW k \in Nat, UpTo(k) PROVE UpTo(k + 1)
  <2>1. PICK g \in [SUBSET S -> Nat] :
          \A s \in SUBSET S : Cardinality(s) < k => g[s] = Turn(s, g)
    BY <1>2
  <2> DEFINE h == [s \in SUBSET S |-> Turn(s, g)]
  <2>2. h \in [SUBSET S -> Nat]
    <3> SUFFICES ASSUME NEW s \in SUBSET S PROVE Turn(s, g) \in Nat
      OBVIOUS
    <3>1. CASE s = {}
      BY <3>1 DEF Turn
    <3>2. CASE s # {}
      <4>1. Any(s) \in S /\ g[s \ {Any(s)}] \in Nat
        BY <3>2, Smaller
      <4> QED
        BY <3>2, <4>1 DEF Turn, Payable
    <3> QED
      BY <3>1, <3>2
  <2>3. ASSUME NEW s \in SUBSET S, Cardinality(s) < k + 1 PROVE h[s] = Turn(s, h)
    <3>1. CASE s = {}
      BY <3>1 DEF Turn
    <3>2. CASE s # {}
      <4> DEFINE r == s \ {Any(s)}
      <4>1. r \in SUBSET S /\ Cardinality(r) < k
        BY <2>3, <3>2, Smaller
      <4>2. h[r] = g[r]
        BY <2>1, <4>1
      <4> QED
        BY <3>2, <4>2 DEF Turn
    <3> QED
      BY <3>1, <3>2
  <2> HIDE DEF h
  <2> QED
    BY <2>2, <2>3
<1> HIDE DEF UpTo
<1>3. Bad = {}
  <2> SUFFICES ASSUME Bad # {} PROVE FALSE
    OBVIOUS
  <2>1. PICK k \in Bad : \A l \in Bad : k <= l
    BY LeastOf
  <2>2. k # 0 /\ k \in Nat
    BY <1>1
  <2>3. k - 1 \in Nat /\ UpTo(k - 1)
    BY <2>1, <2>2
  <2> QED
    BY <1>2, <2>2, <2>3
<1>4. Cardinality(S) + 1 \in Nat
  BY Smaller
<1>5. PICK g \in [SUBSET S -> Nat] :
        \A s \in SUBSET S : Cardinality(s) < Cardinality(S) + 1 => g[s] = Turn(s, g)
  BY <1>3, <1>4 DEF UpTo
<1>6. ASSUME NEW s \in SUBSET S PROVE g[s] = Turn(s, g)
  <2>1. Cardinality(s) <= Cardinality(S)
    BY FS_Subset DEF Payable
  <2>2. Cardinality(s) < Cardinality(S) + 1
    BY <2>1, Smaller
  <2> QED
    BY <1>5, <2>2
<1>7. Recurs(S, g)
  BY <1>6 DEF Recurs
<1> QED
  BY <1>7

\* The element that is taken first may be any.
LEMMA FoldTakes ==
  ASSUME NEW S, Payable(S), NEW g \in [SUBSET S -> Nat], Recurs(S, g),
         NEW s \in SUBSET S, NEW t \in s
  PROVE  g[s] = Amount(t) + g[s \ {t}]
<1> DEFINE Wrong(r) == \E x \in r : g[r] # Amount(x) + g[r \ {x}]
           Bad == {Cardinality(q) : q \in {r \in SUBSET S : Wrong(r)}}
<1>0. ASSUME NEW r \in SUBSET S PROVE g[r] = Turn(r, g)
  BY DEF Recurs
<1> SUFFICES ASSUME Bad # {} PROVE FALSE
  OBVIOUS
<1>1. Bad \in SUBSET Nat
  BY Smaller
<1>2. PICK k \in Bad : \A l \in Bad : k <= l
  BY <1>1, LeastOf
<1>14. PICK r \in SUBSET S : k = Cardinality(r) /\ Wrong(r)
  BY <1>2
<1>3. PICK x \in r : g[r] # Amount(x) + g[r \ {x}]
  BY <1>14
<1> DEFINE y == Any(r)
<1>4. y \in r /\ g[r] = Amount(y) + g[r \ {y}]
  BY <1>0, Smaller DEF Turn
<1> HIDE DEF y
<1>5. x # y
  BY <1>3, <1>4
<1>6. ASSUME NEW u \in r, NEW v \in r \ {u}
      PROVE  g[r \ {u}] = Amount(v) + g[(r \ {u}) \ {v}]
  <2>1. r \ {u} \in SUBSET S /\ Cardinality(r \ {u}) = k - 1 /\ k \in Nat
    BY <1>14, Smaller
  <2>2. ~Wrong(r \ {u})
    BY <1>2, <2>1
  <2> QED
    BY <2>2
<1>7. g[r \ {y}] = Amount(x) + g[(r \ {y}) \ {x}]
  BY <1>4, <1>5, <1>6
<1>8. g[r \ {x}] = Amount(y) + g[(r \ {x}) \ {y}]
  BY <1>4, <1>5, <1>6
<1>9. (r \ {y}) \ {x} = (r \ {x}) \ {y}
  OBVIOUS
<1>10. Amount(x) \in Nat /\ Amount(y) \in Nat
  BY <1>4 DEF Payable
<1>11. PICK w \in Nat : w = g[(r \ {x}) \ {y}]
  BY (r \ {x}) \ {y} \in SUBSET S
<1>12. g[r] = Amount(y) + (Amount(x) + w)
  BY <1>4, <1>7, <1>9, <1>11
<1>13. Amount(x) + g[r \ {x}] = Amount(x) + (Amount(y) + w)
  BY <1>8, <1>11
<1> HIDE DEF Amount
<1> QED
  BY <1>3, <1>10, <1>12, <1>13

\* The fold of a set is that of any larger one, on its subsets.
LEMMA FoldAgrees ==
  ASSUME NEW S, NEW T, Payable(S), T \subseteq S,
         NEW g, Recurs(S, g), NEW h, Recurs(T, h), NEW s \in SUBSET T
  PROVE  g[s] = h[s]
<1> DEFINE Bad == {Cardinality(q) : q \in {r \in SUBSET T : g[r] # h[r]}}
<1>0. ASSUME NEW r \in SUBSET T PROVE g[r] = Turn(r, g) /\ h[r] = Turn(r, h)
  BY DEF Recurs
<1> SUFFICES ASSUME Bad # {} PROVE FALSE
  OBVIOUS
<1>1. Bad \in SUBSET Nat
  BY Smaller
<1>2. PICK k \in Bad : \A l \in Bad : k <= l
  BY <1>1, LeastOf
<1>3. PICK r \in SUBSET T : k = Cardinality(r) /\ g[r] # h[r]
  BY <1>2
<1>4. r # {}
  BY <1>0, <1>3 DEF Turn
<1>5. Any(r) \in r /\ Cardinality(r \ {Any(r)}) = k - 1 /\ k \in Nat
  BY <1>3, <1>4, Smaller
<1>6. g[r \ {Any(r)}] = h[r \ {Any(r)}]
  BY <1>2, <1>5
<1> QED
  BY <1>0, <1>3, <1>4, <1>6 DEF Turn

\* The sum is 0 for no trade, and grows by the amount of one that is added.
LEMMA TotalOfNone == Total({}) = 0
<1>1. Payable({})
  BY FS_EmptySet DEF Payable
<1>2. Recurs({}, CHOOSE g : Recurs({}, g))
  BY <1>1, FoldExists
<1> QED
  BY <1>2, TotalIsFold DEF Recurs, Turn

LEMMA TotalGrows ==
  ASSUME NEW S, NEW t \in S, Payable(S)
  PROVE  Total(S) = Amount(t) + Total(S \ {t})
<1>1. Payable(S \ {t})
  BY FS_Subset DEF Payable
<1>2. PICK g \in [SUBSET S -> Nat] : Recurs(S, g)
  BY FoldExists
<1>3. Recurs(S, CHOOSE h : Recurs(S, h))
  BY <1>2
<1>4. Recurs(S \ {t}, CHOOSE h : Recurs(S \ {t}, h))
  BY <1>1, FoldExists
<1>5. Total(S) = g[S]
  BY <1>2, <1>3, FoldAgrees, TotalIsFold
<1>6. Total(S \ {t}) = g[S \ {t}]
  BY <1>2, <1>4, FoldAgrees, TotalIsFold
<1>7. g[S] = Amount(t) + g[S \ {t}]
  BY <1>2, FoldTakes
<1> QED
  BY <1>5, <1>6, <1>7

-----------------------------------------------------------------------------
(* What the miners are paid.                                               *)

Sales(m) == {t \in trades : t.ask.miner = m}

PaidAll ==
    /\ \A t \in trades : t.ask.price <= t.bid.price
    /\ \A m \in Id : revenue[m] = Total(Sales(m))

LEMMA PaidMeans == (E!PaidPerTrade <=> PaidAll) /\ (E!PaidPerTrade' <=> PaidAll')
  BY DEF PaidAll, E!PaidPerTrade, Total, Sales, E!MapThenSumSet, E!MapThenFoldSet

\* A trade has taken all of one of its orders, and of an order that is still in
\* the book there is no more than its trades have left.
TradeTypes ==
    /\ IsFiniteSet(trades)
    /\ \A t \in trades :
          /\ t.ask \in E!Order /\ t.bid \in E!Order
          /\ t.quantity \in Nat /\ t.quantity \in {t.ask.hashrate, t.bid.hashrate}

TradeInv ==
    /\ TradeTypes
    /\ \A t \in trades :
          /\ \A o \in asks : o.id = t.ask.id => o.hashrate + t.quantity <= t.ask.hashrate
          /\ \A o \in bids : o.id = t.bid.id => o.hashrate + t.quantity <= t.bid.hashrate
    /\ E!PaidPerTrade

LEMMA TradesPayable ==
  ASSUME NEW T, IsFiniteSet(T), NEW S \in SUBSET T,
         \A t \in T : t.ask \in E!Order /\ t.quantity \in Nat
  PROVE  Payable(S)
<1>1. IsFiniteSet(S)
  BY FS_Subset
<1>2. ASSUME NEW t \in S PROVE Amount(t) \in Nat
  <2>1. t.quantity \in Nat /\ t.ask.price \in Nat
    BY DEF E!Order
  <2> QED
    BY <2>1 DEF Amount
<1> QED
  BY <1>1, <1>2 DEF Payable

\* The trade of a turn is a new one: one that took nothing had an order of no
\* hashrate, which is not in the book any more.
LEMMA TradeIsNew ==
  ASSUME E!ExchangeTypeOK, EntriesInv, TradeInv,
         NEW a \in asks, NEW b \in bids, NEW q \in {a.hashrate, b.hashrate}
  PROVE  [ask |-> a, bid |-> b, quantity |-> q] \notin trades
<1> SUFFICES ASSUME NEW t \in trades, t = [ask |-> a, bid |-> b, quantity |-> q]
             PROVE  FALSE
  OBVIOUS
<1>1. t.ask = a /\ t.bid = b /\ t.quantity = q
  OBVIOUS
<1>2. a.hashrate \in Nat /\ b.hashrate \in Nat
  BY DEF E!ExchangeTypeOK, E!Order
<1>3. a.hashrate + q <= a.hashrate
  BY <1>1 DEF TradeInv
<1>4. q = 0
  BY <1>2, <1>3
<1>5. a.hashrate > 0 /\ b.hashrate > 0
  BY <1>1 DEF EntriesInv, E!OneEntryPerOrder
<1> QED
  BY <1>2, <1>4, <1>5

LEMMA PaidStep ==
  E!ExchangeTypeOK /\ EntriesInv /\ TradeInv /\ BookStep => TradeInv'
<1> SUFFICES ASSUME E!ExchangeTypeOK, EntriesInv, TradeInv, BookStep PROVE TradeInv'
  OBVIOUS
<1>0. TradeTypes /\ E!PaidPerTrade
  BY DEF TradeInv
<1>1. ASSUME UNCHANGED <<trades, revenue>>,
             \A o \in asks' : o \in asks \/ o.id = placed + 1,
             \A o \in bids' : o \in bids \/ o.id = placed + 1
      PROVE  TradeInv'
  <2>1. TradeTypes'
    BY <1>0, <1>1 DEF TradeTypes
  <2>2. E!PaidPerTrade'
    <3>1. PaidAll
      BY <1>0, PaidMeans
    <3>2. PaidAll'
      BY <1>1, <3>1 DEF PaidAll, Sales
    <3> QED
      BY <3>2, PaidMeans
  <2>3. \A t \in trades : t.ask.id # placed + 1 /\ t.bid.id # placed + 1
    BY DEF EntriesInv, E!ExchangeTypeOK
  <2> QED
    BY <1>1, <2>1, <2>2, <2>3 DEF TradeInv
<1>2. ASSUME NEW m \in Id, NEW p \in Price, NEW h \in Nat, Placing(m, p, h)
      PROVE  TradeInv'
  <2>1. E!NewOrder(m, p, h).id = placed + 1
    BY NewOrderType
  <2> QED
    BY <1>1, <1>2, <2>1 DEF Placing, E!PlaceAsk, E!PlaceBid
<1>3. ASSUME NEW m \in Id, E!UnregisterMiner(m) PROVE TradeInv'
  BY <1>1, <1>3 DEF E!UnregisterMiner
<1>4. CASE E!Match
  <2>1. PICK a \in asks, b \in bids, q \in Nat :
            /\ q <= a.hashrate /\ q <= b.hashrate
            /\ q \in {a.hashrate, b.hashrate} /\ a.price <= b.price
            /\ asks' = (asks \ {a}) \cup E!Rest(a, q)
            /\ bids' = (bids \ {b}) \cup E!Rest(b, q)
            /\ revenue' = E!Credit(a, q)
            /\ trades' = trades \cup {[ask |-> a, bid |-> b, quantity |-> q]}
    BY <1>4, MatchStep
  <2> DEFINE t0 == [ask |-> a, bid |-> b, quantity |-> q]
  <2>2. t0.ask = a /\ t0.bid = b /\ t0.quantity = q /\ t0 \notin trades
    BY <2>1, TradeIsNew
  <2>3. trades' = trades \cup {t0}
    BY <2>1
  <2> HIDE DEF t0
  <2>4. a \in E!Order /\ b \in E!Order
    BY DEF E!ExchangeTypeOK
  <2>5. TradeTypes'
    <3>1. IsFiniteSet(trades')
      BY <1>0, <2>3, FS_AddElement DEF TradeTypes
    <3> QED
      BY <1>0, <2>1, <2>2, <2>3, <2>4, <3>1 DEF TradeTypes
  <2>6. /\ \A r \in E!Rest(a, q) : r.id = a.id /\ r.hashrate = a.hashrate - q
        /\ \A r \in E!Rest(b, q) : r.id = b.id /\ r.hashrate = b.hashrate - q
    BY <2>1, <2>4, RestOf
  <2>7. a.hashrate \in Nat /\ b.hashrate \in Nat /\ a.miner \in Id /\ a.price \in Nat
    BY <2>4 DEF E!Order
  <2>8. ASSUME NEW t \in trades', NEW o \in asks', o.id = t.ask.id
        PROVE  o.hashrate + t.quantity <= t.ask.hashrate
    <3>1. CASE t = t0
      <4>1. o \in E!Rest(a, q)
        BY <2>1, <2>2, <2>8, <3>1 DEF EntriesInv, E!OneEntryPerOrder
      <4> QED
        BY <2>1, <2>2, <2>6, <2>7, <3>1, <4>1
    <3>2. CASE t \in trades
      <4>1. t.quantity \in Nat /\ t.ask.hashrate \in Nat
        BY <1>0, <3>2 DEF TradeTypes, E!Order
      <4>2. CASE o \in asks
        BY <2>8, <3>2, <4>2 DEF TradeInv
      <4>3. CASE o \in E!Rest(a, q)
        <5>1. a.hashrate + t.quantity <= t.ask.hashrate
          BY <2>6, <2>8, <3>2, <4>3 DEF TradeInv
        <5> QED
          BY <2>1, <2>6, <2>7, <4>1, <4>3, <5>1
      <4> QED
        BY <2>1, <4>2, <4>3
    <3> QED
      BY <2>3, <3>1, <3>2
  <2>9. ASSUME NEW t \in trades', NEW o \in bids', o.id = t.bid.id
        PROVE  o.hashrate + t.quantity <= t.bid.hashrate
    <3>1. CASE t = t0
      <4>1. o \in E!Rest(b, q)
        BY <2>1, <2>2, <2>9, <3>1 DEF EntriesInv, E!OneEntryPerOrder
      <4> QED
        BY <2>1, <2>2, <2>6, <2>7, <3>1, <4>1
    <3>2. CASE t \in trades
      <4>1. t.quantity \in Nat /\ t.bid.hashrate \in Nat
        BY <1>0, <3>2 DEF TradeTypes, E!Order
      <4>2. CASE o \in bids
        BY <2>9, <3>2, <4>2 DEF TradeInv
      <4>3. CASE o \in E!Rest(b, q)
        <5>1. b.hashrate + t.quantity <= t.bid.hashrate
          BY <2>6, <2>9, <3>2, <4>3 DEF TradeInv
        <5> QED
          BY <2>1, <2>6, <2>7, <4>1, <4>3, <5>1
      <4> QED
        BY <2>1, <4>2, <4>3
    <3> QED
      BY <2>3, <3>1, <3>2
  <2>10. ASSUME NEW m \in Id PROVE revenue'[m] = Total(Sales(m)')
    <3>1. revenue[m] = Total(Sales(m)) /\ revenue \in [Id -> Nat]
      BY <1>0, PaidMeans DEF PaidAll, E!ExchangeTypeOK
    <3>2. CASE m = a.miner
      <4>1. Sales(m)' = Sales(m) \cup {t0} /\ t0 \notin Sales(m)
        BY <2>2, <2>3, <3>2 DEF Sales
      <4>2. Payable(Sales(m)')
        <5>1. /\ IsFiniteSet(trades') /\ Sales(m)' \subseteq trades'
              /\ \A t \in trades' : t.ask \in E!Order /\ t.quantity \in Nat
          BY <2>5 DEF TradeTypes, Sales
        <5> QED
          BY <5>1, TradesPayable
      <4>3. Total(Sales(m)') = Amount(t0) + Total(Sales(m)' \ {t0})
        BY <4>1, <4>2, TotalGrows
      <4>4. Sales(m)' \ {t0} = Sales(m)
        BY <4>1
      <4>5. Amount(t0) = q * a.price
        BY <2>2 DEF Amount
      <4>6. revenue'[m] = revenue[m] + q * a.price
        BY <2>1, <2>7, <3>1, <3>2 DEF E!Credit
      <4>7. PICK x \in Nat, y \in Nat : x = q * a.price /\ y = revenue[m]
        BY <2>7, <3>1
      <4>8. revenue'[m] = y + x /\ Total(Sales(m)') = x + y
        BY <3>1, <4>3, <4>4, <4>5, <4>6, <4>7
      <4> QED
        BY <4>8
    <3>3. CASE m # a.miner
      <4>1. Sales(m)' = Sales(m)
        BY <2>2, <2>3, <3>3 DEF Sales
      <4>2. revenue'[m] = revenue[m]
        BY <2>1, <3>1, <3>3 DEF E!Credit
      <4> QED
        BY <3>1, <4>1, <4>2
    <3> QED
      BY <3>2, <3>3
  <2>11. E!PaidPerTrade'
    <3>1. \A t \in trades' : t.ask.price <= t.bid.price
      BY <1>0, <2>1, <2>2, <2>3, PaidMeans DEF PaidAll
    <3>2. PaidAll'
      BY <2>10, <3>1 DEF PaidAll
    <3> QED
      BY <3>2, PaidMeans
  <2> QED
    BY <2>5, <2>8, <2>9, <2>11 DEF TradeInv
<1>5. CASE E!MatchEnds
  BY <1>1, <1>5 DEF E!MatchEnds
<1>6. CASE UNCHANGED exchangeVars
  BY <1>1, <1>6 DEF exchangeVars
<1> QED
  BY <1>2, <1>3, <1>4, <1>5, <1>6 DEF BookStep

-----------------------------------------------------------------------------
(* The book of the Exchange, for whoever uses it.                          *)

BookInv == E!ExchangeTypeOK /\ E!NoCrossedBook /\ EntriesInv /\ TradeInv

LEMMA BookInit == E!Init => BookInv
<1> SUFFICES ASSUME E!Init PROVE BookInv
  OBVIOUS
<1>1. asks = {} /\ bids = {} /\ trades = {} /\ revenue = [m \in Id |-> 0]
  BY DEF E!Init
<1>2. E!NoCrossedBook /\ EntriesInv
  BY <1>1 DEF E!NoCrossedBook, EntriesInv, E!OneEntryPerOrder
<1>3. TradeTypes
  BY <1>1, FS_EmptySet DEF TradeTypes
<1>4. PaidAll
  <2>1. \A m \in Id : Sales(m) = {}
    BY <1>1 DEF Sales
  <2> QED
    BY <1>1, <2>1, TotalOfNone DEF PaidAll
<1>5. TradeInv
  BY <1>1, <1>3, <1>4, PaidMeans DEF TradeInv
<1> QED
  BY <1>2, <1>5, BookTypeInit DEF BookInv

LEMMA BookKept == BookInv /\ BookStep => BookInv'
  BY BookTypeStep, SettledStep, EntriesStep, PaidStep DEF BookInv

LEMMA BookImplies == BookInv => BookSettled
  BY DEF BookInv, EntriesInv, TradeInv, BookSettled

\* The Exchange alone: its book is settled whoever places orders and however
\* (exchange.go 61-114).
THEOREM ExchangeTheorem == E!Spec => []BookSettled
<1>1. [E!Next]_(E!bookVars) => BookStep
  BY DEF E!Next, E!bookVars, exchangeVars, BookStep, Placing
<1> QED
  BY <1>1, BookInit, BookKept, BookImplies, PTL DEF E!Spec

-----------------------------------------------------------------------------
(* The pool.                                                               *)

\* The types, those that TypeOK leaves out included.
PoolTypes ==
    /\ TypeOK
    /\ market \in {"marketplace", "exchange"}
    /\ shares \in [Conn -> Nat]
    /\ nextId \in Nat /\ events \in Nat
    /\ nextId <= events /\ events <= MaxEvents[market]

LEMMA BoundTypes ==
  ASSUME market \in {"marketplace", "exchange"}
  PROVE  MaxEvents[market] \in Nat /\ MaxEvents[market] <= MaxId
  BY MiningPoolAssumption

LEMMA ZeroIsId == 0 \in Id
  BY MiningPoolAssumption DEF Id

LEMMA TypeInit == Init => PoolTypes
<1> SUFFICES ASSUME Init PROVE PoolTypes
  OBVIOUS
<1>1. market \in {"marketplace", "exchange"} /\ nextId = 0 /\ events = 0
  BY DEF Init
<1>2. TypeOK
  BY DEF Init, TypeOK, Id, M!Init
<1>3. shares \in [Conn -> Nat]
  BY DEF Init
<1> QED
  BY <1>1, <1>2, <1>3, BoundTypes DEF PoolTypes

\* The records of the Marketplace.
LEMMA RecordsStep ==
  ASSUME PoolTypes, NEW i \in Id,
         (\E c \in Conn : M!RegisterMiner(minerID[c], shares[c])) \/ M!Tick(1) \/ M!UnregisterMiner(i)
  PROVE  records' \in [Id -> [hashrate : Nat, earned : Nat] \cup {M!NoRecord}]
<1> DEFINE Rec == [hashrate : Nat, earned : Nat]
<1>1. records \in [Id -> Rec \cup {M!NoRecord}]
  BY DEF PoolTypes, TypeOK
<1>2. \A j \in Id : j \in M!Known => records[j] \in Rec
  BY <1>1 DEF M!Known
<1>3. ASSUME NEW c \in Conn, M!RegisterMiner(minerID[c], shares[c])
      PROVE  records' \in [Id -> Rec \cup {M!NoRecord}]
  <2>1. minerID[c] \in Id /\ shares[c] \in Nat
    BY DEF PoolTypes, TypeOK
  <2>2. M!Earned(minerID[c]) \in Nat
    BY <1>2, <2>1 DEF M!Earned
  <2>3. [hashrate |-> shares[c], earned |-> M!Earned(minerID[c])] \in Rec
    BY <2>1, <2>2
  <2> QED
    BY <1>1, <1>3, <2>1, <2>3 DEF M!RegisterMiner
<1>4. CASE M!Tick(1)
  <2>1. ASSUME NEW j \in Id, j \in M!Known
        PROVE  [records[j] EXCEPT !.earned = @ + records[j].hashrate * PricePerTH * 1] \in Rec
    <3>1. records[j].hashrate \in Nat /\ records[j].earned \in Nat
      BY <1>2, <2>1
    <3>2. records[j].hashrate * PricePerTH * 1 \in Nat
      BY <3>1
    <3> QED
      BY <1>2, <2>1, <3>1, <3>2
  <2> QED
    BY <1>4, <2>1 DEF M!Tick
<1>5. CASE M!UnregisterMiner(i)
  BY <1>1, <1>5 DEF M!UnregisterMiner
<1> QED
  BY <1>3, <1>4, <1>5

LEMMA TypeStep == PoolTypes /\ [Next]_vars => PoolTypes'
<1> SUFFICES ASSUME PoolTypes, [Next]_vars PROVE PoolTypes'
  OBVIOUS
<1>0. MaxEvents[market] \in Nat /\ MaxEvents[market] <= MaxId
  BY BoundTypes DEF PoolTypes
<1> USE DEF PoolTypes, TypeOK, SameMarket, SameServer, Goto, connVars
<1>1. ASSUME NEW c \in Conn, Accept(c) \/ Spawn(c) \/ HandlerStarts(c) PROVE PoolTypes'
  BY <1>1 DEF Accept, Spawn, HandlerStarts
<1>2. ASSUME NEW c \in Conn, Subscribe(c) PROVE PoolTypes'
  <2>1. nextId' \in Id /\ nextId' <= events' /\ events' <= MaxEvents[market]
    BY <1>0, <1>2 DEF Subscribe, Event, Id
  <2> QED
    BY <1>2, <2>1 DEF Subscribe, Event
<1>3. ASSUME NEW c \in Conn, Submit(c) \/ ShareExpires(c) PROVE PoolTypes'
  <2>1. events' = events + 1 /\ events < MaxEvents[market] /\ UNCHANGED <<nextId, market>>
    BY <1>3 DEF Submit, ShareExpires, Event
  <2>2. shares' \in [Conn -> Nat]
    BY <1>3 DEF Submit, ShareExpires
  <2> QED
    BY <1>0, <1>3, <2>1, <2>2 DEF Submit, ShareExpires
<1>4. ASSUME NEW c \in Conn, RegisterMiner(c) PROVE PoolTypes'
  <2>1. records' \in [Id -> [hashrate : Nat, earned : Nat] \cup {M!NoRecord}]
    <3>1. CASE M!RegisterMiner(minerID[c], shares[c])
      BY <3>1, ZeroIsId, RecordsStep
    <3>2. CASE UNCHANGED records
      BY <3>2
    <3> QED
      BY <1>4, <3>1, <3>2 DEF RegisterMiner
  <2> QED
    BY <1>4, <2>1 DEF RegisterMiner
<1>5. ASSUME NEW c \in Conn, Registered(c) \/ LockToRespond(c) \/ LockForJob(c) PROVE PoolTypes'
  BY <1>5 DEF Registered, LockToRespond, LockForJob
<1>6. ASSUME NEW c \in Conn, Flush(c) PROVE PoolTypes'
  <2>1. unread' \in [Conn -> 0..SocketCap]
    BY <1>6 DEF Flush
  <2>2. handler' \in [Conn -> {"none", "accepted", "spawned", "read", "rate", "register",
                               "respond", "done"}]
    BY <1>6 DEF Flush
  <2> QED
    BY <1>6, <2>1, <2>2 DEF Flush
<1>7. ASSUME NEW c \in Conn, HandlerEnds(c) PROVE PoolTypes'
  BY <1>7 DEF HandlerEnds
<1>8. ASSUME NEW c \in Conn, PeerReads(c) \/ PeerLeaves(c) PROVE PoolTypes'
  <2>1. unread' \in [Conn -> 0..SocketCap]
    BY <1>8 DEF PeerReads, PeerLeaves
  <2> QED
    BY <1>8, <2>1 DEF PeerReads, PeerLeaves
<1>9. CASE BroadcastJob
  BY <1>0, <1>9 DEF BroadcastJob, Event
<1>10. CASE PlaceOrder
  BY <1>0, <1>10 DEF PlaceOrder, Event
<1>11. CASE TryMatch
  BY <1>11 DEF TryMatch
<1>12. CASE Tick
  <2>1. records' \in [Id -> [hashrate : Nat, earned : Nat] \cup {M!NoRecord}]
    BY <1>12, ZeroIsId, RecordsStep DEF Tick
  <2> QED
    BY <1>0, <1>12, <2>1 DEF Tick, Event
<1>13. ASSUME NEW i \in Id, UnregisterMiner(i) PROVE PoolTypes'
  <2>1. records' \in [Id -> [hashrate : Nat, earned : Nat] \cup {M!NoRecord}]
    BY <1>13, RecordsStep DEF UnregisterMiner
  <2> QED
    BY <1>0, <1>13, <2>1 DEF UnregisterMiner, Event
<1>14. CASE Shutdown \/ ShutdownReturns
  BY <1>14 DEF Shutdown, ShutdownReturns
<1>15. CASE UNCHANGED vars
  BY <1>15 DEF vars
<1> QED
  BY <1>1, <1>2, <1>3, <1>4, <1>5, <1>6, <1>7, <1>8, <1>9, <1>10, <1>11, <1>12, <1>13, <1>14, <1>15
  DEF Next, HandleConn

\* Every variable keeps its type, the ids are enough for the subscriptions, and
\* no connection holds more than it can (server.go 17-54).
THEOREM TypeCorrect == Spec => []TypeOK
<1>1. PoolTypes => TypeOK
  BY DEF PoolTypes
<1> QED
  BY <1>1, TypeInit, TypeStep, PTL DEF Spec

\* Whatever the pool does is, for the book, a step of it.
LEMMA PoolBookStep == PoolTypes /\ [Next]_vars => BookStep
<1> SUFFICES ASSUME PoolTypes, [Next]_vars PROVE BookStep
  OBVIOUS
<1>1. ASSUME NEW c \in Conn, RegisterMiner(c) PROVE BookStep
  <2>1. minerID[c] \in Id /\ shares[c] \in Nat
    BY DEF PoolTypes, TypeOK
  <2> QED
    BY <1>1, <2>1 DEF RegisterMiner, E!RegisterMiner, BookStep, Placing
<1>2. CASE PlaceOrder
  BY <1>2, ZeroIsId DEF PlaceOrder, BookStep, Placing
<1>3. CASE TryMatch
  BY <1>3 DEF TryMatch, BookStep
<1>4. ASSUME NEW i \in Id, UnregisterMiner(i) PROVE BookStep
  BY <1>4 DEF UnregisterMiner, BookStep
<1>5. CASE UNCHANGED exchangeVars
  BY <1>5 DEF BookStep
<1> QED
  BY <1>1, <1>2, <1>3, <1>4, <1>5
  DEF Next, HandleConn, vars, SameMarket, SameServer, Accept, Spawn, HandlerStarts, Subscribe,
      Submit, Registered, LockToRespond, LockForJob, Flush, HandlerEnds, ShareExpires,
      PeerReads, PeerLeaves, BroadcastJob, Tick, Shutdown, ShutdownReturns

\* The book is right whoever calls: nobody who would agree is left in it, an
\* order is in it once, and miners are paid for what they sold, at their price
\* (exchange.go 81-114).
THEOREM BookTheorem == Spec => []BookSettled
<1>1. Init => BookInv
  BY BookInit DEF Init
<1> QED
  BY <1>1, TypeInit, TypeStep, PoolBookStep, BookKept, BookImplies, PTL DEF Spec

-----------------------------------------------------------------------------
(* What a miner has earned.                                                *)

\* A step on the records takes no revenue away, but from who is unregistered.
LEMMA MarketRevenue ==
  ASSUME PoolTypes, NEW i \in Id,
         \/ UNCHANGED records
         \/ \E c \in Conn : M!RegisterMiner(minerID[c], shares[c])
         \/ M!Tick(1)
         \/ \E j \in Id : j # i /\ M!UnregisterMiner(j)
  PROVE  M!Revenue(i)' >= M!Revenue(i)
<1> DEFINE Rec == [hashrate : Nat, earned : Nat]
<1>1. records \in [Id -> Rec \cup {M!NoRecord}]
  BY DEF PoolTypes, TypeOK
<1>2. \A j \in Id : j \in M!Known => records[j] \in Rec
  BY <1>1 DEF M!Known
<1>3. \A r \in Rec : r # M!NoRecord
  BY DEF M!NoRecord
<1>4. M!Revenue(i) \in Nat
  BY <1>2 DEF M!Revenue
<1>5. CASE records'[i] = records[i]
  BY <1>4, <1>5 DEF M!Revenue, M!Known
<1>6. ASSUME NEW c \in Conn, M!RegisterMiner(minerID[c], shares[c]), minerID[c] = i
      PROVE  M!Revenue(i)' >= M!Revenue(i)
  <2>1. shares[c] \in Nat /\ M!Earned(i) = M!Revenue(i)
    BY DEF PoolTypes, M!Earned, M!Revenue
  <2>2. records'[i] = [hashrate |-> shares[c], earned |-> M!Revenue(i)]
    BY <1>1, <1>6, <2>1 DEF M!RegisterMiner
  <2>3. records'[i] # M!NoRecord
    BY <1>3, <1>4, <2>1, <2>2
  <2> QED
    BY <1>4, <2>2, <2>3 DEF M!Revenue, M!Known
<1>7. CASE M!Tick(1)
  <2>1. CASE i \in M!Known
    <3>1. records[i].hashrate \in Nat /\ records[i].earned \in Nat
      BY <1>2, <2>1
    <3>2. PICK fee \in Nat : fee = records[i].hashrate * PricePerTH * 1
      BY <3>1
    <3>3. PICK e \in Nat : e = records[i].earned
      BY <3>1
    <3>4. records'[i] = [records[i] EXCEPT !.earned = @ + fee]
      BY <1>7, <2>1, <3>2 DEF M!Tick
    <3>5. records'[i] \in Rec /\ records'[i].earned = e + fee
      BY <1>2, <2>1, <3>3, <3>4
    <3>6. M!Revenue(i)' = e + fee /\ M!Revenue(i) = e
      BY <1>3, <2>1, <3>3, <3>5 DEF M!Revenue, M!Known
    <3> QED
      BY <3>6
  <2>2. CASE i \notin M!Known
    BY <1>5, <1>7, <2>2 DEF M!Tick, M!Known
  <2> QED
    BY <2>1, <2>2
<1>8. ASSUME NEW c \in Conn, M!RegisterMiner(minerID[c], shares[c]), minerID[c] # i
      PROVE  records'[i] = records[i]
  BY <1>1, <1>8 DEF M!RegisterMiner
<1>9. ASSUME NEW j \in Id, j # i, M!UnregisterMiner(j) PROVE records'[i] = records[i]
  BY <1>1, <1>9 DEF M!UnregisterMiner
<1> QED
  BY <1>5, <1>6, <1>7, <1>8, <1>9

\* A step on the book takes no revenue away from anybody.
LEMMA BookRevenue ==
  ASSUME E!ExchangeTypeOK, BookStep, NEW i \in Id
  PROVE  revenue'[i] >= revenue[i]
<1>1. revenue \in [Id -> Nat]
  BY DEF E!ExchangeTypeOK
<1>2. PICK was \in Nat : was = revenue[i]
  BY <1>1
<1>3. CASE UNCHANGED revenue
  BY <1>2, <1>3
<1>4. CASE E!Match
  <2>1. PICK a \in asks, b \in bids, q \in Nat : revenue' = E!Credit(a, q)
    BY <1>4, MatchStep
  <2>2. a.price \in Nat /\ a.miner \in Id
    BY DEF E!ExchangeTypeOK, E!Order
  <2>3. PICK paid \in Nat : paid = q * a.price
    BY <2>2
  <2>4. revenue'[i] = was + paid \/ revenue'[i] = was
    BY <1>1, <1>2, <2>1, <2>2, <2>3 DEF E!Credit
  <2> QED
    BY <1>2, <2>4
<1> QED
  BY <1>3, <1>4 DEF BookStep, Placing, E!PlaceAsk, E!PlaceBid, E!UnregisterMiner, E!MatchEnds,
     exchangeVars

\* Who unregisters a miner's record leaves the others'.
LEMMA PoolRevenue ==
  ASSUME PoolTypes, Next, NEW i \in Id, ~ UnregisterMiner(i)
  PROVE  M!Revenue(i)' >= M!Revenue(i)
<1> USE MarketRevenue
<1>1. ASSUME NEW c \in Conn, RegisterMiner(c) PROVE M!Revenue(i)' >= M!Revenue(i)
  BY <1>1 DEF RegisterMiner
<1>2. ASSUME NEW j \in Id, UnregisterMiner(j) PROVE M!Revenue(i)' >= M!Revenue(i)
  BY <1>2 DEF UnregisterMiner
<1>3. CASE Tick
  BY <1>3 DEF Tick
<1>4. CASE UNCHANGED records
  BY <1>4
<1> QED
  BY <1>1, <1>2, <1>3, <1>4
  DEF Next, HandleConn, SameMarket, Accept, Spawn, HandlerStarts, Subscribe, Submit,
      Registered, LockToRespond, LockForJob, Flush, HandlerEnds, ShareExpires, PeerReads,
      PeerLeaves, BroadcastJob, PlaceOrder, TryMatch, Shutdown, ShutdownReturns

\* Nothing takes away what a miner has earned, in either market, no new share,
\* departure or tick, but UnregisterMiner (marketplace.go 34-38, server.go 106).
THEOREM RevenueTheorem == Spec => RevenueKept
<1> DEFINE Kept == \A i \in Id : \/ M!Revenue(i)' >= M!Revenue(i) /\ revenue'[i] >= revenue[i]
                                 \/ UnregisterMiner(i)
<1>1. PoolTypes /\ BookInv /\ [Next]_vars => [Kept]_vars
  <2> SUFFICES ASSUME PoolTypes, BookInv, Next PROVE Kept
    OBVIOUS
  <2>1. BookStep
    BY PoolBookStep
  <2>2. \A i \in Id : revenue'[i] >= revenue[i]
    BY <2>1, BookRevenue DEF BookInv
  <2> QED
    BY <2>2, PoolRevenue
<1>2. Init => BookInv
  BY BookInit DEF Init
<1> HIDE DEF Kept
<1>3. Spec => [][Kept]_vars
  BY <1>1, <1>2, TypeInit, TypeStep, PoolBookStep, BookKept, PTL DEF Spec
<1> QED
  BY <1>3 DEF Kept, RevenueKept

-----------------------------------------------------------------------------
(* Shutdown and the handlers.                                              *)

\* There is a handler for it that has not ended, Start's own included.
Busy(c) == handler[c] \notin {"none", "done"}

\* Start has one connection in hand at a time, it accepts none once the
\* listener is closed, and nil is returned with nobody counted.  A handler
\* that writes is one that responds, so a write brings none back.
NilInv ==
    /\ shutdown # "no" => ~listening
    /\ \A c, d \in Conn : handler[c] = "accepted" /\ handler[d] = "accepted" => c = d
    /\ \A c \in Conn : mutex[c] = "handler" => handler[c] = "respond"
    /\ shutdown = "nil" => \A c, d \in Conn : Busy(c) /\ Busy(d) => c = d

LEMMA NilInit == Init => NilInv
  BY DEF Init, NilInv, Busy

LEMMA NilStep == PoolTypes /\ NilInv /\ [Next]_vars => NilInv'
<1> SUFFICES ASSUME PoolTypes, NilInv, [Next]_vars PROVE NilInv'
  OBVIOUS
<1>0. handler \in [Conn -> {"none", "accepted", "spawned", "read", "rate", "register",
                            "respond", "done"}]
  BY DEF PoolTypes, TypeOK
<1>a. mutex \in [Conn -> {"free", "handler", "job"}]
  BY DEF PoolTypes, TypeOK
<1> USE DEF NilInv, Busy, SameServer, Goto, connVars
<1>1. ASSUME NEW c \in Conn, Accept(c) PROVE NilInv'
  <2>1. listening /\ shutdown = "no" /\ UNCHANGED <<shutdown, listening, mutex>>
    BY <1>1 DEF Accept
  <2> QED
    BY <1>0, <1>1, <2>1 DEF Accept
<1>2. ASSUME NEW c \in Conn, Spawn(c) \/ HandlerStarts(c) \/ Subscribe(c) \/ Submit(c)
                             \/ RegisterMiner(c) \/ Registered(c) \/ HandlerEnds(c)
      PROVE  NilInv'
  <2>1. PICK place : /\ handler' = [handler EXCEPT ![c] = place] /\ place # "accepted"
                     /\ Busy(c) /\ mutex[c] # "handler"
                     /\ UNCHANGED <<shutdown, listening, mutex>>
    BY <1>2 DEF Spawn, HandlerStarts, Subscribe, Submit, RegisterMiner, Registered, HandlerEnds
  <2> QED
    BY <1>0, <2>1
<1>3. ASSUME NEW c \in Conn, Flush(c) PROVE NilInv'
  <2>1. UNCHANGED <<shutdown, listening>> /\ mutex' = [mutex EXCEPT ![c] = "free"]
    BY <1>3 DEF Flush
  <2>2. CASE UNCHANGED handler /\ mutex[c] # "handler"
    BY <1>0, <1>a, <2>1, <2>2
  <2>3. CASE mutex[c] = "handler" /\ handler' = [handler EXCEPT ![c] = "read"]
    BY <1>0, <1>a, <2>1, <2>3
  <2> QED
    BY <1>3, <2>2, <2>3 DEF Flush
<1>4. CASE Shutdown
  BY <1>4 DEF Shutdown
<1>5. CASE ShutdownReturns
  <2>1. UNCHANGED <<handler, listening, mutex>> /\ ~listening /\ shutdown' \in {"timeout", "nil"}
    BY <1>5 DEF ShutdownReturns
  <2>2. shutdown' = "nil" => \A c \in Conn : Busy(c) => handler[c] = "accepted"
    BY <1>5 DEF ShutdownReturns, Counted
  <2> QED
    BY <2>1, <2>2
<1>6. ASSUME NEW c \in Conn, LockToRespond(c) \/ LockForJob(c) PROVE NilInv'
  <2>1. /\ UNCHANGED <<handler, shutdown, listening>>
        /\ \/ handler[c] = "respond" /\ mutex' = [mutex EXCEPT ![c] = "handler"]
           \/ mutex' = [mutex EXCEPT ![c] = "job"]
    BY <1>6 DEF LockToRespond, LockForJob
  <2> QED
    BY <1>0, <1>a, <2>1
<1>7. CASE UNCHANGED <<handler, listening, shutdown, mutex>>
  BY <1>7
<1> QED
  BY <1>1, <1>2, <1>3, <1>4, <1>5, <1>6, <1>7
  DEF Next, HandleConn, vars, ShareExpires, PeerReads, PeerLeaves,
      BroadcastJob, PlaceOrder, TryMatch, Tick, UnregisterMiner

LEMMA NilImplies == PoolTypes /\ NilInv => NilCoversHandlers
<1> SUFFICES ASSUME PoolTypes, NilInv, shutdown = "nil"
             PROVE  Cardinality({c \in Conn : handler[c] \notin {"none", "done"}}) <= 1
  BY DEF NilCoversHandlers, PoolTypes
<1> DEFINE Running == {c \in Conn : handler[c] \notin {"none", "done"}}
<1>1. \A c, d \in Running : c = d
  BY DEF NilInv, Busy
<1>2. CASE Running = {}
  BY <1>2, FS_EmptySet
<1>3. CASE Running # {}
  <2>1. PICK c \in Running : TRUE
    BY <1>3
  <2>2. Running = {c}
    BY <1>1, <2>1
  <2>3. Cardinality({c}) = 1
    BY FS_Singleton
  <2> QED
    BY <2>2, <2>3
<1> QED
  BY <1>2, <1>3

\* When Shutdown has returned nil, no handler runs but that of the one
\* connection Start had accepted and not yet counted (server.go 69-80, 192).
THEOREM NilTheorem == Spec => []NilCoversHandlers
  BY TypeInit, TypeStep, NilInit, NilStep, NilImplies, PTL DEF Spec

=============================================================================
