-------------------------------- MODULE Exchange --------------------------------
(***************************************************************************)
(* 04-mining_pool_with_stratum_protocol/market/exchange.go: the order book *)
(* that sells hashrate.  PlaceOrder holds e.mu while tryMatch loops: one   *)
(* turn of that loop is one step, and nobody else moves meanwhile.  Prices *)
(* and hashrates are whole numbers of some unit.                           *)
(***************************************************************************)
EXTENDS Integers, FiniteSets, FiniteSetsExt

CONSTANTS
    Miner,          \* who sells and who buys
    Price, Hashrate,
    DefaultAskPrice,
    MaxOrders       \* bound: orders placed

\* Prices are not unbounded: there is a highest one.
ExchangeAssumption ==
    /\ Price \subseteq Nat /\ Hashrate \subseteq Nat
    /\ \E top \in Price : \A p \in Price : p <= top
    /\ DefaultAskPrice \in Price /\ MaxOrders \in Nat

VARIABLES
    asks, bids,     \* the two heaps: sets of orders
    matching,       \* e.mu is held: tryMatch is at work
    revenue,        \* e.revenue, 0 for a miner it does not hold
    placed,         \* orders placed so far: an order's id is its number
    trades          \* history: who sold to which bid, how much, at what price

bookVars == <<asks, bids, matching, revenue, placed, trades>>

Order == [id : Nat, miner : Miner, price : Price, hashrate : Nat]

Init ==
    /\ asks = {} /\ bids = {}
    /\ matching = FALSE
    /\ revenue = [m \in Miner |-> 0]
    /\ placed = 0
    /\ trades = {}

\* askHeap.Peek and bidHeap.Peek: nothing in the heap is less.  Equal prices
\* are in no order (Less does not look at CreatedAt).
BestAsk(a) == a \in asks /\ \A o \in asks : a.price <= o.price
BestBid(b) == b \in bids /\ \A o \in bids : b.price >= o.price

NewOrder(m, price, hashrate) ==
    [id |-> placed + 1, miner |-> m, price |-> price, hashrate |-> hashrate]

\* PlaceOrder of an ask or of a bid, up to its call of tryMatch.
PlaceAsk(m, price, hashrate) ==
    /\ ~matching
    /\ placed < MaxOrders
    /\ asks' = asks \cup {NewOrder(m, price, hashrate)}
    /\ placed' = placed + 1
    /\ matching' = TRUE
    /\ UNCHANGED <<bids, revenue, trades>>

PlaceBid(m, price, hashrate) ==
    /\ ~matching
    /\ placed < MaxOrders
    /\ bids' = bids \cup {NewOrder(m, price, hashrate)}
    /\ placed' = placed + 1
    /\ matching' = TRUE
    /\ UNCHANGED <<asks, revenue, trades>>

\* RegisterMiner: an ask at the default price, one more each time.
RegisterMiner(m, hashrate) == PlaceAsk(m, DefaultAskPrice, hashrate)

\* The order with a quantity taken off; at zero it leaves the heap.
Rest(o, quantity) ==
    IF o.hashrate = quantity THEN {} ELSE {[o EXCEPT !.hashrate = @ - quantity]}

\* Mutant of Crosses: bids at the asked price are left in the book.
CrossesBelow(a, b) == a.price < b.price

Crosses(a, b) == a.price <= b.price

\* Mutant of Credit: the miner is paid for what it offered.
CreditOffer(a, quantity) == [revenue EXCEPT ![a.miner] = @ + a.hashrate * a.price]

Credit(a, quantity) == [revenue EXCEPT ![a.miner] = @ + quantity * a.price]

\* One turn of tryMatch: the best ask and the best bid trade at the asked price.
Match ==
    /\ matching
    /\ \E a \in asks, b \in bids :
          /\ BestAsk(a) /\ BestBid(b)
          /\ Crosses(a, b)
          /\ LET quantity == IF a.hashrate <= b.hashrate THEN a.hashrate ELSE b.hashrate IN
                /\ asks' = (asks \ {a}) \cup Rest(a, quantity)
                /\ bids' = (bids \ {b}) \cup Rest(b, quantity)
                /\ revenue' = Credit(a, quantity)
                /\ trades' = trades \cup {[ask |-> a, bid |-> b, quantity |-> quantity]}
    /\ UNCHANGED <<matching, placed>>

\* The loop's condition fails and PlaceOrder returns.
MatchEnds ==
    /\ matching
    /\ ~ \E a \in asks, b \in bids : BestAsk(a) /\ BestBid(b) /\ Crosses(a, b)
    /\ matching' = FALSE
    /\ UNCHANGED <<asks, bids, revenue, placed, trades>>

\* e.orders, where UnregisterMiner looks a miner's orders up: PlaceOrder puts
\* nothing there.
orders == {}

\* So no order is cancelled, and the asks that are filtered all stay.
UnregisterMiner(m) ==
    /\ ~matching
    /\ asks' = {o \in asks : revenue[m] = 0 \/ ~(o.id \in orders /\ o.miner = m)}
    /\ UNCHANGED <<bids, matching, revenue, placed, trades>>

Next ==
    \/ \E m \in Miner, p \in Price, h \in Hashrate : PlaceAsk(m, p, h) \/ PlaceBid(m, p, h)
    \/ \E m \in Miner : UnregisterMiner(m)
    \/ Match \/ MatchEnds

Spec == Init /\ [][Next]_bookVars

-----------------------------------------------------------------------------
ExchangeTypeOK ==
    /\ asks \subseteq Order /\ bids \subseteq Order
    /\ matching \in BOOLEAN
    /\ revenue \in [Miner -> Nat]
    /\ placed \in 0..MaxOrders

\* Between two calls no buyer and no seller are left that would agree: the
\* loop may not stop early, whatever it popped and shrank (exchange.go 82-114).
NoCrossedBook ==
    ~matching => \A a \in asks, b \in bids : a.price > b.price

\* An order is in the book once, and after a trade with something left.
OneEntryPerOrder ==
    /\ \A o, p \in asks \cup bids : o.id = p.id => o = p
    /\ \A o \in asks \cup bids, t \in trades :
          o.id \in {t.ask.id, t.bid.id} => o.hashrate > 0

\* Every miner has been paid exactly its trades, at the price it asked, and no
\* buyer paid more than it bid (exchange.go 101-113).
PaidPerTrade ==
    /\ \A t \in trades : t.ask.price <= t.bid.price
    /\ \A m \in Miner : revenue[m] =
          MapThenSumSet(LAMBDA t : t.quantity * t.ask.price, {t \in trades : t.ask.miner = m})

=============================================================================
