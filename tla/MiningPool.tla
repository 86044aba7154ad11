------------------------------- MODULE MiningPool -------------------------------
(***************************************************************************)
(* 04-mining_pool_with_stratum_protocol: the stratum server of pool/, its  *)
(* miners and its jobs, over the Marketplace or the Exchange, whichever    *)
(* NewServer was given.                                                    *)
(*                                                                         *)
(* A miner's id is a number in the order of the subscriptions; 0 is the    *)
(* empty id of a connection that has not subscribed.  Its hashrate is the  *)
(* number of its shares of the last minute.                                *)
(***************************************************************************)
EXTENDS Integers, FiniteSets

CONSTANTS
    Conn,
    SocketCap,      \* messages a connection holds before Flush blocks
    Price, Hashrate, DefaultAskPrice, PricePerTH,
    Served,         \* bound: the connections made, by market
    MaxEvents,      \* bound: messages, orders, jobs, ticks and expiries, by market
    MaxId           \* the largest of them

VARIABLES
    market,         \* s.market: "marketplace" or "exchange"
    records,        \* of the Marketplace
    asks, bids, matching, revenue, placed, trades,      \* of the Exchange
    listening,      \* the listener is open
    handler,        \* [Conn -> where its handler goroutine is]
    minerID,        \* [Conn -> miner.ID]
    miners,         \* s.miners: [Id -> Conn, or NoConn]
    shares,         \* [Conn -> its shares of the last minute]
    mutex,          \* [Conn -> who writes, in SendMessage: "free", "handler", "job"]
    jobs,           \* [Conn -> goroutines that have a job to send to it]
    unread,         \* [Conn -> messages the peer has not read]
    left,           \* the connections whose peer has left
    shutdown,       \* "no", "waiting", "nil" or "timeout"
    nextId,         \* ids given so far
    events          \* events so far

exchangeVars == <<asks, bids, matching, revenue, placed, trades>>
connVars == <<handler, minerID, nextId, miners, shares, mutex, jobs, unread>>
vars == <<market, records, exchangeVars, listening, connVars, left, shutdown, events>>

NoConn == "no connection"
Id == 0..MaxId

E == INSTANCE Exchange WITH Miner <- Id, MaxOrders <- MaxId
M == INSTANCE Marketplace WITH Miner <- Id, miners <- records

ASSUME MiningPoolAssumption ==
    /\ E!ExchangeAssumption
    /\ {SocketCap, PricePerTH, MaxId} \subseteq Nat
    /\ \A m \in {"marketplace", "exchange"} : MaxEvents[m] \in 0..MaxId

Init ==
    /\ market \in {"marketplace", "exchange"}
    /\ E!Init /\ M!Init
    /\ listening = TRUE
    /\ handler = [c \in Conn |-> "none"]
    /\ minerID = [c \in Conn |-> 0]
    /\ miners = [i \in Id |-> NoConn]
    /\ shares = [c \in Conn |-> 0]
    /\ mutex = [c \in Conn |-> "free"]
    /\ jobs = [c \in Conn |-> 0]
    /\ unread = [c \in Conn |-> 0]
    /\ left = {}
    /\ shutdown = "no"
    /\ nextId = 0
    /\ events = 0

Event == events < MaxEvents[market] /\ events' = events + 1
Goto(c, place) == handler' = [handler EXCEPT ![c] = place]
SameMarket == UNCHANGED <<market, records, exchangeVars>>
SameServer == UNCHANGED <<market, listening, left, shutdown>>

-----------------------------------------------------------------------------
(* Start.                                                                  *)

\* Accept returns a connection: Start has it in hand.
Accept(c) ==
    /\ listening
    /\ c \in Served[market]
    /\ handler[c] = "none"
    /\ \A d \in Conn : handler[d] # "accepted"
    /\ Goto(c, "accepted")
    /\ UNCHANGED <<minerID, nextId, miners, shares, mutex, jobs, unread, events>>
    /\ SameMarket /\ SameServer

\* wg.Add(1), then go handleConn(conn).
Spawn(c) ==
    /\ handler[c] = "accepted"
    /\ Goto(c, "spawned")
    /\ UNCHANGED <<minerID, nextId, miners, shares, mutex, jobs, unread, events>>
    /\ SameMarket /\ SameServer

\* Mutant of Counted: wg.Add(1) is the first thing handleConn does.
CountedLate == {c \in Conn : handler[c] \notin {"none", "accepted", "spawned", "done"}}

\* s.wg, by the handlers it counts: from the Add before their go to their Done.
Counted == {c \in Conn : handler[c] \notin {"none", "accepted", "done"}}

HandlerStarts(c) ==
    /\ handler[c] = "spawned"
    /\ Goto(c, "read")
    /\ UNCHANGED <<minerID, nextId, miners, shares, mutex, jobs, unread, events>>
    /\ SameMarket /\ SameServer

-----------------------------------------------------------------------------
(* handleMessage and SendMessage.                                          *)

\* Mutant of Free: one lock for all the miners, as if it were the server's.
NobodyWrites(c) == \A d \in Conn : mutex[d] = "free"

\* miner.mu can be taken.
Free(c) == mutex[c] = "free"

\* mining.subscribe: a new id, each time.  The entry of an earlier one stays.
Subscribe(c) ==
    /\ handler[c] = "read" /\ c \notin left
    /\ Event
    /\ nextId' = nextId + 1
    /\ minerID' = [minerID EXCEPT ![c] = nextId']
    /\ miners' = [miners EXCEPT ![nextId'] = c]
    /\ Goto(c, "respond")
    /\ UNCHANGED <<shares, mutex, jobs, unread>>
    /\ SameMarket /\ SameServer

\* mining.submit of a valid share, up to the append.  A share that is not
\* valid, a mining.notify and a line that does not parse leave no trace.
Submit(c) ==
    /\ handler[c] = "read" /\ c \notin left
    /\ Event
    /\ Free(c)
    /\ shares' = [shares EXCEPT ![c] = @ + 1]
    /\ Goto(c, "rate")
    /\ UNCHANGED <<minerID, nextId, miners, mutex, jobs, unread>>
    /\ SameMarket /\ SameServer

\* Time passes: a share leaves the window of HashrateTHs.
ShareExpires(c) ==
    /\ Event
    /\ shares[c] > 0
    /\ shares' = [shares EXCEPT ![c] = @ - 1]
    /\ UNCHANGED <<handler, minerID, nextId, miners, mutex, jobs, unread>>
    /\ SameMarket /\ SameServer

\* HashrateTHs(60), once miner.mu is free, and the market's RegisterMiner.
RegisterMiner(c) ==
    /\ handler[c] = "rate"
    /\ Free(c)
    /\ \/ /\ market = "marketplace"
          /\ M!RegisterMiner(minerID[c], shares[c])
          /\ UNCHANGED exchangeVars
       \/ /\ market = "exchange"
          /\ E!RegisterMiner(minerID[c], shares[c])
          /\ UNCHANGED records
    /\ Goto(c, "register")
    /\ UNCHANGED <<minerID, nextId, miners, shares, mutex, jobs, unread, events>>
    /\ SameServer

\* RegisterMiner returns when the matching it started is over.
Registered(c) ==
    /\ handler[c] = "register"
    /\ ~matching
    /\ Goto(c, "respond")
    /\ UNCHANGED <<minerID, nextId, miners, shares, mutex, jobs, unread, events>>
    /\ SameMarket /\ SameServer

\* SendMessage takes miner.mu ...
LockToRespond(c) ==
    /\ handler[c] = "respond"
    /\ Free(c)
    /\ mutex' = [mutex EXCEPT ![c] = "handler"]
    /\ UNCHANGED <<handler, minerID, nextId, miners, shares, jobs, unread, events>>
    /\ SameMarket /\ SameServer

LockForJob(c) ==
    /\ jobs[c] > 0
    /\ Free(c)
    /\ mutex' = [mutex EXCEPT ![c] = "job"]
    /\ UNCHANGED <<handler, minerID, nextId, miners, shares, jobs, unread, events>>
    /\ SameMarket /\ SameServer

\* ... and writes, as soon as there is room; to a peer that left, in vain.
Flush(c) ==
    /\ ~Free(c)
    /\ unread[c] < SocketCap \/ c \in left
    /\ mutex' = [mutex EXCEPT ![c] = "free"]
    /\ unread' = [unread EXCEPT ![c] = IF c \in left THEN 0 ELSE @ + 1]
    /\ \/ mutex[c] = "job" /\ jobs' = [jobs EXCEPT ![c] = @ - 1] /\ UNCHANGED handler
       \/ mutex[c] = "handler" /\ Goto(c, "read") /\ UNCHANGED jobs
    /\ UNCHANGED <<minerID, nextId, miners, shares, events>>
    /\ SameMarket /\ SameServer

\* Scan returns false: the entry of the last id goes, the connection closes,
\* wg.Done.  The market is not told.
HandlerEnds(c) ==
    /\ handler[c] = "read" /\ c \in left
    /\ miners' = IF minerID[c] = 0 THEN miners ELSE [miners EXCEPT ![minerID[c]] = NoConn]
    /\ Goto(c, "done")
    /\ shares' = [shares EXCEPT ![c] = 0]
    /\ UNCHANGED <<minerID, nextId, mutex, jobs, unread, events>>
    /\ SameMarket /\ SameServer

-----------------------------------------------------------------------------
(* Jobs, the peers, the market's other callers, Shutdown.                  *)

\* The dispatcher's tick: BroadcastJob starts a goroutine for every entry.
BroadcastJob ==
    /\ Event
    /\ jobs' = [c \in Conn |-> jobs[c] + Cardinality({i \in Id : miners[i] = c})]
    /\ UNCHANGED <<handler, minerID, nextId, miners, shares, mutex, unread>>
    /\ SameMarket /\ SameServer

PeerReads(c) ==
    /\ unread[c] > 0
    /\ unread' = [unread EXCEPT ![c] = @ - 1]
    /\ UNCHANGED <<handler, minerID, nextId, miners, shares, mutex, jobs, events>>
    /\ SameMarket /\ SameServer

PeerLeaves(c) ==
    /\ handler[c] \notin {"none", "done"} /\ c \notin left
    /\ left' = left \cup {c}
    /\ unread' = [unread EXCEPT ![c] = 0]
    /\ UNCHANGED <<listening, handler, minerID, nextId, miners, shares, mutex, jobs>>
    /\ UNCHANGED <<market, shutdown, events>>
    /\ UNCHANGED <<records, exchangeVars>>

\* A buyer or a seller that is no connection (pool_test.go 149).
PlaceOrder ==
    /\ market = "exchange"
    /\ Event
    /\ \E price \in Price, hashrate \in Hashrate :
          E!PlaceBid(0, price, hashrate) \/ E!PlaceAsk(0, price, hashrate)
    /\ UNCHANGED <<records, connVars>>
    /\ SameServer

\* tryMatch, for whoever placed the order.
TryMatch ==
    /\ market = "exchange"
    /\ E!Match \/ E!MatchEnds
    /\ UNCHANGED <<records, connVars, events>>
    /\ SameServer

\* main.go 34.
Tick ==
    /\ market = "marketplace"
    /\ Event
    /\ M!Tick(1)
    /\ UNCHANGED <<exchangeVars, connVars>>
    /\ SameServer

\* Whoever has the market may call UnregisterMiner; the server does not.
UnregisterMiner(i) ==
    /\ Event
    /\ \/ market = "marketplace" /\ M!UnregisterMiner(i) /\ UNCHANGED exchangeVars
       \/ market = "exchange" /\ E!UnregisterMiner(i) /\ UNCHANGED records
    /\ UNCHANGED connVars
    /\ SameServer

\* Shutdown closes the listener and waits for the handlers, or for its context.
\* No connection is closed: each handler ends when its peer leaves.
Shutdown ==
    /\ shutdown = "no"
    /\ listening' = FALSE
    /\ shutdown' = "waiting"
    /\ UNCHANGED <<connVars, left, events>>
    /\ SameMarket

ShutdownReturns ==
    /\ shutdown = "waiting"
    /\ shutdown' \in {"timeout"} \cup (IF Counted = {} THEN {"nil"} ELSE {})
    /\ UNCHANGED <<listening, connVars, left, events>>
    /\ SameMarket

HandleConn(c) ==
    \/ HandlerStarts(c) \/ Subscribe(c) \/ Submit(c) \/ RegisterMiner(c) \/ Registered(c)
    \/ LockToRespond(c) \/ HandlerEnds(c)

Next ==
    \/ \E c \in Conn :
          \/ Accept(c) \/ Spawn(c) \/ HandleConn(c) \/ ShareExpires(c)
          \/ LockForJob(c) \/ Flush(c) \/ PeerReads(c) \/ PeerLeaves(c)
    \/ \E i \in Id : UnregisterMiner(i)
    \/ BroadcastJob \/ PlaceOrder \/ TryMatch \/ Tick \/ Shutdown \/ ShutdownReturns

Spec == Init /\ [][Next]_vars

\* Goroutines run.  Whether a peer reads, or leaves, is its own affair.
FairSpec ==
    /\ Spec
    /\ WF_vars(TryMatch)
    /\ \A c \in Conn :
          WF_vars(HandleConn(c)) /\ WF_vars(LockForJob(c)) /\ WF_vars(Flush(c))

-----------------------------------------------------------------------------
TypeOK ==
    /\ handler \in [Conn -> {"none", "accepted", "spawned", "read", "rate", "register",
                             "respond", "done"}]
    /\ minerID \in [Conn -> Id] /\ miners \in [Id -> Conn \cup {NoConn}]
    /\ mutex \in [Conn -> {"free", "handler", "job"}]
    /\ unread \in [Conn -> 0..SocketCap]
    /\ records \in [Id -> [hashrate : Nat, earned : Nat] \cup {M!NoRecord}]

\* The book is right whoever calls, the handlers of two miners that register,
\* or a buyer: no seller and buyer that agree are left in it, an order is in it
\* once, and miners are paid for what they sold, at their price (exchange.go 81-114).
BookSettled ==
    /\ E!ExchangeTypeOK
    /\ E!NoCrossedBook
    /\ E!OneEntryPerOrder
    /\ E!PaidPerTrade

\* Nothing takes away what a miner has earned, in either market, no new share,
\* departure or tick, but UnregisterMiner (marketplace.go 34-38, server.go 106).
RevenueKept ==
    [][\A i \in Id : \/ M!Revenue(i)' >= M!Revenue(i) /\ revenue'[i] >= revenue[i]
                     \/ UnregisterMiner(i)]_vars

\* When Shutdown has returned nil, no handler runs but that of the one
\* connection Start had accepted and not yet counted (server.go 69-80, 192).
NilCoversHandlers ==
    /\ TypeOK
    /\ shutdown = "nil" => Cardinality({c \in Conn : handler[c] \notin {"none", "done"}}) <= 1

\* A miner that goes on reading, or leaves, gets the jobs that were broadcast
\* to it, though another miner never reads (server.go 206-215: the question
\* its comment asks, and the test pool_test.go 131 does not).
JobsReachReaders ==
    \A c \in Conn :
        []<>(unread[c] < SocketCap \/ c \in left) => (jobs[c] > 0 ~> jobs[c] = 0)

=============================================================================
