---------------------------- MODULE ChatServerProofs ----------------------------
(***************************************************************************)
(* Theorems about ChatServer for any clients, lobby size, channel capacity *)
(* and number of lines.                                                    *)
(***************************************************************************)
EXTENDS ChatServer, FiniteSetTheorems, TLAPS

\* What the proofs use of the constants.
LEMMA ConstantTypes ==
  IsFiniteSet(Client) /\ MinClients \subseteq Nat /\ Capacity \in Nat \ {0} /\ MaxLines \in Nat
  BY ChatServerAssumption

USE ConstantTypes

-----------------------------------------------------------------------------
(* The invariant.                                                          *)

\* The loops that run.
Live(loop) == {c \in Client : loop[c] \notin {"none", "done"}}

WgInv == wg = Cardinality(Live(reader)) + Cardinality(Live(writer))

\* Nobody is registered before Enter, has a loop before Serve, or is removed
\* who is not registered.
MemberInv ==
    /\ clientCounter = Cardinality(clients)
    /\ \A c \in clients : ~closed[c]
    /\ stop.ids \subseteq clients
    /\ \A c \in Client : handler[c] \in {"none", "refused", "started"} =>
          c \notin clients /\ ~closed[c]
    /\ \A c \in Client : handler[c] \in {"none", "refused", "started", "lobby", "awake"} =>
          reader[c] = "none" /\ writer[c] = "none"

Inv == TypeOK /\ wg \in Int /\ MemberInv /\ WgInv /\ LobbyWaitsForMore

-----------------------------------------------------------------------------
(* Facts about sets and functions.                                         *)

LEMMA LiveFinite == \A loop : IsFiniteSet(Live(loop)) /\ Cardinality(Live(loop)) \in Nat
<1> TAKE loop
<1>1. Live(loop) \subseteq Client
  BY DEF Live
<1> HIDE DEF Live
<1> QED
  BY <1>1, FS_Subset, FS_CardinalityType

\* What one loop's step does to the number of loops that run.
LEMMA LiveStep ==
  ASSUME NEW f, NEW g, NEW c \in Client, \A d \in Client \ {c} : g[d] = f[d]
  PROVE  /\ (c \in Live(f) <=> c \in Live(g)) => Cardinality(Live(g)) = Cardinality(Live(f))
         /\ c \in Live(f) /\ c \notin Live(g) => Cardinality(Live(g)) = Cardinality(Live(f)) - 1
         /\ c \notin Live(f) /\ c \in Live(g) => Cardinality(Live(g)) = Cardinality(Live(f)) + 1
<1>1. \A d : d # c => (d \in Live(f) <=> d \in Live(g))
  BY DEF Live
<1> HIDE DEF Live
<1>2. ASSUME c \in Live(f) <=> c \in Live(g)
      PROVE  Cardinality(Live(g)) = Cardinality(Live(f))
  <2>1. Live(g) = Live(f)
    BY <1>1, <1>2
  <2> QED
    BY <2>1
<1>3. ASSUME c \in Live(f), c \notin Live(g)
      PROVE  Cardinality(Live(g)) = Cardinality(Live(f)) - 1
  <2>1. Live(g) = Live(f) \ {c}
    BY <1>1, <1>3
  <2> QED
    BY <1>3, <2>1, LiveFinite, FS_RemoveElement
<1>4. ASSUME c \notin Live(f), c \in Live(g)
      PROVE  Cardinality(Live(g)) = Cardinality(Live(f)) + 1
  <2>1. Live(g) = Live(f) \cup {c}
    BY <1>1, <1>4
  <2> QED
    BY <1>4, <2>1, LiveFinite, FS_AddElement
<1> QED
  BY <1>2, <1>3, <1>4

LEMMA ClientsCounted ==
  ASSUME TypeOK
  PROVE  /\ IsFiniteSet(clients)
         /\ Cardinality(clients) \in Nat
         /\ \A c : c \notin clients => Cardinality(clients \cup {c}) = Cardinality(clients) + 1
         /\ \A c : c \in clients => /\ Cardinality(clients \ {c}) = Cardinality(clients) - 1
                                    /\ Cardinality(clients \ {c}) \in Nat
<1>1. IsFiniteSet(clients)
  BY FS_Subset DEF TypeOK
<1>2. \A c : IsFiniteSet(clients \ {c})
  BY <1>1, FS_RemoveElement
<1>3. \A c : Cardinality(clients \ {c}) \in Nat
  BY <1>2, FS_CardinalityType
<1> QED
  BY <1>1, <1>3, FS_AddElement, FS_RemoveElement, FS_CardinalityType

LEMMA BroadcastType ==
  ASSUME TypeOK, NEW c \in Client
  PROVE  AfterBroadcast(c) \in [Client -> 0..Capacity]
<1>1. \A d \in Client :
         (IF d \in clients \ {c} /\ messages[d] < Capacity THEN messages[d] + 1 ELSE messages[d])
            \in 0..Capacity
  BY DEF TypeOK
<1> QED
  BY <1>1 DEF AfterBroadcast

LEMMA InitInv == Init => Inv
<1> SUFFICES ASSUME Init PROVE Inv
  OBVIOUS
<1>1. TypeOK /\ wg \in Int
  <2>1. ctxDone \in BOOLEAN /\ panicked \in BOOLEAN /\ closed \in [Client -> BOOLEAN]
    BY Zenon DEF Init
  <2>2. stop \in [pc : StopPc, ids : SUBSET Client, removed : SUBSET Client]
    BY DEF Init, StopPc
  <2>3. /\ handler \in [Client -> HandlerPc]
        /\ reader \in [Client -> LoopPc] /\ writer \in [Client -> LoopPc]
        /\ peer \in [Client -> {"none", "open", "gone"}]
        /\ messages \in [Client -> 0..Capacity]
    BY DEF Init, HandlerPc, LoopPc
  <2> QED
    BY <2>1, <2>2, <2>3 DEF Init, TypeOK
<1>2. Live(reader) = {} /\ Live(writer) = {}
  BY DEF Init, Live
<1>3. Cardinality({}) = 0
  BY FS_EmptySet
<1>4. WgInv
  BY <1>2, <1>3 DEF WgInv, Init
<1>5. MemberInv
  BY <1>3 DEF Init, MemberInv
<1>6. LobbyWaitsForMore
  BY DEF Init, LobbyWaitsForMore
<1> QED
  BY <1>1, <1>4, <1>5, <1>6 DEF Inv

-----------------------------------------------------------------------------
(* The end of a loop.                                                      *)

\* LoopEnds moves waiters on and nothing else.
LEMMA LoopEndsEffect ==
  ASSUME TypeOK, wg \in Int, LoopEnds
  PROVE  /\ wg' = wg - 1 /\ wg' \in Int
         /\ handler' \in [Client -> HandlerPc]
         /\ \A c \in Client : handler'[c] = handler[c]
               \/ (handler[c] = "waiting" /\ handler'[c] = "released")
         /\ stop' \in [pc : StopPc, ids : SUBSET Client, removed : SUBSET Client]
         /\ stop'.ids = stop.ids
<1>1. wg' = wg - 1 /\ wg' \in Int
  BY DEF LoopEnds
<1>2. handler' = [c \in Client |-> IF wg' = 0 /\ handler[c] = "waiting"
                                   THEN "released" ELSE handler[c]]
  BY DEF LoopEnds
<1>3. handler' \in [Client -> HandlerPc]
  BY <1>2 DEF TypeOK, HandlerPc
<1>4. stop' = stop \/ stop' = [stop EXCEPT !.pc = "released"]
  BY DEF LoopEnds
<1>5. /\ stop' \in [pc : StopPc, ids : SUBSET Client, removed : SUBSET Client]
      /\ stop'.ids = stop.ids
  BY <1>4 DEF TypeOK, StopPc
<1> QED
  BY <1>1, <1>2, <1>3, <1>5

LEMMA LoopEndsInv ==
  ASSUME Inv, NEW c \in Client, LoopEnds,
         UNCHANGED <<ctxDone, peer, lines, serverVars, panicked>>,
         \/ /\ reader[c] \notin {"none", "done"} /\ writer' = writer
            /\ reader' = [reader EXCEPT ![c] = "done"]
         \/ /\ writer[c] \notin {"none", "done"} /\ reader' = reader
            /\ writer' = [writer EXCEPT ![c] = "done"]
  PROVE  Inv'
<1> USE DEF serverVars
<1>0. TypeOK /\ wg \in Int
  BY DEF Inv
<1>1. /\ wg' = wg - 1 /\ wg' \in Int
      /\ handler' \in [Client -> HandlerPc]
      /\ \A d \in Client : handler'[d] = handler[d]
            \/ (handler[d] = "waiting" /\ handler'[d] = "released")
      /\ stop' \in [pc : StopPc, ids : SUBSET Client, removed : SUBSET Client]
      /\ stop'.ids = stop.ids
  BY <1>0, LoopEndsEffect
<1>2. reader' \in [Client -> LoopPc] /\ writer' \in [Client -> LoopPc]
  BY <1>0 DEF TypeOK, LoopPc
<1>3. TypeOK'
  BY <1>0, <1>1, <1>2 DEF TypeOK
<1>4. handler[c] \notin {"none", "refused", "started", "lobby", "awake"}
  BY DEF Inv, MemberInv
<1>5. MemberInv'
  <2>1. \A d \in Client : handler'[d] \in {"none", "refused", "started", "lobby", "awake"} =>
           /\ d # c /\ handler'[d] = handler[d]
           /\ reader'[d] = reader[d] /\ writer'[d] = writer[d]
    BY <1>0, <1>1, <1>4 DEF TypeOK
  <2>2. \A d \in Client : handler'[d] \in {"none", "refused", "started", "lobby", "awake"} =>
           reader'[d] = "none" /\ writer'[d] = "none"
    BY <2>1 DEF Inv, MemberInv
  <2>3. \A d \in Client : handler'[d] \in {"none", "refused", "started"} =>
           d \notin clients /\ ~closed[d]
    BY <2>1 DEF Inv, MemberInv
  <2> QED
    BY <1>1, <2>2, <2>3 DEF Inv, MemberInv
<1>6. Cardinality(Live(reader)') + Cardinality(Live(writer)')
        = Cardinality(Live(reader)) + Cardinality(Live(writer)) - 1
  <2>1. CASE /\ reader[c] \notin {"none", "done"} /\ writer' = writer
             /\ reader' = [reader EXCEPT ![c] = "done"]
    <3>1. c \in Live(reader) /\ c \notin Live(reader')
      BY <1>0, <2>1 DEF Live, TypeOK
    <3>2. \A d \in Client \ {c} : reader'[d] = reader[d]
      BY <1>0, <2>1 DEF TypeOK
    <3>3. Cardinality(Live(reader')) = Cardinality(Live(reader)) - 1
      BY <3>1, <3>2, LiveStep
    <3>4. Live(reader)' = Live(reader') /\ Live(writer)' = Live(writer)
      BY <2>1 DEF Live
    <3> HIDE DEF Live
    <3> QED
      BY <3>3, <3>4, LiveFinite
  <2>2. CASE /\ writer[c] \notin {"none", "done"} /\ reader' = reader
             /\ writer' = [writer EXCEPT ![c] = "done"]
    <3>1. c \in Live(writer) /\ c \notin Live(writer')
      BY <1>0, <2>2 DEF Live, TypeOK
    <3>2. \A d \in Client \ {c} : writer'[d] = writer[d]
      BY <1>0, <2>2 DEF TypeOK
    <3>3. Cardinality(Live(writer')) = Cardinality(Live(writer)) - 1
      BY <3>1, <3>2, LiveStep
    <3>4. Live(writer)' = Live(writer') /\ Live(reader)' = Live(reader)
      BY <2>2 DEF Live
    <3> HIDE DEF Live
    <3> QED
      BY <3>3, <3>4, LiveFinite
  <2> QED
    BY <2>1, <2>2
<1>7. WgInv'
  BY <1>1, <1>6, LiveFinite DEF Inv, WgInv
<1>8. LobbyWaitsForMore'
  BY <1>1 DEF Inv, LobbyWaitsForMore
<1> QED
  BY <1>1, <1>3, <1>5, <1>7, <1>8 DEF Inv

\* A step of a loop that goes on.
LEMMA LoopGoesOn ==
  ASSUME Inv, NEW c \in Client, NEW pc \in {"top", "blocked", "busy"},
         UNCHANGED <<ctxDone, peer, handler, wg, minClients, clients, clientCounter, closed, stop>>,
         lines' \in 0..MaxLines, messages' \in [Client -> 0..Capacity], panicked' \in BOOLEAN,
         \/ /\ reader[c] \notin {"none", "done"} /\ writer' = writer
            /\ reader' = [reader EXCEPT ![c] = pc]
         \/ /\ writer[c] \notin {"none", "done"} /\ reader' = reader
            /\ writer' = [writer EXCEPT ![c] = pc]
  PROVE  Inv'
<1>0. TypeOK /\ wg \in Int
  BY DEF Inv
<1>1. reader' \in [Client -> LoopPc] /\ writer' \in [Client -> LoopPc]
  BY <1>0 DEF TypeOK, LoopPc
<1>2. TypeOK'
  BY <1>0, <1>1 DEF TypeOK
<1>3. handler[c] \notin {"none", "refused", "started", "lobby", "awake"}
  BY DEF Inv, MemberInv
<1>4. MemberInv'
  <2>1. \A d \in Client \ {c} : reader'[d] = reader[d] /\ writer'[d] = writer[d]
    BY <1>0 DEF TypeOK
  <2>2. \A d \in Client : handler[d] \in {"none", "refused", "started", "lobby", "awake"} =>
           reader'[d] = "none" /\ writer'[d] = "none"
    BY <1>3, <2>1 DEF Inv, MemberInv
  <2> QED
    BY <2>2 DEF Inv, MemberInv
<1>5. Live(reader)' = Live(reader) /\ Live(writer)' = Live(writer)
  BY <1>0 DEF Live, TypeOK
<1>6. WgInv'
  BY <1>5 DEF Inv, WgInv
<1>7. LobbyWaitsForMore'
  BY DEF Inv, LobbyWaitsForMore
<1> QED
  BY <1>0, <1>2, <1>4, <1>6, <1>7 DEF Inv

-----------------------------------------------------------------------------
(* The steps.                                                              *)

LEMMA EnterInv == ASSUME Inv, NEW c \in Client, Enter(c) PROVE Inv'
<1>0. TypeOK /\ wg \in Int
  BY DEF Inv
<1>1. /\ handler[c] = "started" /\ clients' = clients \cup {c}
      /\ clientCounter' = clientCounter + 1
      /\ UNCHANGED <<ctxDone, peer, lines, loopVars, minClients, messages, closed, stop, panicked>>
  BY DEF Enter
<1>2. /\ handler' \in [Client -> HandlerPc]
      /\ \A d \in Client : handler'[d] # handler[d] =>
            handler[d] \in {"started", "lobby"} /\ handler'[d] \in {"lobby", "awake"}
      /\ handler'[c] \in {"lobby", "awake"}
  <2>1. CASE LobbyOpens(clientCounter')
    <3>1. handler' = [d \in Client |-> IF d \in Woken \cup {c} THEN "awake" ELSE handler[d]]
      BY <2>1 DEF Enter
    <3> QED
      BY <1>0, <1>1, <3>1 DEF TypeOK, HandlerPc, Woken
  <2>2. CASE ~LobbyOpens(clientCounter')
    <3>1. handler' = [handler EXCEPT ![c] = "lobby"]
      BY <2>2 DEF Enter
    <3> QED
      BY <1>0, <1>1, <3>1 DEF TypeOK, HandlerPc
  <2> QED
    BY <2>1, <2>2
<1>3. TypeOK'
  BY <1>0, <1>1, <1>2 DEF TypeOK, loopVars
<1>4. c \notin clients /\ ~closed[c]
  BY <1>1 DEF Inv, MemberInv
<1>5. MemberInv'
  <2>1. clientCounter' = Cardinality(clients')
    BY <1>0, <1>1, <1>4, ClientsCounted DEF Inv, MemberInv
  <2>2. \A d \in clients' : ~closed[d]
    BY <1>1, <1>4 DEF Inv, MemberInv
  <2>3. \A d \in Client : handler'[d] \in {"none", "refused", "started"} =>
           d # c /\ handler[d] = handler'[d]
    BY <1>2
  <2>4. \A d \in Client : handler'[d] \in {"none", "refused", "started", "lobby", "awake"} =>
           handler[d] \in {"none", "refused", "started", "lobby", "awake"}
    BY <1>2
  <2>5. \A d \in Client : handler'[d] \in {"none", "refused", "started"} =>
           d \notin clients' /\ ~closed[d]
    BY <1>1, <2>3 DEF Inv, MemberInv
  <2>6. \A d \in Client : handler'[d] \in {"none", "refused", "started", "lobby", "awake"} =>
           reader[d] = "none" /\ writer[d] = "none"
    BY <2>4 DEF Inv, MemberInv
  <2>7. stop.ids \subseteq clients'
    BY <1>1 DEF Inv, MemberInv
  <2> QED
    BY <1>1, <2>1, <2>2, <2>5, <2>6, <2>7 DEF MemberInv, loopVars
<1>6. WgInv'
  BY <1>1 DEF Inv, WgInv, Live, loopVars
<1>7. LobbyWaitsForMore'
  <2>1. CASE LobbyOpens(clientCounter')
    <3>1. handler' = [d \in Client |-> IF d \in Woken \cup {c} THEN "awake" ELSE handler[d]]
      BY <2>1 DEF Enter
    <3>2. \A d \in Client : handler'[d] # "lobby"
      BY <3>1 DEF Woken
    <3> QED
      BY <3>2 DEF LobbyWaitsForMore
  <2>2. CASE ~LobbyOpens(clientCounter')
    BY <1>0, <1>1, <2>2 DEF LobbyWaitsForMore, LobbyOpens, TypeOK
  <2> QED
    BY <2>1, <2>2
<1> QED
  BY <1>0, <1>1, <1>3, <1>5, <1>6, <1>7 DEF Inv, loopVars

LEMMA ServeInv == ASSUME Inv, NEW c \in Client, Serve(c) PROVE Inv'
<1>0. TypeOK /\ wg \in Int
  BY DEF Inv
<1>1. /\ handler[c] = "awake" /\ handler' = [handler EXCEPT ![c] = "added"]
      /\ wg' = wg + 2
      /\ reader' = [reader EXCEPT ![c] = "top"] /\ writer' = [writer EXCEPT ![c] = "top"]
      /\ UNCHANGED <<ctxDone, peer, lines, serverVars, stop, panicked>>
  BY DEF Serve
<1>2. reader[c] = "none" /\ writer[c] = "none"
  BY <1>1 DEF Inv, MemberInv
<1>3. TypeOK' /\ wg' \in Int
  BY <1>0, <1>1 DEF TypeOK, HandlerPc, LoopPc, serverVars
<1>4. \A d \in Client \ {c} : /\ reader'[d] = reader[d] /\ writer'[d] = writer[d]
                              /\ handler'[d] = handler[d]
  BY <1>0, <1>1 DEF TypeOK
<1>5. handler'[c] = "added" /\ reader'[c] = "top" /\ writer'[c] = "top"
  BY <1>0, <1>1 DEF TypeOK
<1>6. MemberInv'
  <2>1. \A d \in Client : handler'[d] \in {"none", "refused", "started", "lobby", "awake"} =>
           d # c
    BY <1>5
  <2>2. \A d \in Client : handler'[d] \in {"none", "refused", "started", "lobby", "awake"} =>
           reader'[d] = "none" /\ writer'[d] = "none"
    BY <1>4, <2>1 DEF Inv, MemberInv
  <2>3. \A d \in Client : handler'[d] \in {"none", "refused", "started"} =>
           d \notin clients /\ ~closed[d]
    BY <1>4, <2>1 DEF Inv, MemberInv
  <2> QED
    BY <1>1, <2>2, <2>3 DEF Inv, MemberInv, serverVars
<1>7. Cardinality(Live(reader')) = Cardinality(Live(reader)) + 1
  <2>1. c \notin Live(reader) /\ c \in Live(reader')
    BY <1>2, <1>5 DEF Live
  <2> QED
    BY <1>4, <2>1, LiveStep
<1>8. Cardinality(Live(writer')) = Cardinality(Live(writer)) + 1
  <2>1. c \notin Live(writer) /\ c \in Live(writer')
    BY <1>2, <1>5 DEF Live
  <2> QED
    BY <1>4, <2>1, LiveStep
<1>9. WgInv'
  <2>1. Live(reader)' = Live(reader') /\ Live(writer)' = Live(writer')
    BY DEF Live
  <2> QED
    BY <1>1, <1>7, <1>8, <2>1, LiveFinite DEF Inv, WgInv
<1>10. LobbyWaitsForMore'
  BY <1>1, <1>4, <1>5 DEF Inv, LobbyWaitsForMore, serverVars
<1> QED
  BY <1>3, <1>6, <1>9, <1>10 DEF Inv

\* A step that moves one handler on, not into the lobby.
LEMMA HandlerMoves ==
  ASSUME Inv, NEW c \in Client, UNCHANGED <<ctxDone, lines, loopVars, serverVars, stop>>,
         peer' \in [Client -> {"none", "open", "gone"}], panicked' \in BOOLEAN,
         \/ handler' = handler
         \/ \E pc \in {"refused", "started"} :
               handler[c] = "none" /\ handler' = [handler EXCEPT ![c] = pc]
         \/ \E pc \in {"closed", "waiting"} :
               handler[c] \in {"added", "released"} /\ handler' = [handler EXCEPT ![c] = pc]
  PROVE  Inv'
<1>0. TypeOK /\ wg \in Int
  BY DEF Inv
<1>1. handler' \in [Client -> HandlerPc]
  BY <1>0 DEF TypeOK, HandlerPc
<1>2. TypeOK'
  BY <1>0, <1>1 DEF TypeOK, loopVars, serverVars
<1>3. \A d \in Client : /\ handler'[d] \in {"none", "refused", "started"} =>
                              handler[d] \in {"none", "refused", "started"}
                        /\ handler'[d] \in {"none", "refused", "started", "lobby", "awake"} =>
                              handler[d] \in {"none", "refused", "started", "lobby", "awake"}
                        /\ handler'[d] = "lobby" => handler[d] = "lobby"
  BY <1>0 DEF TypeOK
<1>4. MemberInv'
  BY <1>3 DEF Inv, MemberInv, loopVars, serverVars
<1>5. WgInv'
  BY DEF Inv, WgInv, Live, loopVars
<1>6. LobbyWaitsForMore'
  BY <1>3 DEF Inv, LobbyWaitsForMore, serverVars
<1> QED
  BY <1>0, <1>2, <1>4, <1>5, <1>6 DEF Inv, loopVars

LEMMA RemoveInv == ASSUME Inv, NEW c \in Client, RemoveClient(c) PROVE Inv'
<1>0. TypeOK /\ wg \in Int
  BY DEF Inv
<1>1. /\ c \in stop.ids /\ clients' = clients \ {c}
      /\ closed' = [closed EXCEPT ![c] = TRUE]
      /\ clientCounter' = clientCounter - 1
      /\ stop' = [pc |-> "notify", ids |-> stop.ids \ {c}, removed |-> {c}]
      /\ UNCHANGED <<ctxDone, peer, lines, handler, loopVars, minClients, messages, panicked>>
  BY DEF RemoveClient, Removed
<1>2. c \in clients /\ stop.ids \subseteq Client
  BY <1>0, <1>1 DEF Inv, MemberInv, TypeOK
<1>3. clientCounter' = Cardinality(clients') /\ clientCounter' \in Nat
  BY <1>0, <1>1, <1>2, ClientsCounted DEF Inv, MemberInv
<1>4. closed' \in [Client -> BOOLEAN]
  BY Zenon, <1>0, <1>1 DEF TypeOK
<1>5. stop' \in [pc : StopPc, ids : SUBSET Client, removed : SUBSET Client]
  BY <1>1, <1>2 DEF StopPc
<1>6. TypeOK'
  BY <1>0, <1>1, <1>3, <1>4, <1>5 DEF TypeOK, loopVars
<1>7. \A d \in Client \ {c} : closed'[d] = closed[d]
  BY <1>0, <1>1 DEF TypeOK
<1>8. MemberInv'
  <2>1. \A d \in clients' : ~closed'[d]
    <3>1. \A d \in clients' : d \in clients /\ d \in Client \ {c}
      BY <1>0, <1>1 DEF TypeOK
    <3> QED
      BY <1>7, <3>1 DEF Inv, MemberInv
  <2>2. stop'.ids \subseteq clients'
    BY <1>1 DEF Inv, MemberInv
  <2>3. handler[c] \notin {"none", "refused", "started"}
    BY <1>2, <1>0 DEF Inv, MemberInv, TypeOK
  <2>4. \A d \in Client : handler[d] \in {"none", "refused", "started"} =>
           d \notin clients' /\ ~closed'[d]
    BY <1>1, <1>7, <2>3 DEF Inv, MemberInv
  <2> QED
    BY <1>1, <1>3, <2>1, <2>2, <2>4 DEF Inv, MemberInv, loopVars
<1>9. WgInv'
  BY <1>1 DEF Inv, WgInv, Live, loopVars
<1>10. LobbyWaitsForMore'
  <2>1. clientCounter \in Nat /\ minClients \in Nat
    BY <1>0 DEF TypeOK
  <2>2. clientCounter < minClients => clientCounter' < minClients'
    BY <1>1, <2>1
  <2>3. handler' = handler
    BY <1>1
  <2> QED
    BY <2>2, <2>3 DEF Inv, LobbyWaitsForMore
<1> QED
  BY <1>0, <1>1, <1>6, <1>8, <1>9, <1>10 DEF Inv, loopVars

\* A step of Stop that removes nobody.
LEMMA StopMoves ==
  ASSUME Inv, UNCHANGED <<ctxDone, peer, lines, handler, loopVars, minClients, clients,
                          clientCounter, closed>>,
         messages' \in [Client -> 0..Capacity], panicked' \in BOOLEAN,
         stop' \in [pc : StopPc, ids : SUBSET Client, removed : SUBSET Client],
         stop'.ids \subseteq clients
  PROVE  Inv'
<1>1. TypeOK'
  BY DEF Inv, TypeOK, loopVars
<1>2. MemberInv'
  BY DEF Inv, MemberInv, loopVars
<1>3. WgInv'
  BY DEF Inv, WgInv, Live, loopVars
<1>4. LobbyWaitsForMore'
  BY DEF Inv, LobbyWaitsForMore
<1> QED
  BY <1>1, <1>2, <1>3, <1>4 DEF Inv, loopVars

LEMMA HandleInv == ASSUME Inv, NEW c \in Client, HandleClient(c) PROVE Inv'
<1>1. CASE Enter(c)
  BY <1>1, EnterInv
<1>2. CASE Serve(c)
  BY <1>2, ServeInv
<1>3. CASE Wait(c)
  <2>1. peer' \in [Client -> {"none", "open", "gone"}] /\ panicked' \in BOOLEAN
    BY <1>3 DEF Wait, Inv, TypeOK
  <2> QED
    BY <1>3, <2>1, HandlerMoves DEF Wait
<1>4. CASE Resume(c)
  <2>1. peer' \in [Client -> {"none", "open", "gone"}]
    BY <1>4 DEF Resume, Inv, TypeOK
  <2>2. panicked' \in BOOLEAN
    BY Zenon, <1>4 DEF Resume, Inv, TypeOK
  <2> QED
    BY <1>4, <2>1, <2>2, HandlerMoves DEF Resume
<1> QED
  BY <1>1, <1>2, <1>3, <1>4 DEF HandleClient

LEMMA ReadInv == ASSUME Inv, NEW c \in Client, ReadLoop(c) PROVE Inv'
<1>0. /\ TypeOK /\ lines \in 0..MaxLines /\ messages \in [Client -> 0..Capacity]
      /\ panicked \in BOOLEAN
  BY DEF Inv, TypeOK
<1>1. CASE ReaderTop(c)
  <2>1. CASE ctxDone
    BY <1>1, <2>1, LoopEndsInv DEF ReaderTop
  <2>2. CASE ~ctxDone
    <3>1. /\ reader[c] = "top" /\ reader' = [reader EXCEPT ![c] = "blocked"]
          /\ UNCHANGED <<ctxDone, peer, handler, wg, lines, writer, serverVars, panicked, stop>>
      BY <1>1, <2>2 DEF ReaderTop
    <3> QED
      BY <1>0, <3>1, LoopGoesOn DEF serverVars
  <2> QED
    BY <2>1, <2>2
<1>2. CASE ReadLine(c)
  <2>1. lines' \in 0..MaxLines
    BY <1>0, <1>2 DEF ReadLine
  <2> QED
    BY <1>0, <1>2, <2>1, LoopGoesOn DEF ReadLine, serverVars
<1>3. CASE ReadError(c)
  BY <1>3, LoopEndsInv DEF ReadError
<1>4. CASE Broadcast(c)
  <2>1. messages' \in [Client -> 0..Capacity]
    BY <1>0, <1>4, BroadcastType DEF Broadcast
  <2>2. panicked' \in BOOLEAN
    BY Zenon, <1>4 DEF Broadcast
  <2> QED
    BY <1>0, <1>4, <2>1, <2>2, LoopGoesOn DEF Broadcast
<1> QED
  BY <1>1, <1>2, <1>3, <1>4 DEF ReadLoop

LEMMA WriteInv == ASSUME Inv, NEW c \in Client, WriteLoop(c) PROVE Inv'
<1>0. /\ TypeOK /\ lines \in 0..MaxLines /\ messages \in [Client -> 0..Capacity]
      /\ panicked \in BOOLEAN
  BY DEF Inv, TypeOK
<1>1. CASE Take(c)
  <2>1. messages' \in [Client -> 0..Capacity]
    BY <1>0, <1>1 DEF Take
  <2> QED
    BY <1>0, <1>1, <2>1, LoopGoesOn DEF Take
<1>2. CASE WriterEnds(c)
  BY <1>2, LoopEndsInv DEF WriterEnds
<1>3. CASE Written(c)
  BY <1>0, <1>3, LoopGoesOn DEF Written, serverVars
<1>4. CASE WriteError(c)
  BY <1>4, LoopEndsInv DEF WriteError
<1> QED
  BY <1>1, <1>2, <1>3, <1>4 DEF WriteLoop

LEMMA StopInv == ASSUME Inv, StopStep PROVE Inv'
<1>0. /\ TypeOK /\ messages \in [Client -> 0..Capacity] /\ panicked \in BOOLEAN
      /\ stop \in [pc : StopPc, ids : SUBSET Client, removed : SUBSET Client]
      /\ stop.ids \subseteq clients /\ clients \subseteq Client
  BY DEF Inv, TypeOK, MemberInv
<1>1. CASE Stop
  <2>1. /\ stop' \in [pc : StopPc, ids : SUBSET Client, removed : SUBSET Client]
        /\ stop'.ids \subseteq clients
    BY <1>0, <1>1 DEF Stop, StopPc
  <2> QED
    BY <1>0, <1>1, <2>1, StopMoves DEF Stop, serverVars
<1>2. ASSUME NEW c \in Client, RemoveClient(c) PROVE Inv'
  BY <1>2, RemoveInv
<1>3. CASE Notify
  <2>1. PICK c \in stop.removed : /\ messages' = AfterBroadcast(c)
                                  /\ panicked' = \E d \in clients \ {c} : closed[d]
    BY <1>3 DEF Notify
  <2>2. messages' \in [Client -> 0..Capacity]
    BY <1>0, <2>1, BroadcastType
  <2>3. panicked' \in BOOLEAN
    BY Zenon, <2>1
  <2>4. /\ stop' \in [pc : StopPc, ids : SUBSET Client, removed : SUBSET Client]
        /\ stop'.ids \subseteq clients
    BY <1>0, <1>3 DEF Notify, StopPc
  <2> QED
    BY <1>3, <2>2, <2>3, <2>4, StopMoves DEF Notify
<1>4. CASE StopWaits
  <2>1. stop' = [stop EXCEPT !.pc = "returned"] \/ stop' = [stop EXCEPT !.pc = "waiting"]
    BY <1>4 DEF StopWaits
  <2>2. /\ stop' \in [pc : StopPc, ids : SUBSET Client, removed : SUBSET Client]
        /\ stop'.ids \subseteq clients
    BY <1>0, <2>1 DEF StopPc
  <2> QED
    BY <1>0, <1>4, <2>2, StopMoves DEF StopWaits, serverVars
<1>5. CASE StopReturns
  <2>1. stop' = [stop EXCEPT !.pc = "returned"] \/ stop' = stop
    BY <1>5 DEF StopReturns
  <2>2. /\ stop' \in [pc : StopPc, ids : SUBSET Client, removed : SUBSET Client]
        /\ stop'.ids \subseteq clients
    BY <1>0, <2>1 DEF StopPc
  <2>3. panicked' \in BOOLEAN
    BY Zenon, <1>0, <1>5 DEF StopReturns
  <2> QED
    BY <1>0, <1>5, <2>2, <2>3, StopMoves DEF StopReturns, serverVars
<1> QED
  BY <1>1, <1>2, <1>3, <1>4, <1>5 DEF StopStep

LEMMA NextInv == Inv /\ [Next]_vars => Inv'
<1> SUFFICES ASSUME Inv, [Next]_vars PROVE Inv'
  OBVIOUS
<1>1. CASE Deadline
  <2>1. ctxDone' \in BOOLEAN
    BY <1>1 DEF Deadline
  <2>2. TypeOK'
    BY <1>1, <2>1 DEF Deadline, Inv, TypeOK, loopVars, serverVars
  <2> QED
    BY <1>1, <2>2 DEF Deadline, Inv, MemberInv, WgInv, Live, LobbyWaitsForMore,
                      loopVars, serverVars
<1>2. CASE StopStep
  BY <1>2, StopInv
<1>3. ASSUME NEW c \in Client, Accept(c) \/ HangUp(c) PROVE Inv'
  <2>1. peer' \in [Client -> {"none", "open", "gone"}] /\ panicked' \in BOOLEAN
    BY <1>3 DEF Accept, HangUp, Inv, TypeOK
  <2> QED
    BY <1>3, <2>1, HandlerMoves DEF Accept, HangUp
<1>4. ASSUME NEW c \in Client, HandleClient(c) \/ ReadLoop(c) \/ WriteLoop(c) PROVE Inv'
  BY <1>4, HandleInv, ReadInv, WriteInv
<1>5. CASE UNCHANGED vars
  <2>1. TypeOK'
    BY <1>5 DEF vars, Inv, TypeOK, loopVars, serverVars
  <2> QED
    BY <1>5, <2>1 DEF vars, Inv, MemberInv, WgInv, Live, LobbyWaitsForMore, loopVars, serverVars
<1> QED
  BY <1>1, <1>2, <1>3, <1>4, <1>5 DEF Next

-----------------------------------------------------------------------------
(* The theorems.                                                           *)

\* The lobby loses no wake-up: whoever still waits there, waits because too
\* few are registered (main.go 173-177), also after a removal.
THEOREM LobbyTheorem == Spec => []LobbyWaitsForMore
<1>1. Inv => LobbyWaitsForMore
  BY DEF Inv
<1> QED
  BY <1>1, InitInv, NextInv, PTL DEF Spec

\* Every variable keeps its type, nobody sends on a closed channel, the
\* counter is that of the map, and the WaitGroup counts the loops that run
\* (main.go 170-171, 180-190, 260-268, 281-284).
THEOREM ConsistentTheorem == Spec => []Consistent
<1>1. Inv => Consistent
  BY DEF Inv, MemberInv, WgInv, Live, Consistent
<1> QED
  BY <1>1, InitInv, NextInv, PTL DEF Spec

=============================================================================
