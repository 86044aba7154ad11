--------------------------------- MODULE XdpProofs ---------------------------------
(***************************************************************************)
(* Theorems about the counter and the filter of Xdp for any CPUs, ports    *)
(* and number of packets, and about the socket for any frames and rings.   *)
(***************************************************************************)
EXTENDS Xdp, FiniteSetTheorems, SequenceTheorems, TLAPS

\* What the proofs use of the constants.
LEMMA ConstantTypes == IsFiniteSet(Cpu) /\ C!NoPort \notin Port
  BY XdpAssumption

USE ConstantTypes

-----------------------------------------------------------------------------
(* Types.                                                                  *)

At == {"idle", "blocked", "lookup", "insert", "add"}
BlockedDomain == IF counterMain = "start" THEN {} ELSE {blockedPort} \ {C!NoPort}

CpuState == [at : At, port : Port \cup {C!NoPort}, element : Nat]

TypeInv ==
    /\ filter \in BOOLEAN
    /\ blockedPort \in Port \cup {C!NoPort}
    /\ blockedPort # C!NoPort => filter
    /\ port_count \in [Port -> [element : Nat, count : Nat]]
    /\ blocked_ports \in [BlockedDomain -> Nat]
    /\ cpu \in [Cpu -> CpuState]
    /\ \A c \in Cpu : cpu[c].at # "idle" => cpu[c].port \in Port
    /\ counted \in [Port -> Nat] /\ first \in [Port -> Nat]
    /\ dropped \in [Port -> Nat] /\ passed \in [Port -> Nat]

\* What a step may put into the state of a CPU.
LEMMA IdleState == C!Idle \in CpuState
  BY DEF CpuState, C!Idle, At

LEMMA CpuUpdate ==
  ASSUME NEW s \in CpuState, NEW at \in At, NEW e \in Nat
  PROVE  /\ [s EXCEPT !.at = at] \in CpuState /\ [s EXCEPT !.at = at].port = s.port
         /\ [s EXCEPT !.at = at, !.element = e] \in CpuState
         /\ [s EXCEPT !.at = at, !.element = e].port = s.port
  BY DEF CpuState, C!Idle, At

LEMMA TypeInit == Init => TypeInv
  BY DEF Init, C!Init, TypeInv, C!None, C!Idle, At, CpuState, BlockedDomain

\* A packet whose port is read is looked up, or checked first.
LEMMA ReceiveStep ==
  ASSUME TypeInv, NEW c \in Cpu, C!Receive(c), cpu' # cpu
  PROVE  \E port \in Port, at \in {"blocked", "lookup"} :
            /\ cpu' = [cpu EXCEPT ![c] = [C!Idle EXCEPT !.port = port, !.at = at]]
            /\ at = IF filter THEN "blocked" ELSE "lookup"
<1>1. PICK p \in Port \cup {C!NoPort} : \E port \in C!PortsRead(p) :
         cpu' = IF port = C!NoPort THEN cpu
                ELSE [cpu EXCEPT ![c] = [C!Idle EXCEPT !.port = port,
                                           !.at = IF filter THEN "blocked" ELSE "lookup"]]
  BY DEF C!Receive
<1>2. PICK port \in C!PortsRead(p) :
         cpu' = IF port = C!NoPort THEN cpu
                ELSE [cpu EXCEPT ![c] = [C!Idle EXCEPT !.port = port,
                                           !.at = IF filter THEN "blocked" ELSE "lookup"]]
  BY <1>1
<1>3. port \in Port /\ port # C!NoPort
  BY <1>2 DEF C!PortsRead
<1> DEFINE at == IF filter THEN "blocked" ELSE "lookup"
<1>4. at \in {"blocked", "lookup"}
  OBVIOUS
<1>5. cpu' = [cpu EXCEPT ![c] = [C!Idle EXCEPT !.port = port, !.at = at]]
  BY <1>2, <1>3
<1> QED
  BY <1>3, <1>4, <1>5

LEMMA TypeStep == TypeInv /\ [Next]_vars => TypeInv'
<1> SUFFICES ASSUME TypeInv, [Next]_vars PROVE TypeInv'
  OBVIOUS
<1>1. CASE C!Configure
  BY <1>1 DEF C!Configure, TypeInv, BlockedDomain
<1>2. CASE C!Attach \/ C!Detach
  BY <1>2 DEF C!Attach, C!MayAttach, C!Detach, TypeInv, BlockedDomain
<1>3. ASSUME NEW c \in Cpu, C!Receive(c) PROVE TypeInv'
  <2>1. UNCHANGED <<filter, blockedPort, counterMain, port_count, blocked_ports, counted,
                    first, dropped, passed>>
    BY <1>3 DEF C!Receive
  <2>2. /\ cpu' \in [Cpu -> CpuState]
        /\ \A d \in Cpu : cpu'[d].at # "idle" => cpu'[d].port \in Port
    <3>1. CASE UNCHANGED cpu
      BY <3>1 DEF TypeInv
    <3>2. CASE ~ UNCHANGED cpu
      <4>1. PICK port \in Port, at \in {"blocked", "lookup"} :
               cpu' = [cpu EXCEPT ![c] = [C!Idle EXCEPT !.port = port, !.at = at]]
        BY <1>3, <3>2, ReceiveStep
      <4>2. /\ [C!Idle EXCEPT !.port = port, !.at = at] \in CpuState
            /\ [C!Idle EXCEPT !.port = port, !.at = at].port = port
        BY DEF CpuState, C!Idle, At
      <4> QED
        BY <4>1, <4>2 DEF TypeInv
    <3> QED
      BY <3>1, <3>2
  <2> QED
    BY <2>1, <2>2 DEF TypeInv, BlockedDomain
<1>4. ASSUME NEW c \in Cpu, C!CheckBlocked(c) PROVE TypeInv'
  <2>1. cpu[c].port \in Port
    BY <1>4 DEF C!CheckBlocked, TypeInv
  <2>2. /\ UNCHANGED <<filter, blockedPort, counterMain, port_count, counted, first, passed>>
        /\ \/ cpu' = [cpu EXCEPT ![c] = C!Idle]
           \/ cpu' = [cpu EXCEPT ![c].at = "lookup"]
        /\ dropped' = dropped \/ dropped' = [dropped EXCEPT ![cpu[c].port] = @ + 1]
        /\ \/ blocked_ports' = blocked_ports
           \/ /\ cpu[c].port \in DOMAIN blocked_ports
              /\ blocked_ports' = [blocked_ports EXCEPT ![cpu[c].port] = @ + 1]
    BY <1>4 DEF C!CheckBlocked
  <2>3. blocked_ports' \in [BlockedDomain' -> Nat]
    BY <2>2 DEF TypeInv, BlockedDomain
  <2>4. dropped' \in [Port -> Nat]
    BY <2>1, <2>2 DEF TypeInv
  <2>5. /\ cpu' \in [Cpu -> CpuState]
        /\ \A d \in Cpu : cpu'[d].at # "idle" => cpu'[d].port \in Port
    <3>1. CASE cpu' = [cpu EXCEPT ![c] = C!Idle]
      BY <3>1, IdleState DEF TypeInv, C!Idle
    <3>2. CASE cpu' = [cpu EXCEPT ![c].at = "lookup"]
      <4>1. "lookup" \in At /\ cpu[c] \in CpuState
        BY DEF At, TypeInv
      <4>2. cpu' = [cpu EXCEPT ![c] = [cpu[c] EXCEPT !.at = "lookup"]]
        BY <3>2
      <4> QED
        BY <2>1, <4>1, <4>2, CpuUpdate DEF TypeInv
    <3> QED
      BY <2>2, <3>1, <3>2
  <2> QED
    BY <2>2, <2>3, <2>4, <2>5 DEF TypeInv
<1>5. ASSUME NEW c \in Cpu, C!Lookup(c) PROVE TypeInv'
  <2>1. cpu[c].port \in Port /\ port_count[cpu[c].port].element \in Nat
    BY <1>5 DEF C!Lookup, TypeInv
  <2>2. /\ UNCHANGED <<filter, blockedPort, counterMain, port_count, blocked_ports, counted,
                       dropped, passed>>
        /\ \E at \in {"insert", "add"} :
              cpu' = [cpu EXCEPT ![c].at = at, ![c].element = port_count[cpu[c].port].element]
        /\ first' = first \/ first' = [first EXCEPT ![cpu[c].port] = @ + 1]
    BY <1>5 DEF C!Lookup
  <2>3. first' \in [Port -> Nat]
    BY <2>1, <2>2 DEF TypeInv
  <2>4. /\ cpu' \in [Cpu -> CpuState]
        /\ \A d \in Cpu : cpu'[d].at # "idle" => cpu'[d].port \in Port
    <3>1. PICK at \in {"insert", "add"} :
             cpu' = [cpu EXCEPT ![c].at = at, ![c].element = port_count[cpu[c].port].element]
      BY <2>2
    <3>2. at \in At /\ cpu[c] \in CpuState
      BY DEF At, TypeInv
    <3>3. cpu' = [cpu EXCEPT
             ![c] = [cpu[c] EXCEPT !.at = at, !.element = port_count[cpu[c].port].element]]
      BY <3>1
    <3> QED
      <4> DEFINE s == [cpu[c] EXCEPT !.at = at, !.element = port_count[cpu[c].port].element]
      <4>1. s \in CpuState /\ s.port = cpu[c].port
        BY <2>1, <3>2, CpuUpdate
      <4>2. cpu' = [cpu EXCEPT ![c] = s]
        BY <3>3
      <4> HIDE DEF s
      <4> QED
        BY <2>1, <4>1, <4>2 DEF TypeInv
  <2> QED
    BY <2>2, <2>3, <2>4 DEF TypeInv, BlockedDomain
<1>6. ASSUME NEW c \in Cpu, C!Add(c) \/ C!Insert(c) PROVE TypeInv'
  <2>1. cpu[c].port \in Port
    BY <1>6 DEF C!Add, C!Insert, TypeInv
  <2>2. /\ UNCHANGED <<filter, blockedPort, counterMain, blocked_ports, first, dropped>>
        /\ cpu' = [cpu EXCEPT ![c] = C!Idle]
        /\ passed' = [passed EXCEPT ![cpu[c].port] = @ + 1]
        /\ counted' = [counted EXCEPT ![cpu[c].port] = @ + 1]
    BY <1>6 DEF C!Add, C!Insert, C!Pass
  <2>3. port_count' \in [Port -> [element : Nat, count : Nat]]
    <3>1. CASE C!Add(c)
      BY <2>1, <3>1 DEF C!Add, TypeInv
    <3>2. CASE C!Insert(c)
      BY <2>1, <3>2 DEF C!Insert, C!Initial, TypeInv
    <3> QED
      BY <1>6, <3>1, <3>2
  <2>4. counted' \in [Port -> Nat] /\ passed' \in [Port -> Nat]
    BY <2>1, <2>2 DEF TypeInv
  <2> QED
    <3>1. cpu' \in [Cpu -> CpuState]
      BY <2>2, IdleState DEF TypeInv
    <3>2. \A d \in Cpu : cpu'[d].at # "idle" => cpu'[d].port \in Port
      BY <2>2 DEF TypeInv, C!Idle
    <3> QED
      BY <2>2, <2>3, <2>4, <3>1, <3>2 DEF TypeInv, BlockedDomain
<1>7. CASE UNCHANGED counterVars
  BY <1>7 DEF counterVars, TypeInv, BlockedDomain
<1> QED
  BY <1>1, <1>2, <1>3, <1>4, <1>5, <1>6, <1>7 DEF Next, Counter, Socket, C!Next, vars

\* The types hold in every behaviour.
THEOREM TypeCorrect == Spec => []TypeInv
  BY TypeInit, TypeStep, PTL DEF Spec

-----------------------------------------------------------------------------
(* The counts.  A port has had as many elements as packets that found none, *)
(* but for those still on their way to insert theirs; and only the first    *)
(* element replaced, an addition can be for one that is not there any more. *)

InsertAt(p) == {c \in Cpu : cpu[c].at = "insert" /\ cpu[c].port = p}

Inserters == \A p \in Port : first[p] = port_count[p].element + Cardinality(InsertAt(p))

CountsOf(p) ==
    /\ port_count[p].count <= counted[p]
    /\ port_count[p].element <= 1 => port_count[p].count = counted[p]
    /\ port_count[p].element = 0 => counted[p] = 0

Adders ==
    \A c \in Cpu : cpu[c].at = "add" =>
        /\ 1 <= cpu[c].element
        /\ cpu[c].element <= port_count[cpu[c].port].element

CountInv == Inserters /\ (\A p \in Port : CountsOf(p)) /\ Adders

LEMMA InsertAtFinite == \A p : IsFiniteSet(InsertAt(p)) /\ Cardinality(InsertAt(p)) \in Nat
<1> TAKE p
<1>1. InsertAt(p) \subseteq Cpu
  BY DEF InsertAt
<1> HIDE DEF InsertAt
<1> QED
  BY <1>1, FS_Subset, FS_CardinalityType

LEMMA CountInit == Init => CountInv
<1> SUFFICES ASSUME Init PROVE CountInv
  OBVIOUS
<1>1. \A p \in Port : InsertAt(p) = {}
  BY DEF Init, C!Init, C!Idle, InsertAt
<1>2. Cardinality({}) = 0
  BY FS_EmptySet
<1>3. Inserters
  <2> SUFFICES ASSUME NEW p \in Port
               PROVE  first[p] = port_count[p].element + Cardinality(InsertAt(p))
    BY DEF Inserters
  <2>1. first[p] = 0 /\ port_count[p].element = 0
    BY DEF Init, C!Init, C!None
  <2>2. Cardinality(InsertAt(p)) = 0
    BY <1>1, <1>2
  <2> QED
    BY <2>1, <2>2
<1>4. (\A p \in Port : CountsOf(p)) /\ Adders
  BY DEF Init, C!Init, C!None, C!Idle, CountsOf, Adders
<1> QED
  BY <1>3, <1>4 DEF CountInv

\* The steps after which the same CPUs are about to insert and to add.
LEMMA CountKept ==
  ASSUME TypeInv, CountInv, UNCHANGED <<port_count, first, counted>>,
         \A c \in Cpu : cpu'[c] = cpu[c] \/ (cpu[c].at # "insert" /\ cpu'[c].at \notin {"insert", "add"})
  PROVE  CountInv'
<1>1. \A p \in Port : InsertAt(p)' = InsertAt(p)
  BY DEF InsertAt
<1>2. Inserters'
  BY <1>1 DEF CountInv, Inserters
<1>3. \A p \in Port : CountsOf(p)'
  BY DEF CountInv, CountsOf
<1>4. Adders'
  BY DEF CountInv, Adders
<1> QED
  BY <1>2, <1>3, <1>4 DEF CountInv

LEMMA CountLookup ==
  ASSUME TypeInv, CountInv, NEW c \in Cpu, C!Lookup(c)
  PROVE  CountInv'
<1> DEFINE port == cpu[c].port
           e == port_count[port].element
<1>0. /\ port \in Port /\ e \in Nat
      /\ cpu[c].at = "lookup" /\ cpu[c] \in CpuState
      /\ UNCHANGED <<port_count, counted>>
  BY DEF C!Lookup, TypeInv
<1>1. /\ cpu' = [cpu EXCEPT ![c].at = IF e = 0 THEN "insert" ELSE "add", ![c].element = e]
      /\ first' = IF e = 0 THEN [first EXCEPT ![port] = @ + 1] ELSE first
  BY DEF C!Lookup
<1>2. /\ cpu'[c].at = (IF e = 0 THEN "insert" ELSE "add")
      /\ cpu'[c].element = e /\ cpu'[c].port = port
      /\ \A d \in Cpu \ {c} : cpu'[d] = cpu[d]
  BY <1>0, <1>1 DEF TypeInv, CpuState
<1>3. \A p \in Port : CountsOf(p)'
  BY <1>0 DEF CountInv, CountsOf
<1>4. Adders'
  BY <1>0, <1>2 DEF CountInv, Adders
<1>5. Inserters'
  <2> SUFFICES ASSUME NEW p \in Port
               PROVE  first'[p] = port_count[p].element + Cardinality(InsertAt(p)')
    BY <1>0 DEF Inserters
  <2>1. first[p] = port_count[p].element + Cardinality(InsertAt(p)) /\ first[p] \in Nat
        /\ port_count[p].element \in Nat
    BY DEF CountInv, Inserters, TypeInv
  <2>2. CASE e = 0 /\ p = port
    <3>1. InsertAt(p)' = InsertAt(p) \cup {c} /\ c \notin InsertAt(p)
      BY <1>0, <1>2, <2>2 DEF InsertAt
    <3>2. Cardinality(InsertAt(p)') = Cardinality(InsertAt(p)) + 1
      <4> HIDE DEF InsertAt
      <4> QED
        BY <3>1, InsertAtFinite, FS_AddElement
    <3>3. first'[p] = first[p] + 1
      BY <1>1, <2>2 DEF TypeInv
    <3> QED
      BY <2>1, <3>2, <3>3, InsertAtFinite
  <2>3. CASE ~ (e = 0 /\ p = port)
    <3>1. InsertAt(p)' = InsertAt(p)
      BY <1>0, <1>2, <2>3 DEF InsertAt
    <3>2. first'[p] = first[p]
      BY <1>0, <1>1, <2>3 DEF TypeInv
    <3> QED
      BY <2>1, <3>1, <3>2
  <2> QED
    BY <2>2, <2>3
<1> QED
  BY <1>3, <1>4, <1>5 DEF CountInv

LEMMA CountAdd ==
  ASSUME TypeInv, CountInv, NEW c \in Cpu, C!Add(c)
  PROVE  CountInv'
<1> DEFINE port == cpu[c].port
<1>0. /\ port \in Port /\ cpu[c].at = "add" /\ cpu[c] \in CpuState
      /\ port_count[port] \in [element : Nat, count : Nat] /\ counted[port] \in Nat
      /\ cpu' = [cpu EXCEPT ![c] = C!Idle] /\ first' = first
      /\ counted' = [counted EXCEPT ![port] = @ + 1]
  BY DEF C!Add, C!Pass, TypeInv
<1>1. port_count' = [port_count EXCEPT ![port].count =
         IF port_count[port].element = cpu[c].element THEN @ + 1 ELSE @]
  BY DEF C!Add
<1>2. /\ \A p \in Port : port_count'[p].element = port_count[p].element
      /\ \A p \in Port \ {port} : port_count'[p] = port_count[p] /\ counted'[p] = counted[p]
      /\ counted'[port] = counted[port] + 1
      /\ port_count'[port].count = IF port_count[port].element = cpu[c].element
                                   THEN port_count[port].count + 1 ELSE port_count[port].count
  BY <1>0, <1>1 DEF TypeInv
<1>3. \A d \in Cpu : cpu'[d] = IF d = c THEN C!Idle ELSE cpu[d]
  BY <1>0 DEF TypeInv
<1>4. \A p \in Port : InsertAt(p)' = InsertAt(p)
  BY <1>0, <1>3 DEF InsertAt, C!Idle
<1>5. Inserters'
  BY <1>0, <1>2, <1>4 DEF CountInv, Inserters
<1>6. Adders'
  BY <1>2, <1>3 DEF CountInv, Adders, C!Idle, TypeInv
<1>7. 1 <= cpu[c].element /\ cpu[c].element <= port_count[port].element /\ cpu[c].element \in Nat
  BY <1>0 DEF CountInv, Adders, CpuState
<1>8. \A p \in Port : p = port => CountsOf(p)'
  BY <1>0, <1>2, <1>7 DEF CountInv, CountsOf
<1>9. \A p \in Port \ {port} : CountsOf(p)'
  BY <1>2 DEF CountInv, CountsOf
<1> QED
  BY <1>5, <1>6, <1>8, <1>9 DEF CountInv

LEMMA CountInsert ==
  ASSUME TypeInv, CountInv, NEW c \in Cpu, C!Insert(c)
  PROVE  CountInv'
<1> DEFINE port == cpu[c].port
<1>0. /\ port \in Port /\ cpu[c].at = "insert" /\ cpu[c] \in CpuState
      /\ port_count[port] \in [element : Nat, count : Nat] /\ counted[port] \in Nat
      /\ cpu' = [cpu EXCEPT ![c] = C!Idle] /\ first' = first
      /\ counted' = [counted EXCEPT ![port] = @ + 1]
  BY DEF C!Insert, C!Pass, TypeInv
<1>1. port_count' = [port_count EXCEPT ![port] = [element |-> @.element + 1, count |-> 1]]
  BY DEF C!Insert, C!Initial
<1>2. /\ port_count'[port].element = port_count[port].element + 1
      /\ port_count'[port].count = 1
      /\ counted'[port] = counted[port] + 1
      /\ \A p \in Port \ {port} : port_count'[p] = port_count[p] /\ counted'[p] = counted[p]
  BY <1>0, <1>1 DEF TypeInv
<1>3. \A d \in Cpu : cpu'[d] = IF d = c THEN C!Idle ELSE cpu[d]
  BY <1>0 DEF TypeInv
<1>4. Inserters'
  <2> SUFFICES ASSUME NEW p \in Port
               PROVE  first'[p] = port_count'[p].element + Cardinality(InsertAt(p)')
    BY DEF Inserters
  <2>1. first[p] = port_count[p].element + Cardinality(InsertAt(p))
        /\ port_count[p].element \in Nat
    BY DEF CountInv, Inserters, TypeInv
  <2>2. CASE p = port
    <3>1. InsertAt(p)' = InsertAt(p) \ {c} /\ c \in InsertAt(p)
      BY <1>0, <1>3, <2>2 DEF InsertAt, C!Idle
    <3>2. Cardinality(InsertAt(p)') = Cardinality(InsertAt(p)) - 1
      <4> HIDE DEF InsertAt
      <4> QED
        BY <3>1, InsertAtFinite, FS_RemoveElement
    <3> QED
      BY <1>0, <1>2, <2>1, <2>2, <3>2, InsertAtFinite
  <2>3. CASE p # port
    <3>1. InsertAt(p)' = InsertAt(p)
      BY <1>0, <1>3, <2>3 DEF InsertAt, C!Idle
    <3> QED
      BY <1>0, <1>2, <2>1, <2>3, <3>1
  <2> QED
    BY <2>2, <2>3
<1>5. Adders'
  <2> SUFFICES ASSUME NEW d \in Cpu, cpu'[d].at = "add"
               PROVE  /\ 1 <= cpu'[d].element
                      /\ cpu'[d].element <= port_count'[cpu'[d].port].element
    BY DEF Adders
  <2>1. cpu'[d] = cpu[d]
    BY <1>3 DEF C!Idle
  <2>2. /\ 1 <= cpu[d].element /\ cpu[d].element <= port_count[cpu[d].port].element
        /\ cpu[d].port \in Port /\ cpu[d].element \in Nat
    BY <2>1 DEF CountInv, Adders, TypeInv, CpuState
  <2>3. \A p \in Port : /\ port_count[p].element \in Nat /\ port_count'[p].element \in Nat
                        /\ port_count[p].element <= port_count'[p].element
    BY <1>0, <1>2 DEF TypeInv
  <2>4. cpu[d].element <= port_count'[cpu[d].port].element
    BY <2>2, <2>3
  <2> QED
    BY <2>1, <2>2, <2>4
<1>6. \A p \in Port : p = port => CountsOf(p)'
  BY <1>0, <1>2 DEF CountInv, CountsOf
<1>7. \A p \in Port \ {port} : CountsOf(p)'
  BY <1>2 DEF CountInv, CountsOf
<1> QED
  BY <1>4, <1>5, <1>6, <1>7 DEF CountInv

LEMMA CountStep == TypeInv /\ CountInv /\ [Next]_vars => CountInv'
<1> SUFFICES ASSUME TypeInv, CountInv, [Next]_vars PROVE CountInv'
  OBVIOUS
<1>1. CASE C!Configure \/ C!Attach \/ C!Detach \/ UNCHANGED counterVars
  BY <1>1, CountKept DEF C!Configure, C!Attach, C!Detach, counterVars
<1>2. ASSUME NEW c \in Cpu, C!Receive(c) PROVE CountInv'
  <2>1. UNCHANGED <<port_count, first, counted>> /\ cpu[c].at = "idle"
    BY <1>2 DEF C!Receive, C!Idle
  <2>2. CASE UNCHANGED cpu
    BY <2>1, <2>2, CountKept
  <2>3. CASE ~ UNCHANGED cpu
    <3>1. PICK port \in Port, at \in {"blocked", "lookup"} :
             cpu' = [cpu EXCEPT ![c] = [C!Idle EXCEPT !.port = port, !.at = at]]
      BY <1>2, <2>3, ReceiveStep
    <3>2. \A d \in Cpu : cpu'[d] = cpu[d]
                         \/ (cpu[d].at # "insert" /\ cpu'[d].at \notin {"insert", "add"})
      BY <2>1, <3>1 DEF TypeInv, C!Idle
    <3> QED
      BY <2>1, <3>2, CountKept
  <2> QED
    BY <2>2, <2>3
<1>3. ASSUME NEW c \in Cpu, C!CheckBlocked(c) PROVE CountInv'
  <2>1. /\ UNCHANGED <<port_count, first, counted>> /\ cpu[c].at = "blocked"
        /\ \/ cpu' = [cpu EXCEPT ![c] = C!Idle]
           \/ cpu' = [cpu EXCEPT ![c].at = "lookup"]
    BY <1>3 DEF C!CheckBlocked
  <2>2. cpu[c] \in CpuState
    BY DEF TypeInv
  <2>3. \A d \in Cpu : cpu'[d] = cpu[d]
                       \/ (cpu[d].at # "insert" /\ cpu'[d].at \notin {"insert", "add"})
    BY <2>1, <2>2 DEF TypeInv, C!Idle, CpuState
  <2> QED
    BY <2>1, <2>3, CountKept
<1>4. ASSUME NEW c \in Cpu, C!Lookup(c) \/ C!Add(c) \/ C!Insert(c) PROVE CountInv'
  BY <1>4, CountLookup, CountAdd, CountInsert
<1> QED
  BY <1>1, <1>2, <1>3, <1>4 DEF Next, Counter, Socket, C!Next, vars

LEMMA CountImplies == TypeInv /\ CountInv => CountsExactUnlessFirstRace
<1> SUFFICES ASSUME TypeInv, CountInv, NEW p \in Port
             PROVE  /\ port_count[p].count <= counted[p]
                    /\ first[p] <= 1 => port_count[p].count = counted[p]
  BY DEF CountsExactUnlessFirstRace, C!CountsExactUnlessFirstRace
<1>1. /\ first[p] = port_count[p].element + Cardinality(InsertAt(p))
      /\ port_count[p].element \in Nat
      /\ CountsOf(p)
  BY DEF CountInv, Inserters, TypeInv
<1>2. first[p] <= 1 => port_count[p].element <= 1
  BY <1>1, InsertAtFinite
<1> QED
  BY <1>1, <1>2 DEF CountsOf

\* No count is ever too high, and it is exact unless two CPUs found the port
\* without an entry (xdp_count_by_port.c 70-81 of 12), whatever the number of
\* CPUs and packets.
THEOREM CountsTheorem == Spec => []CountsExactUnlessFirstRace
  BY TypeInit, TypeStep, CountInit, CountStep, CountImplies, PTL DEF Spec

-----------------------------------------------------------------------------
(* The blocked port.  It is in the map before the program is attached, so   *)
(* no CPU is ever past the check with a packet for it.                      *)

BlockedInv ==
    /\ counterMain \in {"start", "configured"} =>
          /\ \A c \in Cpu : cpu[c].at = "idle"
          /\ \A p \in Port : passed[p] = 0 /\ dropped[p] = 0
    /\ \A c \in Cpu : cpu[c].at \in {"lookup", "insert", "add"} => cpu[c].port # blockedPort
    /\ \A p \in Port \cap {blockedPort} :
          /\ passed[p] = 0
          /\ p \in DOMAIN blocked_ports => blocked_ports[p] = dropped[p]

LEMMA BlockedInit == Init => BlockedInv
  BY DEF Init, C!Init, C!Idle, C!None, BlockedInv

\* What a packet that is not dropped does to the CPU and to the counts.
LEMMA BlockedPass ==
  ASSUME TypeInv, BlockedInv, NEW c \in Cpu, C!Add(c) \/ C!Insert(c)
  PROVE  BlockedInv'
<1> DEFINE port == cpu[c].port
<1>1. /\ UNCHANGED <<filter, blockedPort, counterMain, blocked_ports, dropped>>
      /\ cpu' = [cpu EXCEPT ![c] = C!Idle]
      /\ passed' = [passed EXCEPT ![port] = @ + 1]
      /\ cpu[c].at \in {"insert", "add"}
  BY DEF C!Add, C!Insert, C!Pass
<1>2. port # blockedPort /\ port \in Port /\ cpu[c].at # "idle"
  BY <1>1 DEF BlockedInv, TypeInv
<1>3. counterMain \notin {"start", "configured"}
  BY <1>2 DEF BlockedInv
<1>4. \A d \in Cpu : cpu'[d] = IF d = c THEN C!Idle ELSE cpu[d]
  BY <1>1 DEF TypeInv
<1>5. \A p \in Port \cap {blockedPort} : passed'[p] = passed[p]
  BY <1>1, <1>2 DEF TypeInv
<1> QED
  BY <1>1, <1>3, <1>4, <1>5 DEF BlockedInv, C!Idle

LEMMA BlockedStep == TypeInv /\ BlockedInv /\ [Next]_vars => BlockedInv'
<1> SUFFICES ASSUME TypeInv, BlockedInv, [Next]_vars PROVE BlockedInv'
  OBVIOUS
<1>1. CASE C!Configure
  BY <1>1 DEF C!Configure, BlockedInv
<1>2. CASE C!Attach \/ C!Detach
  BY <1>2 DEF C!Attach, C!MayAttach, C!Detach, BlockedInv
<1>3. ASSUME NEW c \in Cpu, C!Receive(c) PROVE BlockedInv'
  <2>1. /\ UNCHANGED <<filter, blockedPort, counterMain, blocked_ports, dropped, passed>>
        /\ counterMain = "attached"
    BY <1>3 DEF C!Receive
  <2>2. CASE UNCHANGED cpu
    BY <2>1, <2>2 DEF BlockedInv
  <2>3. CASE ~ UNCHANGED cpu
    <3>1. PICK port \in Port, at \in {"blocked", "lookup"} :
             /\ cpu' = [cpu EXCEPT ![c] = [C!Idle EXCEPT !.port = port, !.at = at]]
             /\ at = IF filter THEN "blocked" ELSE "lookup"
      BY <1>3, <2>3, ReceiveStep
    <3>2. /\ cpu'[c].port = port /\ cpu'[c].at = at
          /\ \A d \in Cpu \ {c} : cpu'[d] = cpu[d]
      BY <3>1 DEF TypeInv, C!Idle
    <3>3. at = "lookup" => port # blockedPort
      BY <3>1 DEF TypeInv
    <3>4. \A d \in Cpu : cpu'[d].at \in {"lookup", "insert", "add"} => cpu'[d].port # blockedPort
      BY <3>2, <3>3 DEF BlockedInv
    <3> QED
      BY <2>1, <3>4 DEF BlockedInv
  <2> QED
    BY <2>2, <2>3
<1>4. ASSUME NEW c \in Cpu, C!CheckBlocked(c) PROVE BlockedInv'
  <2> DEFINE port == cpu[c].port
  <2>1. /\ UNCHANGED <<filter, blockedPort, counterMain, passed>>
        /\ cpu[c].at = "blocked" /\ port \in Port /\ cpu[c] \in CpuState
    BY <1>4 DEF C!CheckBlocked, TypeInv
  <2>2. counterMain \notin {"start", "configured"}
    BY <2>1 DEF BlockedInv
  <2>3. DOMAIN blocked_ports = {blockedPort} \ {C!NoPort}
    BY <2>2 DEF TypeInv, BlockedDomain
  <2>4. CASE port \in DOMAIN blocked_ports
    <3>1. /\ blocked_ports' = [blocked_ports EXCEPT ![port] = @ + 1]
          /\ dropped' = [dropped EXCEPT ![port] = @ + 1]
          /\ cpu' = [cpu EXCEPT ![c] = C!Idle]
      BY <1>4, <2>4 DEF C!CheckBlocked
    <3>2. \A d \in Cpu : cpu'[d] = IF d = c THEN C!Idle ELSE cpu[d]
      BY <3>1 DEF TypeInv
    <3>3. \A p \in Port \cap {blockedPort} :
             p \in DOMAIN blocked_ports' => blocked_ports'[p] = dropped'[p]
      BY <2>1, <2>3, <2>4, <3>1 DEF BlockedInv, TypeInv
    <3> QED
      BY <2>1, <2>2, <3>2, <3>3 DEF BlockedInv, C!Idle
  <2>5. CASE port \notin DOMAIN blocked_ports
    <3>1. UNCHANGED <<blocked_ports, dropped>> /\ cpu' = [cpu EXCEPT ![c].at = "lookup"]
      BY <1>4, <2>5 DEF C!CheckBlocked
    <3>2. /\ cpu'[c].port = port
          /\ \A d \in Cpu \ {c} : cpu'[d] = cpu[d]
      BY <2>1, <3>1 DEF TypeInv, CpuState
    <3>3. port # blockedPort
      BY <2>1, <2>3, <2>5
    <3>4. \A d \in Cpu : cpu'[d].at \in {"lookup", "insert", "add"} => cpu'[d].port # blockedPort
      BY <2>1, <3>2, <3>3 DEF BlockedInv
    <3> QED
      BY <2>1, <2>2, <3>1, <3>4 DEF BlockedInv
  <2> QED
    BY <2>4, <2>5
<1>5. ASSUME NEW c \in Cpu, C!Lookup(c) PROVE BlockedInv'
  <2>1. /\ UNCHANGED <<filter, blockedPort, counterMain, blocked_ports, dropped, passed>>
        /\ cpu[c].at = "lookup" /\ cpu[c] \in CpuState
        /\ \E at \in {"insert", "add"} :
              cpu' = [cpu EXCEPT ![c].at = at, ![c].element = port_count[cpu[c].port].element]
    BY <1>5 DEF C!Lookup, TypeInv
  <2>2. counterMain \notin {"start", "configured"} /\ cpu[c].port # blockedPort
    BY <2>1 DEF BlockedInv
  <2>3. /\ cpu'[c].port = cpu[c].port
        /\ \A d \in Cpu \ {c} : cpu'[d] = cpu[d]
    BY <2>1 DEF TypeInv, CpuState
  <2>4. \A d \in Cpu : cpu'[d].at \in {"lookup", "insert", "add"} => cpu'[d].port # blockedPort
    BY <2>2, <2>3 DEF BlockedInv
  <2> QED
    BY <2>1, <2>2, <2>4 DEF BlockedInv
<1>6. ASSUME NEW c \in Cpu, C!Add(c) \/ C!Insert(c) PROVE BlockedInv'
  BY <1>6, BlockedPass
<1>7. CASE UNCHANGED counterVars
  BY <1>7 DEF counterVars, BlockedInv
<1> QED
  BY <1>1, <1>2, <1>3, <1>4, <1>5, <1>6, <1>7 DEF Next, Counter, Socket, C!Next, vars

\* From the first packet on, what is for the blocked port is dropped, and the
\* drop counter is exact (13: main.go 45-55, xdp_count_by_port.c 86-90).
THEOREM BlockedTheorem == Spec => []BlockedIsDropped
<1>1. BlockedInv => BlockedIsDropped
  BY DEF BlockedInv, BlockedIsDropped, C!BlockedIsDropped
<1> QED
  BY TypeInit, TypeStep, BlockedInit, BlockedStep, <1>1, PTL DEF Spec

-----------------------------------------------------------------------------
(* The socket.  From Prime on a frame is with the kernel, in one of the two *)
(* rings or with the program, so many in all as there are.                  *)

LEMMA RingTypes == NumFrames \in Nat \ {0} /\ RingSize \in Nat \ {0}
  BY XdpAssumption DEF S!AfXdpAssumption

SocketTypes ==
    /\ fillProd \in Nat /\ fillCons \in Nat /\ rxProd \in Nat /\ rxCons \in Nat
    /\ lost \in Nat
    /\ \E A : descs \in Seq(A)
    /\ \E A : kernelFree \in Seq(A)

Nowhere ==
    /\ kernelFree = <<>> /\ descs = <<>>
    /\ fillProd = 0 /\ fillCons = 0 /\ rxProd = 0 /\ rxCons = 0

FramesInv ==
    /\ SocketTypes
    /\ S!Waiting \in 0..RingSize
    /\ Len(descs) <= RingSize
    /\ IF socketMain = "loop"
         THEN Len(kernelFree) + (fillProd - fillCons) + S!Waiting + Len(descs) = NumFrames
         ELSE Nowhere

\* The length of a sequence that is given place by place.
LEMMA LenOfPlaces ==
  ASSUME NEW n \in Nat, NEW s, s = [k \in 1..n |-> s[k]]
  PROVE  (\E A : s \in Seq(A)) /\ Len(s) = n
<1> DEFINE A == {s[k] : k \in 1..n}
<1>1. s \in [1..n -> A]
  OBVIOUS
<1>2. s \in Seq(A)
  BY <1>1
<1>3. DOMAIN s = 1..n
  BY <1>1
<1> HIDE DEF A
<1>4. Len(s) = n
  <2>1. Len(s) \in Nat /\ DOMAIN s = 1..Len(s)
    BY <1>2, LenProperties
  <2> QED
    BY <1>3, <2>1
<1>5. \E B : s \in Seq(B)
  <2> WITNESS A
  <2> QED
    BY <1>2
<1> QED
  BY <1>4, <1>5

LEMMA LenTypes ==
  ASSUME SocketTypes
  PROVE  /\ Len(descs) \in Nat /\ Len(kernelFree) \in Nat
         /\ DOMAIN descs = 1..Len(descs)
         /\ kernelFree # <<>> => /\ \E A : Tail(kernelFree) \in Seq(A)
                                 /\ Len(Tail(kernelFree)) = Len(kernelFree) - 1
<1>1. PICK A : descs \in Seq(A)
  BY DEF SocketTypes
<1>2. PICK B : kernelFree \in Seq(B)
  BY DEF SocketTypes
<1> QED
  BY <1>1, <1>2, LenProperties, HeadTailProperties

LEMMA FramesInit == Init => FramesInv
<1> SUFFICES ASSUME Init PROVE FramesInv
  OBVIOUS
<1>1. Nowhere /\ lost = 0 /\ socketMain = "start"
  BY DEF Init, S!Init, Nowhere
<1>2. <<>> \in Seq({}) /\ Len(<<>>) = 0
  OBVIOUS
<1>3. SocketTypes
  BY <1>1, <1>2 DEF Nowhere, SocketTypes
<1>4. S!Waiting \in 0..RingSize /\ Len(descs) <= RingSize
  BY <1>1, <1>2, RingTypes DEF Nowhere, S!Waiting
<1> QED
  BY <1>1, <1>3, <1>4 DEF FramesInv

\* A packet that comes once the rings are in use.
LEMMA FramesTaken ==
  ASSUME FramesInv, S!TakeKept \/ S!TakeFilled
  PROVE  /\ FramesInv'
         /\ lost' # lost => S!Waiting = RingSize
<1>0. SocketTypes /\ S!Waiting \in 0..RingSize
  BY DEF FramesInv
<1>1. socketMain = "loop" /\ UNCHANGED <<socketMain, rxCons, descs, fillProd>>
  <2>1. kernelFree # <<>> \/ fillCons # fillProd
    BY DEF S!TakeKept, S!TakeFilled
  <2> QED
    BY <2>1 DEF S!TakeKept, S!TakeFilled, S!Deliver, S!fillVars, FramesInv, Nowhere
<1>2. IF rxProd - rxCons < RingSize
        THEN rxProd' = rxProd + 1 /\ lost' = lost
        ELSE rxProd' = rxProd /\ lost' = lost + 1
  BY DEF S!TakeKept, S!TakeFilled, S!Deliver
<1>3. /\ rxProd' \in Nat /\ lost' \in Nat
      /\ lost' = lost <=> rxProd' = rxProd + 1
      /\ lost' # lost <=> rxProd' = rxProd
      /\ rxProd' - rxCons \in 0..RingSize
      /\ lost' # lost => rxProd - rxCons = RingSize
  BY <1>0, <1>2, RingTypes DEF SocketTypes, S!Waiting
<1>4. /\ fillCons' \in Nat
      /\ \E A : kernelFree' \in Seq(A)
      /\ lost' = lost => Len(kernelFree') - fillCons' = Len(kernelFree) - fillCons - 1
      /\ lost' # lost => Len(kernelFree') - fillCons' = Len(kernelFree) - fillCons
  <2>1. CASE S!TakeKept
    <3>1. /\ kernelFree # <<>> /\ fillCons' = fillCons
          /\ kernelFree' = IF lost' = lost THEN Tail(kernelFree) ELSE kernelFree
      BY <2>1 DEF S!TakeKept, S!fillVars
    <3>2. /\ \E A : Tail(kernelFree) \in Seq(A)
          /\ Len(Tail(kernelFree)) = Len(kernelFree) - 1 /\ Len(kernelFree) \in Nat
      BY <1>0, <3>1, LenTypes
    <3>3. fillCons \in Nat /\ \E A : kernelFree \in Seq(A)
      BY <1>0 DEF SocketTypes
    <3>4. CASE lost' = lost
      <4>1. kernelFree' = Tail(kernelFree)
        BY <3>1, <3>4
      <4> QED
        BY <3>1, <3>2, <3>3, <3>4, <4>1
    <3>5. CASE lost' # lost
      <4>1. kernelFree' = kernelFree
        BY <3>1, <3>5
      <4> QED
        BY <3>1, <3>2, <3>3, <3>5, <4>1
    <3> QED
      BY <3>4, <3>5
  <2>2. CASE S!TakeFilled
    <3> DEFINE f == fillDescs[S!Slot(fillCons)]
    <3>1. /\ kernelFree = <<>> /\ fillCons' = fillCons + 1
          /\ kernelFree' = IF lost' = lost THEN <<>> ELSE <<f>>
      BY <2>2 DEF S!TakeFilled
    <3>2. <<>> \in Seq({f}) /\ <<f>> \in Seq({f}) /\ Len(<<>>) = 0 /\ Len(<<f>>) = 1
      OBVIOUS
    <3>3. fillCons \in Nat
      BY <1>0 DEF SocketTypes
    <3> HIDE DEF f
    <3>4. CASE lost' = lost
      <4>1. kernelFree' = <<>> /\ Len(kernelFree') = 0 /\ Len(kernelFree) = 0
        BY <3>1, <3>2, <3>4
      <4> QED
        BY <3>1, <3>2, <3>3, <3>4, <4>1
    <3>5. CASE lost' # lost
      <4>1. kernelFree' = <<f>> /\ Len(kernelFree') = 1 /\ Len(kernelFree) = 0
        BY <3>1, <3>2, <3>5
      <4>2. \E A : kernelFree' \in Seq(A)
        BY <3>2, <4>1
      <4> QED
        BY <3>1, <3>3, <3>5, <4>1, <4>2
    <3> QED
      BY <3>4, <3>5
  <2> QED
    BY <2>1, <2>2
<1>5. SocketTypes'
  BY <1>0, <1>1, <1>3, <1>4 DEF SocketTypes
<1>6. Len(kernelFree') \in Nat /\ Len(kernelFree) \in Nat /\ Len(descs) \in Nat
  <2>1. PICK A : kernelFree' \in Seq(A)
    BY <1>4
  <2>2. Len(kernelFree') \in Nat
    BY <2>1, LenProperties
  <2> QED
    BY <1>0, <2>2, LenTypes
<1>7. Len(kernelFree') + (fillProd - fillCons') + (rxProd' - rxCons) + Len(descs) = NumFrames
  <2>1. Len(kernelFree) + (fillProd - fillCons) + (rxProd - rxCons) + Len(descs) = NumFrames
    BY <1>1 DEF FramesInv, S!Waiting
  <2>2. PICK fp \in Nat, fc \in Nat, rp \in Nat, rc \in Nat :
          fp = fillProd /\ fc = fillCons /\ rp = rxProd /\ rc = rxCons
    BY <1>0 DEF SocketTypes
  <2>3. PICK fcNew \in Nat, rpNew \in Nat : fcNew = fillCons' /\ rpNew = rxProd'
    BY <1>3, <1>4
  <2>4. PICK k \in Nat, kNew \in Nat, d \in Nat :
          k = Len(kernelFree) /\ kNew = Len(kernelFree') /\ d = Len(descs)
    BY <1>6
  <2>5. k + (fp - fc) + (rp - rc) + d = NumFrames
    BY <2>1, <2>2, <2>4
  <2>6. CASE lost' = lost
    <3>1. rpNew = rp + 1
      BY <1>3, <2>2, <2>3, <2>6
    <3>2. kNew - fcNew = k - fc - 1
      BY <1>4, <2>2, <2>3, <2>4, <2>6
    <3>3. kNew + (fp - fcNew) + (rpNew - rc) + d = NumFrames
      BY <2>5, <3>1, <3>2, RingTypes
    <3> QED
      BY <2>2, <2>3, <2>4, <3>3
  <2>7. CASE lost' # lost
    <3>1. rpNew = rp
      BY <1>3, <2>2, <2>3, <2>7
    <3>2. kNew - fcNew = k - fc
      BY <1>4, <2>2, <2>3, <2>4, <2>7
    <3>3. kNew + (fp - fcNew) + (rpNew - rc) + d = NumFrames
      BY <2>5, <3>1, <3>2, RingTypes
    <3> QED
      BY <2>2, <2>3, <2>4, <3>3
  <2> QED
    BY <2>6, <2>7
<1> QED
  BY <1>1, <1>3, <1>5, <1>7 DEF FramesInv, S!Waiting

LEMMA FramesStep == FramesInv /\ [Next]_vars => FramesInv'
<1> SUFFICES ASSUME FramesInv, [Next]_vars PROVE FramesInv'
  OBVIOUS
<1>0. SocketTypes
  BY DEF FramesInv
<1>1. CASE UNCHANGED socketVars
  BY <1>1 DEF socketVars, FramesInv, SocketTypes, Nowhere, S!Waiting
<1>2. CASE S!NewSocket \/ S!Register
  BY <1>2 DEF S!NewSocket, S!Register, S!Step, S!fillVars, S!rxVars, FramesInv, SocketTypes,
              Nowhere, S!Waiting
<1>3. CASE S!Prime
  <2>1. /\ socketMain = "registered" /\ socketMain' = "loop"
        /\ fillProd' = fillProd + Len([i \in 1..NumFrames |-> i - 1])
        /\ UNCHANGED <<fillCons, rxProd, rxCons, kernelFree, descs, lost>>
    BY <1>3 DEF S!Prime, S!Step, S!Fill, S!Pushed, S!rxVars
  <2>2. Len([i \in 1..NumFrames |-> i - 1]) = NumFrames
    BY RingTypes, LenOfPlaces
  <2>3. Nowhere /\ Len(<<>>) = 0
    BY <2>1 DEF FramesInv
  <2>4. fillProd' = NumFrames
    BY <2>1, <2>2, <2>3, RingTypes DEF Nowhere
  <2>5. SocketTypes'
    BY <1>0, <2>1, <2>4, RingTypes DEF SocketTypes
  <2> QED
    BY <2>1, <2>3, <2>4, <2>5, RingTypes DEF FramesInv, Nowhere, S!Waiting
<1>4. CASE S!Receive
  <2>1. /\ socketMain = "loop" /\ descs = <<>>
        /\ descs' = [k \in 1..S!Waiting |-> rxDescs[S!Slot(rxCons + k - 1)]]
        /\ rxCons' = rxCons + S!Waiting
        /\ UNCHANGED <<socketMain, fillProd, fillCons, rxProd, kernelFree, lost>>
    BY <1>4 DEF S!Receive, S!fillVars
  <2>2. S!Waiting \in Nat /\ S!Waiting <= RingSize /\ S!Waiting = rxProd - rxCons
    BY RingTypes DEF FramesInv, S!Waiting
  <2>3. (\E A : descs' \in Seq(A)) /\ Len(descs') = S!Waiting
    BY <2>1, <2>2, LenOfPlaces
  <2>4. rxCons' = rxProd /\ rxProd \in Nat /\ rxProd - rxCons' = 0
    BY <1>0, <2>1, <2>2 DEF SocketTypes
  <2>5. SocketTypes'
    BY <1>0, <2>1, <2>3, <2>4 DEF SocketTypes
  <2>6. Len(descs) = 0 /\ Len(kernelFree) \in Nat
    BY <1>0, <2>1, LenTypes
  <2>7. Len(kernelFree) + (fillProd - fillCons) + S!Waiting + Len(descs) = NumFrames
    BY <2>1 DEF FramesInv
  <2>8. Len(kernelFree) + (fillProd - fillCons) + (rxProd - rxCons') + Len(descs') = NumFrames
    BY <1>0, <2>2, <2>3, <2>4, <2>6, <2>7 DEF SocketTypes
  <2> QED
    BY <2>1, <2>2, <2>3, <2>4, <2>5, <2>8, RingTypes DEF FramesInv, S!Waiting
<1>5. CASE S!PrintNext
  BY <1>5 DEF S!PrintNext, S!fillVars, S!rxVars, FramesInv, SocketTypes, Nowhere, S!Waiting
<1>6. CASE S!Refill
  <2> DEFINE addrs == [k \in DOMAIN descs |-> descs[k].addr]
  <2>1. /\ descs # <<>> /\ descs' = <<>>
        /\ fillProd' = fillProd + Len(addrs)
        /\ UNCHANGED <<socketMain, fillCons, rxProd, rxCons, kernelFree, lost>>
    BY <1>6 DEF S!Refill, S!Fill, S!Pushed, S!rxVars
  <2>2. Len(descs) \in Nat /\ DOMAIN descs = 1..Len(descs) /\ Len(kernelFree) \in Nat
    BY <1>0, LenTypes
  <2>3. addrs = [k \in 1..Len(descs) |-> addrs[k]]
    BY <2>2
  <2>4. Len(addrs) = Len(descs)
    <3> HIDE DEF addrs
    <3> QED
      BY <2>2, <2>3, LenOfPlaces
  <2>5. socketMain = "loop"
    BY <2>1 DEF FramesInv, Nowhere
  <2>6. fillProd' = fillProd + Len(descs) /\ fillProd' \in Nat
    BY <1>0, <2>1, <2>2, <2>4 DEF SocketTypes
  <2>7. Len(descs') = 0 /\ descs' \in Seq({})
    BY <2>1
  <2>8. SocketTypes'
    BY <1>0, <2>1, <2>6, <2>7 DEF SocketTypes
  <2> HIDE DEF addrs
  <2>9. Len(kernelFree) + (fillProd' - fillCons) + (rxProd - rxCons) + Len(descs') = NumFrames
    <3>1. Len(kernelFree) + (fillProd - fillCons) + (rxProd - rxCons) + Len(descs) = NumFrames
      BY <2>5 DEF FramesInv, S!Waiting
    <3> QED
      BY <1>0, <2>2, <2>6, <2>7, <3>1 DEF SocketTypes
  <2> QED
    BY <2>1, <2>5, <2>7, <2>8, <2>9, RingTypes DEF FramesInv, S!Waiting
<1>7. CASE S!TakeKept \/ S!TakeFilled
  BY <1>7, FramesTaken
<1>8. CASE S!NoFrame
  <2>1. lost' \in Nat
    BY <1>0, <1>8 DEF S!NoFrame, SocketTypes
  <2> QED
    BY <1>8, <2>1 DEF S!NoFrame, S!fillVars, S!rxVars, FramesInv, SocketTypes, Nowhere, S!Waiting
<1> QED
  BY <1>1, <1>2, <1>3, <1>4, <1>5, <1>6, <1>7, <1>8 DEF Next, Counter, Socket, S!Next, vars

\* With two rings' worth of frames (the programs have 64) none is ever missing:
\* a packet is dropped only for a full rx ring, or between the registration of
\* the socket and the first fill (main.go 55-66 registers first).
THEOREM LostTheorem ==
  ASSUME NumFrames >= 2 * RingSize
  PROVE  Spec => LostOnlyFullOrUnprimed
<1>1. FramesInv /\ [Next]_vars =>
         [lost' # lost => socketMain = "registered" \/ rxProd - rxCons = RingSize]_(S!afxdpVars)
  <2> SUFFICES ASSUME FramesInv, [Next]_vars, lost' # lost
               PROVE  socketMain = "registered" \/ rxProd - rxCons = RingSize
    OBVIOUS
  <2>1. CASE S!TakeKept \/ S!TakeFilled
    BY <2>1, FramesTaken DEF S!Waiting
  <2>2. CASE S!NoFrame
    <3>1. /\ socketMain \in {"registered", "loop"}
          /\ kernelFree = <<>> /\ fillCons = fillProd
      BY <2>2 DEF S!NoFrame, S!Redirected
    <3>2. SocketTypes /\ S!Waiting \in 0..RingSize /\ Len(descs) <= RingSize
      BY DEF FramesInv
    <3>3. Len(descs) \in Nat /\ Len(kernelFree) = 0
      BY <3>1, <3>2, LenTypes
    <3>4. CASE socketMain = "loop"
      <4>1. Len(kernelFree) + (fillProd - fillCons) + S!Waiting + Len(descs) = NumFrames
        BY <3>4 DEF FramesInv
      <4>2. fillProd - fillCons = 0
        BY <3>1, <3>2 DEF SocketTypes
      <4>3. S!Waiting = RingSize
        BY <3>2, <3>3, <4>1, <4>2, RingTypes
      <4> QED
        BY <4>3 DEF S!Waiting
    <3> QED
      BY <3>1, <3>4
  <2>3. CASE UNCHANGED lost
    BY <2>3
  <2> QED
    BY <2>1, <2>2, <2>3 DEF Next, Counter, Socket, S!Next, vars, socketVars, S!NewSocket, S!Register,
       S!Prime, S!Step, S!Receive, S!PrintNext, S!Refill
<1> QED
  BY <1>1, FramesInit, FramesStep, PTL DEF Spec, LostOnlyFullOrUnprimed, S!LostOnlyFullOrUnprimed

-----------------------------------------------------------------------------
(* Slots of a ring.                                                        *)

LEMMA QuotientRemainder ==
  ASSUME NEW R \in Nat \ {0}, NEW x \in Nat
  PROVE  /\ x % R \in 0..(R - 1)
         /\ \E q \in Nat : x = q * R + (x % R)
<1>1. x = (x \div R) * R + (x % R) /\ x \div R \in Nat /\ x % R \in 0..(R - 1)
  OBVIOUS
<1> QED
  BY <1>1

LEMMA RemainderOf ==
  ASSUME NEW R \in Nat \ {0}, NEW q \in Nat, NEW r \in 0..(R - 1)
  PROVE  (q * R + r) % R = r
  OBVIOUS

LEMMA SlotsApart ==
  ASSUME NEW R \in Nat \ {0}, NEW x \in Nat, NEW y \in Nat, x < y, x % R = y % R
  PROVE  y >= x + R
<1>1. PICK p \in Nat : x = p * R + (x % R)
  BY QuotientRemainder
<1>2. PICK q \in Nat : y = q * R + (y % R)
  BY QuotientRemainder
<1>3. PICK r \in Nat : r = x % R /\ r = y % R
  BY QuotientRemainder
<1>4. x = p * R + r /\ y = q * R + r
  BY <1>1, <1>2, <1>3
<1>5. p < q
  <2> SUFFICES ASSUME q <= p PROVE FALSE
    OBVIOUS
  <2>1. PICK d \in Nat : p = q + d
    BY p - q \in Nat
  <2>2. p * R = q * R + d * R /\ d * R \in Nat
    BY <2>1
  <2> QED
    BY <1>4, <2>2
<1>6. PICK d \in Nat : q = p + 1 + d
  BY <1>5, q - p - 1 \in Nat
<1>7. q * R = p * R + R + d * R /\ d * R \in Nat /\ p * R \in Nat
  BY <1>6
<1> QED
  BY <1>4, <1>7

LEMMA SlotPeriod ==
  ASSUME NEW R \in Nat \ {0}, NEW x \in Nat, NEW y \in Nat, y % R = 0
  PROVE  (y + x) % R = x % R
<1>1. PICK p \in Nat : x = p * R + (x % R)
  BY QuotientRemainder
<1>2. PICK q \in Nat : y = q * R + (y % R)
  BY QuotientRemainder
<1>3. PICK r \in 0..(R - 1) : r = x % R
  BY QuotientRemainder
<1>4. q + p \in Nat /\ (q + p) * R = q * R + p * R /\ q * R \in Nat /\ p * R \in Nat
  OBVIOUS
<1>5. y = q * R /\ x = p * R + r
  BY <1>1, <1>2, <1>3, <1>4
<1>6. y + x = (q + p) * R + r
  BY <1>4, <1>5
<1>7. ((q + p) * R + r) % R = r
  BY <1>4, RemainderOf
<1> QED
  BY <1>3, <1>6, <1>7

\* The rings divide the frames: there is a ring's worth of them at least.
LEMMA FramesEnough ==
  NumFrames % RingSize = 0 /\ NumFrames >= RingSize /\ NumFrames - RingSize \in Nat
<1>1. NumFrames % RingSize = 0
  BY XdpAssumption DEF S!AfXdpAssumption
<1>2. 0 % RingSize = 0
  <2>1. (0 * RingSize + 0) % RingSize = 0
    BY RingTypes, RemainderOf
  <2> QED
    BY <2>1, RingTypes
<1>3. NumFrames >= 0 + RingSize
  BY <1>1, <1>2, RingTypes, SlotsApart
<1> QED
  BY <1>1, <1>3, RingTypes

-----------------------------------------------------------------------------
(* Where the packets lie.  The frames go round in one order, the one the    *)
(* last ring's worth of them was primed in, so that the k-th packet         *)
(* announced, counted from 0, always lies in the same one.                  *)

Base == NumFrames - RingSize
Held(k) == Base + (k % RingSize)
Described(k) == [addr |-> Held(k), packet |-> delivered[k + 1]]

\* A frame holds its packet, or one that came a ring's worth later.
Intact(content, packet) == content = packet \/ content >= packet + RingSize

LEMMA HeldType == \A k \in Nat : Held(k) \in S!Frame /\ k % RingSize \in 0..(RingSize - 1)
<1> SUFFICES ASSUME NEW k \in Nat
             PROVE  Held(k) \in S!Frame /\ k % RingSize \in 0..(RingSize - 1)
  OBVIOUS
<1>1. k % RingSize \in 0..(RingSize - 1)
  BY RingTypes, QuotientRemainder
<1> QED
  BY <1>1, RingTypes, FramesEnough DEF Held, Base, S!Frame

LEMMA HeldApart ==
  ASSUME NEW k \in Nat, NEW l \in Nat, k < l, Held(k) = Held(l) \/ S!Slot(k) = S!Slot(l)
  PROVE  l >= k + RingSize
<1>1. PICK x \in Nat, y \in Nat : x = k % RingSize /\ y = l % RingSize
  BY HeldType
<1>2. Held(k) = Base + x /\ Held(l) = Base + y /\ Base \in Nat
  BY <1>1, FramesEnough DEF Held, Base
<1>3. k % RingSize = l % RingSize
  BY <1>1, <1>2 DEF S!Slot
<1> QED
  BY <1>3, RingTypes, SlotsApart

ContentTypes ==
    /\ socketMain \in {"start", "bound", "registered", "loop", "exited"}
    /\ DOMAIN fillDescs = 0..(RingSize - 1)
    /\ rxDescs \in [0..(RingSize - 1) -> [addr : S!Frame, packet : Nat]]
    /\ frames \in [S!Frame -> Nat]
    /\ arrivals \in Nat /\ next \in Nat \ {0}
    /\ delivered \in Seq(Nat) /\ shown \in Seq(Nat \X Nat)

Primed ==
    /\ fillDescs = [i \in 0..(RingSize - 1) |-> Base + i]
    /\ fillProd = NumFrames + rxCons - Len(descs)
    /\ kernelFree # <<>> => kernelFree = <<Held(rxProd)>>

Announced ==
    /\ Len(delivered) = rxProd
    /\ \A k \in rxCons..(rxProd - 1) : rxDescs[S!Slot(k)] = Described(k)
    /\ \A i, j \in 1..rxProd : i <= j => delivered[j] >= delivered[i] + (j - i)
    /\ \A j \in 1..rxProd : delivered[j] <= arrivals

Taken ==
    /\ Len(descs) <= rxCons
    /\ \A k \in 1..Len(descs) : descs[k] = Described(rxCons - Len(descs) + k - 1)

Printed ==
    /\ Len(shown) = IF next <= Len(descs) THEN rxCons - Len(descs) + next - 1 ELSE rxCons
    /\ \A k \in 1..Len(shown) : shown[k][1] = delivered[k] /\ Intact(shown[k][2], shown[k][1])
    /\ \A k \in Len(shown)..(rxProd - 1) : Intact(frames[Held(k)], delivered[k + 1])

SocketInv ==
    /\ FramesInv
    /\ ContentTypes
    /\ socketMain = "loop" => Primed
    /\ Announced /\ Taken /\ Printed

LEMMA SocketInit == Init => SocketInv
<1> SUFFICES ASSUME Init PROVE SocketInv
  OBVIOUS
<1>1. FramesInv
  BY FramesInit
<1>2. ContentTypes
  <2>1. S!NoDesc \in [addr : S!Frame, packet : Nat]
    BY RingTypes DEF S!NoDesc, S!Frame
  <2>2. DOMAIN fillDescs = 0..(RingSize - 1)
    BY DEF Init, S!Init
  <2>3. rxDescs \in [0..(RingSize - 1) -> [addr : S!Frame, packet : Nat]]
    BY <2>1 DEF Init, S!Init
  <2> QED
    BY <2>2, <2>3 DEF Init, S!Init, ContentTypes
<1>3. /\ rxProd = 0 /\ rxCons = 0 /\ next = 1 /\ socketMain = "start"
      /\ Len(descs) = 0 /\ Len(shown) = 0 /\ Len(delivered) = 0
  BY DEF Init, S!Init
<1> QED
  BY <1>1, <1>2, <1>3 DEF SocketInv, Announced, Taken, Printed

\* The frame the kernel puts the next packet in, kept or from the fill ring.
LEMMA NextHeld ==
  ASSUME SocketInv, socketMain = "loop"
  PROVE  /\ fillCons = rxProd + Len(kernelFree)
         /\ kernelFree = <<>> => fillDescs[S!Slot(fillCons)] = Held(rxProd)
<1>1. SocketTypes /\ Primed /\ rxProd \in Nat /\ rxCons \in Nat
  BY DEF SocketInv, FramesInv, SocketTypes
<1>2. Len(descs) \in Nat /\ Len(kernelFree) \in Nat
  BY <1>1, LenTypes
<1>3. Len(kernelFree) + (fillProd - fillCons) + (rxProd - rxCons) + Len(descs) = NumFrames
  BY DEF SocketInv, FramesInv, S!Waiting
<1>4. fillProd = NumFrames + rxCons - Len(descs)
  BY <1>1 DEF Primed
<1>5. fillCons = rxProd + Len(kernelFree)
  <2>1. PICK f \in Nat, k \in Nat, d \in Nat :
           f = fillCons /\ k = Len(kernelFree) /\ d = Len(descs)
    BY <1>1, <1>2 DEF SocketTypes
  <2>2. k + ((NumFrames + rxCons - d) - f) + (rxProd - rxCons) + d = NumFrames
    BY <1>3, <1>4, <2>1
  <2>3. f = rxProd + k
    BY <1>1, <2>2, RingTypes
  <2> QED
    BY <2>1, <2>3
<1>6. ASSUME kernelFree = <<>> PROVE fillDescs[S!Slot(fillCons)] = Held(rxProd)
  <2>1. Len(kernelFree) = 0
    BY <1>6
  <2>2. fillCons = rxProd
    BY <1>1, <1>5, <2>1
  <2>3. rxProd % RingSize \in 0..(RingSize - 1)
    BY <1>1, HeldType
  <2> QED
    BY <1>1, <2>2, <2>3 DEF Primed, S!Slot, Held
<1> QED
  BY <1>5, <1>6

\* The filled slots stay as they are: each frame goes back to the slot it came
\* from.
LEMMA PrimeFills ==
  ASSUME SocketInv, S!Prime
  PROVE  fillDescs' = [i \in 0..(RingSize - 1) |-> Base + i]
<1> DEFINE addrs == [k \in 1..NumFrames |-> k - 1]
           Writers(i) == {k \in DOMAIN addrs : S!FillSlot(fillProd + k - 1) = i}
<1>1. fillProd = 0 /\ DOMAIN fillDescs = 0..(RingSize - 1)
  BY DEF SocketInv, FramesInv, Nowhere, S!Prime, S!Step, ContentTypes
<1>2. fillDescs' = [i \in DOMAIN fillDescs |->
         IF Writers(i) = {} THEN fillDescs[i]
         ELSE addrs[CHOOSE k \in Writers(i) : \A l \in Writers(i) : l <= k]]
  BY DEF S!Prime, S!Fill
<1>3. ASSUME NEW i \in 0..(RingSize - 1)
      PROVE  /\ Base + i + 1 \in Writers(i)
             /\ \A l \in Writers(i) : l <= Base + i + 1
             /\ addrs[Base + i + 1] = Base + i
  <2>1. Base \in Nat /\ Base + RingSize = NumFrames
    BY FramesEnough, RingTypes DEF Base
  <2>2. Base % RingSize = 0
    <3>1. (1 * RingSize + 0) % RingSize = 0
      BY RingTypes, RemainderOf
    <3>2. 1 * RingSize + 0 = RingSize
      BY RingTypes
    <3>3. (RingSize + Base) % RingSize = Base % RingSize
      BY <2>1, <3>1, <3>2, RingTypes, SlotPeriod
    <3>4. RingSize + Base = NumFrames
      BY <2>1, RingTypes
    <3> QED
      BY <3>3, <3>4, FramesEnough
  <2>3. i % RingSize = i
    <3>1. (0 * RingSize + i) % RingSize = i
      BY RingTypes, RemainderOf
    <3>2. 0 * RingSize + i = i
      BY RingTypes
    <3> QED
      BY <3>1, <3>2
  <2>4. (Base + i) % RingSize = i
    BY <2>1, <2>2, <2>3, RingTypes, SlotPeriod
  <2>5. Base + i + 1 \in DOMAIN addrs /\ addrs[Base + i + 1] = Base + i
    BY <2>1, RingTypes
  <2>6. 0 + (Base + i + 1) - 1 = Base + i
    BY <2>1
  <2>7. Base + i + 1 \in Writers(i)
    BY <1>1, <2>4, <2>5, <2>6 DEF S!FillSlot, S!Slot
  <2>8. ASSUME NEW l \in Writers(i), ~ (l <= Base + i + 1) PROVE FALSE
    <3>1. l \in 1..NumFrames /\ (0 + l - 1) % RingSize = i
      BY <1>1, <2>8 DEF S!FillSlot, S!Slot
    <3>2. PICK m \in Nat : m = l - 1
      BY <3>1
    <3>3. m % RingSize = i /\ Base + i < m /\ m < NumFrames
      BY <2>1, <2>8, <3>1, <3>2, RingTypes
    <3>4. PICK x \in Nat : x = Base + i
      BY <2>1
    <3>5. x % RingSize = m % RingSize /\ x < m
      BY <2>4, <3>3, <3>4
    <3>6. m >= x + RingSize
      BY <3>5, RingTypes, SlotsApart
    <3> QED
      BY <2>1, <3>3, <3>4, <3>6, RingTypes
  <2> QED
    BY <2>5, <2>7, <2>8
<1>4. ASSUME NEW i \in 0..(RingSize - 1)
      PROVE  (CHOOSE k \in Writers(i) : \A l \in Writers(i) : l <= k) = Base + i + 1
  <2> DEFINE c == CHOOSE k \in Writers(i) : \A l \in Writers(i) : l <= k
  <2>1. c \in Writers(i) /\ \A l \in Writers(i) : l <= c
    BY <1>3
  <2>5. c \in Nat
    BY <2>1
  <2> HIDE DEF c, Writers
  <2>2. c <= Base + i + 1 /\ Base + i + 1 <= c
    BY <1>3, <2>1
  <2>3. Base + i + 1 \in Nat
    BY FramesEnough DEF Base
  <2>4. c = Base + i + 1
    BY <2>2, <2>3, <2>5
  <2> QED
    BY <2>4 DEF c
<1>5. ASSUME NEW i \in 0..(RingSize - 1)
      PROVE  (IF Writers(i) = {} THEN fillDescs[i]
              ELSE addrs[CHOOSE k \in Writers(i) : \A l \in Writers(i) : l <= k]) = Base + i
  BY <1>3, <1>4
<1> HIDE DEF addrs, Writers
<1> QED
  BY <1>1, <1>2, <1>5

LEMMA RefillKeeps ==
  ASSUME SocketInv, S!Refill
  PROVE  socketMain = "loop" /\ fillDescs' = fillDescs /\ fillProd' = fillProd + Len(descs)
<1> DEFINE addrs == [k \in DOMAIN descs |-> descs[k].addr]
           Writers(i) == {k \in DOMAIN addrs : S!FillSlot(fillProd + k - 1) = i}
<1>0. SocketTypes /\ rxProd \in Nat /\ rxCons \in Nat
  BY DEF SocketInv, FramesInv, SocketTypes
<1>1. socketMain = "loop"
  BY DEF S!Refill, SocketInv, FramesInv, Nowhere
<1>2. fillDescs' = [i \in DOMAIN fillDescs |->
         IF Writers(i) = {} THEN fillDescs[i]
         ELSE addrs[CHOOSE k \in Writers(i) : \A l \in Writers(i) : l <= k]]
  BY DEF S!Refill, S!Fill
<1>3. PICK d \in Nat : d = Len(descs) /\ DOMAIN descs = 1..d /\ d <= RingSize /\ d <= rxCons
  BY <1>0, LenTypes DEF SocketInv, FramesInv, Taken
<1>4. fillProd = NumFrames + (rxCons - d) /\ rxCons - d \in Nat
  BY <1>0, <1>1, <1>3, RingTypes DEF SocketInv, Primed
<1>5. ASSUME NEW k \in 1..d
      PROVE  /\ S!FillSlot(fillProd + k - 1) = ((rxCons - d) + (k - 1)) % RingSize
             /\ addrs[k] = Base + S!FillSlot(fillProd + k - 1)
  <2>1. PICK x \in Nat : x = (rxCons - d) + (k - 1)
    BY <1>4
  <2>2. fillProd + k - 1 = NumFrames + x
    BY <1>4, <2>1, RingTypes
  <2>3. (NumFrames + x) % RingSize = x % RingSize
    BY RingTypes, FramesEnough, SlotPeriod
  <2>4. rxCons - d + k - 1 = x
    BY <1>0, <2>1
  <2>5. descs[k] = Described(x)
    BY <1>3, <2>4 DEF SocketInv, Taken
  <2>6. addrs[k] = Held(x)
    BY <1>3, <2>5 DEF Described
  <2> HIDE DEF addrs
  <2> QED
    BY <2>1, <2>2, <2>3, <2>6 DEF Held, S!FillSlot, S!Slot
<1>6. ASSUME NEW i \in DOMAIN fillDescs, NEW k \in Writers(i)
      PROVE  addrs[k] = fillDescs[i]
  <2>1. k \in 1..d /\ S!FillSlot(fillProd + k - 1) = i
    BY <1>3
  <2>2. addrs[k] = Base + i
    BY <1>5, <2>1
  <2> QED
    BY <1>1, <2>2 DEF SocketInv, Primed
<1>7. ASSUME NEW i \in DOMAIN fillDescs, NEW k \in Writers(i), NEW l \in Writers(i), k < l
      PROVE  FALSE
  <2>1. k \in 1..d /\ l \in 1..d /\ S!FillSlot(fillProd + k - 1) = S!FillSlot(fillProd + l - 1)
    BY <1>3
  <2>2. PICK x \in Nat, y \in Nat : x = (rxCons - d) + (k - 1) /\ y = (rxCons - d) + (l - 1)
    BY <1>4, <2>1
  <2>3. x % RingSize = y % RingSize
    BY <1>5, <2>1, <2>2
  <2>4. x < y /\ y < x + RingSize
    BY <1>0, <1>3, <1>7, <2>1, <2>2, RingTypes
  <2>5. y >= x + RingSize
    BY <2>3, <2>4, RingTypes, SlotsApart
  <2> QED
    BY <2>4, <2>5, RingTypes
<1>8. ASSUME NEW i \in DOMAIN fillDescs, Writers(i) # {}
      PROVE  (CHOOSE k \in Writers(i) : \A l \in Writers(i) : l <= k) \in Writers(i)
  <2>1. PICK k \in Writers(i) : TRUE
    BY <1>8
  <2>2. \A l \in Writers(i) : l \in Nat
    BY <1>3
  <2>3. \A l \in Writers(i) : l <= k
    BY <1>7, <2>1, <2>2
  <2> QED
    BY <2>3
<1>9. Len(addrs) = d
  <2>1. addrs = [k \in 1..d |-> addrs[k]]
    BY <1>3
  <2> HIDE DEF addrs
  <2> QED
    BY <2>1, LenOfPlaces
<1>10. fillProd' = fillProd + d
  BY <1>9 DEF S!Refill, S!Fill, S!Pushed
<1> HIDE DEF addrs, Writers
<1>11. ASSUME NEW i \in DOMAIN fillDescs
       PROVE  (IF Writers(i) = {} THEN fillDescs[i]
               ELSE addrs[CHOOSE k \in Writers(i) : \A l \in Writers(i) : l <= k]) = fillDescs[i]
  BY <1>6, <1>8
<1>12. fillDescs = [i \in DOMAIN fillDescs |-> fillDescs[i]]
  BY <1>1 DEF SocketInv, Primed
<1> QED
  BY <1>1, <1>2, <1>3, <1>10, <1>11, <1>12

LEMMA OrderPrime == SocketInv /\ FramesInv' /\ S!Prime => SocketInv'
<1> SUFFICES ASSUME SocketInv, FramesInv', S!Prime PROVE SocketInv'
  OBVIOUS
<1>1. FramesInv'
  OBVIOUS
<1>2. /\ UNCHANGED <<rxDescs, rxProd, rxCons, kernelFree, frames, descs, next, arrivals,
                     delivered, shown>>
      /\ socketMain' = "loop" /\ Nowhere
      /\ fillDescs' = [i \in 0..(RingSize - 1) |-> Base + i]
  BY PrimeFills DEF S!Prime, S!Step, S!rxVars, SocketInv, FramesInv
<1>3. Announced' /\ Taken' /\ Printed'
  BY <1>2 DEF SocketInv, Announced, Taken, Printed, Described
<1>4. fillProd' = NumFrames
  <2>1. fillProd' = fillProd + Len([i \in 1..NumFrames |-> i - 1])
    BY DEF S!Prime, S!Fill, S!Pushed
  <2>2. Len([i \in 1..NumFrames |-> i - 1]) = NumFrames
    BY RingTypes, LenOfPlaces
  <2> QED
    BY <1>2, <2>1, <2>2, RingTypes DEF Nowhere
<1>5. Primed'
  <2>1. rxCons' = 0 /\ Len(descs') = 0 /\ kernelFree' = <<>>
    BY <1>2 DEF Nowhere
  <2> QED
    BY <1>2, <1>4, <2>1, RingTypes DEF Primed
<1>6. ContentTypes'
  BY <1>2 DEF SocketInv, ContentTypes
<1> QED
  BY <1>1, <1>3, <1>5, <1>6 DEF SocketInv

LEMMA OrderReceive == SocketInv /\ FramesInv' /\ S!Receive => SocketInv'
<1> SUFFICES ASSUME SocketInv, FramesInv', S!Receive PROVE SocketInv'
  OBVIOUS
<1>1. FramesInv'
  OBVIOUS
<1>2. /\ UNCHANGED <<socketMain, fillDescs, fillProd, rxDescs, rxProd, kernelFree, frames, arrivals,
                     delivered, shown>>
      /\ socketMain = "loop" /\ Len(descs) = 0 /\ next' = 1
  BY DEF S!Receive, S!fillVars
<1>3. PICK rp \in Nat, rc \in Nat, w \in Nat :
        rp = rxProd /\ rc = rxCons /\ w = S!Waiting /\ w > 0 /\ rp = rc + w
  BY RingTypes DEF S!Receive, SocketInv, FramesInv, SocketTypes, S!Waiting
<1>4. rxCons' = rp /\ descs' = [k \in 1..w |-> rxDescs[S!Slot(rc + k - 1)]]
  BY <1>3 DEF S!Receive
<1>5. Len(descs') = w
  BY <1>4, LenOfPlaces
<1>6. Primed'
  BY <1>2, <1>3, <1>4, <1>5, RingTypes DEF SocketInv, Primed
<1>7. Announced'
  BY <1>2, <1>3, <1>4 DEF SocketInv, Announced
<1>8. Taken'
  <2>1. ASSUME NEW k \in 1..w PROVE descs'[k] = Described(rp - w + k - 1)'
    <3>1. PICK x \in Nat : x = rc + k - 1 /\ x = rp - w + k - 1 /\ x \in rc..(rp - 1)
      BY <1>3
    <3>2. rxDescs[S!Slot(x)] = Described(x)
      BY <1>3, <3>1 DEF SocketInv, Announced
    <3> QED
      BY <1>2, <1>4, <3>1, <3>2 DEF Described
  <2> QED
    BY <1>3, <1>4, <1>5, <2>1 DEF Taken
<1>9. Printed'
  <2>1. Len(shown) = rc
    BY <1>2, <1>3 DEF SocketInv, Printed, ContentTypes
  <2> QED
    BY <1>2, <1>3, <1>4, <1>5, <2>1 DEF SocketInv, Printed
<1>10. ContentTypes'
  BY <1>2 DEF SocketInv, ContentTypes
<1> QED
  BY <1>1, <1>6, <1>7, <1>8, <1>9, <1>10 DEF SocketInv

LEMMA OrderPrint == SocketInv /\ FramesInv' /\ S!PrintNext => SocketInv'
<1> SUFFICES ASSUME SocketInv, FramesInv', S!PrintNext PROVE SocketInv'
  OBVIOUS
<1>1. FramesInv'
  OBVIOUS
<1>2. /\ UNCHANGED <<socketMain, fillDescs, fillProd, rxDescs, rxProd, rxCons, kernelFree,
                     frames, descs, arrivals, delivered>>
      /\ next' = next + 1 /\ next <= Len(descs)
      /\ shown' = Append(shown, <<descs[next].packet, frames[descs[next].addr]>>)
  BY DEF S!PrintNext, S!fillVars, S!rxVars
<1>3. PICK rp \in Nat, rc \in Nat, d \in Nat, n \in Nat \ {0} :
        /\ rp = rxProd /\ rc = rxCons /\ d = Len(descs) /\ n = next
        /\ rc <= rp /\ d <= rc /\ n <= d
  <2>1. SocketTypes /\ rxProd \in Nat /\ rxCons \in Nat /\ next \in Nat \ {0}
    BY DEF SocketInv, FramesInv, SocketTypes, ContentTypes
  <2>2. Len(descs) \in Nat /\ Len(descs) <= rxCons
    BY <2>1, LenTypes DEF SocketInv, Taken
  <2>3. rxCons <= rxProd
    BY <2>1, RingTypes DEF SocketInv, FramesInv, S!Waiting
  <2> QED
    BY <1>2, <2>1, <2>2, <2>3
<1>4. PICK p \in Nat : p = Len(shown) /\ p = rc - d + n - 1 /\ p < rc
  <2>1. Printed /\ next <= Len(descs)
    BY <1>2 DEF SocketInv
  <2>2. Len(shown) = rxCons - Len(descs) + next - 1
    BY <2>1 DEF Printed
  <2>3. Len(shown) = rc - d + n - 1
    BY <1>3, <2>2
  <2>4. rc - d + n - 1 \in Nat /\ rc - d + n - 1 < rc
    BY <1>3
  <2> QED
    BY <2>3, <2>4
<1>5. descs[n] = Described(p)
  BY <1>3, <1>4 DEF SocketInv, Taken
<1>6. delivered \in Seq(Nat) /\ Len(delivered) = rp /\ shown \in Seq(Nat \X Nat)
  BY <1>3 DEF SocketInv, Announced, ContentTypes
<1>7. delivered[p + 1] \in Nat /\ frames[Held(p)] \in Nat
  <2>1. p + 1 \in 1..rp
    BY <1>3, <1>4
  <2>2. Held(p) \in S!Frame
    BY HeldType
  <2> QED
    BY <1>6, <2>1, <2>2, ElementOfSeq DEF SocketInv, ContentTypes
<1> DEFINE s == <<delivered[p + 1], frames[Held(p)]>>
<1>8. shown' = Append(shown, s) /\ s \in Nat \X Nat
  BY <1>2, <1>3, <1>5, <1>7 DEF Described
<1>9. Intact(s[2], s[1])
  <2>1. p \in Len(shown)..(rxProd - 1)
    BY <1>3, <1>4
  <2> QED
    BY <2>1 DEF SocketInv, Printed
<1>10. s[1] = delivered[p + 1]
  OBVIOUS
<1> HIDE DEF s
<1>11. /\ shown' \in Seq(Nat \X Nat) /\ Len(shown') = p + 1
       /\ \A i \in 1..p : shown'[i] = shown[i]
       /\ shown'[p + 1] = s
  <2>1. /\ Append(shown, s) \in Seq(Nat \X Nat) /\ Len(Append(shown, s)) = Len(shown) + 1
        /\ \A i \in 1..Len(shown) : Append(shown, s)[i] = shown[i]
        /\ Append(shown, s)[Len(shown) + 1] = s
    BY <1>6, <1>8, AppendProperties
  <2> QED
    BY <1>4, <1>8, <2>1
<1>12. ContentTypes'
  BY <1>2, <1>11 DEF SocketInv, ContentTypes
<1>13. Printed'
  <2>1. p + 1 = IF n + 1 <= d THEN rc - d + (n + 1) - 1 ELSE rc
    BY <1>3, <1>4
  <2>2. ASSUME NEW k \in 1..(p + 1)
        PROVE  shown'[k][1] = delivered[k] /\ Intact(shown'[k][2], shown'[k][1])
    <3>1. CASE k = p + 1
      BY <1>9, <1>10, <1>11, <3>1
    <3>2. CASE k # p + 1
      <4>1. k \in 1..p
        BY <1>4, <3>2
      <4> QED
        BY <1>4, <1>11, <4>1 DEF SocketInv, Printed
    <3> QED
      BY <3>1, <3>2
  <2>3. \A k \in (p + 1)..(rp - 1) : Intact(frames[Held(k)], delivered[k + 1])
    <3>1. \A k \in (p + 1)..(rp - 1) : k \in p..(rp - 1)
      BY <1>3, <1>4
    <3> QED
      BY <1>3, <1>4, <3>1 DEF SocketInv, Printed
  <2> QED
    BY <1>2, <1>3, <1>11, <2>1, <2>2, <2>3 DEF Printed
<1>14. (socketMain' = "loop" => Primed') /\ Announced' /\ Taken'
  BY <1>2 DEF SocketInv, Primed, Announced, Taken, Described
<1> QED
  BY <1>1, <1>12, <1>13, <1>14 DEF SocketInv

LEMMA OrderRefill == SocketInv /\ FramesInv' /\ S!Refill => SocketInv'
<1> SUFFICES ASSUME SocketInv, FramesInv', S!Refill PROVE SocketInv'
  OBVIOUS
<1>1. FramesInv'
  OBVIOUS
<1>2. /\ UNCHANGED <<socketMain, rxDescs, rxProd, rxCons, kernelFree, frames, next, arrivals,
                     delivered, shown>>
      /\ descs' = <<>> /\ next > Len(descs)
      /\ fillDescs' = fillDescs /\ fillProd' = fillProd + Len(descs)
      /\ socketMain = "loop"
  BY RefillKeeps DEF S!Refill, S!rxVars
<1>3. PICK rc \in Nat, d \in Nat, n \in Nat \ {0} : rc = rxCons /\ d = Len(descs) /\ n = next /\ n > d
  BY <1>2, LenTypes DEF SocketInv, FramesInv, SocketTypes, ContentTypes
<1>4. Len(descs') = 0 /\ Len(shown) = rc
  BY <1>2, <1>3 DEF SocketInv, Printed
<1>5. Primed'
  <2>1. fillProd = NumFrames + rc - d
    BY <1>2, <1>3 DEF SocketInv, Primed
  <2>2. fillProd' = NumFrames + rc - 0
    BY <1>2, <1>3, <2>1, RingTypes
  <2> QED
    BY <1>2, <1>3, <1>4, <2>2 DEF SocketInv, Primed
<1>6. Announced' /\ Taken'
  BY <1>2, <1>3, <1>4 DEF SocketInv, Announced, Taken, Described
<1>7. Printed'
  BY <1>2, <1>3, <1>4 DEF SocketInv, Printed
<1>8. ContentTypes'
  BY <1>2 DEF SocketInv, ContentTypes
<1> QED
  BY <1>1, <1>5, <1>6, <1>7, <1>8 DEF SocketInv

\* A packet that comes: the frame it is copied to held one that was announced a
\* ring's worth of packets before, if any.
LEMMA OrderDeliver ==
  ASSUME SocketInv, FramesInv', socketMain = "loop",
         arrivals' = arrivals + 1, S!Deliver(Held(rxProd)),
         UNCHANGED <<fillDescs, fillProd>>,
         kernelFree' = IF lost' = lost THEN <<>> ELSE <<Held(rxProd)>>
  PROVE  SocketInv'
<1> DEFINE new == [addr |-> Held(rxProd), packet |-> arrivals']
<1>1. PICK rp \in Nat, rc \in Nat, now \in Nat, p \in Nat :
        rp = rxProd /\ rc = rxCons /\ now = arrivals /\ p = Len(shown) /\ rc <= rp
  <2>1. SocketTypes /\ rxProd \in Nat /\ rxCons \in Nat /\ arrivals \in Nat /\ shown \in Seq(Nat \X Nat)
    BY DEF SocketInv, FramesInv, SocketTypes, ContentTypes
  <2>2. rxCons <= rxProd
    BY <2>1, RingTypes DEF SocketInv, FramesInv, S!Waiting
  <2>3. Len(shown) \in Nat
    BY <2>1, LenProperties
  <2> QED
    BY <2>1, <2>2, <2>3
<1>2. /\ UNCHANGED <<socketMain, rxCons, descs, next, shown, fillDescs, fillProd>>
      /\ frames' = [frames EXCEPT ![Held(rp)] = now + 1]
      /\ \/ /\ rp - rc < RingSize
            /\ rxDescs' = [rxDescs EXCEPT ![S!Slot(rp)] = new]
            /\ rxProd' = rp + 1 /\ delivered' = Append(delivered, now + 1) /\ lost' = lost
         \/ UNCHANGED <<rxDescs, rxProd, delivered>> /\ lost' = lost + 1
  BY <1>1 DEF S!Deliver
<1>3. lost' # lost => rxProd' = rp
  BY <1>1, <1>2
<1>4. arrivals' = now + 1 /\ new = [addr |-> Held(rp), packet |-> now + 1]
  BY <1>1
<1> HIDE DEF new
<1>5. Held(rp) \in S!Frame /\ S!Slot(rp) \in 0..(RingSize - 1)
  BY HeldType DEF S!Slot
<1>6. delivered \in Seq(Nat) /\ Len(delivered) = rp
  BY <1>1 DEF SocketInv, ContentTypes, Announced
<1>7. \A j \in 1..rp : delivered[j] \in Nat /\ delivered[j] <= now
  BY <1>1, <1>6, ElementOfSeq DEF SocketInv, Announced
<1>8. \A j \in 1..rp : now + 1 >= delivered[j] + (rp + 1 - j)
  <2> SUFFICES ASSUME NEW j \in 1..rp PROVE now + 1 >= delivered[j] + (rp + 1 - j)
    OBVIOUS
  <2>1. delivered[rp] >= delivered[j] + (rp - j) /\ delivered[rp] <= now
    BY <1>1, <1>7 DEF SocketInv, Announced
  <2>2. PICK x \in Nat, y \in Nat : x = delivered[j] /\ y = delivered[rp]
    BY <1>7
  <2> QED
    BY <2>1, <2>2
<1>9. ContentTypes'
  <2>1. new \in [addr : S!Frame, packet : Nat]
    BY <1>4, <1>5
  <2>2. rxDescs' \in [0..(RingSize - 1) -> [addr : S!Frame, packet : Nat]]
    BY <1>2, <1>5, <2>1 DEF SocketInv, ContentTypes
  <2>3. delivered' \in Seq(Nat)
    <3>1. now + 1 \in Nat
      OBVIOUS
    <3>2. Append(delivered, now + 1) \in Seq(Nat)
      BY <1>6, <3>1, AppendProperties
    <3> QED
      BY <1>2, <1>6, <3>2
  <2>4. frames' \in [S!Frame -> Nat] /\ arrivals' \in Nat
    BY <1>2, <1>4, <1>5 DEF SocketInv, ContentTypes
  <2> QED
    BY <1>2, <2>2, <2>3, <2>4 DEF SocketInv, ContentTypes
<1>10. Primed'
  <2>1. kernelFree' # <<>> => kernelFree' = <<Held(rxProd')>>
    BY <1>1, <1>3
  <2> QED
    BY <1>2, <2>1 DEF SocketInv, Primed
<1>11. /\ rxProd' \in {rp, rp + 1} /\ Len(delivered') = rxProd'
       /\ \A j \in 1..rp : delivered'[j] = delivered[j]
       /\ rxProd' = rp + 1 => delivered'[rp + 1] = now + 1
  <2>1. /\ Len(Append(delivered, now + 1)) = rp + 1
        /\ \A j \in 1..rp : Append(delivered, now + 1)[j] = delivered[j]
        /\ Append(delivered, now + 1)[rp + 1] = now + 1
    <3> DEFINE e == now + 1
    <3>1. e \in Nat
      OBVIOUS
    <3> HIDE DEF e
    <3>2. /\ Len(Append(delivered, e)) = Len(delivered) + 1
          /\ \A i \in 1..Len(delivered) : Append(delivered, e)[i] = delivered[i]
          /\ Append(delivered, e)[Len(delivered) + 1] = e
      BY <1>6, <3>1, AppendProperties
    <3> QED
      BY <1>6, <3>2 DEF e
  <2>2. CASE rxProd' = rp + 1 /\ delivered' = Append(delivered, now + 1)
    BY <2>1, <2>2
  <2>3. CASE rxProd' = rp /\ delivered' = delivered
    <3>1. rp # rp + 1
      OBVIOUS
    <3> QED
      BY <1>6, <2>3, <3>1
  <2> QED
    BY <1>1, <1>2, <2>2, <2>3
<1>11a. PICK r \in Nat : r = rxProd' /\ r \in {rp, rp + 1}
  BY <1>11
<1>11b. \A from \in Nat : \A k \in from..(r - 1) :
         /\ k \in Nat /\ k >= from
         /\ IF k = rp THEN r = rp + 1 ELSE k < rp
  <2>1. SUFFICES ASSUME NEW from \in Nat, NEW k \in from..(r - 1)
                 PROVE  k \in Nat /\ k >= from /\ IF k = rp THEN r = rp + 1 ELSE k < rp
    OBVIOUS
  <2>2. k \in Nat /\ k >= from /\ k < r
    OBVIOUS
  <2>3. r = rp \/ r = rp + 1
    BY <1>11a
  <2> QED
    BY <2>2, <2>3
<1>12. \A k \in 0..(rp - 1) : Described(k)' = Described(k)
  <2> SUFFICES ASSUME NEW k \in 0..(rp - 1) PROVE Described(k)' = Described(k)
    OBVIOUS
  <2>1. k + 1 \in 1..rp
    OBVIOUS
  <2> QED
    BY <1>11, <2>1 DEF Described
<1>13. Taken'
  <2>1. Taken
    BY DEF SocketInv
  <2>2. PICK d \in Nat : d = Len(descs) /\ d <= rc
    BY <1>1, <2>1, LenTypes DEF SocketInv, FramesInv, Taken
  <2>3. ASSUME NEW k \in 1..d PROVE descs[k] = Described(rc - d + k - 1)'
    <3>0. rc - d + k - 1 \in 0..(rp - 1)
      <4>1. d <= rc /\ rc <= rp
        BY <1>1, <2>2
      <4> QED
        BY <4>1
    <3>1. PICK x \in 0..(rp - 1) : x = rc - d + k - 1
      BY <3>0
    <3> QED
      BY <1>1, <1>12, <2>1, <2>2, <3>1 DEF Taken
  <2> QED
    BY <1>1, <1>2, <2>2, <2>3 DEF Taken
<1>14. Announced'
  <2>1. ASSUME NEW k \in rc..(r - 1) PROVE rxDescs'[S!Slot(k)] = Described(k)'
    <3>1. CASE k = rp
      <4>1. rxProd' = rp + 1
        BY <1>11a, <1>11b, <3>1
      <4>2. rxDescs' = [rxDescs EXCEPT ![S!Slot(rp)] = new]
        BY <1>2, <4>1, <1>1
      <4>3. rxDescs'[S!Slot(rp)] = new
        BY <1>5, <4>2 DEF SocketInv, ContentTypes
      <4> QED
        BY <1>4, <1>11, <3>1, <4>1, <4>3 DEF Described
    <3>2. CASE k # rp
      <4>0. k \in Nat /\ k >= rc /\ k < rp
        BY <1>11b, <3>2
      <4>1. k \in rc..(rp - 1) /\ k \in 0..(rp - 1) /\ k \in Nat
        BY <4>0
      <4>2. rxDescs[S!Slot(k)] = Described(k)
        BY <1>1, <4>1 DEF SocketInv, Announced
      <4>3. CASE rxDescs' = rxDescs
        BY <1>12, <4>1, <4>2, <4>3
      <4>4. CASE rp - rc < RingSize /\ rxDescs' = [rxDescs EXCEPT ![S!Slot(rp)] = new]
        <5>1. ~ (rp >= k + RingSize)
          BY <4>1, <4>4, RingTypes
        <5>2. S!Slot(k) # S!Slot(rp)
          BY <4>1, <5>1, HeldApart
        <5>3. S!Slot(k) \in 0..(RingSize - 1)
          BY <4>1, HeldType DEF S!Slot
        <5> QED
          BY <1>5, <1>12, <4>1, <4>2, <4>4, <5>2, <5>3 DEF SocketInv, ContentTypes
      <4> QED
        BY <1>2, <4>3, <4>4
    <3> QED
      BY <3>1, <3>2
  <2>2. ASSUME NEW i \in 1..r, NEW j \in 1..r, i <= j
        PROVE  delivered'[j] >= delivered'[i] + (j - i)
    <3>1. CASE j \in 1..rp
      <4>1. i \in 1..rp
        BY <1>11, <1>11a, <2>2, <3>1
      <4>2. delivered[j] >= delivered[i] + (j - i)
        BY <1>1, <2>2, <3>1, <4>1 DEF SocketInv, Announced
      <4> QED
        BY <1>11, <3>1, <4>1, <4>2
    <3>2. CASE j = rp + 1 /\ i \in 1..rp
      BY <1>8, <1>11, <1>11a, <2>2, <3>2
    <3>3. CASE j = rp + 1 /\ i = rp + 1
      <4>1. delivered'[j] = now + 1 /\ delivered'[i] = now + 1 /\ j - i = 0
        BY <1>11, <1>11a, <2>2, <3>3
      <4> QED
        BY <4>1
    <3> QED
      BY <1>11a, <2>2, <3>1, <3>2, <3>3
  <2>3. ASSUME NEW j \in 1..r PROVE delivered'[j] <= now + 1
    <3>1. CASE j \in 1..rp
      BY <1>7, <1>11, <3>1
    <3>2. CASE j = rp + 1
      <4>1. delivered'[j] = now + 1
        BY <1>11, <1>11a, <2>3, <3>2
      <4> QED
        BY <4>1
    <3> QED
      BY <1>11a, <2>3, <3>1, <3>2
  <2> QED
    BY <1>1, <1>2, <1>4, <1>11, <1>11a, <2>1, <2>2, <2>3 DEF Announced
<1>15. Printed'
  <2>1. Printed /\ p <= rc
    <3>1. Printed /\ Taken /\ SocketTypes /\ next \in Nat \ {0}
      BY DEF SocketInv, FramesInv, ContentTypes
    <3>2. PICK d \in Nat, n \in Nat \ {0} : d = Len(descs) /\ n = next
      BY <3>1, LenTypes
    <3>3. p = IF n <= d THEN rc - d + n - 1 ELSE rc
      BY <1>1, <3>1, <3>2 DEF Printed
    <3> QED
      BY <3>1, <3>2, <3>3
  <2>2. ASSUME NEW k \in 1..p PROVE shown[k][1] = delivered'[k] /\ Intact(shown[k][2], shown[k][1])
    <3>1. k \in 1..rp
      BY <1>1, <2>1
    <3> QED
      BY <1>1, <1>11, <2>1, <3>1 DEF Printed
  <2>3. ASSUME NEW k \in p..(r - 1) PROVE Intact(frames'[Held(k)], delivered'[k + 1])
    <3>1. CASE k = rp
      <4>1. rxProd' = rp + 1
        BY <1>11a, <1>11b, <3>1
      <4>2. frames'[Held(rp)] = now + 1
        BY <1>2, <1>5 DEF SocketInv, ContentTypes
      <4> QED
        BY <1>11, <3>1, <4>1, <4>2 DEF Intact
    <3>2. CASE k # rp
      <4>0. k \in Nat /\ k >= p /\ k < rp
        BY <1>11b, <3>2
      <4>1. k \in p..(rp - 1) /\ k \in Nat /\ k + 1 \in 1..rp /\ k < rp
        BY <4>0
      <4>2. delivered'[k + 1] = delivered[k + 1] /\ delivered[k + 1] \in Nat
        BY <1>7, <1>11, <4>1
      <4>3. CASE Held(k) = Held(rp)
        <5>1. rp >= k + RingSize
          BY <4>1, <4>3, HeldApart
        <5>2. now + 1 >= delivered[k + 1] + (rp + 1 - (k + 1))
          BY <1>8, <4>1
        <5>3. PICK x \in Nat : x = delivered[k + 1]
          BY <4>2
        <5>4. now + 1 >= x + RingSize
          BY <4>1, <5>1, <5>2, <5>3, RingTypes
        <5>5. frames'[Held(k)] = now + 1
          BY <1>2, <1>5, <4>3 DEF SocketInv, ContentTypes
        <5> QED
          BY <4>2, <5>3, <5>4, <5>5 DEF Intact
      <4>4. CASE Held(k) # Held(rp)
        <5>1. frames'[Held(k)] = frames[Held(k)]
          BY <1>2, <1>5, <4>1, <4>4, HeldType DEF SocketInv, ContentTypes
        <5>2. Intact(frames[Held(k)], delivered[k + 1])
          BY <1>1, <2>1, <4>1 DEF Printed
        <5> QED
          BY <4>2, <5>1, <5>2
      <4> QED
        BY <4>3, <4>4
    <3> QED
      BY <3>1, <3>2
  <2>4. Len(shown') = IF next' <= Len(descs') THEN rxCons' - Len(descs') + next' - 1 ELSE rxCons'
    BY <1>2, <2>1 DEF Printed
  <2> QED
    BY <1>1, <1>2, <1>11a, <2>2, <2>3, <2>4 DEF Printed
<1> QED
  BY <1>9, <1>10, <1>13, <1>14, <1>15 DEF SocketInv

LEMMA OrderTake == SocketInv /\ FramesInv' /\ (S!TakeKept \/ S!TakeFilled) => SocketInv'
<1> SUFFICES ASSUME SocketInv, FramesInv', S!TakeKept \/ S!TakeFilled PROVE SocketInv'
  OBVIOUS
<1>1. arrivals' = arrivals + 1
  BY DEF S!TakeKept, S!TakeFilled, S!Redirected
<1>2. socketMain = "loop"
  <2>1. kernelFree # <<>> \/ fillCons # fillProd
    BY DEF S!TakeKept, S!TakeFilled
  <2> QED
    BY <2>1 DEF SocketInv, FramesInv, Nowhere
<1>3. CASE S!TakeKept
  <2>1. kernelFree = <<Held(rxProd)>>
    BY <1>2, <1>3 DEF S!TakeKept, SocketInv, Primed
  <2> DEFINE f == Held(rxProd)
  <2>2. Head(<<f>>) = f /\ Tail(<<f>>) = <<>>
    <3> HIDE DEF f
    <3> QED
      OBVIOUS
  <2>3. S!Deliver(Held(rxProd)) /\ kernelFree' = IF lost' = lost THEN <<>> ELSE <<Held(rxProd)>>
    BY <1>3, <2>1, <2>2 DEF S!TakeKept
  <2>4. UNCHANGED <<fillDescs, fillProd>>
    BY <1>3 DEF S!TakeKept, S!fillVars
  <2> QED
    BY <1>1, <1>2, <2>3, <2>4, OrderDeliver
<1>4. CASE S!TakeFilled
  <2>1. kernelFree = <<>>
    BY <1>4 DEF S!TakeFilled
  <2>2. fillDescs[S!Slot(fillCons)] = Held(rxProd)
    BY <1>2, <2>1, NextHeld
  <2>3. S!Deliver(Held(rxProd)) /\ kernelFree' = IF lost' = lost THEN <<>> ELSE <<Held(rxProd)>>
    BY <1>4, <2>2 DEF S!TakeFilled
  <2>4. UNCHANGED <<fillDescs, fillProd>>
    BY <1>4 DEF S!TakeFilled
  <2> QED
    BY <1>1, <1>2, <2>3, <2>4, OrderDeliver
<1> QED
  BY <1>3, <1>4

\* What happens when only the program's place, or the count of arrivals, changes.
LEMMA OrderIdle ==
  ASSUME SocketInv, FramesInv',
         UNCHANGED <<fillDescs, fillProd, rxDescs, rxProd, rxCons, kernelFree, frames, descs,
                     next, delivered, shown>>,
         arrivals' \in {arrivals, arrivals + 1},
         socketMain' \in {"start", "bound", "registered", "loop", "exited"},
         socketMain' = "loop" => socketMain = "loop"
  PROVE  SocketInv'
<1>1. ContentTypes'
  BY DEF SocketInv, ContentTypes
<1>2. (socketMain' = "loop" => Primed') /\ Taken' /\ Printed'
  BY DEF SocketInv, Primed, Taken, Printed, Described
<1>3. Announced'
  <2>1. PICK now \in Nat : now = arrivals /\ arrivals' \in {now, now + 1}
    BY DEF SocketInv, ContentTypes
  <2>2. delivered \in Seq(Nat) /\ Len(delivered) = rxProd /\ rxProd \in Nat
    BY DEF SocketInv, ContentTypes, Announced, FramesInv, SocketTypes
  <2>3. ASSUME NEW j \in 1..rxProd PROVE delivered[j] <= arrivals'
    <3>1. PICK x \in Nat : x = delivered[j] /\ x <= now
      BY <2>1, <2>2, ElementOfSeq DEF SocketInv, Announced
    <3> QED
      BY <2>1, <3>1
  <2> QED
    BY <2>3 DEF SocketInv, Announced, Described
<1> QED
  BY <1>1, <1>2, <1>3 DEF SocketInv

LEMMA SocketStep == SocketInv /\ [Next]_vars => SocketInv'
<1> SUFFICES ASSUME SocketInv, [Next]_vars PROVE SocketInv'
  OBVIOUS
<1>0. FramesInv'
  BY FramesStep DEF SocketInv
<1>1. CASE UNCHANGED socketVars
  BY <1>0, <1>1, OrderIdle DEF socketVars, SocketInv, ContentTypes
<1>2. CASE S!NewSocket \/ S!Register
  BY <1>0, <1>2, OrderIdle DEF S!NewSocket, S!Register, S!Step, S!fillVars, S!rxVars
<1>3. CASE S!NoFrame
  BY <1>0, <1>3, OrderIdle DEF S!NoFrame, S!Redirected, S!fillVars, S!rxVars
<1> QED
  BY <1>0, <1>1, <1>2, <1>3, OrderPrime, OrderReceive, OrderPrint, OrderRefill, OrderTake
  DEF Next, Counter, Socket, S!Next, vars

\* A sequence that is cut in three.
LEMMA ThreeParts ==
  ASSUME NEW s \in Seq(Nat), NEW a \in Seq(Nat), NEW b \in Seq(Nat), NEW c \in Seq(Nat),
         Len(s) = Len(a) + Len(b) + Len(c),
         \A k \in 1..Len(a) : a[k] = s[k],
         \A k \in 1..Len(b) : b[k] = s[Len(a) + k],
         \A k \in 1..Len(c) : c[k] = s[Len(a) + Len(b) + k]
  PROVE  s = a \o b \o c
<1>1. PICK la \in Nat, lb \in Nat, lc \in Nat : la = Len(a) /\ lb = Len(b) /\ lc = Len(c)
  BY LenProperties
<1>2. /\ a \o b \in Seq(Nat) /\ Len(a \o b) = la + lb
      /\ \A i \in 1..(la + lb) : (a \o b)[i] = IF i <= la THEN a[i] ELSE b[i - la]
  BY <1>1, ConcatProperties
<1> DEFINE ab == a \o b
<1> HIDE DEF ab
<1>3. /\ ab \o c \in Seq(Nat) /\ Len(ab \o c) = la + lb + lc
      /\ \A i \in 1..(la + lb + lc) : (ab \o c)[i] = IF i <= la + lb THEN ab[i] ELSE c[i - (la + lb)]
  <2>1. ab \in Seq(Nat) /\ Len(ab) = la + lb
    BY <1>2 DEF ab
  <2>2. /\ ab \o c \in Seq(Nat) /\ Len(ab \o c) = Len(ab) + Len(c)
        /\ \A i \in 1..(Len(ab) + Len(c)) :
              (ab \o c)[i] = IF i <= Len(ab) THEN ab[i] ELSE c[i - Len(ab)]
    BY <2>1, ConcatProperties
  <2> QED
    BY <1>1, <2>1, <2>2
<1>4. ASSUME NEW i \in 1..(la + lb + lc) PROVE s[i] = (ab \o c)[i]
  <2>1. CASE i <= la
    <3>1. i \in 1..la /\ i \in 1..(la + lb)
      BY <2>1
    <3> QED
      BY <1>1, <1>2, <1>3, <2>1, <3>1 DEF ab
  <2>2. CASE la < i /\ i <= la + lb
    <3>1. i - la \in 1..lb /\ i \in 1..(la + lb) /\ la + (i - la) = i /\ ~ (i <= la)
      BY <2>2
    <3>2. s[i] = b[i - la]
      BY <1>1, <3>1
    <3>3. ab[i] = b[i - la]
      BY <1>2, <3>1 DEF ab
    <3> QED
      BY <1>3, <2>2, <3>2, <3>3
  <2>3. CASE la + lb < i
    <3>1. i - (la + lb) \in 1..lc /\ la + lb + (i - (la + lb)) = i /\ ~ (i <= la + lb)
      BY <2>3
    <3>2. s[i] = c[i - (la + lb)]
      BY <1>1, <3>1
    <3> QED
      BY <1>3, <3>1, <3>2
  <2>4. i \in Nat
    OBVIOUS
  <2>5. i <= la \/ (la < i /\ i <= la + lb) \/ la + lb < i
    BY <2>4
  <2> QED
    BY <2>1, <2>2, <2>3, <2>5
<1> QED
  BY <1>1, <1>3, <1>4, SeqEqual DEF ab

LEMMA FunctionIsSeq ==
  ASSUME NEW T, NEW n \in Nat, NEW f \in [1..n -> T]
  PROVE  f \in Seq(T) /\ Len(f) = n
<1>1. f \in Seq(T) /\ DOMAIN f = 1..n
  OBVIOUS
<1>2. Len(f) \in Nat /\ DOMAIN f = 1..Len(f)
  BY <1>1, LenProperties
<1> QED
  BY <1>1, <1>2

\* What the invariant says of the packets in hand and of those in the rx ring.
LEMMA SocketImplies == SocketInv => PrintedInOrder
<1> SUFFICES ASSUME SocketInv PROVE PrintedInOrder
  OBVIOUS
<1> DEFINE inHand == SubSeq(descs, next, Len(descs))
           Desc == [addr : S!Frame, packet : Nat]
           Whole(d) == frames[d.addr] = d.packet \/ frames[d.addr] >= d.packet + RingSize
<1>1. SocketTypes /\ ContentTypes /\ Announced /\ Taken /\ Printed
  BY DEF SocketInv, FramesInv
<1>2. PICK rp \in Nat, rc \in Nat, d \in Nat, n \in Nat \ {0}, w \in Nat :
        /\ rp = rxProd /\ rc = rxCons /\ d = Len(descs) /\ n = next
        /\ rp = rc + w /\ d <= rc
  <2>1. Len(descs) \in Nat /\ Len(descs) <= rxCons
    BY <1>1, LenTypes DEF Taken
  <2>2. rxProd - rxCons \in Nat
    BY RingTypes DEF SocketInv, FramesInv, S!Waiting
  <2>3. rxProd \in Nat /\ rxCons \in Nat /\ next \in Nat \ {0}
    BY <1>1 DEF SocketTypes, ContentTypes
  <2>4. rxProd = rxCons + (rxProd - rxCons)
    BY <2>3
  <2> QED
    BY <2>1, <2>2, <2>3, <2>4
<1>3. PICK p \in Nat, h \in Nat :
        p = Len(shown) /\ h = (IF n <= d THEN d - n + 1 ELSE 0) /\ p + h = rc
  <2>1. Len(shown) = IF n <= d THEN rc - d + n - 1 ELSE rc
    BY <1>1, <1>2 DEF Printed
  <2>2. CASE n <= d
    <3>1. rc - d + n - 1 \in Nat /\ d - n + 1 \in Nat /\ (rc - d + n - 1) + (d - n + 1) = rc
      BY <1>2, <2>2
    <3> QED
      BY <2>1, <2>2, <3>1
  <2>3. CASE ~ (n <= d)
    <3>1. rc + 0 = rc
      OBVIOUS
    <3> QED
      BY <2>1, <2>3, <3>1
  <2> QED
    BY <2>2, <2>3
<1>4. delivered \in Seq(Nat) /\ Len(delivered) = rp /\ shown \in Seq(Nat \X Nat)
  BY <1>1, <1>2 DEF ContentTypes, Announced
<1>5. \A k \in 0..(rp - 1) :
         /\ Described(k) \in Desc /\ Described(k).packet = delivered[k + 1]
         /\ p <= k => Whole(Described(k))
  <2> SUFFICES ASSUME NEW k \in 0..(rp - 1)
               PROVE  /\ Described(k) \in Desc /\ Described(k).packet = delivered[k + 1]
                      /\ p <= k => Whole(Described(k))
    OBVIOUS
  <2>1. k + 1 \in 1..rp
    OBVIOUS
  <2>2. delivered[k + 1] \in Nat /\ Held(k) \in S!Frame
    <3>1. delivered[k + 1] \in Nat
      BY <1>4, <2>1, ElementOfSeq
    <3>2. k \in Nat
      OBVIOUS
    <3> QED
      BY <3>1, <3>2, HeldType
  <2>3. p <= k => Intact(frames[Held(k)], delivered[k + 1])
    BY <1>1, <1>2, <1>3 DEF Printed
  <2> QED
    BY <2>2, <2>3 DEF Described, Intact
<1>6. /\ inHand \in Seq(Desc) /\ Len(inHand) = h
      /\ \A k \in 1..h : inHand[k] = Described(p + k - 1)
  <2>1. \A i \in 1..d : descs[i] = Described(rc - d + i - 1) /\ descs[i] \in Desc
    <3> SUFFICES ASSUME NEW i \in 1..d
                 PROVE  descs[i] = Described(rc - d + i - 1) /\ descs[i] \in Desc
      OBVIOUS
    <3>1. rc - d + i - 1 \in 0..(rp - 1)
      BY <1>2
    <3>2. descs[i] = Described(rc - d + i - 1)
      BY <1>1, <1>2 DEF Taken
    <3> QED
      BY <1>5, <3>1, <3>2
  <2>2. \A i \in n..d : i \in 1..d
    OBVIOUS
  <2>3. \A i \in n..d : descs[i] \in Desc
    BY <2>1, <2>2
  <2> DEFINE part == SubSeq(descs, n, d)
  <2>4. /\ part \in Seq(Desc) /\ Len(part) = IF n <= d THEN d - n + 1 ELSE 0
        /\ \A i \in 1..(d - n + 1) : part[i] = descs[n + i - 1]
    <3> HIDE DEF Desc
    <3> QED
      BY <2>3, SubSeqProperties
  <2>5. inHand = part
    BY <1>2
  <2> HIDE DEF part, inHand
  <2>6. ASSUME NEW k \in 1..h PROVE part[k] = Described(p + k - 1)
    <3>1. n <= d /\ h = d - n + 1 /\ p = rc - d + n - 1
      BY <1>2, <1>3
    <3>2. k \in 1..(d - n + 1) /\ n + k - 1 \in 1..d
      BY <3>1
    <3>3. rc - d + (n + k - 1) - 1 = p + k - 1
      BY <3>1
    <3> QED
      BY <2>1, <2>4, <3>2, <3>3
  <2> QED
    BY <1>3, <2>4, <2>5, <2>6
<1> HIDE DEF inHand
<1>7. /\ S!Unread \in Seq(Desc) /\ Len(S!Unread) = w
      /\ \A k \in 1..w : S!Unread[k] = Described(rc + k - 1)
  <2>1. rxProd - rxCons = w
    BY <1>2
  <2>2. S!Unread = [k \in 1..w |-> rxDescs[S!Slot(rc + k - 1)]]
    BY <1>2, <2>1 DEF S!Unread
  <2>3. ASSUME NEW k \in 1..w
        PROVE  rxDescs[S!Slot(rc + k - 1)] = Described(rc + k - 1) /\ Described(rc + k - 1) \in Desc
    <3>1. rc + k - 1 \in rc..(rp - 1) /\ rc + k - 1 \in 0..(rp - 1)
      BY <1>2
    <3> QED
      BY <1>1, <1>2, <1>5, <3>1 DEF Announced
  <2>4. S!Unread \in [1..w -> Desc]
    BY <2>2, <2>3
  <2>5. S!Unread \in Seq(Desc) /\ Len(S!Unread) = w
    <3> HIDE DEF Desc
    <3> QED
      BY <2>4, FunctionIsSeq
  <2> QED
    BY <2>2, <2>3, <2>5
<1>8. ASSUME NEW s \in Seq(Desc), NEW from \in Nat, NEW m \in Nat, Len(s) = m, from + m <= rp,
             \A k \in 1..m : s[k] = Described(from + k - 1)
      PROVE  /\ S!Packets(s) \in Seq(Nat) /\ Len(S!Packets(s)) = m
             /\ \A k \in 1..m : S!Packets(s)[k] = delivered[from + k]
  <2>1. DOMAIN s = 1..m
    BY <1>8, LenProperties
  <2>2. S!Packets(s) = [k \in 1..m |-> s[k].packet]
    BY <2>1 DEF S!Packets
  <2>3. ASSUME NEW k \in 1..m PROVE s[k].packet = delivered[from + k] /\ s[k].packet \in Nat
    <3>1. from + k - 1 \in 0..(rp - 1) /\ (from + k - 1) + 1 = from + k
      BY <1>8
    <3>2. Described(from + k - 1).packet = delivered[from + k] /\ Described(from + k - 1) \in Desc
      BY <1>5, <3>1
    <3> QED
      BY <1>8, <3>2
  <2>4. S!Packets(s) \in [1..m -> Nat]
    BY <2>2, <2>3
  <2>5. S!Packets(s) \in Seq(Nat) /\ Len(S!Packets(s)) = m
    BY <2>4, FunctionIsSeq
  <2> QED
    BY <2>2, <2>3, <2>5
<1> DEFINE A == [k \in DOMAIN shown |-> shown[k][1]]
<1>9. A \in Seq(Nat) /\ Len(A) = p /\ \A k \in 1..p : A[k] = delivered[k]
  <2>1. DOMAIN shown = 1..p
    BY <1>3, <1>4, LenProperties
  <2>2. ASSUME NEW k \in 1..p PROVE shown[k][1] \in Nat /\ shown[k][1] = delivered[k]
    <3>1. shown[k] \in Nat \X Nat
      BY <1>3, <1>4, ElementOfSeq
    <3> QED
      BY <1>1, <1>3, <3>1 DEF Printed
  <2>3. A \in [1..p -> Nat]
    BY <2>1, <2>2
  <2>4. A \in Seq(Nat) /\ Len(A) = p
    <3> HIDE DEF A
    <3> QED
      BY <2>3, FunctionIsSeq
  <2> QED
    BY <2>1, <2>2, <2>4
<1>10. delivered = A \o S!Packets(inHand) \o S!Packets(S!Unread)
  <2>1. p + h <= rp /\ rc + w <= rp
    BY <1>2, <1>3
  <2>2. /\ S!Packets(inHand) \in Seq(Nat) /\ Len(S!Packets(inHand)) = h
        /\ \A k \in 1..h : S!Packets(inHand)[k] = delivered[p + k]
    BY <1>6, <1>8, <2>1
  <2>3. /\ S!Packets(S!Unread) \in Seq(Nat) /\ Len(S!Packets(S!Unread)) = w
        /\ \A k \in 1..w : S!Packets(S!Unread)[k] = delivered[rc + k]
    BY <1>7, <1>8, <2>1
  <2> HIDE DEF A
  <2>4. Len(delivered) = Len(A) + Len(S!Packets(inHand)) + Len(S!Packets(S!Unread))
    BY <1>2, <1>3, <1>4, <1>9, <2>2, <2>3
  <2>5. \A k \in 1..Len(S!Packets(S!Unread)) :
           S!Packets(S!Unread)[k] = delivered[Len(A) + Len(S!Packets(inHand)) + k]
    BY <1>3, <1>9, <2>2, <2>3
  <2> DEFINE b == S!Packets(inHand)
             c == S!Packets(S!Unread)
  <2>6. /\ b \in Seq(Nat) /\ c \in Seq(Nat) /\ Len(delivered) = Len(A) + Len(b) + Len(c)
        /\ \A k \in 1..Len(b) : b[k] = delivered[Len(A) + k]
        /\ \A k \in 1..Len(c) : c[k] = delivered[Len(A) + Len(b) + k]
    BY <1>9, <2>2, <2>3, <2>4, <2>5
  <2> HIDE DEF b, c
  <2>7. \A k \in 1..Len(A) : A[k] = delivered[k]
    BY <1>9
  <2>8. A \in Seq(Nat) /\ delivered \in Seq(Nat)
    BY <1>4, <1>9
  <2>9. delivered = A \o b \o c
    BY ONLY <2>6, <2>7, <2>8, ThreeParts
  <2> QED
    BY <2>9 DEF b, c
<1>11. ASSUME NEW e \in S!ToSet(inHand) \cup S!ToSet(S!Unread) PROVE Whole(e)
  <2>1. CASE e \in S!ToSet(inHand)
    <3>1. PICK k \in 1..h : e = inHand[k]
      BY <1>6, <2>1, LenProperties DEF S!ToSet
    <3>2. p + k - 1 \in 0..(rp - 1) /\ p <= p + k - 1
      BY <1>2, <1>3
    <3> QED
      BY <1>5, <1>6, <3>1, <3>2
  <2>2. CASE e \in S!ToSet(S!Unread)
    <3>1. PICK k \in 1..w : e = S!Unread[k]
      BY <1>7, <2>2, LenProperties DEF S!ToSet
    <3>2. rc + k - 1 \in 0..(rp - 1) /\ p <= rc + k - 1
      BY <1>2, <1>3
    <3> QED
      BY <1>5, <1>7, <3>1, <3>2
  <2> QED
    BY <2>1, <2>2
<1>12. \A s \in S!ToSet(shown) : s[2] = s[1] \/ s[2] >= s[1] + RingSize
  <2>1. DOMAIN shown = 1..Len(shown)
    BY <1>4, LenProperties
  <2> QED
    BY <1>1, <2>1 DEF Printed, Intact, S!ToSet
<1> QED
  BY <1>1, <1>10, <1>11, <1>12 DEF PrintedInOrder, S!PrintedInOrder, ContentTypes, inHand

\* Every packet the kernel announced is printed once and in order, however the
\* rings wrap, for any number of frames the rings divide; its frame holds it,
\* or one that came at least a ring's worth later (socket.go 150-181).
THEOREM OrderTheorem == Spec => []PrintedInOrder
  BY SocketInit, SocketStep, SocketImplies, PTL DEF Spec

=============================================================================
