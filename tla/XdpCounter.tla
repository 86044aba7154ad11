------------------------------- MODULE XdpCounter -------------------------------
(***************************************************************************)
(* 12-xdp_program_counter_by_port and 13-xdp_filters_drop_by_criteria: the *)
(* XDP program, run by every CPU that gets a packet, and the two hash maps *)
(* it shares with the Go program that attached it.                         *)
(***************************************************************************)
EXTENDS Integers, FiniteSets

CONSTANTS
    Cpu, Port,
    MaxPackets      \* bound: packets received

NoPort == "no port"
VARIABLES
    filter,         \* TRUE: 13; FALSE: 12
    blockedPort,    \* 13's second argument, or NoPort
    main,           \* the Go program: "start", "configured", "attached", "detached"
    port_count,     \* [Port -> [element, count]]: element 0, no entry
    blocked_ports,  \* [the ports entered -> packets dropped]
    cpu,            \* [Cpu -> [at, port, element]]
    packets,        \* packets received
    counted,        \* history: [Port -> packets whose counting is over]
    first,          \* history: [Port -> packets that found no entry]
    dropped, passed \* history: [Port -> packets of this port dropped, passed]

counterVars == <<filter, blockedPort, main, port_count, blocked_ports, cpu, packets,
                 counted, first, dropped, passed>>

Idle == [at |-> "idle", port |-> NoPort, element |-> 0]
None == [p \in Port |-> 0]

Init ==
    /\ filter \in BOOLEAN
    /\ blockedPort \in IF filter THEN Port \cup {NoPort} ELSE {NoPort}
    /\ main = "start"
    /\ port_count = [p \in Port |-> [element |-> 0, count |-> 0]]
    /\ blocked_ports = [p \in {} |-> 0]
    /\ cpu = [c \in Cpu |-> Idle]
    /\ packets = 0
    /\ counted = None /\ first = None /\ dropped = None /\ passed = None

-----------------------------------------------------------------------------
(* The Go program.                                                         *)

\* The blocked port is entered ...
Configure ==
    /\ main = "start"
    /\ main' = "configured"
    /\ blocked_ports' = [p \in {blockedPort} \ {NoPort} |-> 0]
    /\ UNCHANGED <<filter, blockedPort, port_count, cpu, packets, counted, first, dropped, passed>>

\* Mutant of MayAttach: attached as in 12 (and 14) and configured afterwards.
AtOnce == main \in {"start", "configured"}

\* ... before the program is attached.
MayAttach == main = "configured"

Attach ==
    /\ MayAttach
    /\ main' = "attached"
    /\ UNCHANGED <<filter, blockedPort, port_count, blocked_ports, cpu, packets,
                   counted, first, dropped, passed>>

Detach ==
    /\ main = "attached"
    /\ main' = "detached"
    /\ UNCHANGED <<filter, blockedPort, port_count, blocked_ports, cpu, packets,
                   counted, first, dropped, passed>>

-----------------------------------------------------------------------------
(* count_by_port.                                                          *)

\* The ports it may read from a packet for port p, or from one that is no UDP
\* over IPv4 (NoPort).  12 takes whatever came for IPv4.
PortsRead(p) == IF p = NoPort /\ ~filter THEN Port \cup {NoPort} ELSE {p}

Pass(c) ==
    /\ cpu' = [cpu EXCEPT ![c] = Idle]
    /\ passed' = [passed EXCEPT ![cpu[c].port] = @ + 1]

\* A packet comes, up to the first lookup.  One it reads no port from passes.
Receive(c) ==
    /\ main = "attached"
    /\ cpu[c] = Idle
    /\ packets < MaxPackets
    /\ packets' = packets + 1
    /\ \E p \in Port \cup {NoPort} : \E port \in PortsRead(p) :
          cpu' = IF port = NoPort THEN cpu
                 ELSE [cpu EXCEPT ![c] = [Idle EXCEPT !.port = port,
                                                      !.at = IF filter THEN "blocked" ELSE "lookup"]]
    /\ UNCHANGED <<filter, blockedPort, main, port_count, blocked_ports, counted, first,
                   dropped, passed>>

\* 13: dropped and counted there, if its port is blocked.
CheckBlocked(c) ==
    /\ cpu[c].at = "blocked"
    /\ LET port == cpu[c].port IN
          \/ /\ port \in DOMAIN blocked_ports
             /\ blocked_ports' = [blocked_ports EXCEPT ![port] = @ + 1]
             /\ dropped' = [dropped EXCEPT ![port] = @ + 1]
             /\ cpu' = [cpu EXCEPT ![c] = Idle]
          \/ /\ port \notin DOMAIN blocked_ports
             /\ cpu' = [cpu EXCEPT ![c].at = "lookup"]
             /\ UNCHANGED <<blocked_ports, dropped>>
    /\ UNCHANGED <<filter, blockedPort, main, port_count, packets, counted, first, passed>>

\* The lookup returns a pointer into the element of the port, or NULL.
Lookup(c) ==
    /\ cpu[c].at = "lookup"
    /\ LET port == cpu[c].port
           element == port_count[port].element
       IN /\ cpu' = [cpu EXCEPT ![c].at = IF element = 0 THEN "insert" ELSE "add",
                                ![c].element = element]
          /\ first' = IF element = 0 THEN [first EXCEPT ![port] = @ + 1] ELSE first
    /\ UNCHANGED <<filter, blockedPort, main, port_count, blocked_ports, packets, counted,
                   dropped, passed>>

\* The atomic add, which is for nobody when the element has been replaced.
Add(c) ==
    /\ cpu[c].at = "add"
    /\ LET port == cpu[c].port IN
          /\ port_count' = [port_count EXCEPT ![port].count =
                               IF port_count[port].element = cpu[c].element THEN @ + 1 ELSE @]
          /\ counted' = [counted EXCEPT ![port] = @ + 1]
    /\ Pass(c)
    /\ UNCHANGED <<filter, blockedPort, main, blocked_ports, packets, first, dropped>>

\* Mutant of Initial: the packet that makes the entry is not counted.
Zero == 0

Initial == 1

\* bpf_map_update_elem with BPF_ANY: a new element, whatever is there by now.
Insert(c) ==
    /\ cpu[c].at = "insert"
    /\ LET port == cpu[c].port IN
          /\ port_count' = [port_count EXCEPT
                ![port] = [element |-> @.element + 1, count |-> Initial]]
          /\ counted' = [counted EXCEPT ![port] = @ + 1]
    /\ Pass(c)
    /\ UNCHANGED <<filter, blockedPort, main, blocked_ports, packets, first, dropped>>

Next ==
    \/ Configure \/ Attach \/ Detach
    \/ \E c \in Cpu : Receive(c) \/ CheckBlocked(c) \/ Lookup(c) \/ Add(c) \/ Insert(c)

Spec == Init /\ [][Next]_counterVars

-----------------------------------------------------------------------------
\* No count is ever too high, and it is exact unless two CPUs found the port
\* without an entry, the packets before the later insert being lost then
\* (xdp_count_by_port.c 70-81 of 12).
CountsExactUnlessFirstRace ==
    \A p \in Port :
        /\ port_count[p].count <= counted[p]
        /\ first[p] <= 1 => port_count[p].count = counted[p]

\* From the first packet on, what is for the blocked port is dropped, and the
\* drop counter is exact (13: main.go 45-55, xdp_count_by_port.c 86-90).
BlockedIsDropped ==
    \A p \in Port \cap {blockedPort} :
        /\ passed[p] = 0
        /\ p \in DOMAIN blocked_ports => blocked_ports[p] = dropped[p]

=============================================================================
