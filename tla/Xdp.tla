----------------------------------- MODULE Xdp -----------------------------------
(***************************************************************************)
(* The XDP programs of 12 to 15.  An interface runs one of them: the       *)
(* counter, the filter (both XdpCounter) or the redirect to an AF_XDP      *)
(* socket (AfXdp).  A behaviour is of one of them.                         *)
(***************************************************************************)
EXTENDS Integers, Sequences, FiniteSets

CONSTANTS Cpu, Port, MaxPackets, NumFrames, RingSize, MaxArrivals

VARIABLES
    program,        \* "counter" or "socket"
    filter, blockedPort, counterMain, port_count, blocked_ports, cpu, packets,
    counted, first, dropped, passed,
    socketMain, fillDescs, fillProd, fillCons, rxDescs, rxProd, rxCons, kernelFree,
    frames, descs, next, arrivals, delivered, shown, lost

C == INSTANCE XdpCounter WITH main <- counterMain
S == INSTANCE AfXdp WITH main <- socketMain

ASSUME XdpAssumption ==
    /\ IsFiniteSet(Cpu) /\ C!NoPort \notin Port
    /\ S!AfXdpAssumption

counterVars == <<filter, blockedPort, counterMain, port_count, blocked_ports, cpu, packets,
                 counted, first, dropped, passed>>
socketVars == <<socketMain, fillDescs, fillProd, fillCons, rxDescs, rxProd, rxCons,
                kernelFree, frames, descs, next, arrivals, delivered, shown, lost>>
vars == <<program, counterVars, socketVars>>

Init ==
    /\ program \in {"counter", "socket"}
    /\ C!Init /\ S!Init

Counter == program = "counter" /\ C!Next /\ UNCHANGED <<program, socketVars>>
Socket == program = "socket" /\ S!Next /\ UNCHANGED <<program, counterVars>>

Next == Counter \/ Socket

Spec == Init /\ [][Next]_vars

-----------------------------------------------------------------------------
\* What XdpCounter and AfXdp promise.

\* CountsExactUnlessFirstRace and BlockedIsDropped of XdpCounter.
CountsExactUnlessFirstRace == C!CountsExactUnlessFirstRace
BlockedIsDropped == C!BlockedIsDropped

\* PrintedInOrder and LostOnlyFullOrUnprimed of AfXdp.
PrintedInOrder == S!PrintedInOrder
LostOnlyFullOrUnprimed == S!LostOnlyFullOrUnprimed

=============================================================================
