---------------------------------- MODULE AfXdp ----------------------------------
(***************************************************************************)
(* 14-af_xdp_socket and 15-af_xdp_redirect_zero_copy: the AF_XDP socket,   *)
(* its fill and rx rings and the frames of its UMEM, shared with the       *)
(* kernel, which puts packets there in copy mode.                          *)
(*                                                                         *)
(* A frame's address is its number, its content the number of the packet   *)
(* last put there.  Loads and stores of the ring indices are in order, as  *)
(* on the machines the programs are built for.                             *)
(***************************************************************************)
EXTENDS Integers, Sequences, SequencesExt

CONSTANTS
    NumFrames,      \* numFrames: 4096
    RingSize,       \* ringNumDescs: 64
    MaxArrivals     \* bound: packets redirected to the socket

AfXdpAssumption ==
    /\ {NumFrames, RingSize} \subseteq Nat \ {0}
    /\ NumFrames % RingSize = 0

VARIABLES
    main,           \* the Go program: "start", "bound", "registered", "loop", "exited"
    fillDescs, fillProd, fillCons,
    rxDescs, rxProd, rxCons,
    kernelFree,     \* frames the kernel has and did not need
    frames,         \* the UMEM
    descs, next,    \* what receive returned, and which of it is printed next
    arrivals,       \* packets redirected
    delivered,      \* history: the packets whose descriptor was put in the rx ring
    shown,          \* history: <<packet, content>> printed
    lost            \* history: packets redirected and dropped

fillVars == <<fillDescs, fillProd, fillCons>>
rxVars == <<rxDescs, rxProd, rxCons>>
afxdpVars == <<main, fillVars, rxVars, kernelFree, frames, descs, next, arrivals,
               delivered, shown, lost>>

Frame == 0..(NumFrames - 1)
Slot(index) == index % RingSize
NoDesc == [addr |-> 0, packet |-> 0]

Init ==
    /\ main = "start"
    /\ fillDescs = [i \in 0..(RingSize - 1) |-> 0] /\ fillProd = 0 /\ fillCons = 0
    /\ rxDescs = [i \in 0..(RingSize - 1) |-> NoDesc] /\ rxProd = 0 /\ rxCons = 0
    /\ kernelFree = <<>>
    /\ frames = [f \in Frame |-> 0]
    /\ descs = <<>> /\ next = 1
    /\ arrivals = 0
    /\ delivered = <<>> /\ shown = <<>> /\ lost = 0

-----------------------------------------------------------------------------
(* The Go program.                                                         *)

Step(from, to) ==
    /\ main = from
    /\ main' = to
    /\ UNCHANGED <<rxVars, kernelFree, frames, descs, next, arrivals, delivered, shown, lost>>

\* XDP is attached; newSocket fails, or binds: 15 for zero copy or else, as 14,
\* in copy mode.
NewSocket ==
    /\ Step("start", "bound") \/ Step("start", "exited")
    /\ UNCHANGED fillVars

\* Mutant of FillSlot: the slot after the one the producer index is at.
SlotAfter(index) == Slot(index + 1)

FillSlot(index) == Slot(index)

\* Mutant of Pushed: the producer index stays at the last address written.
LastWritten(addrs) == Len(addrs) - 1

\* By how much fill advances the producer index.
Pushed(addrs) == Len(addrs)

\* fill: one slot after the other, with no regard to the consumer index; of
\* several addresses for one slot the last remains.
Fill(addrs) ==
    /\ fillDescs' = [i \in DOMAIN fillDescs |->
          LET writers == {k \in DOMAIN addrs : FillSlot(fillProd + k - 1) = i} IN
          IF writers = {} THEN fillDescs[i]
          ELSE addrs[CHOOSE k \in writers : \A l \in writers : l <= k]]
    /\ fillProd' = fillProd + Pushed(addrs)
    /\ UNCHANGED fillCons

\* The socket is in xsks_map: packets of its queue are for it from now on.
Register == Step("bound", "registered") /\ UNCHANGED fillVars

\* All the frames at once.
Prime ==
    /\ Step("registered", "loop")
    /\ Fill([i \in 1..NumFrames |-> i - 1])

Waiting == rxProd - rxCons

Receive ==
    /\ main = "loop"
    /\ descs = <<>>
    /\ Waiting > 0
    /\ descs' = [k \in 1..Waiting |-> rxDescs[Slot(rxCons + k - 1)]]
    /\ rxCons' = rxCons + Waiting
    /\ next' = 1
    /\ UNCHANGED <<main, fillVars, rxDescs, rxProd, kernelFree, frames, arrivals,
                   delivered, shown, lost>>

\* The bytes of the next descriptor's frame are printed, as they are by then.
PrintNext ==
    /\ next <= Len(descs)
    /\ shown' = Append(shown, <<descs[next].packet, frames[descs[next].addr]>>)
    /\ next' = next + 1
    /\ UNCHANGED <<main, fillVars, rxVars, kernelFree, frames, descs, arrivals, delivered, lost>>

\* The frames go back to the fill ring, in the order they came.
Refill ==
    /\ descs # <<>>
    /\ next > Len(descs)
    /\ Fill([k \in DOMAIN descs |-> descs[k].addr])
    /\ descs' = <<>>
    /\ UNCHANGED <<main, rxVars, kernelFree, frames, next, arrivals, delivered, shown, lost>>

-----------------------------------------------------------------------------
(* The kernel, for a packet xdp_redirect_to_socket redirects.  One that     *)
(* comes before the socket is registered passes and leaves no trace.        *)

Redirected ==
    /\ main \in {"registered", "loop"}
    /\ arrivals < MaxArrivals
    /\ arrivals' = arrivals + 1

\* The packet is copied to frame addr, then announced, or dropped for want of
\* room in the rx ring: the kernel keeps the frame for the next.
Deliver(addr) ==
    /\ frames' = [frames EXCEPT ![addr] = arrivals']
    /\ IF rxProd - rxCons < RingSize
         THEN /\ rxDescs' = [rxDescs EXCEPT ![Slot(rxProd)] = [addr |-> addr, packet |-> arrivals']]
              /\ rxProd' = rxProd + 1
              /\ delivered' = Append(delivered, arrivals')
              /\ UNCHANGED lost
         ELSE lost' = lost + 1 /\ UNCHANGED <<rxDescs, rxProd, delivered>>
    /\ UNCHANGED <<main, rxCons, descs, next, shown>>

TakeKept ==
    /\ Redirected
    /\ kernelFree # <<>>
    /\ Deliver(Head(kernelFree))
    /\ kernelFree' = IF lost' = lost THEN Tail(kernelFree) ELSE kernelFree
    /\ UNCHANGED fillVars

TakeFilled ==
    /\ Redirected
    /\ kernelFree = <<>> /\ fillCons # fillProd
    /\ Deliver(fillDescs[Slot(fillCons)])
    /\ kernelFree' = IF lost' = lost THEN <<>> ELSE <<fillDescs[Slot(fillCons)]>>
    /\ fillCons' = fillCons + 1
    /\ UNCHANGED <<fillDescs, fillProd>>

NoFrame ==
    /\ Redirected
    /\ kernelFree = <<>> /\ fillCons = fillProd
    /\ lost' = lost + 1
    /\ UNCHANGED <<main, fillVars, rxVars, kernelFree, frames, descs, next, delivered, shown>>

Next ==
    \/ NewSocket \/ Register \/ Prime \/ Receive \/ PrintNext \/ Refill
    \/ TakeKept \/ TakeFilled \/ NoFrame

Spec == Init /\ [][Next]_afxdpVars

-----------------------------------------------------------------------------
Unread == [k \in 1..(rxProd - rxCons) |-> rxDescs[Slot(rxCons + k - 1)]]
Packets(s) == [k \in DOMAIN s |-> s[k].packet]

\* Every packet the kernel announced is printed once and in order, however the
\* rings wrap; its frame holds it, or one that came at least RingSize later:
\* the frames are all handed out at once, so a ring's worth is what a packet has
\* to be read in, though 64 times as many frames are there (socket.go 150-181).
PrintedInOrder ==
    /\ main \in {"start", "bound", "registered", "loop", "exited"}
    /\ LET inHand == SubSeq(descs, next, Len(descs)) IN
       /\ delivered = [k \in DOMAIN shown |-> shown[k][1]] \o Packets(inHand) \o Packets(Unread)
       /\ \A d \in ToSet(inHand) \cup ToSet(Unread) :
             frames[d.addr] = d.packet \/ frames[d.addr] >= d.packet + RingSize
    /\ \A s \in ToSet(shown) : s[2] = s[1] \/ s[2] >= s[1] + RingSize

\* A packet is dropped only for a full rx ring, or between the registration of
\* the socket and the first fill (main.go 55-66 registers first).
LostOnlyFullOrUnprimed ==
    [][lost' # lost => main = "registered" \/ rxProd - rxCons = RingSize]_afxdpVars

=============================================================================
