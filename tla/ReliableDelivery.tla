--------------------------- MODULE ReliableDelivery ---------------------------
(***************************************************************************)
(* What 08-udp_reliable_retransmit promises the caller of SendReliable,    *)
(* with neither sequence numbers nor datagrams: a server processes a line  *)
(* at most once while it runs, a nil result says that the line was         *)
(* processed, an error says nothing (it may have been, or may yet be).     *)
(***************************************************************************)
EXTENDS Naturals

CONSTANT Line

VARIABLES
    status,     \* what the caller of SendReliable knows of its line
    deliveries, \* how often the line has been processed
    remembered  \* the lines the running server knows it has processed

vars == <<status, deliveries, remembered>>

Init ==
    /\ status = [l \in Line |-> "unsent"]
    /\ deliveries = [l \in Line |-> 0]
    /\ remembered = {}

Send(l) ==
    /\ status[l] = "unsent"
    /\ status' = [status EXCEPT ![l] = "sending"]
    /\ UNCHANGED <<deliveries, remembered>>

\* Late deliveries count: a line reported as failed may still arrive.
Deliver(l) ==
    /\ status[l] # "unsent"
    /\ l \notin remembered
    /\ deliveries' = [deliveries EXCEPT ![l] = @ + 1]
    /\ remembered' = remembered \cup {l}
    /\ UNCHANGED status

Confirm(l) ==
    /\ status[l] = "sending"
    /\ deliveries[l] >= 1
    /\ status' = [status EXCEPT ![l] = "confirmed"]
    /\ UNCHANGED <<deliveries, remembered>>

Fail(l) ==
    /\ status[l] = "sending"
    /\ status' = [status EXCEPT ![l] = "failed"]
    /\ UNCHANGED <<deliveries, remembered>>

\* A new server process remembers nothing.
Restart ==
    /\ remembered' = {}
    /\ UNCHANGED <<status, deliveries>>

Next ==
    \/ \E l \in Line : Send(l) \/ Deliver(l) \/ Confirm(l) \/ Fail(l)
    \/ Restart

Spec == Init /\ [][Next]_vars

=============================================================================
