--------------------------------- MODULE Framing ---------------------------------
(***************************************************************************)
(* How 09, 10 and 11 put a message on UDP: its size in one datagram, its   *)
(* body in the next, read back with io.ReadFull as if from a stream.  The  *)
(* network may lose, duplicate and swap datagrams.  All bodies have one    *)
(* length, some tens of bytes.                                             *)
(***************************************************************************)
EXTENDS Integers, Sequences, SequencesExt

VARIABLES
    wire,           \* the datagrams under way: <<"size", packet>> or <<"body", packet>>
    reading,        \* what handleRead's ReadFull has: see Step
    faults          \* history: how many of each kind

Init ==
    /\ wire = <<>>
    /\ reading = "size"
    /\ faults = [lostSize |-> 0, lostBody |-> 0, copied |-> 0, swapped |-> 0]

\* The two Conn.Write of a message.
Write(packet) == wire' = wire \o <<<<"size", packet>>, <<"body", packet>>>>

Faults == faults.lostSize + faults.lostBody + faults.copied + faults.swapped

Fault(kind) ==
    /\ faults' = [faults EXCEPT ![kind] = @ + 1]
    /\ UNCHANGED reading

Lose(i) ==
    /\ wire' = RemoveAt(wire, i)
    /\ Fault(IF wire[i][1] = "size" THEN "lostSize" ELSE "lostBody")

Copy(i) == wire' = InsertAt(wire, i, wire[i]) /\ Fault("copied")

Swap(i) ==
    /\ i < Len(wire)
    /\ wire' = [wire EXCEPT ![i] = wire[i + 1], ![i + 1] = wire[i]]
    /\ Fault("swapped")

\* Mutant of Step: one Read in place of the ReadFull of the body, so that a
\* size there is a short body by itself.
OneRead(phase, kind) ==
    CASE phase = "size" -> IF kind = "size" THEN "body" ELSE "endless"
      [] phase = "endless" -> "endless"
      [] OTHER -> "size"

\* What the reads hold after a datagram of a kind: nothing ("size"), a size
\* ("body"), a size and another size's four bytes, to be filled up by the next
\* body ("junk"), or four characters of a body for a size: hundreds of
\* megabytes that nothing will fill ("endless").
Step(phase, kind) ==
    CASE phase = "size" -> IF kind = "size" THEN "body" ELSE "endless"
      [] phase = "endless" -> "endless"
      [] OTHER -> IF kind = "body" THEN "size" ELSE "junk"

Read ==
    /\ wire # <<>>
    /\ wire' = Tail(wire)
    /\ reading' = Step(reading, Head(wire)[1])
    /\ UNCHANGED faults

\* The body that is complete with this datagram parses, or does not.
Parses == reading = "body" /\ Head(wire)[1] = "body"
ParsesNot == reading = "junk" /\ reading' = "size"

=============================================================================
