----------------------------------- MODULE Rtp -----------------------------------
(***************************************************************************)
(* 09-rtp_style_packetizer_seq_timeout: packets numbered by the sender, and *)
(* the receptor that sorts them into new, late and after a gap by the one   *)
(* number it keeps.  Numbers stay below the 2^32 they would wrap at.        *)
(***************************************************************************)
EXTENDS Integers, Sequences, FiniteSets, SequencesExt

VARIABLES
    senderSeq,        \* Sender.LastSeqNum
    initialized, LastSeqNum, Delayed, SeqGaps,
    arrived         \* history: the numbers in the order they were handled

rtpVars == <<senderSeq, initialized, LastSeqNum, Delayed, SeqGaps, arrived>>

Init ==
    /\ senderSeq = 0
    /\ initialized = FALSE
    /\ LastSeqNum = 0
    /\ Delayed = <<>> /\ SeqGaps = <<>>
    /\ arrived = <<>>

\* Sender.Generate.
Generate == <<senderSeq>>

\* Mutant of Gap: a single missing packet is taken for none.
GapOfTwo(seq) == seq > LastSeqNum + 2

Gap(seq) == seq > LastSeqNum + 1
Late(seq) == seq <= LastSeqNum

\* What handleRead does with a parsed packet.
Handle(seq) ==
    /\ initialized' = TRUE
    /\ SeqGaps' = IF initialized /\ Gap(seq) THEN Append(SeqGaps, seq) ELSE SeqGaps
    /\ Delayed' = IF initialized /\ Late(seq) THEN Append(Delayed, seq) ELSE Delayed
    /\ LastSeqNum' = IF initialized /\ Late(seq) THEN LastSeqNum ELSE seq
    /\ arrived' = Append(arrived, seq)
    /\ UNCHANGED senderSeq

\* Every number that was skipped when a later one came lies right before a gap
\* in the record, those that came after all are the late ones, and nothing else
\* is in either list (main.go 96-108).
GapsAndLatesTellAll ==
    arrived # <<>> =>
        LET InOrder == {i \in DOMAIN arrived : \A j \in 1..(i - 1) : arrived[j] < arrived[i]}
            Reached(s) == s \in {arrived[i] : i \in InOrder}
        IN
        /\ LastSeqNum = arrived[CHOOSE i \in InOrder : \A j \in InOrder : j <= i]
        /\ \A s \in arrived[1]..LastSeqNum :
              ~Reached(s) <=> \E g \in ToSet(SeqGaps) :
                                  s < g /\ \A t \in s..(g - 1) : ~Reached(t)
        /\ Len(Delayed) = Len(arrived) - Cardinality(InOrder)

=============================================================================
