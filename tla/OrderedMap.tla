------------------------------ MODULE OrderedMap ------------------------------
(***************************************************************************)
(* What a skip list is for: a map from scores to packets that can be asked *)
(* for its smallest score.  ret is what the last operation returned.       *)
(***************************************************************************)
EXTENDS Naturals, FiniteSets

CONSTANTS Key, Value, NoValue

VARIABLES
    map,    \* score -> packet, NoValue where there is no entry
    ret     \* <<packet, found>> of the last operation

vars == <<map, ret>>

Entries == {k \in Key : map[k] # NoValue}
IsFirst(k) == k \in Entries /\ \A j \in Entries : k <= j
NotFound == <<NoValue, FALSE>>

Init ==
    /\ map = [k \in Key |-> NoValue]
    /\ ret = NotFound

Insert(k, v) ==
    /\ map' = [map EXCEPT ![k] = v]
    /\ UNCHANGED ret

Search(k) ==
    /\ ret' = IF k \in Entries THEN <<map[k], TRUE>> ELSE NotFound
    /\ UNCHANGED map

Delete(k) ==
    /\ map' = [map EXCEPT ![k] = NoValue]
    /\ ret' = <<NoValue, k \in Entries>>

Front ==
    /\ \/ Entries = {} /\ ret' = NotFound
       \/ \E k \in Key : IsFirst(k) /\ ret' = <<map[k], TRUE>>
    /\ UNCHANGED map

PopFront ==
    \/ Entries = {} /\ ret' = NotFound /\ UNCHANGED map
    \/ \E k \in Key :
          /\ IsFirst(k)
          /\ ret' = <<map[k], TRUE>>
          /\ map' = [map EXCEPT ![k] = NoValue]

\* Due: the packets for which the caller's condition holds.
PopFrontWithCond(Due) ==
    \/ /\ \A k \in Key : IsFirst(k) => map[k] \notin Due
       /\ ret' = NotFound
       /\ UNCHANGED map
    \/ \E k \in Key :
          /\ IsFirst(k)
          /\ map[k] \in Due
          /\ ret' = <<map[k], TRUE>>
          /\ map' = [map EXCEPT ![k] = NoValue]

Next ==
    \/ \E k \in Key, v \in Value : Insert(k, v)
    \/ \E k \in Key : Search(k) \/ Delete(k)
    \/ Front
    \/ PopFront
    \/ \E Due \in SUBSET Value : PopFrontWithCond(Due)

Spec == Init /\ [][Next]_vars

=============================================================================
