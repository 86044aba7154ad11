------------------------------- MODULE SkipList -------------------------------
(***************************************************************************)
(* 10-jitter_buffer_reordering/receptor/skipList.go, pointer by pointer.   *)
(*                                                                         *)
(* A live node is named by its score; height is len(node.forward), 0 for a *)
(* score without a node.  Levels are counted from 1, the code's i is       *)
(* level i + 1.  Every operation holds sl.mu from its first to its last    *)
(* access, so it is one action.                                            *)
(***************************************************************************)
EXTENDS Integers, FiniteSets, FiniteSetsExt

CONSTANTS Key, Value, NoValue, head, Nil, MaxLevel

ASSUME SkipListAssumption ==
    /\ Key \subseteq Nat /\ IsFiniteSet(Key)      \* uint32
    /\ head \notin Key /\ Nil \notin Key
    /\ NoValue \notin Value
    /\ MaxLevel \in Nat \ {0}

VARIABLES
    height,     \* how many levels the node of a score is linked on
    packet,     \* the packet of a live node
    forward,    \* forward pointers of the nodes and of the sentinel head
    level,      \* the highest level in use
    size,
    ret         \* <<packet, found>> of the last operation

listVars == <<height, packet, forward, level, size, ret>>

Node == Key \cup {head}
NotFound == <<NoValue, FALSE>>

ListInit ==
    /\ height = [k \in Key |-> 0]
    /\ packet = [k \in Key |-> NoValue]
    /\ forward = [n \in Node |-> [i \in 1..MaxLevel |-> Nil]]
    /\ level = 1
    /\ size = 0
    /\ ret = NotFound

-----------------------------------------------------------------------------
\* Mutant of shouldAdvance: one node too far when the score is present.
AdvanceToEqual(n, score) == n # Nil /\ n <= score

shouldAdvance(n, score) == n # Nil /\ n < score

\* Where the inner loop stops on level i when it starts at node n.
Walk(i, n, score) ==
    LET walk[m \in Node] ==
            IF shouldAdvance(forward[m][i], score) THEN walk[forward[m][i]] ELSE m
    IN  walk[n]

\* The predecessors array: on the levels in use from top to bottom, each walk
\* starts where the one above it stopped.
Predecessors(score) ==
    LET pred[i \in 1..level] ==
            Walk(i, IF i = level THEN head ELSE pred[i + 1], score)
    IN  pred

\* The node after the lowest predecessor, the only one that can be score's.
Candidate(score) == forward[Predecessors(score)[1]][1]

\* Mutant of Lowered: the top levels stay in use after they became empty.
Kept(top, headForward) == top

\* "for sl.level > 1 && sl.head.forward[sl.level-1] == nil { sl.level-- }"
Lowered(top, headForward) ==
    Max({1} \cup {i \in 1..top : headForward[i] # Nil})

Insert(score, p) ==
    /\ \/ /\ Candidate(score) = score
          /\ packet' = [packet EXCEPT ![score] = p]
          /\ UNCHANGED <<height, forward, level, size>>
       \/ \E h \in 1..MaxLevel :        \* randomLevel
             /\ Candidate(score) # score
             /\ LET pred == [i \in 1..MaxLevel |->
                               IF i <= level THEN Predecessors(score)[i] ELSE head]
                IN  forward' = [n \in Node |-> [i \in 1..MaxLevel |->
                        IF i > h THEN (IF n = score THEN Nil ELSE forward[n][i])
                        ELSE IF n = score THEN forward[pred[i]][i]
                        ELSE IF n = pred[i] THEN score
                        ELSE forward[n][i]]]
             /\ height' = [height EXCEPT ![score] = h]
             /\ packet' = [packet EXCEPT ![score] = p]
             /\ level' = Max({level, h})
             /\ size' = size + 1
    /\ UNCHANGED ret

Search(score) ==
    /\ ret' = IF Candidate(score) = score THEN <<packet[score], TRUE>> ELSE NotFound
    /\ UNCHANGED <<height, packet, forward, level, size>>

\* The garbage a removed node leaves behind is not kept.
Unlinked(score) ==
    /\ height' = [height EXCEPT ![score] = 0]
    /\ packet' = [packet EXCEPT ![score] = NoValue]
    /\ size' = size - 1

Delete(score) ==
    \/ /\ Candidate(score) # score
       /\ ret' = NotFound
       /\ UNCHANGED <<height, packet, forward, level, size>>
    \/ /\ Candidate(score) = score
       /\ LET pred == Predecessors(score)
          IN  forward' = [n \in Node |-> [i \in 1..MaxLevel |->
                  IF n = score THEN Nil
                  ELSE IF i <= height[score] /\ n = pred[i] THEN forward[score][i]
                  ELSE forward[n][i]]]
       /\ level' = Lowered(level, forward'[head])
       /\ Unlinked(score)
       /\ ret' = <<NoValue, TRUE>>

Front ==
    LET node == forward[head][1]
    IN  /\ ret' = IF node = Nil THEN NotFound ELSE <<packet[node], TRUE>>
        /\ UNCHANGED <<height, packet, forward, level, size>>

\* copy(sl.head.forward, node.forward): the levels the node is linked on.
Relinked(node) ==
    [i \in 1..MaxLevel |->
        IF i <= height[node] THEN forward[node][i] ELSE forward[head][i]]

RemoveFront(node) ==
    /\ forward' = [forward EXCEPT ![head] = Relinked(node),
                                  ![node] = [i \in 1..MaxLevel |-> Nil]]
    /\ level' = Lowered(level, forward'[head])
    /\ Unlinked(node)
    /\ ret' = <<packet[node], TRUE>>

RemoveNothing ==
    /\ ret' = NotFound
    /\ UNCHANGED <<height, packet, forward, level, size>>

PopFront ==
    LET node == forward[head][1]
    IN  IF node = Nil THEN RemoveNothing ELSE RemoveFront(node)

\* shouldPop holds for the packets in Due.
PopFrontWithCond(Due) ==
    LET node == forward[head][1]
    IN  IF node = Nil \/ packet[node] \notin Due
          THEN RemoveNothing
          ELSE RemoveFront(node)

ListNext ==
    \/ \E k \in Key, v \in Value : Insert(k, v)
    \/ \E k \in Key : Search(k) \/ Delete(k)
    \/ Front
    \/ PopFront
    \/ \E Due \in SUBSET Value : PopFrontWithCond(Due)

ListSpec == ListInit /\ [][ListNext]_listVars

-----------------------------------------------------------------------------
ListTypeOK ==
    /\ height \in [Key -> 0..MaxLevel]
    /\ packet \in [Key -> Value \cup {NoValue}]
    /\ forward \in [Node -> [1..MaxLevel -> Key \cup {Nil}]]
    /\ level \in 1..MaxLevel
    /\ size \in 0..Cardinality(Key)
    /\ ret \in (Value \cup {NoValue}) \X BOOLEAN

After(n) == IF n = head THEN Key ELSE {k \in Key : k > n}

\* Every level is a sorted list of exactly the nodes that reach it: a pointer
\* leads to the next larger score of at least that height, on no level a node
\* is skipped or kept after its removal (skipList.go 107-114, 171-173, 207).
LevelsLinked ==
    \A n \in Node, i \in 1..MaxLevel :
        (n = head \/ height[n] >= i) =>
            LET later == {k \in After(n) : height[k] >= i}
            IN  forward[n][i] = IF later = {} THEN Nil ELSE Min(later)

\* level and size are those of the nodes: the search starts on the highest
\* level that is in use (skipList.go 96-102, 116, 176-180, 209-212).
LevelAndSizeExact ==
    /\ level = Max({1} \cup {height[k] : k \in Key})
    /\ size = Cardinality({k \in Key : height[k] > 0})

\* The pointers are a skip list after any sequence of operations
\* (skipList.go 61-262).
IsSkipList == ListTypeOK /\ LevelsLinked /\ LevelAndSizeExact

Map == INSTANCE OrderedMap WITH map <- packet

\* The skip list is an ordered map: what every operation leaves behind and
\* returns is what the map would (skipList.go 61-262).
ImplementsOrderedMap == Map!Spec

=============================================================================
