-------------------------------- MODULE UdpProofs --------------------------------
(***************************************************************************)
(* Theorems about the UDP programs, for every value of their constants:    *)
(* UdpStreams (09 and 11) first, then ReliableUdp (08).                    *)
(***************************************************************************)
EXTENDS ReliableUdp, UdpStreams, FiniteSetTheorems, SequenceTheorems, WellFoundedInduction, TLAPS

-----------------------------------------------------------------------------
(* UdpStreams: what the XOR of payloads computes.                          *)

LEMMA SizeOfGroup == GroupSize \in Nat /\ GroupSize >= 1 /\ F!DataInGroup \in Nat
                     /\ F!DataInGroup = GroupSize - 1
<1>1. GroupSize \in Nat \ {0}
  BY UdpStreamsAssumption DEF F!FecAssumption
<1> QED
  BY <1>1 DEF F!DataInGroup

LEMMA LeastNumber ==
  ASSUME NEW S \in SUBSET Nat, S # {}
  PROVE  \E x \in S : \A y \in S : x <= y
<1>1. PICK x \in S : \A y \in S : ~ (<<y, x>> \in OpToRel(<, Nat))
  BY NatLessThanWellFounded, WFMin
<1>2. ASSUME NEW y \in S PROVE x <= y
  <2>1. <<y, x>> \in Nat \X Nat /\ <<y, x>> \notin OpToRel(<, Nat)
    BY <1>1
  <2>2. <<y, x>>[1] = y /\ <<y, x>>[2] = x
    OBVIOUS
  <2>3. ~ (y < x)
    BY <2>1, <2>2 DEF OpToRel
  <2> QED
    BY <2>3
<1> QED
  BY <1>2

\* The fold is a recursive function on the sets of places.  The function that
\* says what it should be satisfies its equation; any other that does would
\* differ first for a smallest set, which the equation excludes.
LEMMA MixedIs ==
  ASSUME NEW x, NEW packets, NEW places, IsFiniteSet(places), NEW number,
         \A i \in places : packets[i].payload = {number[i]},
         \A i, j \in places : number[i] = number[j] => i = j
  PROVE  F!Mixed(x, packets, places) = F!Xor({number[i] : i \in places}, x)
<1> DEFINE payload == [i \in places |-> packets[i].payload]
           one(s) == CHOOSE i \in s : TRUE
           G(g, s) == IF s = {} THEN x ELSE F!Xor(payload[one(s)], g[s \ {one(s)}])
           fold == CHOOSE g : g = [s \in SUBSET places |-> G(g, s)]
           known == [s \in SUBSET places |-> F!Xor({number[i] : i \in s}, x)]
<1>1. F!Mixed(x, packets, places) = fold[places]
  BY DEF F!Mixed, F!FoldFunctionOnSet, F!MapThenFoldSet
<1>2. \A s \in SUBSET places : s # {} => one(s) \in s /\ payload[one(s)] = {number[one(s)]}
  OBVIOUS
<1> HIDE DEF payload, one
<1>3. known = [s \in SUBSET places |-> G(known, s)]
  <2>1. ASSUME NEW s \in SUBSET places PROVE known[s] = G(known, s)
    <3>1. CASE s = {}
      <4>1. {number[i] : i \in s} = {}
        BY <3>1
      <4>2. F!Xor({}, x) = x
        BY DEF F!Xor
      <4> QED
        BY <3>1, <4>1, <4>2
    <3>2. CASE s # {}
      <4>1. PICK i : i = one(s) /\ i \in s /\ payload[i] = {number[i]}
        BY <1>2, <3>2
      <4>2. PICK r \in SUBSET places : r = s \ {i}
        <5>1. s \ {i} \in SUBSET places
          OBVIOUS
        <5> QED
          BY <5>1
      <4>3. known[r] = F!Xor({number[j] : j \in r}, x)
        BY <4>2
      <4>4. {number[j] : j \in s} = {number[j] : j \in r} \cup {number[i]}
        BY <4>1, <4>2
      <4>5. number[i] \notin {number[j] : j \in r}
        BY <4>1, <4>2
      <4>6. PICK A : A = {number[j] : j \in r}
        OBVIOUS
      <4>7. PICK B : B = {number[j] : j \in s}
        OBVIOUS
      <4>8. PICK n : n = number[i]
        OBVIOUS
      <4>9. B = A \cup {n} /\ n \notin A
        BY <4>4, <4>5, <4>6, <4>7, <4>8
      <4>10. F!Xor({n}, F!Xor(A, x)) = F!Xor(B, x)
        BY ONLY <4>9 DEF F!Xor
      <4>11. F!Xor({number[i]}, known[r]) = F!Xor({number[j] : j \in s}, x)
        BY <4>3, <4>6, <4>7, <4>8, <4>10
      <4> QED
        BY <3>2, <4>1, <4>2, <4>11
    <3> QED
      BY <3>1, <3>2
  <2> HIDE DEF G
  <2> QED
    BY <2>1
<1> HIDE DEF known
<1>4. fold = [s \in SUBSET places |-> G(fold, s)]
  <2> HIDE DEF G
  <2> QED
    BY <1>3
<1> HIDE DEF fold
<1>5. ASSUME NEW s \in SUBSET places
      PROVE  fold[s] = G(fold, s) /\ known[s] = G(known, s)
  BY <1>3, <1>4
<1>6. ASSUME NEW s \in SUBSET places
      PROVE  /\ Cardinality(s) \in Nat
             /\ s # {} => one(s) \in s /\ s \ {one(s)} \in SUBSET places
                          /\ Cardinality(s \ {one(s)}) = Cardinality(s) - 1
  <2>1. IsFiniteSet(s)
    BY FS_Subset
  <2> QED
    BY <1>2, <2>1, FS_CardinalityType, FS_RemoveElement
<1> DEFINE Wrong == {s \in SUBSET places : fold[s] # known[s]}
           Sizes == {Cardinality(s) : s \in Wrong}
<1>7. Wrong = {}
  <2> SUFFICES ASSUME Wrong # {} PROVE FALSE
    OBVIOUS
  <2>0. \A s \in Wrong : Cardinality(s) \in Nat
    BY <1>6
  <2>1. Sizes \in SUBSET Nat /\ Sizes # {}
    <3> HIDE DEF Wrong
    <3> QED
      BY <2>0
  <2>2. PICK n \in Sizes : \A k \in Sizes : n <= k
    <3> HIDE DEF Sizes
    <3> QED
      BY <2>1, LeastNumber
  <2>3. PICK s \in Wrong : n = Cardinality(s)
    OBVIOUS
  <2>4. s # {}
    <3>1. s \in SUBSET places
      OBVIOUS
    <3>2. s = {} => fold[s] = x /\ known[s] = x
      BY <1>5, <3>1
    <3> QED
      BY <2>3, <3>2
  <2>5. PICK r \in SUBSET places : r = s \ {one(s)} /\ Cardinality(r) = n - 1 /\ n \in Nat
    BY <1>6, <2>3, <2>4
  <2>6. r \notin Wrong
    <3>1. r \in Wrong => n <= n - 1
      BY <2>2, <2>5
    <3> QED
      BY <2>5, <3>1
  <2>7. fold[r] = known[r]
    BY <2>6
  <2>8. s \in SUBSET places
    OBVIOUS
  <2>9. fold[s] = known[s]
    BY <1>5, <2>4, <2>5, <2>7, <2>8
  <2> QED
    BY <2>9
<1>8. fold[places] = known[places]
  BY <1>7
<1> QED
  BY <1>1, <1>8 DEF known

-----------------------------------------------------------------------------
(* The packets of a group of 11, and what a verdict on some of them says.  *)

DataPacket(g, i) == [group |-> g, type |-> "data", payload |-> {g * F!DataInGroup + i}]
ParityPacket(g) == [group |-> g, type |-> "parity",
                    payload |-> {g * F!DataInGroup + i : i \in 1..F!DataInGroup}]
Group(g) == {DataPacket(g, i) : i \in 1..F!DataInGroup} \cup {ParityPacket(g)}

Once(s) == \A i, j \in DOMAIN s : s[i] = s[j] => i = j

LEMMA DataIs ==
  ASSUME NEW g, NEW i
  PROVE  /\ DataPacket(g, i).group = g /\ DataPacket(g, i).type = "data"
         /\ DataPacket(g, i).payload = {g * F!DataInGroup + i}
         /\ ParityPacket(g).group = g /\ ParityPacket(g).type = "parity"
         /\ ParityPacket(g).payload = {g * F!DataInGroup + k : k \in 1..F!DataInGroup}
  BY DEF DataPacket, ParityPacket

LEMMA InGroup ==
  ASSUME NEW g, NEW p \in Group(g)
  PROVE  /\ p.group = g /\ p.type \in {"data", "parity"}
         /\ p.type = "parity" => p = ParityPacket(g)
         /\ p.type = "data" => \E i \in 1..F!DataInGroup : p = DataPacket(g, i)
<1>1. CASE p = ParityPacket(g)
  <2>1. p.group = g /\ p.type = "parity"
    BY <1>1, DataIs
  <2> QED
    BY <1>1, <2>1
<1>2. ASSUME NEW i \in 1..F!DataInGroup, p = DataPacket(g, i) PROVE p.group = g /\ p.type = "data"
  BY <1>2, DataIs
<1> QED
  BY <1>1, <1>2 DEF Group

\* The numbers in the payloads are all different.
LEMMA DataDiffer ==
  ASSUME NEW g \in Nat, NEW i \in 1..F!DataInGroup, NEW j \in 1..F!DataInGroup,
         g * F!DataInGroup + i = g * F!DataInGroup + j
  PROVE  i = j
<1>1. g * F!DataInGroup \in Int /\ i \in Int /\ j \in Int
  BY SizeOfGroup
<1>2. PICK m \in Int : m = g * F!DataInGroup
  BY <1>1
<1>3. m + i = m + j
  BY <1>2
<1> QED
  BY <1>1, <1>3

\* Sender.Generate: every packet of the group, once.
LEMMA Generated ==
  ASSUME groupID \in Nat
  PROVE  F!Generate \in Seq(Group(groupID)) /\ Once(F!Generate)
<1> DEFINE D == F!DataInGroup
           data == [i \in 1..D |-> DataPacket(groupID, i)]
           number == [i \in 1..D |-> groupID * D + i]
<1>0. D \in Nat
  BY SizeOfGroup
<1>1. F!Mixed({}, data, 1..D) = {groupID * D + i : i \in 1..D}
  <2>1. IsFiniteSet(1..D)
    BY <1>0, FS_Interval
  <2>2. \A i \in 1..D : data[i].payload = {number[i]}
    BY DataIs
  <2>3. \A i, j \in 1..D : number[i] = number[j] => i = j
    BY DataDiffer
  <2> HIDE DEF data, number, D
  <2>4. F!Mixed({}, data, 1..D) = F!Xor({number[i] : i \in 1..D}, {})
    <3>1. PICK x, S, ps, ns : x = {} /\ S = 1..D /\ ps = data /\ ns = number
      OBVIOUS
    <3>2. /\ IsFiniteSet(S) /\ \A i \in S : ps[i].payload = {ns[i]}
          /\ \A i, j \in S : ns[i] = ns[j] => i = j
      BY <2>1, <2>2, <2>3, <3>1
    <3>3. F!Mixed(x, ps, S) = F!Xor({ns[i] : i \in S}, x)
      BY ONLY <3>2, MixedIs
    <3> QED
      BY <3>1, <3>3
  <2>5. F!Mixed({}, data, 1..D) = {number[i] : i \in 1..D}
    BY <2>4 DEF F!Xor
  <2>6. {number[i] : i \in 1..D} = {groupID * D + i : i \in 1..D}
    BY DEF number
  <2> QED
    BY <2>5, <2>6
<1>2. F!Generate = Append(data, ParityPacket(groupID))
  BY <1>1 DEF F!Generate, DataPacket, ParityPacket
<1>3. data \in Seq(Group(groupID)) /\ Len(data) = D /\ DOMAIN data = 1..D
      /\ ParityPacket(groupID) \in Group(groupID)
  <2>1. \A i \in 1..D : data[i] \in Group(groupID)
    BY DEF Group
  <2>2. data \in [1..D -> Group(groupID)]
    BY <2>1
  <2>3. ParityPacket(groupID) \in Group(groupID)
    BY DEF Group
  <2> HIDE DEF data
  <2> QED
    BY <1>0, <2>2, <2>3
<1>4. \A i \in 1..D : data[i] = DataPacket(groupID, i)
  OBVIOUS
<1> HIDE DEF data, D
<1>5. PICK s : s = F!Generate
  OBVIOUS
<1>6. /\ s \in Seq(Group(groupID)) /\ DOMAIN s = 1..(D + 1)
      /\ s[D + 1] = ParityPacket(groupID) /\ \A i \in 1..D : s[i] = data[i]
  BY <1>0, <1>2, <1>3, <1>5
<1>7. ASSUME NEW i \in 1..(D + 1), NEW j \in 1..(D + 1), s[i] = s[j] PROVE i = j
  <2>1. \A k \in 1..D : s[k].type = "data" /\ s[k].payload = {groupID * D + k}
    BY <1>4, <1>6, DataIs DEF D
  <2>2. s[D + 1].type = "parity"
    BY <1>6, DataIs
  <2>3. i = D + 1 <=> j = D + 1
    BY <1>0, <1>7, <2>1, <2>2
  <2>4. i \in 1..D /\ j \in 1..D => i = j
    <3> SUFFICES ASSUME i \in 1..D, j \in 1..D PROVE i = j
      OBVIOUS
    <3>1. groupID * D + i = groupID * D + j
      BY <1>7, <2>1
    <3> QED
      BY <3>1, DataDiffer DEF D
  <2> QED
    BY <1>0, <2>3, <2>4
<1> QED
  BY <1>5, <1>6, <1>7 DEF Once

\* A group of which no packet came twice has at most DataInGroup data packets and
\* one parity packet.
LEMMA VerdictIs ==
  ASSUME NEW g \in Nat, NEW q \in Seq(Group(g)), Once(q)
  PROVE  /\ F!Verdict(q) \in {"Recovered", "Lost"}
         /\ F!Verdict(q) = "Recovered" <=> Len(q) = GroupSize
         /\ F!Verdict(q) = "Recovered" => F!Rebuilt(q) = {}
<1> DEFINE D == F!DataInGroup
           data == F!Data(q)
           parity == DOMAIN q \ data
<1>0. D \in Nat /\ GroupSize \in Nat /\ D = GroupSize - 1
  BY SizeOfGroup
<1>1. PICK n \in Nat : n = Len(q) /\ DOMAIN q = 1..n /\ \A i \in 1..n : q[i] \in Group(g)
  OBVIOUS
<1>2. IsFiniteSet(1..n) /\ Cardinality(1..n) = n /\ IsFiniteSet(1..D) /\ Cardinality(1..D) = D
  <2>1. \A k \in Nat : IsFiniteSet(1..k) /\ Cardinality(1..k) = k
    <3> SUFFICES ASSUME NEW k \in Nat PROVE IsFiniteSet(1..k) /\ Cardinality(1..k) = k
      OBVIOUS
    <3>1. IsFiniteSet(1..k) /\ Cardinality(1..k) = IF 1 > k THEN 0 ELSE k - 1 + 1
      BY FS_Interval
    <3> QED
      BY <3>1
  <2> QED
    BY <1>0, <1>1, <2>1
<1>3. data \subseteq 1..n /\ parity \subseteq 1..n /\ data \cup parity = 1..n /\ data \cap parity = {}
  BY <1>1 DEF F!Data
<1>4. IsFiniteSet(data) /\ IsFiniteSet(parity) /\ Cardinality(data) \in Nat /\ Cardinality(parity) \in Nat
  BY <1>2, <1>3, FS_Subset, FS_CardinalityType
<1>5. n = Cardinality(data) + Cardinality(parity)
  <2>1. Cardinality(data \cup parity)
          = Cardinality(data) + Cardinality(parity) - Cardinality(data \cap parity)
    BY <1>4, FS_Union
  <2> HIDE DEF data, parity
  <2>2. Cardinality(data \cup parity) = n
    BY <1>2, <1>3
  <2>3. Cardinality(data \cap parity) = 0
    BY <1>3, FS_EmptySet
  <2>4. PICK a \in Nat, b \in Nat : a = Cardinality(data) /\ b = Cardinality(parity)
    BY <1>4
  <2>5. n = a + b - 0
    BY <2>1, <2>2, <2>3, <2>4
  <2>6. n = a + b
    BY <2>5
  <2> QED
    BY <2>4, <2>6
<1>6. \A i \in data : q[i].type = "data" /\ \E k \in 1..D : q[i] = DataPacket(g, k)
  BY <1>1, <1>3, InGroup DEF F!Data
<1>7. \A i \in parity : q[i].type = "parity" /\ q[i] = ParityPacket(g)
  BY <1>1, <1>3, InGroup DEF F!Data
<1>8. F!HaveParity(q) <=> parity # {}
  <2>1. \A i \in DOMAIN q : q[i].type = "parity" => i \in parity
    BY <1>6
  <2> QED
    BY <1>7, <2>1 DEF F!HaveParity
<1>9. Cardinality(parity) \in {0, 1} /\ (parity # {} <=> Cardinality(parity) = 1)
  <2>1. CASE parity = {}
    BY <2>1, FS_EmptySet
  <2>2. CASE parity # {}
    <3>1. PICK i : i \in parity
      BY <2>2
    <3>2. \A j \in parity : j = i
      BY <1>7, <3>1 DEF Once
    <3>3. parity = {i}
      BY <3>1, <3>2
    <3>4. Cardinality({i}) = 1
      BY FS_Singleton
    <3> QED
      BY <2>2, <3>3, <3>4
  <2> QED
    BY <2>1, <2>2
<1> DEFINE place == [i \in data |-> CHOOSE k \in 1..D : q[i] = DataPacket(g, k)]
<1>10. \A i \in data : place[i] \in 1..D /\ q[i] = DataPacket(g, place[i])
  BY <1>6
<1> HIDE DEF D, data, parity
<1>11. place \in Injection(data, 1..D)
  <2>1. place \in [data -> 1..D]
    BY <1>10
  <2>2. \A i, j \in data : place[i] = place[j] => i = j
    <3> HIDE DEF place
    <3> QED
      BY <1>1, <1>3, <1>10 DEF Once
  <2> HIDE DEF place
  <2> QED
    BY <2>1, <2>2 DEF Injection, IsInjective
<1> HIDE DEF place
<1>12. /\ Cardinality(data) <= D
       /\ Cardinality(data) = D <=> place \in Surjection(data, 1..D)
  BY <1>2, <1>11, FS_Injection
<1>13. F!Missing(q) = GroupSize - Cardinality(data)
  <2>1. F!Cardinality(F!Data(q)) = Cardinality(F!Data(q))
    BY DEF F!Cardinality, Cardinality, F!IsFiniteSet, IsFiniteSet
  <2> QED
    BY <2>1 DEF F!Missing, data
<1>14. PICK d \in Nat, p \in Nat : d = Cardinality(data) /\ p = Cardinality(parity)
  BY <1>4
<1>15. F!Missing(q) # 0 /\ (F!Missing(q) = 1 <=> d = D)
  BY <1>0, <1>12, <1>13, <1>14 DEF D
<1>16. /\ F!Verdict(q) \in {"Recovered", "Lost"}
       /\ F!Verdict(q) = "Recovered" <=> d = D /\ p = 1
  BY <1>8, <1>9, <1>14, <1>15 DEF F!Verdict
<1>17. d = D /\ p = 1 <=> n = GroupSize
  <2>1. n = d + p /\ d <= D /\ p \in {0, 1}
    BY <1>5, <1>9, <1>12, <1>14
  <2>2. D \in Nat /\ GroupSize = D + 1
    BY SizeOfGroup DEF D
  <2> QED
    BY <2>1, <2>2
<1>18. ASSUME d = D, p = 1 PROVE F!Rebuilt(q) = {}
  <2> DEFINE number == [i \in data |-> g * D + place[i]]
  <2>1. F!Parity(q) = {g * D + k : k \in 1..D}
    <3>1. PICK i : i \in parity
      BY <1>9, <1>14, <1>18
    <3>2. ParityPacket(g) \in F!ToSet(q) /\ ParityPacket(g).type = "parity"
      BY <1>3, <1>1, <1>7, <3>1 DEF F!ToSet
    <3>3. \A x \in F!ToSet(q) : x.type = "parity" => x = ParityPacket(g)
      BY <1>1, InGroup DEF F!ToSet
    <3>4. F!Parity(q) = ParityPacket(g).payload
      BY <3>2, <3>3 DEF F!Parity
    <3> QED
      BY <3>4, DataIs DEF D
  <2>2. \A i \in data : q[i].payload = {number[i]}
    BY <1>10, DataIs DEF D
  <2>3. \A i, j \in data : number[i] = number[j] => i = j
    <3>1. ASSUME NEW i \in data, NEW j \in data, number[i] = number[j] PROVE i = j
      <4>1. g * D + place[i] = g * D + place[j]
        BY <3>1
      <4>2. place[i] = place[j]
        BY <1>10, <4>1, DataDiffer DEF D
      <4> QED
        BY <1>11, <4>2 DEF Injection, IsInjective
    <3> QED
      BY <3>1
  <2>4. {number[i] : i \in data} = {g * D + k : k \in 1..D}
    <3>1. \A k \in 1..D : \E i \in data : place[i] = k
      BY <1>12, <1>14, <1>18 DEF Surjection
    <3>2. \A i \in data : number[i] = g * D + place[i]
      OBVIOUS
    <3> HIDE DEF number
    <3>3. \A x : x \in {number[i] : i \in data} <=> \E k \in 1..D : x = g * D + k
      BY <1>10, <3>1, <3>2
    <3> QED
      BY <3>3
  <2> HIDE DEF number
  <2>5. F!Mixed(F!Parity(q), q, data) = F!Xor({number[i] : i \in data}, F!Parity(q))
    BY <1>4, <2>2, <2>3, MixedIs
  <2>6. PICK S : S = F!Parity(q)
    OBVIOUS
  <2>7. F!Xor(S, S) = {}
    BY DEF F!Xor
  <2>8. F!Rebuilt(q) = F!Mixed(F!Parity(q), q, data)
    BY DEF F!Rebuilt, data
  <2> QED
    BY <2>1, <2>4, <2>5, <2>6, <2>7, <2>8
<1> QED
  BY <1>1, <1>16, <1>17, <1>18

-----------------------------------------------------------------------------
(* The types, with the packets that may be under way.                      *)

Packets == IF program = "rtp" THEN {s \in Nat : s < senderSeq}
           ELSE UNION {Group(g) : g \in {h \in Nat : h < groupID}}
Datagram == {"size", "body"} \X Packets

\* A group that is held: its number and some of its packets.
Held == UNION {{g} \X Seq(Group(g)) : g \in {h \in Nat : h < groupID}}

FaultKind == {"lostSize", "lostBody", "copied", "swapped"}

StreamTypes ==
    /\ program \in {"rtp", "fec"}
    /\ senderSeq \in Nat /\ groupID \in Nat
    /\ wire \in Seq(Datagram) /\ toSend \in Seq(Packets)
    /\ reading \in {"size", "body", "junk", "endless"}
    /\ faults \in [FaultKind -> Nat]
    /\ sent \in Nat /\ handled \in Nat
RtpTypes ==
    /\ initialized \in BOOLEAN /\ LastSeqNum \in Nat
    /\ arrived \in Seq(Nat) /\ SeqGaps \in Seq(0..senderSeq) /\ Delayed \in Seq(0..senderSeq)
FecTypes ==
    /\ groupStates \in Seq(Held)
    /\ \A i, j \in DOMAIN groupStates : groupStates[i][1] = groupStates[j][1] => i = j
    /\ stats \in [{"Completed", "Recovered", "Lost"} -> Nat]

Types == StreamTypes /\ RtpTypes /\ FecTypes

LEMMA Removed ==
  ASSUME NEW S, NEW s \in Seq(S), NEW i \in 1..Len(s)
  PROVE  /\ N!RemoveAt(s, i) \in Seq(S)
         /\ Len(N!RemoveAt(s, i)) = Len(s) - 1
         /\ \A j \in 1..(Len(s) - 1) : N!RemoveAt(s, i)[j] = IF j < i THEN s[j] ELSE s[j + 1]
<1>1. PICK n \in Nat : n = Len(s) /\ i \in 1..n /\ \A j \in 1..n : s[j] \in S
  OBVIOUS
<1>2. PICK a : a = SubSeq(s, 1, i - 1)
  OBVIOUS
<1>3. PICK b : b = SubSeq(s, i + 1, n)
  OBVIOUS
<1>4. i \in Int /\ i >= 1 /\ i <= n /\ i - 1 \in Int /\ i + 1 \in Int
  BY <1>1
<1>5. a \in Seq(S) /\ Len(a) = i - 1 /\ \A j \in 1..(i - 1) : a[j] = s[j]
  <2>1. \A j \in 1..(i - 1) : s[j] \in S
    BY <1>1, <1>4
  <2>2. /\ SubSeq(s, 1, i - 1) \in Seq(S)
        /\ Len(SubSeq(s, 1, i - 1)) = IF 1 <= i - 1 THEN i - 1 - 1 + 1 ELSE 0
        /\ \A j \in 1..(i - 1 - 1 + 1) : SubSeq(s, 1, i - 1)[j] = s[1 + j - 1]
    BY <1>4, <2>1, SubSeqProperties
  <2> QED
    BY <1>2, <1>4, <2>2
<1>6. b \in Seq(S) /\ Len(b) = n - i /\ \A j \in 1..(n - i) : b[j] = s[i + j]
  <2>1. \A j \in (i + 1)..n : s[j] \in S
    BY <1>1, <1>4
  <2>2. /\ SubSeq(s, i + 1, n) \in Seq(S)
        /\ Len(SubSeq(s, i + 1, n)) = IF i + 1 <= n THEN n - (i + 1) + 1 ELSE 0
        /\ \A j \in 1..(n - (i + 1) + 1) : SubSeq(s, i + 1, n)[j] = s[i + 1 + j - 1]
    BY <1>1, <1>4, <2>1, SubSeqProperties
  <2> QED
    BY <1>3, <1>4, <2>2
<1>7. /\ a \o b \in Seq(S) /\ Len(a \o b) = n - 1
      /\ \A j \in 1..(n - 1) : (a \o b)[j] = IF j < i THEN s[j] ELSE s[j + 1]
  <2>1. /\ a \o b \in Seq(S) /\ Len(a \o b) = Len(a) + Len(b)
        /\ \A j \in 1..(Len(a) + Len(b)) : (a \o b)[j] = IF j <= Len(a) THEN a[j] ELSE b[j - Len(a)]
    BY <1>5, <1>6, ConcatProperties
  <2>2. Len(a) + Len(b) = n - 1
    BY <1>4, <1>5, <1>6
  <2>3. ASSUME NEW j \in 1..(n - 1) PROVE (a \o b)[j] = IF j < i THEN s[j] ELSE s[j + 1]
    <3>1. (a \o b)[j] = IF j <= i - 1 THEN a[j] ELSE b[j - (i - 1)]
      BY <1>5, <2>1, <2>2
    <3>2. CASE j < i
      <4>1. j \in 1..(i - 1) /\ j <= i - 1
        BY <1>4, <3>2
      <4> QED
        BY <1>5, <3>1, <3>2, <4>1
    <3>3. CASE ~ (j < i)
      <4>1. j - (i - 1) \in 1..(n - i) /\ ~ (j <= i - 1) /\ i + (j - (i - 1)) = j + 1
        BY <1>4, <3>3
      <4> QED
        BY <1>6, <3>1, <3>3, <4>1
    <3> QED
      BY <3>2, <3>3
  <2> QED
    BY <2>1, <2>2, <2>3
<1> QED
  BY <1>1, <1>2, <1>3, <1>7 DEF N!RemoveAt

LEMMA Inserted ==
  ASSUME NEW S, NEW s \in Seq(S), NEW i \in 1..Len(s), NEW x \in S
  PROVE  N!InsertAt(s, i, x) \in Seq(S)
<1>1. PICK n \in Nat : n = Len(s) /\ i \in 1..n /\ \A j \in 1..n : s[j] \in S
  OBVIOUS
<1>2. SubSeq(s, 1, i - 1) \in Seq(S)
  <2>1. \A j \in 1..(i - 1) : s[j] \in S
    BY <1>1
  <2>2. i - 1 \in Int
    BY <1>1
  <2> QED
    BY <2>1, <2>2, SubSeqProperties
<1>3. SubSeq(s, i, n) \in Seq(S)
  <2>1. \A j \in i..n : s[j] \in S
    BY <1>1
  <2>2. i \in Int /\ n \in Int
    BY <1>1
  <2> QED
    BY <2>1, <2>2, SubSeqProperties
<1>4. <<x>> \in Seq(S)
  OBVIOUS
<1>5. SubSeq(s, 1, i - 1) \o <<x>> \in Seq(S)
  BY <1>2, <1>4, ConcatProperties
<1>6. (SubSeq(s, 1, i - 1) \o <<x>>) \o SubSeq(s, i, n) \in Seq(S)
  BY <1>3, <1>5, ConcatProperties
<1> QED
  BY <1>1, <1>6 DEF N!InsertAt

\* What Write puts on the wire.
LEMMA Written ==
  ASSUME NEW S, NEW s \in Seq(S), NEW x \in S, NEW y \in S
  PROVE  /\ s \o <<x, y>> \in Seq(S)
         /\ Len(s \o <<x, y>>) = Len(s) + 2
         /\ \A j \in 1..Len(s) : (s \o <<x, y>>)[j] = s[j]
         /\ (s \o <<x, y>>)[Len(s) + 1] = x
         /\ (s \o <<x, y>>)[Len(s) + 2] = y
<1>1. PICK t : t = <<x, y>>
  OBVIOUS
<1>2. t \in Seq(S) /\ Len(t) = 2 /\ t[1] = x /\ t[2] = y
  BY <1>1
<1>3. /\ s \o t \in Seq(S) /\ Len(s \o t) = Len(s) + Len(t)
      /\ \A j \in 1..(Len(s) + Len(t)) : (s \o t)[j] = IF j <= Len(s) THEN s[j] ELSE t[j - Len(s)]
  BY <1>2, ConcatProperties
<1>4. PICK n \in Nat : n = Len(s)
  OBVIOUS
<1>5. \A j \in 1..(n + 2) : (s \o t)[j] = IF j <= n THEN s[j] ELSE t[j - n]
  BY <1>2, <1>3, <1>4
<1>6. (s \o t)[n + 1] = t[(n + 1) - n] /\ (s \o t)[n + 2] = t[(n + 2) - n]
  <2>1. ASSUME NEW k \in {n + 1, n + 2} PROVE (s \o t)[k] = t[k - n]
    <3>1. k \in 1..(n + 2) /\ ~ (k <= n)
      OBVIOUS
    <3> QED
      BY <1>5, <3>1
  <2>2. n + 1 \in {n + 1, n + 2} /\ n + 2 \in {n + 1, n + 2}
    OBVIOUS
  <2> QED
    BY <2>1, <2>2
<1>7. \A j \in 1..n : (s \o t)[j] = s[j]
  BY <1>4, <1>5
<1>8. (n + 1) - n = 1 /\ (n + 2) - n = 2
  BY <1>4
<1> QED
  BY <1>1, <1>2, <1>3, <1>4, <1>6, <1>7, <1>8

\* Nothing that may be under way stops being so.
LEMMA PacketsGrow ==
  ASSUME program' = program, senderSeq \in Nat, groupID \in Nat,
         senderSeq' \in {senderSeq, senderSeq + 1}, groupID' \in {groupID, groupID + 1}
  PROVE  /\ Packets \subseteq Packets' /\ Datagram \subseteq Datagram' /\ Held \subseteq Held'
         /\ 0..senderSeq \subseteq 0..senderSeq'
         /\ program = "rtp" /\ senderSeq' = senderSeq + 1 => senderSeq \in Packets'
         /\ program # "rtp" /\ groupID' = groupID + 1 => Group(groupID) \subseteq Packets'
<1>1. \A g \in Nat : Group(g)' = Group(g)
  BY DEF Group, DataPacket, ParityPacket, F!DataInGroup
<1>2. \A h \in Nat : h < groupID => h < groupID'
  OBVIOUS
<1>3. \A h \in Nat : h < senderSeq => h < senderSeq'
  OBVIOUS
<1>4. groupID' \in Nat /\ senderSeq' \in Nat
  OBVIOUS
<1>5. Packets \subseteq Packets' /\ Held \subseteq Held'
  BY <1>1, <1>2, <1>3 DEF Packets, Held
<1>6. groupID' = groupID + 1 => groupID < groupID'
  OBVIOUS
<1>7. senderSeq' = senderSeq + 1 => senderSeq < senderSeq'
  OBVIOUS
<1>8. 0..senderSeq \subseteq 0..senderSeq'
  OBVIOUS
<1> QED
  BY <1>1, <1>5, <1>6, <1>7, <1>8 DEF Datagram, Packets

LEMMA TypesStart == StreamsInit => Types
<1> SUFFICES ASSUME StreamsInit PROVE Types
  OBVIOUS
<1>1. StreamTypes
  <2>1. faults \in [FaultKind -> Nat]
    BY DEF StreamsInit, N!Init, FaultKind
  <2> QED
    BY <2>1, EmptySeq DEF StreamsInit, N!Init, R!Init, F!Init, StreamTypes
<1>2. RtpTypes
  BY EmptySeq DEF StreamsInit, R!Init, RtpTypes
<1>3. stats \in [{"Completed", "Recovered", "Lost"} -> Nat]
  BY DEF StreamsInit, F!Init
<1>4. FecTypes
  BY <1>3, EmptySeq DEF StreamsInit, F!Init, FecTypes
<1> QED
  BY <1>1, <1>2, <1>4 DEF Types

\* What a step of the network does to the wire.
LEMMA NetworkIs ==
  ASSUME Types, Network
  PROVE  /\ \E i \in 1..Len(wire) :
             \/ /\ wire' = N!RemoveAt(wire, i)
                /\ \/ /\ wire[i][1] = "size" /\ faults' = [faults EXCEPT !["lostSize"] = @ + 1]
                   \/ /\ wire[i][1] = "body" /\ faults' = [faults EXCEPT !["lostBody"] = @ + 1]
             \/ /\ wire' = N!InsertAt(wire, i, wire[i])
                /\ faults' = [faults EXCEPT !["copied"] = @ + 1]
             \/ /\ i < Len(wire) /\ wire' = [wire EXCEPT ![i] = wire[i + 1], ![i + 1] = wire[i]]
                /\ faults' = [faults EXCEPT !["swapped"] = @ + 1]
         /\ UNCHANGED <<reading, program, rtpVars, fecVars, toSend, ticks, crashed, sent, handled>>
<1>1. PICK i \in DOMAIN wire : N!Lose(i) \/ N!Copy(i) \/ N!Swap(i)
  BY DEF Network
<1>2. DOMAIN wire = 1..Len(wire) /\ wire[i] \in Datagram
  BY DEF Types, StreamTypes
<1>3. wire[i][1] \in {"size", "body"}
  BY <1>2 DEF Datagram
<1> QED
  BY <1>1, <1>2, <1>3 DEF Network, N!Lose, N!Copy, N!Swap, N!Fault

LEMMA NetworkTypes == ASSUME Types, Network PROVE Types'
<1>1. PICK i \in 1..Len(wire) :
             \/ /\ wire' = N!RemoveAt(wire, i)
                /\ \/ /\ wire[i][1] = "size" /\ faults' = [faults EXCEPT !["lostSize"] = @ + 1]
                   \/ /\ wire[i][1] = "body" /\ faults' = [faults EXCEPT !["lostBody"] = @ + 1]
             \/ /\ wire' = N!InsertAt(wire, i, wire[i])
                /\ faults' = [faults EXCEPT !["copied"] = @ + 1]
             \/ /\ i < Len(wire) /\ wire' = [wire EXCEPT ![i] = wire[i + 1], ![i + 1] = wire[i]]
                /\ faults' = [faults EXCEPT !["swapped"] = @ + 1]
  BY NetworkIs
<1>2. UNCHANGED <<reading, program, rtpVars, fecVars, toSend, ticks, crashed, sent, handled>>
  BY NetworkIs
<1>3. wire \in Seq(Datagram) /\ faults \in [FaultKind -> Nat]
  BY DEF Types, StreamTypes
<1>4. faults' \in [FaultKind -> Nat]
  <2>1. PICK k \in FaultKind : faults' = [faults EXCEPT ![k] = @ + 1]
    BY <1>1 DEF FaultKind
  <2> QED
    BY <1>3, <2>1
<1>5. wire' \in Seq(Datagram)
  <2>0. wire[i] \in Datagram
    BY <1>3
  <2>1. CASE wire' = N!RemoveAt(wire, i)
    BY <1>3, <2>1, Removed
  <2>2. CASE wire' = N!InsertAt(wire, i, wire[i])
    BY <1>3, <2>0, <2>2, Inserted
  <2>3. CASE i < Len(wire) /\ wire' = [wire EXCEPT ![i] = wire[i + 1], ![i + 1] = wire[i]]
    <3>1. PICK n \in Nat : n = Len(wire) /\ wire \in [1..n -> Datagram] /\ i \in 1..n /\ i < n
      BY <1>3, <2>3
    <3>2. i + 1 \in 1..n /\ wire[i + 1] \in Datagram
      BY <3>1
    <3>3. wire' \in [1..n -> Datagram]
      BY <2>0, <2>3, <3>1, <3>2
    <3> QED
      BY <3>3
  <2> QED
    BY <1>1, <2>1, <2>2, <2>3
<1>6. Packets' = Packets /\ Datagram' = Datagram /\ Held' = Held
  BY <1>2 DEF Packets, Datagram, Held, rtpVars, fecVars, Group, DataPacket, ParityPacket, F!DataInGroup
<1>7. StreamTypes'
  BY <1>2, <1>4, <1>5, <1>6 DEF Types, StreamTypes, rtpVars, fecVars
<1>8. RtpTypes'
  BY <1>2 DEF Types, RtpTypes, rtpVars
<1>9. FecTypes'
  BY <1>2, <1>6 DEF Types, FecTypes, fecVars
<1> QED
  BY <1>7, <1>8, <1>9 DEF Types

\* What stays as it is when packets are generated.
LEMMA GrowTypes ==
  ASSUME Types, UNCHANGED <<program, wire, reading, faults, sent, handled, initialized, LastSeqNum,
                            Delayed, SeqGaps, arrived, groupStates, stats>>,
         senderSeq' \in {senderSeq, senderSeq + 1}, groupID' \in {groupID, groupID + 1},
         toSend' \in Seq(Packets')
  PROVE  Types'
<1>1. /\ program' = program /\ senderSeq \in Nat /\ groupID \in Nat
      /\ senderSeq' \in Nat /\ groupID' \in Nat
  BY DEF Types, StreamTypes
<1>2. Packets \subseteq Packets' /\ Datagram \subseteq Datagram' /\ Held \subseteq Held'
      /\ 0..senderSeq \subseteq 0..senderSeq'
  BY <1>1, PacketsGrow
<1>3. wire' \in Seq(Datagram')
  <2>1. wire' \in Seq(Datagram)
    BY DEF Types, StreamTypes
  <2> QED
    BY <1>2, <2>1, SeqMonotonic
<1>4. groupStates' \in Seq(Held')
  <2>1. groupStates' \in Seq(Held)
    BY DEF Types, FecTypes
  <2> QED
    BY <1>2, <2>1, SeqMonotonic
<1>5. SeqGaps' \in Seq(0..senderSeq') /\ Delayed' \in Seq(0..senderSeq')
  <2>1. SeqGaps' \in Seq(0..senderSeq) /\ Delayed' \in Seq(0..senderSeq)
    BY DEF Types, RtpTypes
  <2> QED
    BY <1>2, <2>1, SeqMonotonic
<1>6. StreamTypes'
  BY <1>1, <1>3 DEF Types, StreamTypes
<1>7. RtpTypes'
  BY <1>5 DEF Types, RtpTypes
<1>8. FecTypes'
  BY <1>4 DEF Types, FecTypes
<1> QED
  BY <1>6, <1>7, <1>8 DEF Types

LEMMA GenerateTypes == ASSUME Types, Generate PROVE Types'
<1>1. UNCHANGED <<program, wire, reading, faults, sent, handled, initialized, LastSeqNum,
                  Delayed, SeqGaps, arrived, groupStates, stats>>
  BY DEF Generate
<1>2. program \in {"rtp", "fec"} /\ senderSeq \in Nat /\ groupID \in Nat
  BY DEF Types, StreamTypes
<1>3. CASE program = "rtp"
  <2>1. toSend' = <<senderSeq>> /\ senderSeq' = senderSeq + 1 /\ groupID' = groupID
    BY <1>3 DEF Generate, R!Generate
  <2>2. senderSeq \in Packets'
    BY <1>1, <1>2, <1>3, <2>1, PacketsGrow
  <2>3. toSend' \in Seq(Packets')
    BY <2>1, <2>2
  <2> QED
    BY <1>1, <2>1, <2>3, GrowTypes
<1>4. CASE program = "fec"
  <2>1. toSend' = F!Generate /\ groupID' = groupID + 1 /\ senderSeq' = senderSeq
    BY <1>4 DEF Generate
  <2>2. Group(groupID) \subseteq Packets'
    BY <1>1, <1>2, <1>4, <2>1, PacketsGrow
  <2>3. F!Generate \in Seq(Group(groupID))
    BY <1>2, Generated
  <2>4. toSend' \in Seq(Packets')
    BY <2>1, <2>2, <2>3, SeqMonotonic
  <2> QED
    BY <1>1, <2>1, <2>4, GrowTypes
<1> QED
  BY <1>2, <1>3, <1>4

LEMMA SamePackets ==
  ASSUME UNCHANGED <<program, senderSeq, groupID>>
  PROVE  Packets' = Packets /\ Datagram' = Datagram /\ Held' = Held
  BY DEF Packets, Datagram, Held, Group, DataPacket, ParityPacket, F!DataInGroup

LEMMA SendTypes == ASSUME Types, Send PROVE Types'
<1>1. UNCHANGED <<program, reading, faults, rtpVars, fecVars, ticks, crashed, handled>>
  BY DEF Send
<1>2. toSend # <<>> /\ toSend' = Tail(toSend) /\ toSend \in Seq(Packets)
      /\ wire \in Seq(Datagram) /\ sent \in Nat
  BY DEF Send, Types, StreamTypes
<1>3. Head(toSend) \in Packets /\ toSend' \in Seq(Packets)
  BY <1>2, HeadTailProperties
<1>4. wire' \in Seq(Datagram) /\ sent' \in Nat
  <2>1. CASE UNCHANGED <<wire, sent>>
    BY <1>2, <2>1
  <2>2. CASE N!Write(Head(toSend)) /\ sent' = sent + 1
    <3>1. PICK p \in Packets : p = Head(toSend)
      BY <1>3
    <3>2. wire' = wire \o <<<<"size", p>>, <<"body", p>>>>
      BY <2>2, <3>1 DEF N!Write
    <3>3. <<"size", p>> \in Datagram /\ <<"body", p>> \in Datagram
      BY DEF Datagram
    <3>4. wire \o <<<<"size", p>>, <<"body", p>>>> \in Seq(Datagram)
      BY <1>2, <3>3, Written
    <3> QED
      BY <1>2, <2>2, <3>2, <3>4
  <2> QED
    BY <2>1, <2>2 DEF Send
<1>5. Packets' = Packets /\ Datagram' = Datagram /\ Held' = Held
  BY <1>1, SamePackets DEF rtpVars, fecVars
<1>6. StreamTypes'
  BY <1>1, <1>3, <1>4, <1>5 DEF Types, StreamTypes, rtpVars, fecVars
<1>7. RtpTypes'
  BY <1>1 DEF Types, RtpTypes, rtpVars
<1>8. FecTypes'
  BY <1>1, <1>5 DEF Types, FecTypes, fecVars
<1> QED
  BY <1>6, <1>7, <1>8 DEF Types

\* A datagram is read, and with it a packet may be complete.
LEMMA ReadIs ==
  ASSUME Types, HandleRead
  PROVE  /\ wire # <<>> /\ Head(wire) \in Datagram /\ Head(wire)[2] \in Packets
         /\ wire' = Tail(wire) /\ wire' \in Seq(Datagram)
         /\ reading' = N!Step(reading, Head(wire)[1])
         /\ UNCHANGED <<program, faults, senderSeq, groupID, stats, verdicts, toSend, ticks, sent>>
         /\ \/ /\ N!Parses /\ handled' = handled + 1
               /\ \/ program = "rtp" /\ R!Handle(Head(wire)[2]) /\ UNCHANGED fecVars
                  \/ program = "fec" /\ F!Handle(Head(wire)[2]) /\ UNCHANGED rtpVars
            \/ ~ N!Parses /\ UNCHANGED <<rtpVars, fecVars, handled>>
<1>1. wire \in Seq(Datagram) /\ wire # <<>> /\ wire' = Tail(wire) /\ UNCHANGED faults
      /\ reading' = N!Step(reading, Head(wire)[1])
  BY DEF Types, StreamTypes, HandleRead, N!Read
<1>2. Head(wire) \in Datagram /\ Tail(wire) \in Seq(Datagram)
  BY <1>1, HeadTailProperties
<1>3. Head(wire)[2] \in Packets
  BY <1>2 DEF Datagram
<1>4. \/ /\ N!Parses /\ handled' = handled + 1
         /\ \/ program = "rtp" /\ R!Handle(Head(wire)[2]) /\ UNCHANGED fecVars
            \/ program = "fec" /\ F!Handle(Head(wire)[2]) /\ UNCHANGED rtpVars
      \/ ~ N!Parses /\ UNCHANGED <<rtpVars, fecVars, handled>>
  BY DEF HandleRead
<1>5. UNCHANGED <<program, toSend, ticks, sent>>
  BY DEF HandleRead
<1>6. UNCHANGED <<senderSeq, groupID, stats, verdicts>>
  BY <1>4 DEF rtpVars, fecVars, R!Handle, F!Handle
<1> QED
  BY <1>1, <1>2, <1>3, <1>4, <1>5, <1>6

LEMMA RtpHandleTypes ==
  ASSUME RtpTypes, senderSeq \in Nat, NEW new \in {s \in Nat : s < senderSeq}, R!Handle(new)
  PROVE  RtpTypes'
<1>1. new \in Nat /\ new \in 0..senderSeq /\ senderSeq' = senderSeq
  BY DEF R!Handle
<1>2. arrived' \in Seq(Nat)
  BY <1>1, AppendProperties DEF R!Handle, RtpTypes
<1>3. SeqGaps' \in Seq(0..senderSeq)
  BY <1>1, AppendProperties DEF R!Handle, RtpTypes
<1>4. Delayed' \in Seq(0..senderSeq)
  BY <1>1, AppendProperties DEF R!Handle, RtpTypes
<1>5. initialized' \in BOOLEAN /\ LastSeqNum' \in Nat
  BY <1>1 DEF R!Handle, RtpTypes
<1> QED
  BY <1>1, <1>2, <1>3, <1>4, <1>5 DEF RtpTypes

\* What a packet does to the groups held: it is the first of a new one, or the
\* last so far of the one of its number.
LEMMA FecHandleIs ==
  ASSUME FecTypes, NEW g \in Nat, g < groupID, NEW p \in Group(g), F!Handle(p)
  PROVE  \/ /\ \A i \in DOMAIN groupStates : groupStates[i][1] # g
            /\ groupStates' = Append(groupStates, <<g, <<p>>>>)
         \/ \E i \in DOMAIN groupStates :
               /\ groupStates[i][1] = g /\ groupStates[i][2] \in Seq(Group(g))
               /\ groupStates' = [groupStates EXCEPT ![i] = <<g, Append(@[2], p)>>]
<1>1. p.group = g
  BY InGroup
<1> DEFINE held == {i \in DOMAIN groupStates : groupStates[i][1] = g}
<1>2. groupStates' =
          IF held = {} THEN Append(groupStates, <<g, <<p>>>>)
          ELSE [i \in DOMAIN groupStates |->
                  IF i \in held THEN <<g, Append(groupStates[i][2], p)>> ELSE groupStates[i]]
  BY <1>1 DEF F!Handle
<1>3. CASE held = {}
  BY <1>2, <1>3
<1>4. CASE held # {}
  <2>1. PICK i : i \in held
    BY <1>4
  <2>2. i \in DOMAIN groupStates /\ groupStates[i][1] = g
    BY <2>1
  <2>3. \A j \in DOMAIN groupStates : j \in held <=> j = i
    BY <2>2 DEF FecTypes
  <2>4. groupStates[i][2] \in Seq(Group(g))
    <3>1. groupStates[i] \in Held
      BY <2>2 DEF FecTypes
    <3>2. PICK h \in Nat : groupStates[i] \in {h} \X Seq(Group(h))
      BY <3>1 DEF Held
    <3> QED
      BY <2>2, <3>2
  <2> HIDE DEF held
  <2>5. groupStates' = [j \in DOMAIN groupStates |->
                  IF j \in held THEN <<g, Append(groupStates[j][2], p)>> ELSE groupStates[j]]
    BY <1>2, <1>4
  <2>6. groupStates' = [groupStates EXCEPT ![i] = <<g, Append(groupStates[i][2], p)>>]
    <3>1. PICK e : e = <<g, Append(groupStates[i][2], p)>>
      OBVIOUS
    <3>2. groupStates' = [j \in DOMAIN groupStates |-> IF j = i THEN e ELSE groupStates[j]]
      BY <2>3, <2>5, <3>1
    <3> QED
      BY <3>1, <3>2
  <2> QED
    BY <2>2, <2>4, <2>6
<1> QED
  BY <1>3, <1>4

LEMMA FecHandleTypes ==
  ASSUME FecTypes, NEW g \in Nat, g < groupID, NEW p \in Group(g), F!Handle(p)
  PROVE  FecTypes'
<1>1. groupStates \in Seq(Held)
  BY DEF FecTypes
<1>2. PICK n \in Nat : n = Len(groupStates) /\ groupStates \in [1..n -> Held] /\ DOMAIN groupStates = 1..n
  BY <1>1
<1>3. Held' = Held /\ stats' = stats
  BY DEF F!Handle, Held, Group, DataPacket, ParityPacket, F!DataInGroup
<1>4. ASSUME NEW q \in Seq(Group(g)) PROVE <<g, q>> \in Held
  BY <1>4 DEF Held
<1>5. CASE /\ \A i \in DOMAIN groupStates : groupStates[i][1] # g
           /\ groupStates' = Append(groupStates, <<g, <<p>>>>)
  <2>1. <<p>> \in Seq(Group(g))
    OBVIOUS
  <2>2. PICK e \in Held : e = <<g, <<p>>>> /\ e[1] = g
    BY <1>4, <2>1
  <2>3. /\ groupStates' \in Seq(Held) /\ DOMAIN groupStates' = 1..(n + 1)
        /\ \A i \in 1..n : groupStates'[i] = groupStates[i]
        /\ groupStates'[n + 1] = e
    BY <1>1, <1>2, <1>5, <2>2, AppendProperties
  <2>4. ASSUME NEW i \in 1..(n + 1), NEW j \in 1..(n + 1), groupStates'[i][1] = groupStates'[j][1]
        PROVE  i = j
    <3>1. i \in 1..n \/ i = n + 1
      OBVIOUS
    <3>2. j \in 1..n \/ j = n + 1
      OBVIOUS
    <3>3. \A k \in 1..n : groupStates'[k][1] = groupStates[k][1] /\ groupStates[k][1] # g
      BY <1>2, <1>5, <2>3
    <3>4. groupStates'[n + 1][1] = g
      BY <2>2, <2>3
    <3>5. i \in 1..n /\ j \in 1..n => i = j
      BY <1>2, <2>4, <3>3 DEF FecTypes
    <3> QED
      BY <2>4, <3>1, <3>2, <3>3, <3>4, <3>5
  <2> QED
    BY <1>3, <2>3, <2>4 DEF FecTypes
<1>6. ASSUME NEW i \in DOMAIN groupStates, groupStates[i][1] = g,
             groupStates[i][2] \in Seq(Group(g)),
             groupStates' = [groupStates EXCEPT ![i] = <<g, Append(groupStates[i][2], p)>>]
      PROVE  FecTypes'
  <2>1. Append(groupStates[i][2], p) \in Seq(Group(g))
    BY <1>6, AppendProperties
  <2>2. PICK e \in Held : e = <<g, Append(groupStates[i][2], p)>> /\ e[1] = g
    BY <1>4, <2>1
  <2>3. groupStates' = [groupStates EXCEPT ![i] = e]
    BY <1>6, <2>2
  <2>4. groupStates' \in [1..n -> Held] /\ DOMAIN groupStates' = 1..n
    BY <1>2, <2>3
  <2>5. groupStates' \in Seq(Held)
    BY <2>4
  <2>6. \A j \in 1..n : groupStates'[j][1] = groupStates[j][1]
    <3>1. \A j \in 1..n : groupStates'[j] = IF j = i THEN e ELSE groupStates[j]
      BY <1>2, <2>3
    <3> QED
      BY <1>6, <2>2, <3>1
  <2>7. \A j, k \in 1..n : groupStates'[j][1] = groupStates'[k][1] => j = k
    BY <1>2, <2>6 DEF FecTypes
  <2> QED
    BY <1>3, <2>4, <2>5, <2>7 DEF FecTypes
<1> QED
  BY <1>5, <1>6, FecHandleIs

LEMMA PacketIs ==
  ASSUME NEW p \in Packets
  PROVE  /\ program = "rtp" => p \in {s \in Nat : s < senderSeq}
         /\ program = "fec" => \E g \in Nat : g < groupID /\ p \in Group(g)
  BY DEF Packets

LEMMA HandleReadTypes == ASSUME Types, HandleRead PROVE Types'
<1>1. /\ wire' \in Seq(Datagram) /\ Head(wire)[2] \in Packets /\ Head(wire)[1] \in {"size", "body"}
      /\ UNCHANGED <<program, faults, senderSeq, groupID, stats, verdicts, toSend, ticks, sent>>
  BY ReadIs DEF Datagram
<1>2. reading' \in {"size", "body", "junk", "endless"}
  BY <1>1, ReadIs DEF N!Step, Types, StreamTypes
<1>3. Packets' = Packets /\ Datagram' = Datagram /\ Held' = Held
  BY <1>1, SamePackets
<1>4. handled' \in Nat
  BY ReadIs DEF Types, StreamTypes
<1>5. StreamTypes'
  BY <1>1, <1>2, <1>3, <1>4 DEF Types, StreamTypes
<1>6. RtpTypes' /\ FecTypes'
  <2>1. CASE UNCHANGED <<rtpVars, fecVars>>
    BY <1>3, <2>1 DEF Types, RtpTypes, FecTypes, rtpVars, fecVars
  <2>2. CASE program = "rtp" /\ R!Handle(Head(wire)[2]) /\ UNCHANGED fecVars
    <3>1. RtpTypes'
      BY <1>1, <2>2, PacketIs, RtpHandleTypes DEF Types, StreamTypes
    <3>2. FecTypes'
      BY <1>3, <2>2 DEF Types, FecTypes, fecVars
    <3> QED
      BY <3>1, <3>2
  <2>3. CASE program = "fec" /\ F!Handle(Head(wire)[2]) /\ UNCHANGED rtpVars
    <3>1. PICK p \in Packets : p = Head(wire)[2]
      BY <1>1
    <3>2. PICK g \in Nat : g < groupID /\ p \in Group(g)
      BY <2>3, <3>1, PacketIs
    <3>3. FecTypes'
      BY <2>3, <3>1, <3>2, FecHandleTypes DEF Types
    <3>4. RtpTypes'
      BY <2>3 DEF Types, RtpTypes, rtpVars
    <3> QED
      BY <3>3, <3>4
  <2> QED
    BY <2>1, <2>2, <2>3, ReadIs
<1> QED
  BY <1>5, <1>6 DEF Types

LEMMA Judged ==
  ASSUME NEW packets
  PROVE  F!Verdict(packets) \in {"Completed", "Recovered", "Lost"}
  BY DEF F!Verdict

\* What a tick of the monitor does.
LEMMA MonitorIs ==
  ASSUME Types, Monitor
  PROVE  /\ groupStates # <<>>
         /\ \E g \in Nat : g < groupID /\ Head(groupStates) \in {g} \X Seq(Group(g))
         /\ stats' = [stats EXCEPT ![F!Verdict(Head(groupStates)[2])] = @ + 1]
         /\ verdicts' = verdicts \cup {[verdict |-> F!Verdict(Head(groupStates)[2]),
                                        packets |-> Head(groupStates)[2]]}
         /\ groupStates' = Tail(groupStates)
         /\ UNCHANGED <<program, wire, reading, faults, rtpVars, groupID, toSend, ticks, crashed,
                        sent, handled>>
<1>1. groupStates # <<>> /\ groupStates \in Seq(Held)
  BY DEF Monitor, F!Monitor, Types, FecTypes
<1>2. Head(groupStates) \in Held
  BY <1>1, HeadTailProperties
<1>3. \E g \in Nat : g < groupID /\ Head(groupStates) \in {g} \X Seq(Group(g))
  BY <1>2 DEF Held
<1> QED
  BY <1>1, <1>3 DEF Monitor, F!Monitor

LEMMA MonitorTypes == ASSUME Types, Monitor PROVE Types'
<1>1. /\ UNCHANGED <<program, wire, reading, faults, rtpVars, groupID, toSend, ticks, crashed,
                     sent, handled>>
      /\ groupStates # <<>> /\ groupStates' = Tail(groupStates)
      /\ stats' = [stats EXCEPT ![F!Verdict(Head(groupStates)[2])] = @ + 1]
  BY MonitorIs
<1>2. Packets' = Packets /\ Datagram' = Datagram /\ Held' = Held
  BY <1>1, SamePackets DEF rtpVars
<1>3. StreamTypes'
  BY <1>1, <1>2 DEF Types, StreamTypes, rtpVars
<1>4. RtpTypes'
  BY <1>1 DEF Types, RtpTypes, rtpVars
<1>5. FecTypes'
  <2>1. groupStates \in Seq(Held) /\ stats \in [{"Completed", "Recovered", "Lost"} -> Nat]
    BY DEF Types, FecTypes
  <2>2. stats' \in [{"Completed", "Recovered", "Lost"} -> Nat]
    <3>1. PICK v \in {"Completed", "Recovered", "Lost"} : stats' = [stats EXCEPT ![v] = @ + 1]
      BY <1>1, Judged
    <3> QED
      BY <2>1, <3>1
  <2>3. /\ groupStates' \in Seq(Held)
        /\ \A i \in DOMAIN groupStates' : groupStates'[i] = groupStates[i + 1]
                                          /\ i + 1 \in DOMAIN groupStates
    <3>1. PICK n \in Nat : n = Len(groupStates)
      BY <2>1
    <3>2. groupStates' \in Seq(Held) /\ Len(groupStates') = n - 1
          /\ \A i \in 1..Len(groupStates') : groupStates'[i] = groupStates[i + 1]
      BY <1>1, <2>1, <3>1, HeadTailProperties
    <3>3. \A i \in 1..(n - 1) : i + 1 \in 1..n
      OBVIOUS
    <3> QED
      BY <2>1, <3>1, <3>2, <3>3
  <2>4. ASSUME NEW i \in DOMAIN groupStates', NEW j \in DOMAIN groupStates',
               groupStates'[i][1] = groupStates'[j][1]
        PROVE  i = j
    <3>1. i + 1 = j + 1
      BY <2>3, <2>4 DEF Types, FecTypes
    <3>2. i \in Int /\ j \in Int
      BY <2>3
    <3> QED
      BY <3>1, <3>2
  <2> QED
    BY <1>2, <2>2, <2>3, <2>4 DEF FecTypes
<1> QED
  BY <1>3, <1>4, <1>5 DEF Types

LEMMA TypesStep == ASSUME Types, [StreamsNext]_streamsVars PROVE Types'
<1>1. CASE UNCHANGED streamsVars
  <2>1. Packets' = Packets /\ Datagram' = Datagram /\ Held' = Held
    BY <1>1, SamePackets DEF streamsVars, rtpVars, fecVars
  <2> QED
    BY <1>1, <2>1 DEF streamsVars, rtpVars, fecVars, Types, StreamTypes, RtpTypes, FecTypes
<1> QED
  BY <1>1, GenerateTypes, SendTypes, NetworkTypes, HandleReadTypes, MonitorTypes DEF StreamsNext

\* What is under way, waiting or held are packets that the sender has generated, and a
\* group number is held at most once (11 receptor main.go 121-134, 189).
THEOREM StreamsTypes == StreamsSpec => []Types
  BY TypesStart, TypesStep, PTL DEF StreamsSpec

\* What StreamsTypeOK says beside the types: the receptor of 11 holds no more
\* groups than were sent, one for each number (receptor main.go 121-134).
LEMMA StreamsTypeOKHolds == Types => StreamsTypeOK
<1> SUFFICES ASSUME Types PROVE StreamsTypeOK
  OBVIOUS
<1>1. ToSet(SeqGaps) \cup ToSet(Delayed) \subseteq 0..senderSeq
  <2>1. SeqGaps \in Seq(0..senderSeq) /\ Delayed \in Seq(0..senderSeq)
    BY DEF Types, RtpTypes
  <2>2. ASSUME NEW S, NEW s \in Seq(S) PROVE ToSet(s) \subseteq S
    <3>1. \A i \in DOMAIN s : s[i] \in S
      OBVIOUS
    <3>2. ToSet(s) = {s[i] : i \in DOMAIN s}
      BY DEF ToSet
    <3> QED
      BY <3>1, <3>2
  <2>3. PICK S : S = 0..senderSeq
    OBVIOUS
  <2>4. ToSet(SeqGaps) \subseteq S /\ ToSet(Delayed) \subseteq S
    BY <2>1, <2>2, <2>3
  <2> QED
    BY <2>3, <2>4
<1>2. PICK n \in Nat, m \in Nat : n = Len(groupStates) /\ m = groupID
  BY DEF Types, StreamTypes, FecTypes
<1>3. n <= m
  <2> DEFINE number == [i \in 1..n |-> groupStates[i][1]]
             numbers == 0..(m - 1)
  <2>1. DOMAIN groupStates = 1..n /\ \A i \in 1..n : groupStates[i] \in Held
    BY <1>2 DEF Types, FecTypes
  <2>2. \A i \in 1..n : groupStates[i][1] \in Nat /\ groupStates[i][1] < m
    <3> SUFFICES ASSUME NEW i \in 1..n PROVE groupStates[i][1] \in Nat /\ groupStates[i][1] < m
      OBVIOUS
    <3>1. PICK g \in Nat : g < m /\ groupStates[i] \in {g} \X Seq(Group(g))
      BY <1>2, <2>1 DEF Held
    <3> QED
      BY <3>1
  <2>3. number \in [1..n -> numbers]
    <3>1. \A i \in 1..n : groupStates[i][1] \in numbers
      BY <1>2, <2>2
    <3> QED
      BY <3>1
  <2>4. \A i, j \in 1..n : number[i] = number[j] => i = j
    BY <2>1 DEF Types, FecTypes
  <2>5. number \in Injection(1..n, numbers)
    <3> HIDE DEF number, numbers
    <3> QED
      BY <2>3, <2>4 DEF Injection, IsInjective
  <2>6. IsFiniteSet(1..n) /\ Cardinality(1..n) = n
    <3>1. IsFiniteSet(1..n) /\ Cardinality(1..n) = IF 1 > n THEN 0 ELSE n - 1 + 1
      BY FS_Interval
    <3> QED
      BY <3>1
  <2>7. IsFiniteSet(numbers) /\ Cardinality(numbers) = m
    <3>1. m - 1 \in Int
      BY <1>2
    <3>2. IsFiniteSet(0..(m - 1)) /\ Cardinality(0..(m - 1)) = IF 0 > m - 1 THEN 0 ELSE (m - 1) - 0 + 1
      BY <3>1, FS_Interval
    <3>3. Cardinality(0..(m - 1)) = m
      BY <1>2, <3>2
    <3> QED
      BY <3>2, <3>3
  <2> HIDE DEF number, numbers
  <2>8. Cardinality(1..n) <= Cardinality(numbers)
    BY <2>5, <2>6, <2>7, FS_Injection
  <2> QED
    BY <2>6, <2>7, <2>8
<1> QED
  BY <1>1, <1>2, <1>3 DEF StreamsTypeOK, Types, StreamTypes

-----------------------------------------------------------------------------
(* A lost body costs one packet more.  Of what is under way a body counts   *)
(* for two packets and a size for one less, what the reads hold being       *)
(* Awaited: a size is owed the one packet of its body, a size and another   *)
(* size the two packets that will go wrong.                                 *)

Weight(d) == IF d[1] = "body" THEN 2 ELSE -1
Sums(w, s) ==
    /\ w \in [0..Len(s) -> Int]
    /\ w[0] = 0
    /\ \A i \in 1..Len(s) : w[i] = w[i - 1] + Weight(s[i])

Awaited == CASE reading = "size" -> 0 [] reading = "body" -> 1 [] OTHER -> 2

BodyAfterSize ==
    \A i \in 1..Len(wire) :
        wire[i][1] = "body" => IF i = 1 THEN reading # "size" ELSE wire[i - 1][1] = "size"

InPlace == faults.lostSize + faults.copied + faults.swapped = 0

PlaceInv ==
    InPlace =>
        /\ reading # "endless"
        /\ BodyAfterSize
        /\ \E w : /\ Sums(w, wire)
                  /\ handled + w[Len(wire)] + 2 * faults.lostBody >= sent + Awaited

LEMMA SumsWritten ==
  ASSUME NEW S, NEW s \in Seq(S), NEW x \in S, NEW y \in S, NEW w, Sums(w, s),
         x[1] = "size", y[1] = "body"
  PROVE  \E v : Sums(v, s \o <<x, y>>) /\ v[Len(s \o <<x, y>>)] = w[Len(s)] + 1
<1>1. PICK t : t = s \o <<x, y>>
  OBVIOUS
<1>2. PICK n \in Nat : n = Len(s)
  OBVIOUS
<1>3. /\ Len(t) = n + 2 /\ \A j \in 1..n : t[j] = s[j]
      /\ t[n + 1] = x /\ t[n + 2] = y
  BY <1>1, <1>2, Written
<1>4. w \in [0..n -> Int] /\ w[0] = 0 /\ \A i \in 1..n : w[i] = w[i - 1] + Weight(s[i])
  BY <1>2 DEF Sums
<1>5. w[n] \in Int
  BY <1>4
<1>6. PICK v : v = [k \in 0..(n + 2) |-> IF k <= n THEN w[k]
                                          ELSE IF k = n + 1 THEN w[n] - 1 ELSE w[n] + 1]
  OBVIOUS
<1>7. v \in [0..(n + 2) -> Int]
  <2>1. \A k \in 0..(n + 2) : (IF k <= n THEN w[k] ELSE IF k = n + 1 THEN w[n] - 1 ELSE w[n] + 1) \in Int
    BY <1>4, <1>5
  <2> QED
    BY <1>6, <2>1
<1>8. v[0] = 0 /\ v[n + 1] = w[n] - 1 /\ v[n + 2] = w[n] + 1 /\ \A k \in 0..n : v[k] = w[k]
  BY <1>4, <1>6
<1>9. ASSUME NEW i \in 1..(n + 2) PROVE v[i] = v[i - 1] + Weight(t[i])
  <2>1. CASE i \in 1..n
    <3>1. i - 1 \in 0..n /\ i \in 0..n
      BY <2>1
    <3> QED
      BY <1>3, <1>4, <1>8, <2>1, <3>1
  <2>2. CASE i = n + 1
    <3>1. i - 1 = n /\ n \in 0..n
      BY <2>2
    <3>2. Weight(t[i]) = -1
      BY <1>3, <2>2 DEF Weight
    <3>3. v[i] = w[n] - 1 /\ v[i - 1] = w[n]
      BY <1>8, <2>2, <3>1
    <3> QED
      BY <1>5, <3>2, <3>3
  <2>3. CASE i = n + 2
    <3>1. i - 1 = n + 1
      BY <2>3
    <3>2. Weight(t[i]) = 2
      BY <1>3, <2>3 DEF Weight
    <3>3. v[i] = w[n] + 1 /\ v[i - 1] = w[n] - 1
      BY <1>8, <2>3, <3>1
    <3> QED
      BY <1>5, <3>2, <3>3
  <2> QED
    BY <2>1, <2>2, <2>3
<1>10. Sums(v, t)
  BY <1>3, <1>7, <1>8, <1>9 DEF Sums
<1>11. v[Len(t)] = w[n] + 1
  BY <1>3, <1>8
<1> QED
  BY <1>1, <1>2, <1>10, <1>11

LEMMA SumsRemoved ==
  ASSUME NEW S, NEW s \in Seq(S), NEW i \in 1..Len(s), NEW t \in Seq(S), NEW w, Sums(w, s),
         Len(t) = Len(s) - 1,
         \A j \in 1..(Len(s) - 1) : t[j] = IF j < i THEN s[j] ELSE s[j + 1]
  PROVE  \E v : Sums(v, t) /\ v[Len(t)] = w[Len(s)] - Weight(s[i])
<1>2. PICK n \in Nat : n = Len(s) /\ i \in 1..n /\ n >= 1
  OBVIOUS
<1>3. Len(t) = n - 1 /\ \A j \in 1..(n - 1) : t[j] = IF j < i THEN s[j] ELSE s[j + 1]
  BY <1>2
<1>4. w \in [0..n -> Int] /\ w[0] = 0 /\ \A k \in 1..n : w[k] = w[k - 1] + Weight(s[k])
  BY <1>2 DEF Sums
<1>5. PICK d \in Int : d = Weight(s[i])
  BY DEF Weight
<1>6. PICK v : v = [k \in 0..(n - 1) |-> IF k < i THEN w[k] ELSE w[k + 1] - d]
  OBVIOUS
<1>7. ASSUME NEW k \in 0..(n - 1) PROVE w[k] \in Int /\ w[k + 1] \in Int
  <2>1. k \in 0..n /\ k + 1 \in 0..n
    BY <1>2
  <2> QED
    BY <1>4, <2>1
<1>8. v \in [0..(n - 1) -> Int]
  <2>1. ASSUME NEW k \in 0..(n - 1) PROVE (IF k < i THEN w[k] ELSE w[k + 1] - d) \in Int
    <3>1. PICK a \in Int, b \in Int : a = w[k] /\ b = w[k + 1]
      BY <1>7
    <3> QED
      BY <3>1
  <2> QED
    BY <1>6, <2>1
<1>9. w[i] = w[i - 1] + d
  BY <1>2, <1>4, <1>5
<1>10. \A k \in 0..(n - 1) : k < i => v[k] = w[k]
  BY <1>6
<1>11. \A k \in 0..(n - 1) : k >= i - 1 => v[k] = w[k + 1] - d
  <2> SUFFICES ASSUME NEW k \in 0..(n - 1), k >= i - 1 PROVE v[k] = w[k + 1] - d
    OBVIOUS
  <2>1. CASE k = i - 1
    <3>1. k + 1 = i /\ k < i
      BY <1>2, <2>1
    <3>2. w[i] = w[k] + d /\ w[k] \in Int
      BY <1>7, <1>9, <2>1
    <3> QED
      BY <1>10, <3>1, <3>2
  <2>2. CASE k # i - 1
    <3>1. ~ (k < i)
      BY <1>2, <2>2
    <3> QED
      BY <1>6, <3>1
  <2> QED
    BY <2>1, <2>2
<1>12. v[0] = 0
  BY <1>2, <1>4, <1>10
<1>13. ASSUME NEW k \in 1..(n - 1) PROVE v[k] = v[k - 1] + Weight(t[k])
  <2>1. k \in 0..(n - 1) /\ k - 1 \in 0..(n - 1) /\ k \in 1..n /\ k + 1 \in 1..n
    BY <1>2
  <2>2. CASE k < i
    <3>1. v[k] = w[k] /\ v[k - 1] = w[k - 1] /\ t[k] = s[k]
      BY <1>2, <1>3, <1>10, <2>1, <2>2
    <3> QED
      BY <1>4, <2>1, <3>1
  <2>3. CASE ~ (k < i)
    <3>1. k >= i - 1 /\ k - 1 >= i - 1 /\ (k - 1) + 1 = k
      BY <1>2, <2>3
    <3>2. v[k] = w[k + 1] - d /\ v[k - 1] = w[k] - d
      BY <1>11, <2>1, <3>1
    <3>3. t[k] = s[k + 1]
      BY <1>3, <2>3
    <3>4. (k + 1) - 1 = k
      OBVIOUS
    <3>5. w[k + 1] = w[k] + Weight(s[k + 1])
      BY <1>4, <2>1, <3>4
    <3>6. PICK e \in Int : e = Weight(s[k + 1])
      BY DEF Weight
    <3>7. PICK a \in Int, b \in Int : a = w[k] /\ b = w[k + 1]
      BY <1>7, <2>1
    <3> QED
      BY <3>2, <3>3, <3>5, <3>6, <3>7
  <2> QED
    BY <2>2, <2>3
<1>14. Sums(v, t)
  BY <1>3, <1>8, <1>12, <1>13 DEF Sums
<1>15. v[Len(t)] = w[n] - d
  <2>1. n - 1 \in 0..(n - 1) /\ n - 1 >= i - 1 /\ (n - 1) + 1 = n
    BY <1>2
  <2> QED
    BY <1>3, <1>11, <2>1
<1> QED
  BY <1>2, <1>5, <1>14, <1>15

\* The datagram that was read is the first.
LEMMA SumsRead ==
  ASSUME NEW S, NEW s \in Seq(S), s # <<>>, NEW w, Sums(w, s)
  PROVE  \E v : Sums(v, Tail(s)) /\ v[Len(Tail(s))] = w[Len(s)] - Weight(Head(s))
<1>1. PICK n \in Nat : n = Len(s) /\ n >= 1
  BY EmptySeq
<1>2. PICK t : t = Tail(s)
  OBVIOUS
<1>3. t \in Seq(S) /\ Len(t) = n - 1 /\ \A j \in 1..(n - 1) : t[j] = s[j + 1]
  BY <1>1, <1>2, HeadTailProperties
<1>4. \A j \in 1..(n - 1) : ~ (j < 1)
  OBVIOUS
<1>5. 1 \in 1..n
  BY <1>1
<1>6. \E v : Sums(v, t) /\ v[Len(t)] = w[Len(s)] - Weight(s[1])
  BY <1>1, <1>3, <1>4, <1>5, SumsRemoved
<1>7. Head(s) = s[1]
  BY HeadTailProperties
<1> QED
  BY <1>2, <1>6, <1>7

LEMMA PlaceStart == StreamsInit => PlaceInv
<1> SUFFICES ASSUME StreamsInit PROVE PlaceInv
  OBVIOUS
<1>1. wire = <<>> /\ reading = "size" /\ handled = 0 /\ sent = 0 /\ faults.lostBody = 0
  BY DEF StreamsInit, N!Init
<1>2. Sums([k \in 0..0 |-> 0], wire)
  BY <1>1 DEF Sums
<1>3. \E w : Sums(w, wire) /\ handled + w[Len(wire)] + 2 * faults.lostBody >= sent + Awaited
  <2>1. PICK w : w = [k \in 0..0 |-> 0]
    OBVIOUS
  <2>2. w[0] = 0 /\ Len(wire) = 0 /\ Awaited = 0
    BY <1>1, <2>1 DEF Awaited
  <2>3. handled + w[Len(wire)] + 2 * faults.lostBody >= sent + Awaited
    BY <1>1, <2>2
  <2> QED
    BY <1>2, <2>1, <2>3
<1> QED
  BY <1>1, <1>3 DEF PlaceInv, BodyAfterSize

LEMMA PlaceStays ==
  ASSUME PlaceInv, UNCHANGED <<wire, reading, faults, handled, sent>>
  PROVE  PlaceInv'
  BY DEF PlaceInv, InPlace, BodyAfterSize, Awaited, Sums, Weight

LEMMA PlaceSend == ASSUME Types, PlaceInv, Send PROVE PlaceInv'
<1>1. UNCHANGED <<reading, faults, handled>>
  BY DEF Send
<1>2. CASE UNCHANGED <<wire, sent>>
  BY <1>1, <1>2, PlaceStays
<1>3. CASE N!Write(Head(toSend)) /\ sent' = sent + 1
  <2> SUFFICES ASSUME InPlace' PROVE PlaceInv'
    BY DEF PlaceInv
  <2>1. InPlace
    BY <1>1 DEF InPlace
  <2>2. reading # "endless" /\ BodyAfterSize
    BY <2>1 DEF PlaceInv
  <2>3. PICK w : Sums(w, wire) /\ handled + w[Len(wire)] + 2 * faults.lostBody >= sent + Awaited
    BY <2>1 DEF PlaceInv
  <2>4. toSend # <<>> /\ toSend \in Seq(Packets) /\ wire \in Seq(Datagram)
    BY DEF Send, Types, StreamTypes
  <2>5. PICK p \in Packets : p = Head(toSend)
    BY <2>4, HeadTailProperties
  <2>6. PICK x \in Datagram, y \in Datagram : x = <<"size", p>> /\ y = <<"body", p>>
    BY DEF Datagram
  <2>7. wire' = wire \o <<x, y>>
    BY <1>3, <2>5, <2>6 DEF N!Write
  <2>8. PICK v : Sums(v, wire') /\ v[Len(wire')] = w[Len(wire)] + 1
    <3>1. x[1] = "size" /\ y[1] = "body"
      BY <2>6
    <3> QED
      BY <2>3, <2>4, <2>7, <3>1, SumsWritten
  <2>9. handled' + v[Len(wire')] + 2 * faults'.lostBody >= sent' + Awaited'
    <3>1. PICK a \in Int, h \in Nat, s \in Nat, l \in Nat, m \in Nat :
             a = w[Len(wire)] /\ h = handled /\ s = sent /\ l = faults.lostBody /\ m = Awaited
      <4>1. w[Len(wire)] \in Int
        BY <2>3, <2>4 DEF Sums
      <4>2. Awaited \in Nat
        BY DEF Awaited
      <4>3. handled \in Nat /\ sent \in Nat /\ faults.lostBody \in Nat
        BY DEF Types, StreamTypes, FaultKind
      <4> QED
        BY <4>1, <4>2, <4>3
    <3>2. v[Len(wire')] = a + 1 /\ handled' = h /\ sent' = s + 1 /\ faults'.lostBody = l /\ Awaited' = m
      BY <1>1, <1>3, <2>8, <3>1 DEF Awaited
    <3>3. h + a + 2 * l >= s + m
      BY <2>3, <3>1
    <3>4. h + (a + 1) + 2 * l >= (s + 1) + m
      BY <3>3
    <3> QED
      BY <3>2, <3>4
  <2>10. BodyAfterSize'
    <3>1. PICK n \in Nat : n = Len(wire)
      BY <2>4
    <3>2. /\ Len(wire') = n + 2 /\ \A j \in 1..n : wire'[j] = wire[j]
          /\ wire'[n + 1] = x /\ wire'[n + 2] = y
      BY <2>4, <2>7, <3>1, Written
    <3>3. ASSUME NEW i \in 1..(n + 2), wire'[i][1] = "body"
          PROVE  IF i = 1 THEN reading # "size" ELSE wire'[i - 1][1] = "size"
      <4>1. CASE i \in 1..n
        <5>1. wire[i][1] = "body" /\ wire'[i] = wire[i]
          BY <3>2, <3>3, <4>1
        <5>2. i # 1 => i - 1 \in 1..n /\ wire'[i - 1] = wire[i - 1]
          BY <3>2, <4>1
        <5> QED
          BY <2>2, <3>1, <4>1, <5>1, <5>2 DEF BodyAfterSize
      <4>2. CASE i = n + 1
        BY <2>6, <3>2, <3>3, <4>2
      <4>3. CASE i = n + 2
        <5>1. i # 1 /\ i - 1 = n + 1
          BY <4>3
        <5> QED
          BY <2>6, <3>2, <5>1
      <4> QED
        BY <4>1, <4>2, <4>3
    <3> QED
      BY <1>1, <3>2, <3>3 DEF BodyAfterSize
  <2> QED
    BY <1>1, <2>2, <2>8, <2>9, <2>10 DEF PlaceInv
<1> QED
  BY <1>2, <1>3 DEF Send

LEMMA PlaceNetwork == ASSUME Types, PlaceInv, Network PROVE PlaceInv'
<1> SUFFICES ASSUME InPlace' PROVE PlaceInv'
  BY DEF PlaceInv
<1>1. UNCHANGED <<reading, sent, handled>>
  BY NetworkIs
<1>2. faults \in [FaultKind -> Nat] /\ wire \in Seq(Datagram)
  BY DEF Types, StreamTypes
<1>3. PICK i \in 1..Len(wire) :
             \/ /\ wire' = N!RemoveAt(wire, i)
                /\ \/ /\ wire[i][1] = "size" /\ faults' = [faults EXCEPT !["lostSize"] = @ + 1]
                   \/ /\ wire[i][1] = "body" /\ faults' = [faults EXCEPT !["lostBody"] = @ + 1]
             \/ /\ wire' = N!InsertAt(wire, i, wire[i])
                /\ faults' = [faults EXCEPT !["copied"] = @ + 1]
             \/ /\ i < Len(wire) /\ wire' = [wire EXCEPT ![i] = wire[i + 1], ![i + 1] = wire[i]]
                /\ faults' = [faults EXCEPT !["swapped"] = @ + 1]
  BY NetworkIs
<1>4. ASSUME NEW k \in {"lostSize", "copied", "swapped"}, faults' = [faults EXCEPT ![k] = @ + 1]
      PROVE  FALSE
  <2>1. faults.lostSize \in Nat /\ faults.copied \in Nat /\ faults.swapped \in Nat
    BY <1>2 DEF FaultKind
  <2>2. CASE k = "lostSize"
    <3>1. faults'.lostSize = faults.lostSize + 1 /\ faults'.copied = faults.copied
          /\ faults'.swapped = faults.swapped
      BY <1>2, <1>4, <2>2 DEF FaultKind
    <3> QED
      BY <2>1, <3>1 DEF InPlace
  <2>3. CASE k = "copied"
    <3>1. faults'.lostSize = faults.lostSize /\ faults'.copied = faults.copied + 1
          /\ faults'.swapped = faults.swapped
      BY <1>2, <1>4, <2>3 DEF FaultKind
    <3> QED
      BY <2>1, <3>1 DEF InPlace
  <2>4. CASE k = "swapped"
    <3>1. faults'.lostSize = faults.lostSize /\ faults'.copied = faults.copied
          /\ faults'.swapped = faults.swapped + 1
      BY <1>2, <1>4, <2>4 DEF FaultKind
    <3> QED
      BY <2>1, <3>1 DEF InPlace
  <2> QED
    BY <2>2, <2>3, <2>4
<1>5. /\ wire' = N!RemoveAt(wire, i) /\ wire[i][1] = "body"
      /\ faults' = [faults EXCEPT !["lostBody"] = @ + 1]
  BY <1>3, <1>4
<1>6. InPlace /\ faults'.lostBody = faults.lostBody + 1 /\ faults.lostBody \in Nat
  BY <1>2, <1>5 DEF InPlace, FaultKind
<1>7. reading # "endless" /\ BodyAfterSize
  BY <1>6 DEF PlaceInv
<1>8. PICK w : Sums(w, wire) /\ handled + w[Len(wire)] + 2 * faults.lostBody >= sent + Awaited
  BY <1>6 DEF PlaceInv
<1>9. PICK n \in Nat : n = Len(wire) /\ n >= 1 /\ i \in 1..n
  BY <1>2
<1>10. /\ wire' \in Seq(Datagram) /\ Len(wire') = n - 1
       /\ \A j \in 1..(n - 1) : wire'[j] = IF j < i THEN wire[j] ELSE wire[j + 1]
  BY <1>2, <1>5, <1>9, Removed
<1>11. PICK v : Sums(v, wire') /\ v[Len(wire')] = w[Len(wire)] - 2
  <2>1. Weight(wire[i]) = 2
    BY <1>5 DEF Weight
  <2> QED
    BY <1>2, <1>8, <1>9, <1>10, <2>1, SumsRemoved
<1>12. handled' + v[Len(wire')] + 2 * faults'.lostBody >= sent' + Awaited'
  <2>1. PICK a \in Int, h \in Nat, s \in Nat, l \in Nat, m \in Nat :
             a = w[Len(wire)] /\ h = handled /\ s = sent /\ l = faults.lostBody /\ m = Awaited
    <3>1. w[Len(wire)] \in Int
      BY <1>2, <1>8 DEF Sums
    <3>2. Awaited \in Nat
      BY DEF Awaited
    <3>3. handled \in Nat /\ sent \in Nat
      BY DEF Types, StreamTypes
    <3> QED
      BY <1>6, <3>1, <3>2, <3>3
  <2>2. v[Len(wire')] = a - 2 /\ handled' = h /\ sent' = s /\ faults'.lostBody = l + 1 /\ Awaited' = m
    BY <1>1, <1>6, <1>11, <2>1 DEF Awaited
  <2>3. h + a + 2 * l >= s + m
    BY <1>8, <2>1
  <2>4. h + (a - 2) + 2 * (l + 1) >= s + m
    BY <2>3
  <2> QED
    BY <2>2, <2>4
<1>13. BodyAfterSize'
  <2>1. ASSUME NEW j \in 1..(n - 1), wire'[j][1] = "body"
        PROVE  IF j = 1 THEN reading # "size" ELSE wire'[j - 1][1] = "size"
    <3>0. j \in 1..n /\ j + 1 \in 1..n /\ j + 1 # 1 /\ (j + 1) - 1 = j
      BY <1>9
    <3>1. CASE j < i
      <4>1. wire[j][1] = "body"
        BY <1>10, <2>1, <3>1
      <4>2. j # 1 => j - 1 \in 1..(n - 1) /\ j - 1 < i
        BY <1>9, <3>1
      <4>3. j # 1 => wire'[j - 1] = wire[j - 1]
        BY <1>10, <4>2
      <4> QED
        BY <1>7, <1>9, <3>0, <4>1, <4>3 DEF BodyAfterSize
    <3>2. CASE ~ (j < i)
      <4>1. wire[j + 1][1] = "body"
        BY <1>10, <2>1, <3>2
      <4>2. wire[j][1] = "size"
        BY <1>7, <1>9, <3>0, <4>1 DEF BodyAfterSize
      <4>3. j # i
        BY <1>5, <4>2
      <4>4. j # 1 /\ j - 1 \in 1..(n - 1) /\ ~ (j - 1 < i) /\ (j - 1) + 1 = j
        BY <1>9, <3>2, <4>3
      <4>5. wire'[j - 1] = wire[j]
        BY <1>10, <4>4
      <4> QED
        BY <4>2, <4>4, <4>5
    <3> QED
      BY <3>1, <3>2
  <2> QED
    BY <1>1, <1>10, <2>1 DEF BodyAfterSize
<1> QED
  BY <1>1, <1>7, <1>11, <1>12, <1>13 DEF PlaceInv

LEMMA PlaceRead == ASSUME Types, PlaceInv, HandleRead PROVE PlaceInv'
<1> SUFFICES ASSUME InPlace' PROVE PlaceInv'
  BY DEF PlaceInv
<1>1. /\ wire # <<>> /\ wire' = Tail(wire) /\ Head(wire)[1] \in {"size", "body"}
      /\ reading' = N!Step(reading, Head(wire)[1]) /\ UNCHANGED <<faults, sent>>
  BY ReadIs DEF Datagram
<1>2. wire \in Seq(Datagram) /\ reading \in {"size", "body", "junk", "endless"}
      /\ handled \in Nat /\ sent \in Nat /\ faults.lostBody \in Nat
  BY DEF Types, StreamTypes, FaultKind
<1>3. handled' = IF N!Parses THEN handled + 1 ELSE handled
  BY ReadIs
<1>4. InPlace
  BY <1>1 DEF InPlace
<1>5. reading # "endless" /\ BodyAfterSize
  BY <1>4 DEF PlaceInv
<1>6. PICK w : Sums(w, wire) /\ handled + w[Len(wire)] + 2 * faults.lostBody >= sent + Awaited
  BY <1>4 DEF PlaceInv
<1>7. PICK n \in Nat : n = Len(wire) /\ n >= 1
  BY <1>1, <1>2, EmptySeq
<1>8. Head(wire) = wire[1] /\ Len(wire') = n - 1 /\ \A j \in 1..(n - 1) : wire'[j] = wire[j + 1]
  BY <1>1, <1>2, <1>7, HeadTailProperties
<1>9. Head(wire)[1] = "body" => reading # "size"
  BY <1>5, <1>7, <1>8 DEF BodyAfterSize
<1>10. PICK v : Sums(v, wire') /\ v[Len(wire')] = w[Len(wire)] - Weight(Head(wire))
  BY <1>1, <1>2, <1>6, SumsRead
<1>11. \/ Head(wire)[1] = "size" /\ reading = "size" /\ reading' = "body"
       \/ Head(wire)[1] = "size" /\ reading \in {"body", "junk"} /\ reading' = "junk"
       \/ Head(wire)[1] = "body" /\ reading \in {"body", "junk"} /\ reading' = "size"
  BY <1>1, <1>2, <1>5, <1>9 DEF N!Step
<1>12. handled' + v[Len(wire')] + 2 * faults'.lostBody >= sent' + Awaited'
  <2>1. PICK a \in Int, h \in Nat, s \in Nat, l \in Nat :
             a = w[Len(wire)] /\ h = handled /\ s = sent /\ l = faults.lostBody
    <3>1. w[Len(wire)] \in Int
      BY <1>2, <1>6 DEF Sums
    <3> QED
      BY <1>2, <3>1
  <2>2. h + a + 2 * l >= s + Awaited /\ sent' = s /\ faults'.lostBody = l
    BY <1>1, <1>6, <2>1
  <2>3. CASE Head(wire)[1] = "size"
    <3>1. v[Len(wire')] = a + 1
      <4>1. Weight(Head(wire)) = -1
        BY <2>3 DEF Weight
      <4> QED
        BY <1>10, <2>1, <4>1
    <3>2. handled' = h
      BY <1>3, <2>1, <2>3 DEF N!Parses
    <3>3. \/ Awaited = 0 /\ Awaited' = 1
          \/ Awaited = 1 /\ Awaited' = 2
          \/ Awaited = 2 /\ Awaited' = 2
      BY <1>11, <2>3 DEF Awaited
    <3> QED
      BY <2>2, <3>1, <3>2, <3>3
  <2>4. CASE Head(wire)[1] = "body"
    <3>1. v[Len(wire')] = a - 2
      <4>1. Weight(Head(wire)) = 2
        BY <2>4 DEF Weight
      <4> QED
        BY <1>10, <2>1, <4>1
    <3>2. \/ Awaited = 1 /\ Awaited' = 0 /\ handled' = h + 1
          \/ Awaited = 2 /\ Awaited' = 0 /\ handled' = h
      BY <1>3, <1>11, <2>1, <2>4 DEF Awaited, N!Parses
    <3> QED
      BY <2>2, <3>1, <3>2
  <2> QED
    BY <1>1, <2>3, <2>4
<1>13. BodyAfterSize'
  <2>1. ASSUME NEW j \in 1..(n - 1), wire'[j][1] = "body"
        PROVE  IF j = 1 THEN reading' # "size" ELSE wire'[j - 1][1] = "size"
    <3>1. j + 1 \in 1..n /\ j + 1 # 1 /\ (j + 1) - 1 = j
      BY <1>7
    <3>2. wire[j + 1][1] = "body"
      BY <1>8, <2>1
    <3>3. wire[j][1] = "size"
      BY <1>5, <1>7, <3>1, <3>2 DEF BodyAfterSize
    <3>4. CASE j = 1
      <4>1. Head(wire)[1] = "size"
        BY <1>8, <3>3, <3>4
      <4> QED
        BY <1>11, <3>4, <4>1
    <3>5. CASE j # 1
      <4>1. j - 1 \in 1..(n - 1) /\ (j - 1) + 1 = j
        BY <3>5
      <4> QED
        BY <1>8, <3>3, <3>5, <4>1
    <3> QED
      BY <3>4, <3>5
  <2> QED
    BY <1>8, <2>1 DEF BodyAfterSize
<1> QED
  BY <1>10, <1>11, <1>12, <1>13 DEF PlaceInv

LEMMA PlaceStep == ASSUME Types, PlaceInv, [StreamsNext]_streamsVars PROVE PlaceInv'
<1>1. CASE Generate \/ Monitor \/ UNCHANGED streamsVars
  <2>1. UNCHANGED <<wire, reading, faults, handled, sent>>
    BY <1>1 DEF Generate, Monitor, streamsVars
  <2> QED
    BY <2>1, PlaceStays
<1> QED
  BY <1>1, PlaceSend, PlaceNetwork, PlaceRead DEF StreamsNext

\* LostBodyIsOver: the receptor of 09 and 11 finds its place again after any
\* number of lost bodies, at the cost of at most two packets each (11 receptor
\* main.go 97-117, 09 receptor main.go 77-93).
THEOREM LostBodyTheorem == StreamsSpec => []LostBodyIsOver
<1>1. Types /\ PlaceInv => LostBodyIsOver
  <2> SUFFICES ASSUME Types, PlaceInv PROVE LostBodyIsOver
    OBVIOUS
  <2>1. ASSUME InPlace, wire = <<>> PROVE handled + 2 * faults.lostBody >= sent
    <3>1. PICK w : Sums(w, wire) /\ handled + w[Len(wire)] + 2 * faults.lostBody >= sent + Awaited
      BY <2>1 DEF PlaceInv
    <3>2. w[Len(wire)] = 0
      BY <2>1, <3>1 DEF Sums
    <3>3. Awaited \in {0, 1, 2} /\ handled \in Nat /\ sent \in Nat /\ faults.lostBody \in Nat
      BY DEF Awaited, Types, StreamTypes, FaultKind
    <3> QED
      BY <3>1, <3>2, <3>3
  <2>2. InPlace => reading # "endless"
    BY DEF PlaceInv
  <2> QED
    BY <2>1, <2>2, StreamsTypeOKHolds DEF LostBodyIsOver, InPlace
<1> QED
  BY <1>1, PlaceStart, PlaceStep, StreamsTypes, PTL DEF StreamsSpec

-----------------------------------------------------------------------------
(* Without a copy each packet of 11 is in one place only: with the sender, *)
(* on the wire, or in a group.                                             *)

WithSender(p) == \E i \in DOMAIN toSend : toSend[i] = p
OnWire(p) == \E i \in DOMAIN wire : wire[i] = <<"body", p>>
InAGroup(p) == \E i \in DOMAIN groupStates :
                  \E k \in DOMAIN groupStates[i][2] : groupStates[i][2][k] = p

OnceOnWire == \A i, j \in DOMAIN wire : wire[i][1] = "body" /\ wire[i] = wire[j] => i = j
OnceInGroups == \A i \in DOMAIN groupStates : Once(groupStates[i][2])

OnceInv ==
    program = "fec" /\ faults.copied = 0 =>
        /\ Once(toSend) /\ OnceOnWire /\ OnceInGroups
        /\ \A p : /\ ~ (WithSender(p) /\ OnWire(p))
                  /\ ~ (WithSender(p) /\ InAGroup(p))
                  /\ ~ (OnWire(p) /\ InAGroup(p))

\* What is on the wire or in a group was sent in an earlier group.
LEMMA Earlier ==
  ASSUME Types, program = "fec", NEW p, OnWire(p) \/ InAGroup(p)
  PROVE  \E g \in Nat : g < groupID /\ p \in Group(g)
<1>1. CASE OnWire(p)
  <2>1. PICK i \in DOMAIN wire : wire[i] = <<"body", p>>
    BY <1>1 DEF OnWire
  <2>2. <<"body", p>> \in Datagram
    BY <2>1 DEF Types, StreamTypes
  <2>3. p \in Packets
    BY <2>2 DEF Datagram
  <2> QED
    BY <2>3, PacketIs
<1>2. CASE InAGroup(p)
  <2>1. PICK i \in DOMAIN groupStates : \E k \in DOMAIN groupStates[i][2] : groupStates[i][2][k] = p
    BY <1>2 DEF InAGroup
  <2>2. groupStates[i] \in Held
    BY <2>1 DEF Types, FecTypes
  <2>3. PICK g \in Nat : g < groupID /\ groupStates[i] \in {g} \X Seq(Group(g))
    BY <2>2 DEF Held
  <2>4. groupStates[i][2] \in Seq(Group(g))
    BY <2>3
  <2>5. p \in Group(g)
    BY <2>1, <2>4
  <2> QED
    BY <2>3, <2>5
<1> QED
  BY <1>1, <1>2

LEMMA OnceGenerate == ASSUME Types, OnceInv, Generate PROVE OnceInv'
<1> SUFFICES ASSUME program' = "fec", faults'.copied = 0
             PROVE  /\ Once(toSend') /\ OnceOnWire' /\ OnceInGroups'
                    /\ \A p : /\ ~ (WithSender(p)' /\ OnWire(p)')
                              /\ ~ (WithSender(p)' /\ InAGroup(p)')
                              /\ ~ (OnWire(p)' /\ InAGroup(p)')
  BY DEF OnceInv, Once
<1>1. program = "fec" /\ UNCHANGED <<wire, groupStates, faults>> /\ toSend' = F!Generate
  BY DEF Generate
<1>2. OnceOnWire /\ OnceInGroups /\ \A p : ~ (OnWire(p) /\ InAGroup(p))
  BY <1>1 DEF OnceInv
<1>3. groupID \in Nat
  BY DEF Types, StreamTypes
<1>4. F!Generate \in Seq(Group(groupID)) /\ Once(F!Generate)
  BY <1>3, Generated
<1>5. \A p : /\ OnWire(p)' <=> OnWire(p)
             /\ InAGroup(p)' <=> InAGroup(p)
             /\ WithSender(p)' => p \in Group(groupID)
  BY <1>1, <1>4 DEF OnWire, InAGroup, WithSender
<1>6. ASSUME NEW p \in Group(groupID) PROVE ~ OnWire(p) /\ ~ InAGroup(p)
  <2> SUFFICES ASSUME OnWire(p) \/ InAGroup(p) PROVE FALSE
    OBVIOUS
  <2>1. PICK g \in Nat : g < groupID /\ p \in Group(g)
    BY <1>1, Earlier
  <2>2. p.group = g /\ p.group = groupID
    BY <2>1, InGroup
  <2> QED
    BY <1>3, <2>1, <2>2
<1>7. OnceOnWire' /\ OnceInGroups'
  BY <1>1, <1>2 DEF OnceOnWire, OnceInGroups, Once
<1> QED
  BY <1>1, <1>2, <1>4, <1>5, <1>6, <1>7

\* Datagrams are lost, swapped or read: none is there twice.
LEMMA OnceMoved ==
  ASSUME OnceOnWire, NEW from, \A j \in DOMAIN wire' : from[j] \in DOMAIN wire /\ wire'[j] = wire[from[j]],
         \A j, k \in DOMAIN wire' : from[j] = from[k] => j = k
  PROVE  OnceOnWire' /\ \A p : OnWire(p)' => OnWire(p)
<1>1. OnceOnWire'
  <2> SUFFICES ASSUME NEW i \in DOMAIN wire', NEW j \in DOMAIN wire', wire'[i][1] = "body", wire'[i] = wire'[j]
               PROVE  i = j
    BY DEF OnceOnWire
  <2>1. from[i] = from[j]
    BY DEF OnceOnWire
  <2> QED
    BY <2>1
<1>2. \A p : OnWire(p)' => OnWire(p)
  BY DEF OnWire
<1> QED
  BY <1>1, <1>2

LEMMA OnceStays ==
  ASSUME OnceInv, UNCHANGED <<program, toSend, groupStates>>,
         faults'.copied = 0 => faults.copied = 0,
         faults'.copied = 0 /\ OnceOnWire => OnceOnWire' /\ \A p : OnWire(p)' => OnWire(p)
  PROVE  OnceInv'
<1> SUFFICES ASSUME program' = "fec", faults'.copied = 0 PROVE OnceInv'
  BY DEF OnceInv
<1>1. /\ Once(toSend) /\ OnceOnWire /\ OnceInGroups
      /\ \A p : /\ ~ (WithSender(p) /\ OnWire(p))
                /\ ~ (WithSender(p) /\ InAGroup(p))
                /\ ~ (OnWire(p) /\ InAGroup(p))
  BY DEF OnceInv
<1>2. OnceOnWire' /\ \A p : OnWire(p)' => OnWire(p)
  BY <1>1
<1>3. \A p : (WithSender(p)' <=> WithSender(p)) /\ (InAGroup(p)' <=> InAGroup(p))
  BY DEF WithSender, InAGroup
<1>4. Once(toSend)' /\ OnceInGroups'
  BY <1>1 DEF Once, OnceInGroups
<1> QED
  BY <1>1, <1>2, <1>3, <1>4 DEF OnceInv

LEMMA OnceNetwork == ASSUME Types, OnceInv, Network PROVE OnceInv'
<1>1. PICK i \in 1..Len(wire) :
             \/ /\ wire' = N!RemoveAt(wire, i)
                /\ \/ /\ wire[i][1] = "size" /\ faults' = [faults EXCEPT !["lostSize"] = @ + 1]
                   \/ /\ wire[i][1] = "body" /\ faults' = [faults EXCEPT !["lostBody"] = @ + 1]
             \/ /\ wire' = N!InsertAt(wire, i, wire[i])
                /\ faults' = [faults EXCEPT !["copied"] = @ + 1]
             \/ /\ i < Len(wire) /\ wire' = [wire EXCEPT ![i] = wire[i + 1], ![i + 1] = wire[i]]
                /\ faults' = [faults EXCEPT !["swapped"] = @ + 1]
  BY NetworkIs
<1>2. UNCHANGED <<program, toSend, groupStates>>
  BY NetworkIs DEF fecVars
<1>3. faults \in [FaultKind -> Nat] /\ wire \in Seq(Datagram)
  BY DEF Types, StreamTypes
<1>4. PICK n \in Nat : n = Len(wire) /\ DOMAIN wire = 1..n /\ i \in 1..n /\ n >= 1
  BY <1>3
<1>5. CASE wire' = N!RemoveAt(wire, i) /\ faults'.copied = faults.copied
  <2>1. wire' \in Seq(Datagram) /\ Len(wire') = n - 1
        /\ \A j \in 1..(n - 1) : wire'[j] = IF j < i THEN wire[j] ELSE wire[j + 1]
    BY <1>3, <1>4, <1>5, Removed
  <2>2. DOMAIN wire' = 1..(n - 1)
    BY <1>4, <2>1
  <2>3. PICK from : from = [j \in 1..(n - 1) |-> IF j < i THEN j ELSE j + 1]
    OBVIOUS
  <2>4. \A j \in 1..(n - 1) : from[j] \in 1..n /\ wire'[j] = wire[from[j]]
    BY <1>4, <2>1, <2>3
  <2>5. \A j, k \in 1..(n - 1) : from[j] = from[k] => j = k
    BY <1>4, <2>3
  <2>6. OnceOnWire => OnceOnWire' /\ \A p : OnWire(p)' => OnWire(p)
    <3>1. \A j \in DOMAIN wire' : from[j] \in DOMAIN wire /\ wire'[j] = wire[from[j]]
      BY <1>4, <2>2, <2>4
    <3>2. \A j, k \in DOMAIN wire' : from[j] = from[k] => j = k
      BY <2>2, <2>5
    <3> QED
      BY <3>1, <3>2, OnceMoved
  <2> QED
    BY <1>2, <1>5, <2>6, OnceStays
<1>6. CASE i < Len(wire) /\ wire' = [wire EXCEPT ![i] = wire[i + 1], ![i + 1] = wire[i]]
           /\ faults'.copied = faults.copied
  <2>1. i + 1 \in 1..n
    BY <1>4, <1>6
  <2>2. DOMAIN wire' = 1..n
    BY <1>4, <1>6
  <2>3. PICK from : from = [j \in 1..n |-> IF j = i THEN i + 1 ELSE IF j = i + 1 THEN i ELSE j]
    OBVIOUS
  <2>4. \A j \in 1..n : from[j] \in 1..n /\ wire'[j] = wire[from[j]]
    BY <1>4, <1>6, <2>1, <2>3
  <2>5. \A j, k \in 1..n : from[j] = from[k] => j = k
    BY <1>4, <2>3
  <2>6. OnceOnWire => OnceOnWire' /\ \A p : OnWire(p)' => OnWire(p)
    <3>1. \A j \in DOMAIN wire' : from[j] \in DOMAIN wire /\ wire'[j] = wire[from[j]]
      BY <1>4, <2>2, <2>4
    <3>2. \A j, k \in DOMAIN wire' : from[j] = from[k] => j = k
      BY <2>2, <2>5
    <3> QED
      BY <3>1, <3>2, OnceMoved
  <2> QED
    BY <1>2, <1>6, <2>6, OnceStays
<1>7. CASE faults' = [faults EXCEPT !["copied"] = @ + 1]
  <2>1. faults'.copied = faults.copied + 1 /\ faults.copied \in Nat
    BY <1>3, <1>7 DEF FaultKind
  <2>2. faults'.copied # 0
    BY <2>1
  <2> QED
    BY <2>2 DEF OnceInv
<1>8. \A k \in {"lostSize", "lostBody", "swapped"} :
         faults' = [faults EXCEPT ![k] = @ + 1] => faults'.copied = faults.copied
  BY <1>3 DEF FaultKind
<1> QED
  BY <1>1, <1>5, <1>6, <1>7, <1>8

LEMMA OnceSend == ASSUME Types, OnceInv, Send PROVE OnceInv'
<1> SUFFICES ASSUME program' = "fec", faults'.copied = 0 PROVE OnceInv'
  BY DEF OnceInv
<1>1. UNCHANGED <<program, faults, groupStates>> /\ toSend # <<>> /\ toSend' = Tail(toSend)
  BY DEF Send, fecVars
<1>2. /\ Once(toSend) /\ OnceOnWire /\ OnceInGroups
      /\ \A p : /\ ~ (WithSender(p) /\ OnWire(p))
                /\ ~ (WithSender(p) /\ InAGroup(p))
                /\ ~ (OnWire(p) /\ InAGroup(p))
  BY <1>1 DEF OnceInv
<1>3. toSend \in Seq(Packets) /\ wire \in Seq(Datagram)
  BY DEF Types, StreamTypes
<1>4. PICK m \in Nat : m = Len(toSend) /\ m >= 1 /\ DOMAIN toSend = 1..m
  BY <1>1, <1>3, EmptySeq
<1>5. PICK p \in Packets : p = Head(toSend) /\ p = toSend[1]
  BY <1>1, <1>3, HeadTailProperties
<1>6. DOMAIN toSend' = 1..(m - 1) /\ \A i \in 1..(m - 1) : toSend'[i] = toSend[i + 1]
  <2>1. Tail(toSend) \in Seq(Packets) /\ Len(Tail(toSend)) = m - 1
        /\ \A i \in 1..(m - 1) : Tail(toSend)[i] = toSend[i + 1]
    BY <1>1, <1>3, <1>4, HeadTailProperties
  <2> QED
    BY <1>1, <1>4, <2>1
<1>7. \A i \in 1..(m - 1) : i + 1 \in 1..m /\ i + 1 # 1
  BY <1>4
<1>8. Once(toSend')
  <2>1. ASSUME NEW i \in 1..(m - 1), NEW j \in 1..(m - 1), toSend'[i] = toSend'[j] PROVE i = j
    <3>1. i + 1 = j + 1
      BY <1>2, <1>4, <1>6, <1>7, <2>1 DEF Once
    <3> QED
      BY <3>1
  <2> QED
    BY <1>6, <2>1 DEF Once
<1>9. ASSUME NEW q, WithSender(q)' PROVE WithSender(q) /\ q # p
  <2>1. PICK i \in 1..(m - 1) : toSend'[i] = q
    BY <1>6, <1>9 DEF WithSender
  <2>2. toSend[i + 1] = q /\ i + 1 \in 1..m /\ i + 1 # 1 /\ 1 \in 1..m
    BY <1>4, <1>6, <1>7, <2>1
  <2>3. q # p
    BY <1>2, <1>4, <1>5, <2>2 DEF Once
  <2> QED
    BY <1>4, <2>2, <2>3 DEF WithSender
<1>10. WithSender(p)
  <2>1. 1 \in 1..m
    BY <1>4
  <2> QED
    BY <1>4, <1>5, <2>1 DEF WithSender
<1>11. \A q : InAGroup(q)' <=> InAGroup(q)
  BY <1>1 DEF InAGroup
<1>12. OnceInGroups'
  BY <1>1, <1>2 DEF OnceInGroups, Once
<1>13. OnceOnWire' /\ \A q : OnWire(q)' => OnWire(q) \/ q = p
  <2>1. CASE UNCHANGED <<wire, sent>>
    BY <1>2, <2>1 DEF OnceOnWire, OnWire
  <2>2. CASE N!Write(Head(toSend)) /\ sent' = sent + 1
    <3>1. PICK x \in Datagram, y \in Datagram : x = <<"size", p>> /\ y = <<"body", p>>
      BY DEF Datagram
    <3>2. wire' = wire \o <<x, y>>
      BY <1>5, <2>2, <3>1 DEF N!Write
    <3>3. PICK n \in Nat : n = Len(wire) /\ DOMAIN wire = 1..n
      BY <1>3
    <3>4. /\ wire' \in Seq(Datagram) /\ Len(wire') = n + 2 /\ \A j \in 1..n : wire'[j] = wire[j]
          /\ wire'[n + 1] = x /\ wire'[n + 2] = y
      BY <1>3, <3>2, <3>3, Written
    <3>5. DOMAIN wire' = 1..(n + 2)
      BY <3>4
    <3>6. \A j \in 1..(n + 2) : j \in 1..n \/ j = n + 1 \/ j = n + 2
      OBVIOUS
    <3>7. \A j \in 1..n : wire[j] # y
      BY <1>2, <1>10, <3>1, <3>3 DEF OnWire
    <3>8. x[1] = "size" /\ y[1] = "body"
      BY <3>1
    <3>9. ASSUME NEW i \in 1..(n + 2), NEW j \in 1..(n + 2), wire'[i][1] = "body", wire'[i] = wire'[j]
          PROVE  i = j
      <4>1. i # n + 1 /\ j # n + 1
        BY <3>4, <3>8, <3>9
      <4>2. i \in 1..n /\ j \in 1..n => i = j
        BY <1>2, <3>3, <3>4, <3>9 DEF OnceOnWire
      <4> QED
        BY <3>4, <3>6, <3>7, <3>9, <4>1, <4>2
    <3>10. OnceOnWire'
      BY <3>5, <3>9 DEF OnceOnWire
    <3>11. ASSUME NEW q, OnWire(q)' PROVE OnWire(q) \/ q = p
      <4>1. PICK i \in 1..(n + 2) : wire'[i] = <<"body", q>>
        BY <3>5, <3>11 DEF OnWire
      <4>2. i # n + 1
        BY <3>1, <3>4, <4>1
      <4>3. CASE i \in 1..n
        BY <3>3, <3>4, <4>1, <4>3 DEF OnWire
      <4>4. CASE i = n + 2
        BY <3>1, <3>4, <4>1, <4>4
      <4> QED
        BY <3>6, <4>2, <4>3, <4>4
    <3> QED
      BY <3>10, <3>11
  <2> QED
    BY <2>1, <2>2 DEF Send
<1>14. Once(toSend)'
  BY <1>8 DEF Once
<1> QED
  BY <1>2, <1>9, <1>10, <1>11, <1>12, <1>13, <1>14 DEF OnceInv

\* A packet that is in no group is put in one.
LEMMA OnceHandled ==
  ASSUME FecTypes, OnceInGroups, NEW g \in Nat, g < groupID, NEW p \in Group(g), F!Handle(p), ~ InAGroup(p)
  PROVE  OnceInGroups' /\ \A q : InAGroup(q)' => InAGroup(q) \/ q = p
<1>1. PICK n \in Nat : n = Len(groupStates) /\ DOMAIN groupStates = 1..n /\ groupStates \in Seq(Held)
  BY DEF FecTypes
<1>2. CASE groupStates' = Append(groupStates, <<g, <<p>>>>)
  <2>1. PICK e : e = <<g, <<p>>>>
    OBVIOUS
  <2>2. /\ DOMAIN groupStates' = 1..(n + 1) /\ \A i \in 1..n : groupStates'[i] = groupStates[i]
        /\ groupStates'[n + 1] = e
    <3>0. <<p>> \in Seq(Group(g))
      OBVIOUS
    <3>1. <<g, <<p>>>> \in Held
      BY <3>0 DEF Held
    <3> QED
      BY <1>1, <1>2, <2>1, <3>1, AppendProperties
  <2>3. DOMAIN e[2] = {1} /\ e[2][1] = p
    BY <2>1
  <2>4. \A i \in 1..(n + 1) : i \in 1..n \/ i = n + 1
    OBVIOUS
  <2>5. OnceInGroups'
    <3>1. ASSUME NEW i \in 1..(n + 1) PROVE Once(groupStates'[i][2])
      <4>1. CASE i \in 1..n
        BY <1>1, <2>2, <4>1 DEF OnceInGroups
      <4>2. CASE i = n + 1
        BY <2>2, <2>3, <4>2 DEF Once
      <4> QED
        BY <2>4, <4>1, <4>2
    <3> QED
      BY <2>2, <3>1 DEF OnceInGroups, Once
  <2>6. ASSUME NEW q, InAGroup(q)' PROVE InAGroup(q) \/ q = p
    <3>1. PICK i \in 1..(n + 1) : \E k \in DOMAIN groupStates'[i][2] : groupStates'[i][2][k] = q
      BY <2>2, <2>6 DEF InAGroup
    <3>2. CASE i \in 1..n
      BY <1>1, <2>2, <3>1, <3>2 DEF InAGroup
    <3>3. CASE i = n + 1
      BY <2>2, <2>3, <3>1, <3>3
    <3> QED
      BY <2>4, <3>2, <3>3
  <2> QED
    BY <2>5, <2>6
<1>3. ASSUME NEW i \in DOMAIN groupStates, groupStates[i][2] \in Seq(Group(g)),
             groupStates' = [groupStates EXCEPT ![i] = <<g, Append(groupStates[i][2], p)>>]
      PROVE  OnceInGroups' /\ \A q : InAGroup(q)' => InAGroup(q) \/ q = p
  <2>1. PICK s \in Seq(Group(g)) : s = groupStates[i][2]
    BY <1>3
  <2>2. PICK m \in Nat : m = Len(s) /\ DOMAIN s = 1..m
    OBVIOUS
  <2>3. PICK t : t = Append(s, p)
    OBVIOUS
  <2>4. DOMAIN t = 1..(m + 1) /\ t[m + 1] = p /\ \A k \in 1..m : t[k] = s[k]
    BY <2>2, <2>3, AppendProperties
  <2>5. DOMAIN groupStates' = DOMAIN groupStates /\ groupStates'[i][2] = t
        /\ \A j \in DOMAIN groupStates : j # i => groupStates'[j] = groupStates[j]
    BY <1>1, <1>3, <2>1, <2>3
  <2>6. \A k \in 1..m : s[k] # p
    BY <1>3, <2>1, <2>2 DEF InAGroup
  <2>7. Once(s)
    BY <1>3, <2>1 DEF OnceInGroups
  <2>8. \A k \in 1..(m + 1) : k \in 1..m \/ k = m + 1
    OBVIOUS
  <2>9. Once(t)
    <3>1. ASSUME NEW k \in 1..(m + 1), NEW l \in 1..(m + 1), t[k] = t[l] PROVE k = l
      <4>1. k \in 1..m /\ l \in 1..m => k = l
        BY <2>2, <2>4, <2>7, <3>1 DEF Once
      <4> QED
        BY <2>4, <2>6, <2>8, <3>1, <4>1
    <3> QED
      BY <2>4, <3>1 DEF Once
  <2>10. OnceInGroups'
    <3>1. ASSUME NEW j \in DOMAIN groupStates PROVE Once(groupStates'[j][2])
      BY <2>5, <2>9 DEF OnceInGroups
    <3> QED
      BY <2>5, <3>1 DEF OnceInGroups, Once
  <2>11. ASSUME NEW q, InAGroup(q)' PROVE InAGroup(q) \/ q = p
    <3>1. PICK j \in DOMAIN groupStates : \E k \in DOMAIN groupStates'[j][2] : groupStates'[j][2][k] = q
      BY <2>5, <2>11 DEF InAGroup
    <3>2. CASE j # i
      BY <2>5, <3>1, <3>2 DEF InAGroup
    <3>3. CASE j = i
      <4>1. PICK k \in 1..(m + 1) : t[k] = q
        BY <2>4, <2>5, <3>1, <3>3
      <4>2. k \in 1..m => s[k] = q
        BY <2>4, <4>1
      <4>3. k \in 1..m => InAGroup(q)
        BY <1>3, <2>1, <2>2, <4>2 DEF InAGroup
      <4> QED
        BY <2>4, <2>8, <4>1, <4>3
    <3> QED
      BY <3>2, <3>3
  <2> QED
    BY <2>10, <2>11
<1> QED
  BY <1>2, <1>3, FecHandleIs

LEMMA OnceRead == ASSUME Types, OnceInv, HandleRead PROVE OnceInv'
<1> SUFFICES ASSUME program' = "fec", faults'.copied = 0 PROVE OnceInv'
  BY DEF OnceInv
<1>1. /\ wire # <<>> /\ Head(wire) \in Datagram /\ wire' = Tail(wire)
      /\ UNCHANGED <<program, faults, toSend>>
  BY ReadIs
<1>2. /\ Once(toSend) /\ OnceOnWire /\ OnceInGroups
      /\ \A q : /\ ~ (WithSender(q) /\ OnWire(q))
                /\ ~ (WithSender(q) /\ InAGroup(q))
                /\ ~ (OnWire(q) /\ InAGroup(q))
  BY <1>1 DEF OnceInv
<1>3. wire \in Seq(Datagram)
  BY DEF Types, StreamTypes
<1>4. PICK n \in Nat : n = Len(wire) /\ n >= 1 /\ DOMAIN wire = 1..n
  BY <1>1, <1>3, EmptySeq
<1>5. /\ Head(wire) = wire[1] /\ DOMAIN wire' = 1..(n - 1)
      /\ \A j \in 1..(n - 1) : wire'[j] = wire[j + 1]
  <2>1. /\ Head(wire) = wire[1] /\ Tail(wire) \in Seq(Datagram) /\ Len(Tail(wire)) = n - 1
        /\ \A j \in 1..(n - 1) : Tail(wire)[j] = wire[j + 1]
    BY <1>1, <1>3, <1>4, HeadTailProperties
  <2> QED
    BY <1>1, <1>4, <2>1
<1>6. OnceOnWire' /\ \A q : OnWire(q)' => OnWire(q)
  <2>1. PICK from : from = [j \in 1..(n - 1) |-> j + 1]
    OBVIOUS
  <2>2. \A j \in 1..(n - 1) : from[j] \in 1..n /\ from[j] = j + 1
    BY <1>4, <2>1
  <2>3. \A j \in DOMAIN wire' : from[j] \in DOMAIN wire /\ wire'[j] = wire[from[j]]
    BY <1>4, <1>5, <2>2
  <2>4. \A j, k \in DOMAIN wire' : from[j] = from[k] => j = k
    BY <1>5, <2>2
  <2> QED
    BY <1>2, <2>3, <2>4, OnceMoved
<1>7. CASE UNCHANGED fecVars
  <2>1. UNCHANGED groupStates
    BY <1>7 DEF fecVars
  <2> QED
    BY <1>1, <1>6, <2>1, OnceStays
<1>8. CASE N!Parses /\ F!Handle(Head(wire)[2])
  <2>1. PICK p \in Packets : p = Head(wire)[2] /\ Head(wire) = <<"body", p>>
    BY <1>1, <1>8 DEF Datagram, N!Parses
  <2>2. PICK g \in Nat : g < groupID /\ p \in Group(g)
    BY <1>1, PacketIs
  <2>3. OnWire(p)
    <3>1. 1 \in 1..n
      BY <1>4
    <3> QED
      BY <1>4, <1>5, <2>1, <3>1 DEF OnWire
  <2>4. ~ OnWire(p)'
    <3> SUFFICES ASSUME OnWire(p)' PROVE FALSE
      OBVIOUS
    <3>1. PICK j \in 1..(n - 1) : wire'[j] = <<"body", p>>
      BY <1>5 DEF OnWire
    <3>2. 1 \in 1..n /\ j + 1 \in 1..n /\ j + 1 # 1
      BY <1>4
    <3>3. wire[1] = wire[j + 1] /\ wire[1][1] = "body"
      BY <1>5, <2>1, <3>1
    <3> QED
      BY <1>2, <1>4, <3>2, <3>3 DEF OnceOnWire
  <2>5. ~ InAGroup(p) /\ ~ WithSender(p)
    BY <1>2, <2>3
  <2>6. OnceInGroups' /\ \A q : InAGroup(q)' => InAGroup(q) \/ q = p
    BY <1>2, <1>8, <2>1, <2>2, <2>5, OnceHandled DEF Types
  <2>7. \A q : WithSender(q)' <=> WithSender(q)
    BY <1>1 DEF WithSender
  <2>8. Once(toSend)'
    BY <1>1, <1>2 DEF Once
  <2> QED
    BY <1>2, <1>6, <2>4, <2>5, <2>6, <2>7, <2>8 DEF OnceInv
<1> QED
  BY <1>7, <1>8, ReadIs DEF OnceInv

LEMMA OnceMonitor == ASSUME Types, OnceInv, Monitor PROVE OnceInv'
<1> SUFFICES ASSUME program' = "fec", faults'.copied = 0 PROVE OnceInv'
  BY DEF OnceInv
<1>1. /\ UNCHANGED <<program, wire, faults, toSend>> /\ groupStates # <<>>
      /\ groupStates' = Tail(groupStates)
  BY MonitorIs
<1>2. /\ Once(toSend) /\ OnceOnWire /\ OnceInGroups
      /\ \A q : /\ ~ (WithSender(q) /\ OnWire(q))
                /\ ~ (WithSender(q) /\ InAGroup(q))
                /\ ~ (OnWire(q) /\ InAGroup(q))
  BY <1>1 DEF OnceInv
<1>3. \A i \in DOMAIN groupStates' : i + 1 \in DOMAIN groupStates
                                     /\ groupStates'[i] = groupStates[i + 1]
  <2>1. groupStates \in Seq(Held)
    BY DEF Types, FecTypes
  <2>2. PICK n \in Nat : n = Len(groupStates) /\ n >= 1 /\ DOMAIN groupStates = 1..n
    BY <1>1, <2>1, EmptySeq
  <2>3. /\ Tail(groupStates) \in Seq(Held) /\ Len(Tail(groupStates)) = n - 1
        /\ \A j \in 1..(n - 1) : Tail(groupStates)[j] = groupStates[j + 1]
    BY <1>1, <2>1, <2>2, HeadTailProperties
  <2>4. \A j \in 1..(n - 1) : j + 1 \in 1..n
    BY <2>2
  <2>5. DOMAIN groupStates' = 1..(n - 1)
    BY <1>1, <2>2, <2>3
  <2> QED
    BY <1>1, <2>2, <2>3, <2>4, <2>5
<1>4. OnceInGroups'
  BY <1>2, <1>3 DEF OnceInGroups, Once
<1>5. \A q : InAGroup(q)' => InAGroup(q)
  BY <1>3 DEF InAGroup
<1>6. \A q : (OnWire(q)' <=> OnWire(q)) /\ (WithSender(q)' <=> WithSender(q))
  BY <1>1 DEF OnWire, WithSender
<1>7. Once(toSend)' /\ OnceOnWire'
  BY <1>1, <1>2 DEF Once, OnceOnWire
<1> QED
  BY <1>2, <1>4, <1>5, <1>6, <1>7 DEF OnceInv

LEMMA OnceStep == ASSUME Types, OnceInv, [StreamsNext]_streamsVars PROVE OnceInv'
<1>1. CASE UNCHANGED streamsVars
  <2>1. UNCHANGED <<program, toSend, groupStates, wire, faults>>
    BY <1>1 DEF streamsVars, fecVars
  <2>2. OnceOnWire => OnceOnWire' /\ \A p : OnWire(p)' => OnWire(p)
    BY <2>1 DEF OnceOnWire, OnWire
  <2> QED
    BY <2>1, <2>2, OnceStays
<1> QED
  BY <1>1, OnceGenerate, OnceSend, OnceNetwork, OnceRead, OnceMonitor DEF StreamsNext

LEMMA OnceStart == StreamsInit => OnceInv
<1> SUFFICES ASSUME StreamsInit PROVE OnceInv
  OBVIOUS
<1>1. toSend = <<>> /\ wire = <<>> /\ groupStates = <<>>
  BY DEF StreamsInit, N!Init, F!Init
<1>2. Once(toSend) /\ OnceOnWire /\ OnceInGroups
  BY <1>1 DEF Once, OnceOnWire, OnceInGroups
<1>3. \A p : ~ WithSender(p) /\ ~ OnWire(p) /\ ~ InAGroup(p)
  BY <1>1 DEF WithSender, OnWire, InAGroup
<1> QED
  BY <1>2, <1>3 DEF OnceInv

\* RecoversNothing, of one verdict and of all.
RightVerdict(v) ==
    /\ v.verdict = "Recovered" <=> Len(v.packets) = GroupSize
    /\ v.verdict = "Recovered" => F!Rebuilt(v.packets) = {}

VerdictInv ==
    faults.copied = 0 => stats.Completed = 0 /\ \A v \in verdicts : RightVerdict(v)

LEMMA VerdictStep == ASSUME Types, OnceInv, VerdictInv, [StreamsNext]_streamsVars PROVE VerdictInv'
<1>1. faults'.copied = 0 => faults.copied = 0
  <2>1. CASE Network
    <3>1. faults \in [FaultKind -> Nat]
      BY DEF Types, StreamTypes
    <3>2. PICK k \in FaultKind : faults' = [faults EXCEPT ![k] = @ + 1]
      BY <2>1, NetworkIs DEF FaultKind
    <3>3. faults.copied \in Nat /\ faults'.copied \in {faults.copied, faults.copied + 1}
      BY <3>1, <3>2 DEF FaultKind
    <3> QED
      BY <3>3
  <2>2. CASE ~ Network
    <3>1. UNCHANGED faults
      BY <2>2, ReadIs DEF StreamsNext, Generate, Send, Monitor, streamsVars
    <3> QED
      BY <3>1
  <2> QED
    BY <2>1, <2>2
<1>2. ASSUME NEW v PROVE RightVerdict(v)' <=> RightVerdict(v)
  BY DEF RightVerdict
<1>3. CASE Monitor
  <2> SUFFICES ASSUME faults'.copied = 0
               PROVE  stats'.Completed = 0 /\ \A v \in verdicts' : RightVerdict(v)
    BY <1>2 DEF VerdictInv
  <2>1. stats.Completed = 0 /\ \A v \in verdicts : RightVerdict(v)
    BY <1>1 DEF VerdictInv
  <2>2. program = "fec"
    BY <1>3 DEF Monitor
  <2>3. PICK g \in Nat : g < groupID /\ Head(groupStates) \in {g} \X Seq(Group(g))
    BY <1>3, MonitorIs
  <2>4. PICK q \in Seq(Group(g)) : q = Head(groupStates)[2]
    BY <2>3
  <2>5. Once(q)
    <3>1. groupStates # <<>> /\ groupStates \in Seq(Held)
      BY <1>3, MonitorIs DEF Types, FecTypes
    <3>2. 1 \in DOMAIN groupStates /\ Head(groupStates) = groupStates[1]
      BY <3>1, EmptySeq, HeadTailProperties
    <3> QED
      BY <1>1, <2>2, <2>4, <3>2 DEF OnceInv, OnceInGroups
  <2>6. PICK w : w = F!Verdict(q)
    OBVIOUS
  <2>7. /\ w \in {"Recovered", "Lost"}
        /\ w = "Recovered" <=> Len(q) = GroupSize
        /\ w = "Recovered" => F!Rebuilt(q) = {}
    BY <2>5, <2>6, VerdictIs
  <2>8. stats' = [stats EXCEPT ![w] = @ + 1]
        /\ verdicts' = verdicts \cup {[verdict |-> w, packets |-> q]}
    BY <1>3, <2>4, <2>6, MonitorIs
  <2>9. stats \in [{"Completed", "Recovered", "Lost"} -> Nat]
    BY DEF Types, FecTypes
  <2>10. stats'.Completed = 0
    BY <2>1, <2>7, <2>8, <2>9
  <2>11. RightVerdict([verdict |-> w, packets |-> q])
    BY <2>7 DEF RightVerdict
  <2> QED
    BY <2>1, <2>8, <2>10, <2>11
<1>4. CASE ~ Monitor
  <2>1. UNCHANGED <<stats, verdicts>>
    BY <1>4, NetworkIs, ReadIs DEF StreamsNext, Generate, Send, streamsVars, fecVars
  <2> QED
    BY <1>1, <1>2, <2>1 DEF VerdictInv
<1> QED
  BY <1>3, <1>4

LEMMA VerdictStart == StreamsInit => VerdictInv
  BY DEF StreamsInit, F!Init, VerdictInv

\* RecoversNothing: without a copied datagram 11 completes no group, and those it
\* says it recovered are the ones of which every packet came, whose rebuilt payload is
\* that of no packet (sender main.go 105-136, receptor main.go 149-187).
THEOREM RecoveryTheorem == StreamsSpec => []RecoversNothing
<1>1. VerdictInv => RecoversNothing
  BY DEF VerdictInv, RightVerdict, RecoversNothing
<1>2. StreamsInit => OnceInv /\ VerdictInv
  BY OnceStart, VerdictStart
<1>3. Types /\ OnceInv /\ VerdictInv /\ [StreamsNext]_streamsVars => OnceInv' /\ VerdictInv'
  BY OnceStep, VerdictStep
<1> QED
  BY <1>1, <1>2, <1>3, StreamsTypes, PTL DEF StreamsSpec

-----------------------------------------------------------------------------
(* The report of 09.  A packet is leading that has a greater number than   *)
(* every one handled before it.                                            *)

Leading == {i \in DOMAIN arrived : \A j \in 1..(i - 1) : arrived[j] < arrived[i]}
Reached(s) == \E i \in Leading : arrived[i] = s
SkippedIffGap(s) ==
    ~ Reached(s) <=> \E g \in ToSet(SeqGaps) : s < g /\ \A t \in s..(g - 1) : ~ Reached(t)

ReportInv ==
    /\ ~ initialized => arrived = <<>> /\ SeqGaps = <<>> /\ Delayed = <<>>
    /\ initialized =>
          /\ \E l \in Leading : arrived[l] = LastSeqNum /\ \A j \in Leading : j <= l
          /\ \A j \in DOMAIN arrived : arrived[j] <= LastSeqNum
          /\ \A g \in ToSet(SeqGaps) : g <= LastSeqNum
          /\ IsFiniteSet(Leading) /\ Len(Delayed) + Cardinality(Leading) = Len(arrived)
          /\ \A s \in arrived[1]..LastSeqNum : SkippedIffGap(s)

LEMMA ToSetAppend ==
  ASSUME NEW S, NEW s \in Seq(S), NEW x \in S
  PROVE  ToSet(Append(s, x)) = ToSet(s) \cup {x}
<1>1. PICK n \in Nat : n = Len(s) /\ DOMAIN s = 1..n
  OBVIOUS
<1>2. PICK t : t = Append(s, x)
  OBVIOUS
<1>3. DOMAIN t = 1..(n + 1) /\ t[n + 1] = x /\ \A i \in 1..n : t[i] = s[i]
  BY <1>1, <1>2, AppendProperties
<1>4. \A i \in 1..(n + 1) : i \in 1..n \/ i = n + 1
  OBVIOUS
<1>5. n + 1 \in 1..(n + 1) /\ \A i \in 1..n : i \in 1..(n + 1)
  OBVIOUS
<1>6. ToSet(t) = {t[i] : i \in 1..(n + 1)} /\ ToSet(s) = {s[i] : i \in 1..n}
  BY <1>1, <1>3 DEF ToSet
<1>7. \A y : y \in ToSet(t) <=> y \in ToSet(s) \/ y = x
  BY <1>3, <1>4, <1>5, <1>6
<1> QED
  BY <1>2, <1>7

\* The first packet.
LEMMA ReportFirst ==
  ASSUME RtpTypes, ReportInv, ~ initialized, NEW new \in Nat, R!Handle(new)
  PROVE  ReportInv'
<1>1. /\ initialized' = TRUE /\ LastSeqNum' = new /\ arrived' = <<new>>
      /\ SeqGaps' = <<>> /\ Delayed' = <<>>
  BY DEF ReportInv, R!Handle
<1>2. DOMAIN arrived' = {1} /\ arrived'[1] = new /\ Len(arrived') = 1 /\ Len(Delayed') = 0
  BY <1>1
<1>3. Leading' = {1}
  <2>1. \A j \in 1..(1 - 1) : FALSE
    OBVIOUS
  <2> QED
    BY <1>2, <2>1 DEF Leading
<1>4. IsFiniteSet(Leading') /\ Cardinality(Leading') = 1
  BY <1>3, FS_Singleton
<1>5. ToSet(SeqGaps)' = {}
  BY <1>1 DEF ToSet
<1>6. ASSUME NEW s \in new..new PROVE SkippedIffGap(s)'
  <2>1. s = new
    OBVIOUS
  <2>2. Reached(s)'
    BY <1>2, <1>3, <2>1 DEF Reached
  <2> QED
    BY <1>5, <2>2 DEF SkippedIffGap
<1>7. Len(Delayed') + Cardinality(Leading') = Len(arrived')
  BY <1>2, <1>4
<1> QED
  BY <1>1, <1>2, <1>3, <1>4, <1>5, <1>6, <1>7 DEF ReportInv

LEMMA ReportLate ==
  ASSUME RtpTypes, ReportInv, initialized, NEW new \in Nat, R!Handle(new), new <= LastSeqNum
  PROVE  ReportInv'
<1>1. /\ initialized' /\ LastSeqNum' = LastSeqNum /\ arrived' = Append(arrived, new)
      /\ SeqGaps' = SeqGaps /\ Delayed' = Append(Delayed, new) /\ LastSeqNum \in Nat
  BY DEF R!Handle, R!Late, R!Gap, RtpTypes
<1>2. PICK n \in Nat : n = Len(arrived) /\ DOMAIN arrived = 1..n
  BY DEF RtpTypes
<1>3. PICK l \in Leading : arrived[l] = LastSeqNum /\ \A j \in Leading : j <= l
  BY DEF ReportInv
<1>4. l \in 1..n
  BY <1>2 DEF Leading
<1>5. DOMAIN arrived' = 1..(n + 1) /\ Len(arrived') = n + 1 /\ arrived'[n + 1] = new
      /\ \A i \in 1..n : arrived'[i] = arrived[i]
  BY <1>1, <1>2, AppendProperties DEF RtpTypes
<1>6. \A i \in 1..(n + 1) : i \in 1..n \/ i = n + 1
  OBVIOUS
<1>7. \A i \in 1..(n + 1) : \A j \in 1..(i - 1) : j \in 1..n
  OBVIOUS
<1>8. Leading' = Leading
  <2>1. n + 1 \notin Leading'
    <3>1. l \in 1..((n + 1) - 1)
      BY <1>4
    <3>2. ~ (arrived'[l] < arrived'[n + 1])
      BY <1>1, <1>3, <1>4, <1>5
    <3> QED
      BY <3>1, <3>2 DEF Leading
  <2>2. ASSUME NEW i \in 1..n PROVE i \in Leading' <=> i \in Leading
    BY <1>2, <1>5, <1>7, <2>2 DEF Leading
  <2>3. \A i : i \in Leading' => i \in 1..(n + 1)
    BY <1>5 DEF Leading
  <2>4. \A i : i \in Leading => i \in 1..n
    BY <1>2 DEF Leading
  <2> QED
    BY <1>6, <2>1, <2>2, <2>3, <2>4
<1>9. \A i \in Leading : arrived'[i] = arrived[i]
  BY <1>2, <1>5 DEF Leading
<1>10. \A s : Reached(s)' <=> Reached(s)
  BY <1>8, <1>9 DEF Reached
<1>11. \A j \in 1..(n + 1) : arrived'[j] <= LastSeqNum
  BY <1>2, <1>5, <1>6 DEF ReportInv
<1>12. IsFiniteSet(Leading') /\ Len(Delayed') + Cardinality(Leading') = Len(arrived')
  <2>1. Len(Delayed') = Len(Delayed) + 1 /\ Len(Delayed) \in Nat
    BY <1>1 DEF RtpTypes
  <2>2. IsFiniteSet(Leading) /\ Len(Delayed) + Cardinality(Leading) = n
    BY <1>2 DEF ReportInv
  <2>3. PICK c \in Nat, d \in Nat : c = Cardinality(Leading) /\ d = Len(Delayed)
    BY <2>1, <2>2, FS_CardinalityType
  <2> QED
    BY <1>5, <1>8, <2>1, <2>2, <2>3
<1>13. 1 \in 1..n /\ arrived'[1] = arrived[1]
  BY <1>4, <1>5
<1>14. ToSet(SeqGaps)' = ToSet(SeqGaps)
  BY <1>1 DEF ToSet
<1>15. \A s \in arrived'[1]..LastSeqNum' : SkippedIffGap(s)'
  <2>1. ASSUME NEW s \in arrived[1]..LastSeqNum PROVE SkippedIffGap(s)'
    <3>1. SkippedIffGap(s)
      BY DEF ReportInv
    <3> QED
      BY <1>10, <1>14, <3>1 DEF SkippedIffGap
  <2> QED
    BY <1>1, <1>13, <2>1
<1>16. \E k \in Leading' : arrived'[k] = LastSeqNum' /\ \A j \in Leading' : j <= k
  BY <1>1, <1>3, <1>8, <1>9
<1>17. \A g \in ToSet(SeqGaps)' : g <= LastSeqNum'
  BY <1>1, <1>14 DEF ReportInv
<1>18. \A j \in DOMAIN arrived' : arrived'[j] <= LastSeqNum'
  BY <1>1, <1>5, <1>11
<1> QED
  BY <1>1, <1>12, <1>15, <1>16, <1>17, <1>18 DEF ReportInv

LEMMA ReportAhead ==
  ASSUME RtpTypes, ReportInv, initialized, NEW new \in Nat, R!Handle(new), new > LastSeqNum
  PROVE  ReportInv'
<1>1. /\ initialized' /\ LastSeqNum' = new /\ arrived' = Append(arrived, new)
      /\ SeqGaps' = (IF new > LastSeqNum + 1 THEN Append(SeqGaps, new) ELSE SeqGaps)
      /\ Delayed' = Delayed /\ LastSeqNum \in Nat
  BY DEF R!Handle, R!Late, R!Gap, RtpTypes
<1>2. PICK n \in Nat : n = Len(arrived) /\ DOMAIN arrived = 1..n
  BY DEF RtpTypes
<1>3. PICK l \in Leading : arrived[l] = LastSeqNum /\ \A j \in Leading : j <= l
  BY DEF ReportInv
<1>4. l \in 1..n
  BY <1>2 DEF Leading
<1>5. DOMAIN arrived' = 1..(n + 1) /\ Len(arrived') = n + 1 /\ arrived'[n + 1] = new
      /\ \A i \in 1..n : arrived'[i] = arrived[i]
  BY <1>1, <1>2, AppendProperties DEF RtpTypes
<1>6. \A i \in 1..(n + 1) : i \in 1..n \/ i = n + 1
  OBVIOUS
<1>7. \A i \in 1..(n + 1) : \A j \in 1..(i - 1) : j \in 1..n
  OBVIOUS
<1>8. \A i \in 1..n : arrived[i] \in Nat /\ arrived[i] <= LastSeqNum
  BY <1>2 DEF RtpTypes, ReportInv
<1>9. Leading' = Leading \cup {n + 1} /\ n + 1 \notin Leading
  <2>1. n + 1 \in Leading'
    <3>1. n + 1 \in 1..(n + 1)
      OBVIOUS
    <3>2. ASSUME NEW j \in 1..((n + 1) - 1) PROVE arrived'[j] < arrived'[n + 1]
      <4>1. j \in 1..n
        OBVIOUS
      <4>2. arrived'[j] = arrived[j] /\ arrived[j] \in Nat /\ arrived[j] <= LastSeqNum
        BY <1>5, <1>8, <4>1
      <4> QED
        BY <1>1, <1>5, <4>2
    <3> QED
      BY <1>5, <3>1, <3>2 DEF Leading
  <2>2. ASSUME NEW i \in 1..n PROVE i \in Leading' <=> i \in Leading
    BY <1>2, <1>5, <1>7, <2>2 DEF Leading
  <2>3. \A i : i \in Leading' => i \in 1..(n + 1)
    BY <1>5 DEF Leading
  <2>4. \A i : i \in Leading => i \in 1..n
    BY <1>2 DEF Leading
  <2>5. n + 1 \notin 1..n
    OBVIOUS
  <2> QED
    BY <1>6, <2>1, <2>2, <2>3, <2>4, <2>5
<1>10. \A i \in Leading : i \in 1..n /\ arrived'[i] = arrived[i]
  BY <1>2, <1>5 DEF Leading
<1>11. \A s : Reached(s)' <=> Reached(s) \/ s = new
  BY <1>5, <1>9, <1>10 DEF Reached
<1>12. \A s : Reached(s) => s \in Nat /\ s <= LastSeqNum
  BY <1>8, <1>10 DEF Reached
<1>13. IsFiniteSet(Leading') /\ Len(Delayed') + Cardinality(Leading') = Len(arrived')
  <2>1. Len(Delayed) \in Nat
    BY DEF RtpTypes
  <2>2. IsFiniteSet(Leading) /\ Len(Delayed) + Cardinality(Leading) = n
    BY <1>2 DEF ReportInv
  <2>3. PICK c \in Nat, d \in Nat : c = Cardinality(Leading) /\ d = Len(Delayed)
    BY <2>1, <2>2, FS_CardinalityType
  <2>4. IsFiniteSet(Leading') /\ Cardinality(Leading') = c + 1
    BY <1>9, <2>2, <2>3, FS_AddElement
  <2>5. d + c = n /\ Len(Delayed') = d
    BY <1>1, <2>2, <2>3
  <2> QED
    BY <1>5, <2>4, <2>5
<1>14. \E k \in Leading' : arrived'[k] = LastSeqNum' /\ \A j \in Leading' : j <= k
  <2>1. \A j \in Leading' : j <= n + 1
    BY <1>9, <1>10
  <2> QED
    BY <1>1, <1>5, <1>9, <2>1
<1>15. \A j \in DOMAIN arrived' : arrived'[j] <= LastSeqNum'
  <2>1. ASSUME NEW j \in 1..(n + 1) PROVE arrived'[j] <= new
    <3>1. CASE j \in 1..n
      <4>1. arrived'[j] = arrived[j] /\ arrived[j] \in Nat /\ arrived[j] <= LastSeqNum
        BY <1>5, <1>8, <3>1
      <4> QED
        BY <1>1, <4>1
    <3>2. CASE j = n + 1
      BY <1>5, <3>2
    <3> QED
      BY <1>6, <3>1, <3>2
  <2> QED
    BY <1>1, <1>5, <2>1
<1>16. ToSet(SeqGaps)' = IF new > LastSeqNum + 1 THEN ToSet(SeqGaps) \cup {new} ELSE ToSet(SeqGaps)
  <2>1. PICK S : S = 0..senderSeq \cup {new}
    OBVIOUS
  <2>2. SeqGaps \in Seq(S) /\ new \in S
    <3>1. SeqGaps \in Seq(0..senderSeq) /\ 0..senderSeq \subseteq S /\ new \in S
      BY <2>1 DEF RtpTypes
    <3> QED
      BY <3>1, SeqMonotonic
  <2>3. ToSet(Append(SeqGaps, new)) = ToSet(SeqGaps) \cup {new}
    BY <2>2, ToSetAppend
  <2>5. ToSet(SeqGaps)' = ToSet(SeqGaps')
    BY DEF ToSet
  <2> QED
    BY <1>1, <2>3, <2>5
<1>17. \A g \in ToSet(SeqGaps) : g \in Nat /\ g <= LastSeqNum
  <2>1. SeqGaps \in Seq(0..senderSeq) /\ \A g \in ToSet(SeqGaps) : g <= LastSeqNum
    BY DEF RtpTypes, ReportInv
  <2>2. \A i \in DOMAIN SeqGaps : SeqGaps[i] \in Nat
    <3>1. 0..senderSeq \subseteq Nat
      OBVIOUS
    <3>2. SeqGaps \in Seq(Nat)
      BY <2>1, <3>1, SeqMonotonic
    <3> QED
      BY <3>2
  <2> QED
    BY <2>1, <2>2 DEF ToSet
<1>18. \A g \in ToSet(SeqGaps)' : g <= LastSeqNum'
  <2>1. ASSUME NEW g \in ToSet(SeqGaps) PROVE g <= new
    BY <1>1, <1>17
  <2> QED
    BY <1>1, <1>16, <2>1
<1>19. Reached(LastSeqNum)
  BY <1>3 DEF Reached
<1>20. 1 \in 1..n /\ arrived'[1] = arrived[1] /\ arrived[1] \in Nat
  BY <1>4, <1>5, <1>8
<1>21. ASSUME NEW s \in arrived[1]..new PROVE SkippedIffGap(s)'
  <2>0. s \in Int /\ arrived[1] <= s /\ s <= new
    BY <1>20
  <2>1. CASE s <= LastSeqNum
    <3>1. SkippedIffGap(s)
      <4>1. s \in arrived[1]..LastSeqNum
        BY <1>1, <1>20, <2>0, <2>1
      <4> QED
        BY <4>1 DEF ReportInv
    <3>2. Reached(s)' <=> Reached(s)
      BY <1>1, <1>11, <2>0, <2>1
    <3>3. ASSUME NEW g \in ToSet(SeqGaps)
          PROVE  (\A t \in s..(g - 1) : ~ Reached(t)') <=> (\A t \in s..(g - 1) : ~ Reached(t))
      <4>1. \A t \in s..(g - 1) : t # new
        BY <1>1, <1>17, <2>0
      <4> QED
        BY <1>11, <4>1
    <3>4. ~ (\A t \in s..(new - 1) : ~ Reached(t)')
      <4>1. LastSeqNum \in s..(new - 1)
        BY <1>1, <2>0, <2>1
      <4> QED
        BY <1>11, <1>19, <4>1
    <3>5. (\E g \in ToSet(SeqGaps)' : s < g /\ \A t \in s..(g - 1) : ~ Reached(t)')
            <=> (\E g \in ToSet(SeqGaps) : s < g /\ \A t \in s..(g - 1) : ~ Reached(t))
      <4>1. \A g \in ToSet(SeqGaps)' : g \in ToSet(SeqGaps) \/ g = new
        BY <1>16
      <4>2. \A g \in ToSet(SeqGaps) : g \in ToSet(SeqGaps)'
        BY <1>16
      <4> QED
        BY <3>3, <3>4, <4>1, <4>2
    <3> QED
      BY <3>1, <3>2, <3>5 DEF SkippedIffGap
  <2>2. CASE LastSeqNum < s /\ s < new
    <3>1. new > LastSeqNum + 1
      BY <1>1, <2>0, <2>2
    <3>2. new \in ToSet(SeqGaps)'
      BY <1>16, <3>1
    <3>3. ASSUME NEW t \in s..(new - 1) PROVE ~ Reached(t)'
      <4>1. t # new /\ ~ (t <= LastSeqNum)
        BY <1>1, <2>0, <2>2
      <4> QED
        BY <1>11, <1>12, <4>1
    <3>4. ~ Reached(s)'
      <4>1. s \in s..(new - 1)
        BY <2>0, <2>2
      <4> QED
        BY <3>3, <4>1
    <3> QED
      BY <2>2, <3>2, <3>3, <3>4 DEF SkippedIffGap
  <2>3. CASE s = new
    <3>1. Reached(s)'
      BY <1>11, <2>3
    <3>2. \A g \in ToSet(SeqGaps)' : ~ (s < g)
      <4>1. \A g \in ToSet(SeqGaps) : ~ (new < g)
        BY <1>1, <1>17
      <4> QED
        BY <1>16, <2>3, <4>1
    <3> QED
      BY <3>1, <3>2 DEF SkippedIffGap
  <2> QED
    BY <1>1, <2>0, <2>1, <2>2, <2>3
<1>22. \A s \in arrived'[1]..LastSeqNum' : SkippedIffGap(s)'
  BY <1>1, <1>20, <1>21
<1> QED
  BY <1>1, <1>13, <1>14, <1>15, <1>18, <1>22 DEF ReportInv

LEMMA ReportStep == ASSUME Types, ReportInv, [StreamsNext]_streamsVars PROVE ReportInv'
<1>1. CASE UNCHANGED <<initialized, LastSeqNum, Delayed, SeqGaps, arrived>>
  <2>1. ToSet(SeqGaps)' = ToSet(SeqGaps)
    BY <1>1 DEF ToSet
  <2>2. Leading' = Leading /\ \A s : Reached(s)' <=> Reached(s)
    BY <1>1 DEF Leading, Reached
  <2>3. \A s : SkippedIffGap(s)' <=> SkippedIffGap(s)
    BY <2>1, <2>2 DEF SkippedIffGap
  <2> QED
    BY <1>1, <2>1, <2>2, <2>3 DEF ReportInv
<1>2. CASE HandleRead /\ program = "rtp" /\ R!Handle(Head(wire)[2])
  <2>1. PICK new \in Nat : new = Head(wire)[2]
    BY <1>2, ReadIs, PacketIs
  <2>2. RtpTypes /\ R!Handle(new) /\ LastSeqNum \in Nat
    BY <1>2, <2>1 DEF Types, RtpTypes
  <2>3. ~ initialized \/ new <= LastSeqNum \/ new > LastSeqNum
    BY <2>2
  <2> QED
    BY <2>2, <2>3, ReportFirst, ReportLate, ReportAhead
<1>3. CASE HandleRead /\ ~ (program = "rtp" /\ R!Handle(Head(wire)[2]))
  <2>1. UNCHANGED rtpVars
    BY <1>3, ReadIs
  <2> QED
    BY <1>1, <2>1 DEF rtpVars
<1>4. CASE ~ HandleRead
  <2>1. UNCHANGED <<initialized, LastSeqNum, Delayed, SeqGaps, arrived>>
    BY <1>4, NetworkIs DEF StreamsNext, Generate, Send, Monitor, streamsVars, rtpVars
  <2> QED
    BY <1>1, <2>1
<1> QED
  BY <1>2, <1>3, <1>4

LEMMA ReportStart == StreamsInit => ReportInv
  BY DEF StreamsInit, R!Init, ReportInv

\* ReportIsTrue: whatever the network does, the two lists of 09 tell which numbers were
\* skipped and how many packets were late (receptor main.go 96-108).
THEOREM ReportTheorem == StreamsSpec => []ReportIsTrue
<1>1. Types /\ ReportInv => ReportIsTrue
  <2> SUFFICES ASSUME Types, ReportInv PROVE ReportIsTrue
    OBVIOUS
  <2> SUFFICES ASSUME arrived # <<>>
               PROVE  /\ LastSeqNum = arrived[CHOOSE i \in Leading : \A j \in Leading : j <= i]
                      /\ \A s \in arrived[1]..LastSeqNum :
                            ~ (s \in {arrived[i] : i \in Leading})
                              <=> \E g \in ToSet(SeqGaps) :
                                     s < g /\ \A t \in s..(g - 1) : ~ (t \in {arrived[i] : i \in Leading})
                      /\ Len(Delayed) = Len(arrived) - Cardinality(Leading)
    <3>1. R!ToSet(SeqGaps) = ToSet(SeqGaps)
      BY DEF R!ToSet, ToSet
    <3>2. R!Cardinality(Leading) = Cardinality(Leading)
      BY DEF R!Cardinality, Cardinality, R!IsFiniteSet, IsFiniteSet
    <3> QED
      BY <3>1, <3>2 DEF ReportIsTrue, R!GapsAndLatesTellAll, Leading
  <2>1. initialized
    BY DEF ReportInv
  <2>2. PICK l \in Leading : arrived[l] = LastSeqNum /\ \A j \in Leading : j <= l
    BY <2>1 DEF ReportInv
  <2>3. Leading \subseteq Nat
    BY DEF Leading, Types, RtpTypes
  <2>4. PICK k : k = CHOOSE i \in Leading : \A j \in Leading : j <= i
    OBVIOUS
  <2>5. k \in Leading /\ \A j \in Leading : j <= k
    BY <2>2, <2>4
  <2>6. k = l
    BY <2>2, <2>3, <2>5
  <2>7. \A s : s \in {arrived[i] : i \in Leading} <=> Reached(s)
    BY DEF Reached
  <2>8. \A s \in arrived[1]..LastSeqNum : SkippedIffGap(s)
    BY <2>1 DEF ReportInv
  <2>9. Len(Delayed) = Len(arrived) - Cardinality(Leading)
    <3>1. IsFiniteSet(Leading) /\ Len(Delayed) + Cardinality(Leading) = Len(arrived)
      BY <2>1 DEF ReportInv
    <3>2. PICK c \in Nat, d \in Nat, m \in Nat :
             c = Cardinality(Leading) /\ d = Len(Delayed) /\ m = Len(arrived)
      BY <3>1, FS_CardinalityType DEF Types, RtpTypes
    <3>3. d = m - c
      BY <3>1, <3>2
    <3> QED
      BY <3>2, <3>3
  <2> QED
    BY <2>2, <2>4, <2>6, <2>7, <2>8, <2>9 DEF SkippedIffGap
<1> QED
  BY <1>1, ReportStart, ReportStep, StreamsTypes, PTL DEF StreamsSpec

-----------------------------------------------------------------------------
(* ReliableUdp.                                                            *)

USE ReliableUdpAssumption

(* Every step of the client, the network and the server keeps the types.   *)
LEMMA TypeStep == TypeOK /\ [Next]_vars => TypeOK'
<1> SUFFICES ASSUME TypeOK, [Next]_vars
             PROVE  TypeOK'
  OBVIOUS
<1> USE DEF TypeOK, clientVars, serverVars, PC, Result, Request, Ack, Entry
<1>1. ASSUME NEW l \in Line, SpawnSend(l)
      PROVE  TypeOK'
  BY <1>1 DEF SpawnSend
<1>2. ASSUME NEW l \in Line, SendReliable(l)
      PROVE  TypeOK'
  <2>1. CASE NextSeqLoad(l)
    BY <2>1 DEF NextSeqLoad
  <2>2. CASE NextSeqStore(l)
    BY <2>2 DEF NextSeqStore
  <2>3. CASE NextSeqReturn(l)
    BY <2>3 DEF NextSeqReturn
  <2>4. CASE Register(l)
    BY <2>4 DEF Register
  <2>5. CASE Write(l)
    BY <2>5 DEF Write, MayWrite, MayWrite
  <2>6. CASE WriteError(l)
    BY <2>6 DEF WriteError, MayWrite, Leave
  <2>7. CASE GiveUp(l)
    BY <2>7 DEF GiveUp, MayWrite, Leave
  <2>8. CASE GetReply(l)
    BY <2>8 DEF GetReply, Leave
  <2>9. CASE Timeout(l)
    BY <2>9 DEF Timeout
  <2>10. CASE SeeCancel(l)
    BY <2>10 DEF SeeCancel, Leave
  <2>11. CASE Cleanup(l)
    BY <2>11 DEF Cleanup
  <2> QED
    BY <1>2, <2>1, <2>2, <2>3, <2>4, <2>5, <2>6, <2>7, <2>8, <2>9, <2>10, <2>11 DEF SendReliable
<1>3. ASSUME NEW c \in Client, ReadLoop(c)
      PROVE  TypeOK'
  <2>1. CASE ReadCheck(c)
    BY <2>1 DEF ReadCheck
  <2>2. CASE ReadAck(c)
    BY <2>2 DEF ReadAck, Taken
  <2>3. CASE ReadError(c)
    BY <2>3 DEF ReadError
  <2>4. CASE Deliver(c)
    BY <2>4 DEF Deliver
  <2> QED
    BY <1>3, <2>1, <2>2, <2>3, <2>4 DEF ReadLoop
<1>4. ASSUME NEW c \in Client, Shutdown(c)
      PROVE  TypeOK'
  BY <1>4 DEF Shutdown
<1>5. ASSUME NEW r \in reqs, RefuseRequest(r)
      PROVE  TypeOK'
  BY <1>5 DEF RefuseRequest, Taken
<1>6. ASSUME NEW r \in reqs, HandleRequest(r)
      PROVE  TypeOK'
  BY <1>6 DEF HandleRequest, Seen, Taken
<1>7. ASSUME NEW r \in reqs, LoseRequest(r)
      PROVE  TypeOK'
  BY <1>7 DEF LoseRequest
<1>8. ASSUME NEW a \in acks, LoseAck(a)
      PROVE  TypeOK'
  BY <1>8 DEF LoseAck
<1>9. CASE RestartServer
  BY <1>9 DEF RestartServer
<1>10. CASE UNCHANGED vars
  BY <1>10 DEF vars
<1> QED
  BY <1>1, <1>2, <1>3, <1>4, <1>5, <1>6, <1>7, <1>8, <1>9, <1>10
  DEF Next, ServerRead

LEMMA TypeInit == Init => TypeOK
BY DEF Init, TypeOK, PC, Result, Request, Ack, Entry

(* Type correctness: every variable keeps its type in every behaviour,     *)
(* with or without overlapping NextSeq calls and server restarts.          *)
THEOREM TypeCorrect == Spec => []TypeOK
<1>1. Init => TypeOK
  BY TypeInit
<1>2. TypeOK /\ [Next]_vars => TypeOK'
  BY TypeStep
<1> QED
  BY <1>1, <1>2, PTL DEF Spec
-----------------------------------------------------------------------------
LEMMA InvInit == Init => Inv
BY TypeInit
DEF Init, Inv, NumberInv, SeqUnique, CarryInv, WaiterIsRegistered, EvidenceInv,
    CountInv, OutcomeInv, ConfirmedWasProcessed, Numbered, InNextSeq

(* Inv is inductive when NextSeq calls do not overlap.                     *)
LEMMA InvStep ==
  ASSUME ~OverlappingNextSeq, Inv, [Next]_vars
  PROVE  Inv'
<1>0. TypeOK'
  BY TypeStep DEF Inv
<1> USE <1>0
<1> USE DEF Inv, TypeOK, clientVars, serverVars, Numbered, InNextSeq
<1>1. ASSUME NEW l \in Line, SpawnSend(l)
      PROVE  Inv'
  <2>1. NumberInv'
    BY <1>1 DEF SpawnSend, NumberInv
  <2>2. SeqUnique'
    BY <1>1 DEF SpawnSend, SeqUnique, NumberInv
  <2>3. CarryInv'
    BY <1>1 DEF SpawnSend, CarryInv, NumberInv
  <2>4. WaiterIsRegistered'
    BY <1>1 DEF SpawnSend, WaiterIsRegistered, SeqUnique, NumberInv
  <2>5. EvidenceInv'
    BY <1>1 DEF SpawnSend, EvidenceInv, CarryInv, Processed
  <2>6. CountInv'
    BY <1>1 DEF SpawnSend, CountInv, CarryInv, EvidenceInv, Processed, NumberInv, SeqUnique
  <2>7. OutcomeInv'
    BY <1>1 DEF SpawnSend, OutcomeInv
  <2>8. ConfirmedWasProcessed'
    BY <1>1 DEF SpawnSend, ConfirmedWasProcessed, EvidenceInv, OutcomeInv
  <2> QED
    BY <2>1, <2>2, <2>3, <2>4, <2>5, <2>6, <2>7, <2>8
<1>2. ASSUME NEW l \in Line, NextSeqLoad(l)
      PROVE  Inv'
  <2>1. NumberInv'
    BY <1>2 DEF NextSeqLoad, NumberInv
  <2>2. SeqUnique'
    BY <1>2 DEF NextSeqLoad, SeqUnique, NumberInv
  <2>3. CarryInv'
    BY <1>2 DEF NextSeqLoad, CarryInv, NumberInv
  <2>4. WaiterIsRegistered'
    BY <1>2 DEF NextSeqLoad, WaiterIsRegistered, SeqUnique, NumberInv
  <2>5. EvidenceInv'
    BY <1>2 DEF NextSeqLoad, EvidenceInv, CarryInv, Processed
  <2>6. CountInv'
    BY <1>2 DEF NextSeqLoad, CountInv, CarryInv, EvidenceInv, Processed, NumberInv, SeqUnique
  <2>7. OutcomeInv'
    BY <1>2 DEF NextSeqLoad, OutcomeInv
  <2>8. ConfirmedWasProcessed'
    BY <1>2 DEF NextSeqLoad, ConfirmedWasProcessed, EvidenceInv, OutcomeInv
  <2> QED
    BY <2>1, <2>2, <2>3, <2>4, <2>5, <2>6, <2>7, <2>8
<1>3. ASSUME NEW l \in Line, NextSeqStore(l)
      PROVE  Inv'
  <2>1. NumberInv'
    BY <1>3 DEF NextSeqStore, NumberInv
  <2>2. SeqUnique'
    BY <1>3 DEF NextSeqStore, SeqUnique, NumberInv
  <2>3. CarryInv'
    BY <1>3 DEF NextSeqStore, CarryInv, NumberInv
  <2>4. WaiterIsRegistered'
    BY <1>3 DEF NextSeqStore, WaiterIsRegistered, SeqUnique, NumberInv
  <2>5. EvidenceInv'
    BY <1>3 DEF NextSeqStore, EvidenceInv, CarryInv, Processed
  <2>6. CountInv'
    BY <1>3 DEF NextSeqStore, CountInv, CarryInv, EvidenceInv, Processed, NumberInv, SeqUnique
  <2>7. OutcomeInv'
    BY <1>3 DEF NextSeqStore, OutcomeInv
  <2>8. ConfirmedWasProcessed'
    BY <1>3 DEF NextSeqStore, ConfirmedWasProcessed, EvidenceInv, OutcomeInv
  <2> QED
    BY <2>1, <2>2, <2>3, <2>4, <2>5, <2>6, <2>7, <2>8
<1>4. ASSUME NEW l \in Line, NextSeqReturn(l)
      PROVE  Inv'
  <2>1. NumberInv'
    BY <1>4 DEF NextSeqReturn, NumberInv
  <2>2. SeqUnique'
    BY <1>4 DEF NextSeqReturn, SeqUnique, NumberInv
  <2>3. CarryInv'
    BY <1>4 DEF NextSeqReturn, CarryInv, NumberInv
  <2>4. WaiterIsRegistered'
    BY <1>4 DEF NextSeqReturn, WaiterIsRegistered, SeqUnique, NumberInv
  <2>5. EvidenceInv'
    BY <1>4 DEF NextSeqReturn, EvidenceInv, CarryInv, Processed
  <2>6. CountInv'
    BY <1>4 DEF NextSeqReturn, CountInv, CarryInv, EvidenceInv, Processed, NumberInv, SeqUnique
  <2>7. OutcomeInv'
    BY <1>4 DEF NextSeqReturn, OutcomeInv
  <2>8. ConfirmedWasProcessed'
    BY <1>4 DEF NextSeqReturn, ConfirmedWasProcessed, EvidenceInv, OutcomeInv
  <2> QED
    BY <2>1, <2>2, <2>3, <2>4, <2>5, <2>6, <2>7, <2>8
<1>5. ASSUME NEW l \in Line, Register(l)
      PROVE  Inv'
  <2>1. NumberInv'
    BY <1>5 DEF Register, HasKey, NumberInv
  <2>2. SeqUnique'
    BY <1>5 DEF Register, HasKey, SeqUnique, NumberInv
  <2>3. CarryInv'
    BY <1>5 DEF Register, HasKey, CarryInv, NumberInv
  <2>4. WaiterIsRegistered'
    <3> DEFINE entry(m) == [client |-> Owner[m], seq |-> seq[m], line |-> m]
    <3> SUFFICES ASSUME NEW m \in Line, pc'[m] \in {"write", "wait", "cleanup"}
                 PROVE  entry(m) \in pending'
      BY <1>5 DEF Register, WaiterIsRegistered
    <3>1. CASE m = l
      BY <1>5, <3>1 DEF Register
    <3>2. CASE m # l
      <4>1. pc[m] \in {"write", "wait", "cleanup"} /\ entry(m) \in pending
        BY <1>5, <3>2 DEF Register, WaiterIsRegistered
      <4>2. ~(Owner[m] = Owner[l] /\ seq[m] = seq[l])
        BY <1>5, <3>2, <4>1 DEF Register, SeqUnique, NumberInv
      <4>3. ~HasKey(entry(m), Owner[l], seq[l])
        BY <4>2 DEF HasKey
      <4> QED
        BY <1>5, <4>1, <4>3 DEF Register
    <3> QED
      BY <3>1, <3>2
  <2>5. EvidenceInv'
    BY <1>5 DEF Register, HasKey, EvidenceInv, CarryInv, Processed
  <2>6. CountInv'
    BY <1>5 DEF Register, HasKey, CountInv, CarryInv, EvidenceInv, Processed, NumberInv, SeqUnique
  <2>7. OutcomeInv'
    BY <1>5 DEF Register, HasKey, OutcomeInv
  <2>8. ConfirmedWasProcessed'
    BY <1>5 DEF Register, HasKey, ConfirmedWasProcessed, EvidenceInv, OutcomeInv
  <2> QED
    BY <2>1, <2>2, <2>3, <2>4, <2>5, <2>6, <2>7, <2>8
<1>6. ASSUME NEW l \in Line, Write(l)
      PROVE  Inv'
  <2>1. NumberInv'
    BY <1>6 DEF Write, MayWrite, NumberInv
  <2>2. SeqUnique'
    BY <1>6 DEF Write, MayWrite, SeqUnique, NumberInv
  <2>3. CarryInv'
    BY <1>6 DEF Write, MayWrite, CarryInv, NumberInv
  <2>4. WaiterIsRegistered'
    BY <1>6 DEF Write, MayWrite, WaiterIsRegistered, SeqUnique, NumberInv
  <2>5. EvidenceInv'
    BY <1>6 DEF Write, MayWrite, EvidenceInv, CarryInv, Processed
  <2>6. CountInv'
    BY <1>6 DEF Write, MayWrite, CountInv, CarryInv, EvidenceInv, Processed, NumberInv, SeqUnique
  <2>7. OutcomeInv'
    BY <1>6 DEF Write, MayWrite, OutcomeInv
  <2>8. ConfirmedWasProcessed'
    BY <1>6 DEF Write, MayWrite, ConfirmedWasProcessed, EvidenceInv, OutcomeInv
  <2> QED
    BY <2>1, <2>2, <2>3, <2>4, <2>5, <2>6, <2>7, <2>8
<1>7. ASSUME NEW l \in Line, WriteError(l)
      PROVE  Inv'
  <2>1. NumberInv'
    BY <1>7 DEF WriteError, MayWrite, Leave, NumberInv
  <2>2. SeqUnique'
    BY <1>7 DEF WriteError, MayWrite, Leave, SeqUnique, NumberInv
  <2>3. CarryInv'
    BY <1>7 DEF WriteError, MayWrite, Leave, CarryInv, NumberInv
  <2>4. WaiterIsRegistered'
    BY <1>7 DEF WriteError, MayWrite, Leave, WaiterIsRegistered, SeqUnique, NumberInv
  <2>5. EvidenceInv'
    BY <1>7 DEF WriteError, MayWrite, Leave, EvidenceInv, CarryInv, Processed
  <2>6. CountInv'
    BY <1>7 DEF WriteError, MayWrite, Leave, CountInv, CarryInv, EvidenceInv, Processed, NumberInv, SeqUnique
  <2>7. OutcomeInv'
    BY <1>7 DEF WriteError, MayWrite, Leave, OutcomeInv
  <2>8. ConfirmedWasProcessed'
    BY <1>7 DEF WriteError, MayWrite, Leave, ConfirmedWasProcessed, EvidenceInv, OutcomeInv
  <2> QED
    BY <2>1, <2>2, <2>3, <2>4, <2>5, <2>6, <2>7, <2>8
<1>8. ASSUME NEW l \in Line, GiveUp(l)
      PROVE  Inv'
  <2>1. NumberInv'
    BY <1>8 DEF GiveUp, MayWrite, Leave, NumberInv
  <2>2. SeqUnique'
    BY <1>8 DEF GiveUp, MayWrite, Leave, SeqUnique, NumberInv
  <2>3. CarryInv'
    BY <1>8 DEF GiveUp, MayWrite, Leave, CarryInv, NumberInv
  <2>4. WaiterIsRegistered'
    BY <1>8 DEF GiveUp, MayWrite, Leave, WaiterIsRegistered, SeqUnique, NumberInv
  <2>5. EvidenceInv'
    BY <1>8 DEF GiveUp, MayWrite, Leave, EvidenceInv, CarryInv, Processed
  <2>6. CountInv'
    BY <1>8 DEF GiveUp, MayWrite, Leave, CountInv, CarryInv, EvidenceInv, Processed, NumberInv, SeqUnique
  <2>7. OutcomeInv'
    BY <1>8 DEF GiveUp, MayWrite, Leave, OutcomeInv
  <2>8. ConfirmedWasProcessed'
    BY <1>8 DEF GiveUp, MayWrite, Leave, ConfirmedWasProcessed, EvidenceInv, OutcomeInv
  <2> QED
    BY <2>1, <2>2, <2>3, <2>4, <2>5, <2>6, <2>7, <2>8
<1>9. ASSUME NEW l \in Line, GetReply(l)
      PROVE  Inv'
  <2>1. NumberInv'
    BY <1>9 DEF GetReply, Leave, NumberInv
  <2>2. SeqUnique'
    BY <1>9 DEF GetReply, Leave, SeqUnique, NumberInv
  <2>3. CarryInv'
    BY <1>9 DEF GetReply, Leave, CarryInv, NumberInv
  <2>4. WaiterIsRegistered'
    BY <1>9 DEF GetReply, Leave, WaiterIsRegistered, SeqUnique, NumberInv
  <2>5. EvidenceInv'
    BY <1>9 DEF GetReply, Leave, EvidenceInv, CarryInv, Processed
  <2>6. CountInv'
    BY <1>9 DEF GetReply, Leave, CountInv, CarryInv, EvidenceInv, Processed, NumberInv, SeqUnique
  <2>7. OutcomeInv'
    BY <1>9 DEF GetReply, Leave, OutcomeInv
  <2>8. ConfirmedWasProcessed'
    BY <1>9 DEF GetReply, Leave, ConfirmedWasProcessed, EvidenceInv, OutcomeInv
  <2> QED
    BY <2>1, <2>2, <2>3, <2>4, <2>5, <2>6, <2>7, <2>8
<1>10. ASSUME NEW l \in Line, Timeout(l)
      PROVE  Inv'
  <2>1. NumberInv'
    BY <1>10 DEF Timeout, NumberInv
  <2>2. SeqUnique'
    BY <1>10 DEF Timeout, SeqUnique, NumberInv
  <2>3. CarryInv'
    BY <1>10 DEF Timeout, CarryInv, NumberInv
  <2>4. WaiterIsRegistered'
    BY <1>10 DEF Timeout, WaiterIsRegistered, SeqUnique, NumberInv
  <2>5. EvidenceInv'
    BY <1>10 DEF Timeout, EvidenceInv, CarryInv, Processed
  <2>6. CountInv'
    BY <1>10 DEF Timeout, CountInv, CarryInv, EvidenceInv, Processed, NumberInv, SeqUnique
  <2>7. OutcomeInv'
    BY <1>10 DEF Timeout, OutcomeInv
  <2>8. ConfirmedWasProcessed'
    BY <1>10 DEF Timeout, ConfirmedWasProcessed, EvidenceInv, OutcomeInv
  <2> QED
    BY <2>1, <2>2, <2>3, <2>4, <2>5, <2>6, <2>7, <2>8
<1>11. ASSUME NEW l \in Line, SeeCancel(l)
      PROVE  Inv'
  <2>1. NumberInv'
    BY <1>11 DEF SeeCancel, Leave, NumberInv
  <2>2. SeqUnique'
    BY <1>11 DEF SeeCancel, Leave, SeqUnique, NumberInv
  <2>3. CarryInv'
    BY <1>11 DEF SeeCancel, Leave, CarryInv, NumberInv
  <2>4. WaiterIsRegistered'
    BY <1>11 DEF SeeCancel, Leave, WaiterIsRegistered, SeqUnique, NumberInv
  <2>5. EvidenceInv'
    BY <1>11 DEF SeeCancel, Leave, EvidenceInv, CarryInv, Processed
  <2>6. CountInv'
    BY <1>11 DEF SeeCancel, Leave, CountInv, CarryInv, EvidenceInv, Processed, NumberInv, SeqUnique
  <2>7. OutcomeInv'
    BY <1>11 DEF SeeCancel, Leave, OutcomeInv
  <2>8. ConfirmedWasProcessed'
    BY <1>11 DEF SeeCancel, Leave, ConfirmedWasProcessed, EvidenceInv, OutcomeInv
  <2> QED
    BY <2>1, <2>2, <2>3, <2>4, <2>5, <2>6, <2>7, <2>8
<1>12. ASSUME NEW l \in Line, Cleanup(l)
      PROVE  Inv'
  <2>1. NumberInv'
    BY <1>12 DEF Cleanup, HasKey, NumberInv
  <2>2. SeqUnique'
    BY <1>12 DEF Cleanup, HasKey, SeqUnique, NumberInv
  <2>3. CarryInv'
    BY <1>12 DEF Cleanup, HasKey, CarryInv, NumberInv
  <2>4. WaiterIsRegistered'
    BY <1>12 DEF Cleanup, HasKey, WaiterIsRegistered, SeqUnique, NumberInv
  <2>5. EvidenceInv'
    BY <1>12 DEF Cleanup, HasKey, EvidenceInv, CarryInv, Processed
  <2>6. CountInv'
    BY <1>12 DEF Cleanup, HasKey, CountInv, CarryInv, EvidenceInv, Processed, NumberInv, SeqUnique
  <2>7. OutcomeInv'
    BY <1>12 DEF Cleanup, HasKey, OutcomeInv
  <2>8. ConfirmedWasProcessed'
    BY <1>12 DEF Cleanup, HasKey, ConfirmedWasProcessed, EvidenceInv, OutcomeInv
  <2> QED
    BY <2>1, <2>2, <2>3, <2>4, <2>5, <2>6, <2>7, <2>8
<1>13. ASSUME NEW c \in Client, ReadCheck(c)
      PROVE  Inv'
  <2>1. NumberInv'
    BY <1>13 DEF ReadCheck, NumberInv
  <2>2. SeqUnique'
    BY <1>13 DEF ReadCheck, SeqUnique, NumberInv
  <2>3. CarryInv'
    BY <1>13 DEF ReadCheck, CarryInv, NumberInv
  <2>4. WaiterIsRegistered'
    BY <1>13 DEF ReadCheck, WaiterIsRegistered, SeqUnique, NumberInv
  <2>5. EvidenceInv'
    BY <1>13 DEF ReadCheck, EvidenceInv, CarryInv, Processed
  <2>6. CountInv'
    BY <1>13 DEF ReadCheck, CountInv, CarryInv, EvidenceInv, Processed, NumberInv, SeqUnique
  <2>7. OutcomeInv'
    BY <1>13 DEF ReadCheck, OutcomeInv
  <2>8. ConfirmedWasProcessed'
    BY <1>13 DEF ReadCheck, ConfirmedWasProcessed, EvidenceInv, OutcomeInv
  <2> QED
    BY <2>1, <2>2, <2>3, <2>4, <2>5, <2>6, <2>7, <2>8
<1>14. ASSUME NEW c \in Client, ReadAck(c)
      PROVE  Inv'
  <2>1. NumberInv'
    BY <1>14 DEF ReadAck, Taken, HasKey, NumberInv
  <2>2. SeqUnique'
    BY <1>14 DEF ReadAck, Taken, HasKey, SeqUnique, NumberInv
  <2>3. CarryInv'
    BY <1>14 DEF ReadAck, Taken, HasKey, CarryInv, NumberInv
  <2>4. WaiterIsRegistered'
    BY <1>14 DEF ReadAck, Taken, HasKey, WaiterIsRegistered, SeqUnique, NumberInv
  <2>5. EvidenceInv'
    <3> PICK a \in acks :
          /\ a.to = c
          /\ acks' \in Taken(acks, a)
          /\ \/ /\ \E e \in pending :
                      /\ HasKey(e, c, a.seq)
                      /\ deliverTo' = [deliverTo EXCEPT ![c] = e.line]
                /\ readPc' = [readPc EXCEPT ![c] = "deliver"]
             \/ /\ readPc' = [readPc EXCEPT ![c] = "check"]
                /\ UNCHANGED deliverTo
      BY <1>14 DEF ReadAck
    <3>1. Processed(c, a.seq)
      BY DEF EvidenceInv
    <3>2. ASSUME NEW e \in pending, HasKey(e, c, a.seq)
          PROVE  processed[e.line] >= 1
      <4>1. PICK l \in Line :
               Owner[l] = c /\ seq[l] = a.seq /\ seq[l] # 0 /\ processed[l] >= 1
        <5> PICK l \in Line :
               Owner[l] = c /\ Numbered(l) /\ seq[l] = a.seq /\ processed[l] >= 1
          BY <3>1 DEF Processed
        <5> seq[l] \in 1..nextSeq[Owner[l]]
          BY DEF NumberInv
        <5> QED
          OBVIOUS
      <4>2. e.line \in Line /\ Owner[e.line] = c /\ seq[e.line] = a.seq
        BY <3>2 DEF HasKey, CarryInv, Entry
      <4> QED
        BY <4>1, <4>2 DEF SeqUnique
    <3>3. readPc'[c] = "deliver" => processed[deliverTo'[c]] >= 1
      BY <3>2
    <3>4. acks' \subseteq acks
      BY DEF Taken
    <3>5. UNCHANGED <<pc, seq, processed, replyCh, Msgs>>
      BY <1>14 DEF ReadAck
    <3>6. \A d \in Client : d # c =>
             readPc'[d] = readPc[d] /\ deliverTo'[d] = deliverTo[d]
      OBVIOUS
    <3>7. \A d, n : Processed(d, n) => Processed(d, n)'
      BY <3>5 DEF Processed
    <3> QED
      BY <3>3, <3>4, <3>5, <3>6, <3>7 DEF EvidenceInv
  <2>6. CountInv'
    BY <1>14 DEF ReadAck, Taken, HasKey, CountInv, CarryInv, EvidenceInv, Processed, NumberInv, SeqUnique
  <2>7. OutcomeInv'
    BY <1>14 DEF ReadAck, Taken, HasKey, OutcomeInv
  <2>8. ConfirmedWasProcessed'
    BY <1>14 DEF ReadAck, Taken, HasKey, ConfirmedWasProcessed, EvidenceInv, OutcomeInv
  <2> QED
    BY <2>1, <2>2, <2>3, <2>4, <2>5, <2>6, <2>7, <2>8
<1>15. ASSUME NEW c \in Client, ReadError(c)
      PROVE  Inv'
  <2>1. NumberInv'
    BY <1>15 DEF ReadError, NumberInv
  <2>2. SeqUnique'
    BY <1>15 DEF ReadError, SeqUnique, NumberInv
  <2>3. CarryInv'
    BY <1>15 DEF ReadError, CarryInv, NumberInv
  <2>4. WaiterIsRegistered'
    BY <1>15 DEF ReadError, WaiterIsRegistered, SeqUnique, NumberInv
  <2>5. EvidenceInv'
    BY <1>15 DEF ReadError, EvidenceInv, CarryInv, Processed
  <2>6. CountInv'
    BY <1>15 DEF ReadError, CountInv, CarryInv, EvidenceInv, Processed, NumberInv, SeqUnique
  <2>7. OutcomeInv'
    BY <1>15 DEF ReadError, OutcomeInv
  <2>8. ConfirmedWasProcessed'
    BY <1>15 DEF ReadError, ConfirmedWasProcessed, EvidenceInv, OutcomeInv
  <2> QED
    BY <2>1, <2>2, <2>3, <2>4, <2>5, <2>6, <2>7, <2>8
<1>16. ASSUME NEW c \in Client, Deliver(c)
      PROVE  Inv'
  <2>1. NumberInv'
    BY <1>16 DEF Deliver, NumberInv
  <2>2. SeqUnique'
    BY <1>16 DEF Deliver, SeqUnique, NumberInv
  <2>3. CarryInv'
    BY <1>16 DEF Deliver, CarryInv, NumberInv
  <2>4. WaiterIsRegistered'
    BY <1>16 DEF Deliver, WaiterIsRegistered, SeqUnique, NumberInv
  <2>5. EvidenceInv'
    BY <1>16 DEF Deliver, EvidenceInv, CarryInv, Processed
  <2>6. CountInv'
    BY <1>16 DEF Deliver, CountInv, CarryInv, EvidenceInv, Processed, NumberInv, SeqUnique
  <2>7. OutcomeInv'
    BY <1>16 DEF Deliver, OutcomeInv
  <2>8. ConfirmedWasProcessed'
    BY <1>16 DEF Deliver, ConfirmedWasProcessed, EvidenceInv, OutcomeInv
  <2> QED
    BY <2>1, <2>2, <2>3, <2>4, <2>5, <2>6, <2>7, <2>8
<1>17. ASSUME NEW c \in Client, Shutdown(c)
      PROVE  Inv'
  <2>1. NumberInv'
    BY <1>17 DEF Shutdown, NumberInv
  <2>2. SeqUnique'
    BY <1>17 DEF Shutdown, SeqUnique, NumberInv
  <2>3. CarryInv'
    BY <1>17 DEF Shutdown, CarryInv, NumberInv
  <2>4. WaiterIsRegistered'
    BY <1>17 DEF Shutdown, WaiterIsRegistered, SeqUnique, NumberInv
  <2>5. EvidenceInv'
    BY <1>17 DEF Shutdown, EvidenceInv, CarryInv, Processed
  <2>6. CountInv'
    BY <1>17 DEF Shutdown, CountInv, CarryInv, EvidenceInv, Processed, NumberInv, SeqUnique
  <2>7. OutcomeInv'
    BY <1>17 DEF Shutdown, OutcomeInv
  <2>8. ConfirmedWasProcessed'
    BY <1>17 DEF Shutdown, ConfirmedWasProcessed, EvidenceInv, OutcomeInv
  <2> QED
    BY <2>1, <2>2, <2>3, <2>4, <2>5, <2>6, <2>7, <2>8
<1>18. ASSUME NEW r \in reqs, RefuseRequest(r)
      PROVE  Inv'
  <2>1. NumberInv'
    BY <1>18 DEF RefuseRequest, Taken, NumberInv
  <2>2. SeqUnique'
    BY <1>18 DEF RefuseRequest, Taken, SeqUnique, NumberInv
  <2>3. CarryInv'
    BY <1>18 DEF RefuseRequest, Taken, CarryInv, NumberInv
  <2>4. WaiterIsRegistered'
    BY <1>18 DEF RefuseRequest, Taken, WaiterIsRegistered, SeqUnique, NumberInv
  <2>5. EvidenceInv'
    BY <1>18 DEF RefuseRequest, Taken, EvidenceInv, CarryInv, Processed
  <2>6. CountInv'
    BY <1>18 DEF RefuseRequest, Taken, CountInv, CarryInv, EvidenceInv, Processed, NumberInv, SeqUnique
  <2>7. OutcomeInv'
    BY <1>18 DEF RefuseRequest, Taken, OutcomeInv
  <2>8. ConfirmedWasProcessed'
    BY <1>18 DEF RefuseRequest, Taken, ConfirmedWasProcessed, EvidenceInv, OutcomeInv
  <2> QED
    BY <2>1, <2>2, <2>3, <2>4, <2>5, <2>6, <2>7, <2>8
<1>19. ASSUME NEW r \in reqs, HandleRequest(r)
      PROVE  Inv'
  <2>1. NumberInv'
    BY <1>19 DEF HandleRequest, Seen, Taken, NumberInv
  <2>2. SeqUnique'
    BY <1>19 DEF HandleRequest, Seen, Taken, SeqUnique, NumberInv
  <2>3. CarryInv'
    BY <1>19 DEF HandleRequest, Seen, Taken, CarryInv, NumberInv
  <2>4. WaiterIsRegistered'
    BY <1>19 DEF HandleRequest, Seen, Taken, WaiterIsRegistered, SeqUnique, NumberInv
  <2>a. /\ Numbered(r.text)
        /\ r.from = Owner[r.text]
        /\ r.seq = seq[r.text]
        /\ r.text \in Line
    BY DEF CarryInv, Request
  <2>b. processed'[r.text] >= 1
    <3>1. CASE r.seq \in Msgs[r.from]
      <4>1. Processed(r.from, r.seq)
        BY <2>a, <3>1 DEF EvidenceInv
      <4>2. processed[r.text] >= 1
        BY <2>a, <4>1 DEF Processed, SeqUnique, NumberInv
      <4> QED
        BY <1>19, <3>1, <4>2 DEF HandleRequest, Seen, Seen
    <3>2. CASE r.seq \notin Msgs[r.from]
      BY <1>19, <2>a, <3>2 DEF HandleRequest, Seen, Seen
    <3> QED
      BY <3>1, <3>2
  <2>c. \A l \in Line : processed'[l] >= processed[l]
    BY <1>19, <2>a DEF HandleRequest, Seen, Seen
  <2>d. \A c, n : Processed(c, n) => Processed(c, n)'
    BY <1>19, <2>c DEF HandleRequest, Seen, Processed
  <2>e. Processed(r.from, r.seq)'
    BY <1>19, <2>a, <2>b DEF HandleRequest, Seen, Processed
  <2>5. EvidenceInv'
    BY <1>19, <2>c, <2>d, <2>e DEF HandleRequest, Seen, Taken, EvidenceInv
  <2>6. CountInv'
    BY <1>19, <2>a DEF HandleRequest, Seen, CountInv
  <2>7. OutcomeInv'
    BY <1>19 DEF HandleRequest, Seen, Taken, OutcomeInv
  <2>8. ConfirmedWasProcessed'
    BY <1>19 DEF HandleRequest, Seen, Taken, ConfirmedWasProcessed, EvidenceInv, OutcomeInv
  <2> QED
    BY <2>1, <2>2, <2>3, <2>4, <2>5, <2>6, <2>7, <2>8
<1>20. ASSUME NEW r \in reqs, LoseRequest(r)
      PROVE  Inv'
  <2>1. NumberInv'
    BY <1>20 DEF LoseRequest, NumberInv
  <2>2. SeqUnique'
    BY <1>20 DEF LoseRequest, SeqUnique, NumberInv
  <2>3. CarryInv'
    BY <1>20 DEF LoseRequest, CarryInv, NumberInv
  <2>4. WaiterIsRegistered'
    BY <1>20 DEF LoseRequest, WaiterIsRegistered, SeqUnique, NumberInv
  <2>5. EvidenceInv'
    BY <1>20 DEF LoseRequest, EvidenceInv, CarryInv, Processed
  <2>6. CountInv'
    BY <1>20 DEF LoseRequest, CountInv, CarryInv, EvidenceInv, Processed, NumberInv, SeqUnique
  <2>7. OutcomeInv'
    BY <1>20 DEF LoseRequest, OutcomeInv
  <2>8. ConfirmedWasProcessed'
    BY <1>20 DEF LoseRequest, ConfirmedWasProcessed, EvidenceInv, OutcomeInv
  <2> QED
    BY <2>1, <2>2, <2>3, <2>4, <2>5, <2>6, <2>7, <2>8
<1>21. ASSUME NEW a \in acks, LoseAck(a)
      PROVE  Inv'
  <2>1. NumberInv'
    BY <1>21 DEF LoseAck, NumberInv
  <2>2. SeqUnique'
    BY <1>21 DEF LoseAck, SeqUnique, NumberInv
  <2>3. CarryInv'
    BY <1>21 DEF LoseAck, CarryInv, NumberInv
  <2>4. WaiterIsRegistered'
    BY <1>21 DEF LoseAck, WaiterIsRegistered, SeqUnique, NumberInv
  <2>5. EvidenceInv'
    BY <1>21 DEF LoseAck, EvidenceInv, CarryInv, Processed
  <2>6. CountInv'
    BY <1>21 DEF LoseAck, CountInv, CarryInv, EvidenceInv, Processed, NumberInv, SeqUnique
  <2>7. OutcomeInv'
    BY <1>21 DEF LoseAck, OutcomeInv
  <2>8. ConfirmedWasProcessed'
    BY <1>21 DEF LoseAck, ConfirmedWasProcessed, EvidenceInv, OutcomeInv
  <2> QED
    BY <2>1, <2>2, <2>3, <2>4, <2>5, <2>6, <2>7, <2>8
<1>22. CASE RestartServer
  <2>1. NumberInv'
    BY <1>22 DEF RestartServer, NumberInv
  <2>2. SeqUnique'
    BY <1>22 DEF RestartServer, SeqUnique, NumberInv
  <2>3. CarryInv'
    BY <1>22 DEF RestartServer, CarryInv, NumberInv
  <2>4. WaiterIsRegistered'
    BY <1>22 DEF RestartServer, WaiterIsRegistered, SeqUnique, NumberInv
  <2>5. EvidenceInv'
    BY <1>22 DEF RestartServer, EvidenceInv, CarryInv, Processed
  <2>6. CountInv'
    BY <1>22 DEF RestartServer, CountInv, CarryInv, EvidenceInv, Processed, NumberInv, SeqUnique
  <2>7. OutcomeInv'
    BY <1>22 DEF RestartServer, OutcomeInv
  <2>8. ConfirmedWasProcessed'
    BY <1>22 DEF RestartServer, ConfirmedWasProcessed, EvidenceInv, OutcomeInv
  <2> QED
    BY <2>1, <2>2, <2>3, <2>4, <2>5, <2>6, <2>7, <2>8
<1>23. CASE UNCHANGED vars
  <2>1. NumberInv'
    BY <1>23 DEF vars, NumberInv
  <2>2. SeqUnique'
    BY <1>23 DEF vars, SeqUnique, NumberInv
  <2>3. CarryInv'
    BY <1>23 DEF vars, CarryInv, NumberInv
  <2>4. WaiterIsRegistered'
    BY <1>23 DEF vars, WaiterIsRegistered, SeqUnique, NumberInv
  <2>5. EvidenceInv'
    BY <1>23 DEF vars, EvidenceInv, CarryInv, Processed
  <2>6. CountInv'
    BY <1>23 DEF vars, CountInv, CarryInv, EvidenceInv, Processed, NumberInv, SeqUnique
  <2>7. OutcomeInv'
    BY <1>23 DEF vars, OutcomeInv
  <2>8. ConfirmedWasProcessed'
    BY <1>23 DEF vars, ConfirmedWasProcessed, EvidenceInv, OutcomeInv
  <2> QED
    BY <2>1, <2>2, <2>3, <2>4, <2>5, <2>6, <2>7, <2>8
<1> QED
  BY <1>1, <1>2, <1>3, <1>4, <1>5, <1>6, <1>7, <1>8, <1>9, <1>10, <1>11, <1>12, <1>13, <1>14, <1>15, <1>16, <1>17, <1>18, <1>19, <1>20, <1>21, <1>22, <1>23
  DEF Next, SendReliable, ReadLoop, ServerRead

(* While NextSeq calls do not overlap: numbers are unique, what travels    *)
(* carries the number of its line, and every piece of evidence that a line *)
(* arrived is true.                                                        *)
THEOREM InvHolds == ASSUME ~OverlappingNextSeq PROVE Spec => []Inv
<1>1. Init => Inv
  BY InvInit
<1>2. Inv /\ [Next]_vars => Inv'
  BY InvStep
<1> QED
  BY <1>1, <1>2, PTL DEF Spec

(* A nil result of SendReliable is true: the server has processed the      *)
(* caller's own line (ConfirmedWasProcessed, over any number of restarts). *)
THEOREM ConfirmedTheorem ==
  ASSUME ~OverlappingNextSeq PROVE Spec => []ConfirmedWasProcessed
<1>1. Inv => ConfirmedWasProcessed
  BY DEF Inv
<1> QED
  BY <1>1, InvHolds, PTL

(* Deduplication: one run of the server processes a line at most once,     *)
(* whatever is retransmitted or duplicated (AtMostOncePerServerRun).       *)
THEOREM AtMostOnceTheorem ==
  ASSUME ~OverlappingNextSeq PROVE Spec => []AtMostOncePerServerRun
<1>1. Inv => AtMostOncePerServerRun
  BY DEF Inv, TypeOK, CountInv, AtMostOncePerServerRun
<1> QED
  BY <1>1, InvHolds, PTL

(* readLoop finds every goroutine that waits for an ACK.                   *)
THEOREM WaiterTheorem ==
  ASSUME ~OverlappingNextSeq PROVE Spec => []WaiterIsRegistered
<1>1. Inv => WaiterIsRegistered
  BY DEF Inv
<1> QED
  BY <1>1, InvHolds, PTL

-----------------------------------------------------------------------------
(* The refinement.                                                         *)

LEMMA PromiseInit == Init => Promise!Init
BY DEF Init, Promise!Init, StatusOf, Remembered, Numbered

(* What the server remembers of a line depends on the line's number and on *)
(* Msgs, once NextSeq has returned.                                        *)
LEMMA RememberedKept ==
  ASSUME UNCHANGED <<seq, Msgs>>, \A m \in Line : Numbered(m)' = Numbered(m)
  PROVE  Remembered' = Remembered
BY DEF Remembered

(* A number that NextSeq has just handed out is not in Msgs: every number  *)
(* there belongs to a line that had one before.                            *)
LEMMA FreshNumber ==
  ASSUME Inv, Inv', NEW l \in Line, NextSeqReturn(l)
  PROVE  Remembered' = Remembered
<1> USE DEF Inv, TypeOK, serverVars
<1>1. ~Numbered(l) /\ Numbered(l)'
  BY DEF NextSeqReturn, Numbered, InNextSeq
<1>2. \A m \in Line : m # l => Numbered(m)' = Numbered(m) /\ seq'[m] = seq[m]
  BY DEF NextSeqReturn, Numbered
<1>3. UNCHANGED Msgs
  BY DEF NextSeqReturn
<1>4. seq'[l] \notin Msgs[Owner[l]]
  <2> SUFFICES ASSUME seq'[l] \in Msgs[Owner[l]] PROVE FALSE
    OBVIOUS
  <2>1. Processed(Owner[l], seq'[l])
    BY ReliableUdpAssumption DEF EvidenceInv
  <2>2. PICK m \in Line : Owner[m] = Owner[l] /\ Numbered(m) /\ seq[m] = seq'[l]
    BY <2>1 DEF Processed
  <2>3. m # l
    BY <1>1, <2>2
  <2>4. seq'[m] = seq'[l] /\ seq'[l] # 0
    BY <1>1, <1>2, <2>2, <2>3 DEF NumberInv
  <2> QED
    BY <2>2, <2>3, <2>4 DEF SeqUnique
<1> QED
  BY <1>1, <1>2, <1>3, <1>4 DEF Remembered

LEMMA PromiseStep ==
  ASSUME ~OverlappingNextSeq, Inv, Inv', [Next]_vars
  PROVE  [Promise!Next]_Promise!vars
<1> USE DEF Inv, TypeOK, clientVars, serverVars, Promise!vars
<1> DEFINE status == [l \in Line |-> StatusOf(l)]
<1>1. ASSUME NEW l \in Line, SpawnSend(l)
      PROVE  [Promise!Next]_Promise!vars
  <2>0. Remembered' = Remembered
    BY <1>1, RememberedKept DEF SpawnSend, Numbered, InNextSeq
  <2>1. \A m \in Line : StatusOf(m)' = StatusOf(m)
    BY <1>1 DEF SpawnSend, StatusOf, OutcomeInv
  <2> QED
    BY <1>1, <2>0, <2>1 DEF SpawnSend
<1>2. ASSUME NEW l \in Line, NextSeqLoad(l)
      PROVE  [Promise!Next]_Promise!vars
  <2>0. Remembered' = Remembered
    BY <1>2, RememberedKept DEF NextSeqLoad, Numbered, InNextSeq
  <2>1. \A m \in Line : StatusOf(m)' = StatusOf(m)
    BY <1>2 DEF NextSeqLoad, StatusOf, OutcomeInv
  <2> QED
    BY <1>2, <2>0, <2>1 DEF NextSeqLoad
<1>3. ASSUME NEW l \in Line, NextSeqStore(l)
      PROVE  [Promise!Next]_Promise!vars
  <2>0. Remembered' = Remembered
    BY <1>3, RememberedKept DEF NextSeqStore, Numbered, InNextSeq
  <2>1. \A m \in Line : StatusOf(m)' = StatusOf(m)
    BY <1>3 DEF NextSeqStore, StatusOf, OutcomeInv
  <2> QED
    BY <1>3, <2>0, <2>1 DEF NextSeqStore
<1>4. ASSUME NEW l \in Line, NextSeqReturn(l)
      PROVE  [Promise!Next]_Promise!vars
  <2>0. Remembered' = Remembered
    BY <1>4, FreshNumber
  <2>1. \A m \in Line : StatusOf(m)' = StatusOf(m)
    BY <1>4 DEF NextSeqReturn, StatusOf, OutcomeInv
  <2> QED
    BY <1>4, <2>0, <2>1 DEF NextSeqReturn
<1>5. ASSUME NEW l \in Line, Register(l)
      PROVE  [Promise!Next]_Promise!vars
  <2>0. Remembered' = Remembered
    BY <1>5, RememberedKept DEF Register, Numbered, InNextSeq
  <2>1. \A m \in Line : m # l => StatusOf(m)' = StatusOf(m)
    BY <1>5 DEF Register, StatusOf
  <2>2. StatusOf(l) = "unsent" /\ StatusOf(l)' = "sending"
    BY <1>5 DEF Register, StatusOf, OutcomeInv
  <2>3. status' = [status EXCEPT ![l] = "sending"]
    BY <2>1, <2>2
  <2>4. status[l] = "unsent"
    BY <2>2
  <2>5. Promise!Send(l)
    BY <1>5, <2>0, <2>3, <2>4 DEF Register, Promise!Send
  <2> QED
    BY <2>5 DEF Promise!Next
<1>6. ASSUME NEW l \in Line, Write(l)
      PROVE  [Promise!Next]_Promise!vars
  <2>0. Remembered' = Remembered
    BY <1>6, RememberedKept DEF Write, MayWrite, Numbered, InNextSeq
  <2>1. \A m \in Line : StatusOf(m)' = StatusOf(m)
    BY <1>6 DEF Write, MayWrite, StatusOf, OutcomeInv
  <2> QED
    BY <1>6, <2>0, <2>1 DEF Write, MayWrite
<1>7. ASSUME NEW l \in Line, WriteError(l)
      PROVE  [Promise!Next]_Promise!vars
  <2>0. Remembered' = Remembered
    BY <1>7, RememberedKept DEF WriteError, MayWrite, Leave, Numbered, InNextSeq
  <2>1. \A m \in Line : m # l => StatusOf(m)' = StatusOf(m)
    BY <1>7 DEF WriteError, MayWrite, Leave, StatusOf
  <2>2. StatusOf(l) = "sending" /\ StatusOf(l)' = "failed"
    BY <1>7 DEF WriteError, MayWrite, Leave, StatusOf, OutcomeInv
  <2>3. status' = [status EXCEPT ![l] = "failed"]
    BY <2>1, <2>2
  <2>4. status[l] = "sending"
    BY <2>2
  <2>5. Promise!Fail(l)
    BY <1>7, <2>0, <2>3, <2>4 DEF WriteError, MayWrite, Leave, Promise!Fail
  <2> QED
    BY <2>5 DEF Promise!Next
<1>8. ASSUME NEW l \in Line, GiveUp(l)
      PROVE  [Promise!Next]_Promise!vars
  <2>0. Remembered' = Remembered
    BY <1>8, RememberedKept DEF GiveUp, MayWrite, Leave, Numbered, InNextSeq
  <2>1. \A m \in Line : m # l => StatusOf(m)' = StatusOf(m)
    BY <1>8 DEF GiveUp, MayWrite, Leave, StatusOf
  <2>2. StatusOf(l) = "sending" /\ StatusOf(l)' = "failed"
    BY <1>8 DEF GiveUp, MayWrite, Leave, StatusOf, OutcomeInv
  <2>3. status' = [status EXCEPT ![l] = "failed"]
    BY <2>1, <2>2
  <2>4. status[l] = "sending"
    BY <2>2
  <2>5. Promise!Fail(l)
    BY <1>8, <2>0, <2>3, <2>4 DEF GiveUp, MayWrite, Leave, Promise!Fail
  <2> QED
    BY <2>5 DEF Promise!Next
<1>9. ASSUME NEW l \in Line, GetReply(l)
      PROVE  [Promise!Next]_Promise!vars
  <2>0. Remembered' = Remembered
    BY <1>9, RememberedKept DEF GetReply, Leave, Numbered, InNextSeq
  <2>1. \A m \in Line : m # l => StatusOf(m)' = StatusOf(m)
    BY <1>9 DEF GetReply, Leave, StatusOf
  <2>2. StatusOf(l) = "sending" /\ StatusOf(l)' = "confirmed"
    BY <1>9 DEF GetReply, Leave, StatusOf, OutcomeInv
  <2>3. status' = [status EXCEPT ![l] = "confirmed"]
    BY <2>1, <2>2
  <2>4. status[l] = "sending"
    BY <2>2
  <2>a. processed[l] >= 1
    BY <1>9 DEF GetReply, EvidenceInv
  <2>5. Promise!Confirm(l)
    BY <1>9, <2>0, <2>3, <2>4, <2>a DEF GetReply, Leave, Promise!Confirm
  <2> QED
    BY <2>5 DEF Promise!Next
<1>10. ASSUME NEW l \in Line, Timeout(l)
      PROVE  [Promise!Next]_Promise!vars
  <2>0. Remembered' = Remembered
    BY <1>10, RememberedKept DEF Timeout, Numbered, InNextSeq
  <2>1. \A m \in Line : StatusOf(m)' = StatusOf(m)
    BY <1>10 DEF Timeout, StatusOf, OutcomeInv
  <2> QED
    BY <1>10, <2>0, <2>1 DEF Timeout
<1>11. ASSUME NEW l \in Line, SeeCancel(l)
      PROVE  [Promise!Next]_Promise!vars
  <2>0. Remembered' = Remembered
    BY <1>11, RememberedKept DEF SeeCancel, Leave, Numbered, InNextSeq
  <2>1. \A m \in Line : m # l => StatusOf(m)' = StatusOf(m)
    BY <1>11 DEF SeeCancel, Leave, StatusOf
  <2>2. StatusOf(l) = "sending" /\ StatusOf(l)' = "failed"
    BY <1>11 DEF SeeCancel, Leave, StatusOf, OutcomeInv
  <2>3. status' = [status EXCEPT ![l] = "failed"]
    BY <2>1, <2>2
  <2>4. status[l] = "sending"
    BY <2>2
  <2>5. Promise!Fail(l)
    BY <1>11, <2>0, <2>3, <2>4 DEF SeeCancel, Leave, Promise!Fail
  <2> QED
    BY <2>5 DEF Promise!Next
<1>12. ASSUME NEW l \in Line, Cleanup(l)
      PROVE  [Promise!Next]_Promise!vars
  <2>0. Remembered' = Remembered
    BY <1>12, RememberedKept DEF Cleanup, Numbered, InNextSeq
  <2>1. \A m \in Line : StatusOf(m)' = StatusOf(m)
    BY <1>12 DEF Cleanup, StatusOf, OutcomeInv
  <2> QED
    BY <1>12, <2>0, <2>1 DEF Cleanup
<1>13. ASSUME NEW r \in reqs, HandleRequest(r)
      PROVE  [Promise!Next]_Promise!vars
  <2>0. r.text \in Line /\ r.from = Owner[r.text] /\ r.seq = seq[r.text] /\ Numbered(r.text)
    BY DEF CarryInv, Request
  <2>1. \A m \in Line : StatusOf(m)' = StatusOf(m)
    BY <1>13 DEF HandleRequest, Seen, StatusOf
  <2>2. \A m \in Line : Numbered(m)' = Numbered(m) /\ seq'[m] = seq[m]
    BY <1>13 DEF HandleRequest, Numbered
  <2>3. CASE r.seq \in Msgs[r.from]
    <3>1. Msgs' = Msgs
      BY <1>13, <2>0, <2>3, ReliableUdpAssumption DEF HandleRequest
    <3>2. Remembered' = Remembered
      BY <2>2, <3>1 DEF Remembered
    <3> QED
      BY <1>13, <2>1, <2>3, <3>2 DEF HandleRequest, Seen
  <2>4. CASE r.seq \notin Msgs[r.from]
    <3>1. r.text \notin Remembered
      BY <2>0, <2>4 DEF Remembered
    <3>2. status[r.text] # "unsent"
      BY <2>0 DEF CarryInv, StatusOf, Numbered, InNextSeq
    <3>3. processed' = [processed EXCEPT ![r.text] = @ + 1]
      BY <1>13, <2>4 DEF HandleRequest, Seen
    <3>4. status' = status
      BY <2>1
    <3>5. Remembered' = Remembered \cup {r.text}
      <4>1. Msgs' = [Msgs EXCEPT ![Owner[r.text]] = @ \cup {seq[r.text]}]
        BY <1>13, <2>0 DEF HandleRequest
      <4>2. ASSUME NEW m \in Line
            PROVE  (m \in Remembered)' <=> m \in Remembered \/ m = r.text
        <5>1. CASE Owner[m] = Owner[r.text] /\ seq[m] = seq[r.text] /\ Numbered(m)
          <6>1. m = r.text
            BY <2>0, <5>1 DEF SeqUnique, NumberInv
          <6> QED
            BY <2>0, <2>2, <4>1, <6>1, ReliableUdpAssumption DEF Remembered
        <5>2. CASE ~(Owner[m] = Owner[r.text] /\ seq[m] = seq[r.text] /\ Numbered(m))
          <6>1. m # r.text
            BY <2>0, <5>2
          <6> QED
            BY <2>0, <2>2, <4>1, <5>2, <6>1, ReliableUdpAssumption DEF Remembered
        <5> QED
          BY <5>1, <5>2
      <4> QED
        BY <2>0, <4>2 DEF Remembered
    <3>6. Promise!Deliver(r.text)
      BY <3>1, <3>2, <3>3, <3>4, <3>5 DEF Promise!Deliver
    <3> QED
      BY <2>0, <3>6 DEF Promise!Next
  <2> QED
    BY <2>3, <2>4
<1>14. CASE UNCHANGED <<pc, seq, result, processed, Msgs>>
  <2>1. Remembered' = Remembered
    BY <1>14, RememberedKept DEF Numbered
  <2> QED
    BY <1>14, <2>1 DEF StatusOf
<1>15. ASSUME NEW c \in Client, ReadLoop(c) \/ Shutdown(c)
      PROVE  UNCHANGED <<pc, seq, result, processed, Msgs>>
  BY <1>15 DEF ReadLoop, ReadCheck, ReadAck, ReadError, Deliver, Shutdown
<1>16. ASSUME NEW r \in reqs, RefuseRequest(r) \/ LoseRequest(r)
      PROVE  UNCHANGED <<pc, seq, result, processed, Msgs>>
  BY <1>16 DEF RefuseRequest, LoseRequest
<1>17. ASSUME NEW a \in acks, LoseAck(a)
      PROVE  UNCHANGED <<pc, seq, result, processed, Msgs>>
  BY <1>17 DEF LoseAck
<1>18. ASSUME RestartServer
      PROVE  [Promise!Next]_Promise!vars
  <2>1. status' = status /\ UNCHANGED processed
    BY <1>18 DEF RestartServer, StatusOf
  <2>2. Remembered' = {}
    BY <1>18, ReliableUdpAssumption DEF RestartServer, Remembered
  <2>3. Promise!Restart
    BY <2>1, <2>2 DEF Promise!Restart
  <2> QED
    BY <2>3 DEF Promise!Next
<1>19. CASE UNCHANGED vars
  BY <1>14, <1>19 DEF vars
<1> QED
  BY <1>1, <1>2, <1>3, <1>4, <1>5, <1>6, <1>7, <1>8, <1>9, <1>10, <1>11, <1>12, <1>13, <1>14, <1>15, <1>16, <1>17, <1>18, <1>19
  DEF Next, SendReliable, ServerRead

(* The protocol implements ReliableDelivery, whatever the network does and *)
(* however often the server is restarted, as long as NextSeq calls do not  *)
(* overlap.                                                                *)
THEOREM Refinement ==
  ASSUME ~OverlappingNextSeq PROVE Spec => ImplementsPromise
<1>1. Init => Promise!Init
  BY PromiseInit
<1>2. Inv /\ Inv' /\ [Next]_vars => [Promise!Next]_Promise!vars
  BY PromiseStep
<1> QED
  BY <1>1, <1>2, InvHolds, PTL DEF Spec, Promise!Spec, ImplementsPromise

=============================================================================
