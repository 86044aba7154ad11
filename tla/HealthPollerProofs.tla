-------------------------- MODULE HealthPollerProofs --------------------------
(***************************************************************************)
(* Theorems about HealthPoller for any endpoints, thresholds, timeouts and *)
(* channel capacity.                                                       *)
(***************************************************************************)
EXTENDS HealthPoller, WellFoundedInduction, TLAPS

USE HealthPollerAssumption DEF Status, Unknown, pollVars, aggVars, history

-----------------------------------------------------------------------------
(* Types.                                                                  *)

\* The status a check returns is one that can be stored.
LEMMA CheckedType ==
  ASSUME TypeOK, NEW e \in Endpoint, NEW healthy \in BOOLEAN
  PROVE  Checked(e, healthy) \in Status
<1>1. statuses[e].fails \in 0..MaxFails
  BY DEF TypeOK
<1>2. CountUp(statuses[e].fails) \in 0..MaxFails
  BY <1>1 DEF CountUp
<1> QED
  BY <1>2 DEF Checked

\* What the aggregator receives is an endpoint with a status of it.
LEMMA HeadType ==
  ASSUME TypeOK, results # <<>>
  PROVE  /\ Head(results)[1] \in Endpoint
         /\ Head(results)[2] \in Status
         /\ Tail(results) \in Seq(Endpoint \X Status)
         /\ Len(Tail(results)) <= ResultsCap
<1>1. Head(results) \in Endpoint \X Status
  BY DEF TypeOK
<1>2. Len(results) \in Nat /\ Len(Tail(results)) = Len(results) - 1
  BY DEF TypeOK
<1> QED
  BY <1>1, <1>2 DEF TypeOK

LEMMA TypeInit == Init => TypeOK
<1> SUFFICES ASSUME Init PROVE TypeOK
  OBVIOUS
<1>1. results \in Seq(Endpoint \X Status) /\ Len(results) <= ResultsCap
  BY DEF Init
<1>2. Unknown \in Status
  OBVIOUS
<1>3. statuses \in [Endpoint -> Status] /\ status \in [Endpoint -> Status]
  BY <1>2 DEF Init
<1>4. currentStatus \in [Endpoint -> Status]
  BY <1>2 DEF Init
<1>5. inARow \in [Endpoint -> (0..MaxFails) \cup {Lagged}]
  BY DEF Init
<1>6. sinceOpened \in [Endpoint -> 0..RecoveryTimeout]
  BY DEF Init
<1> QED
  BY <1>1, <1>3, <1>4, <1>5, <1>6 DEF Init, TypeOK

LEMMA TypeStep == TypeOK /\ [Next]_vars => TypeOK'
<1> SUFFICES ASSUME TypeOK, [Next]_vars
             PROVE  TypeOK'
  OBVIOUS
<1>1. CASE TimePasses
  BY <1>1 DEF TimePasses, TypeOK
<1>2. ASSUME NEW e \in Endpoint, Tick(e)
      PROVE  TypeOK'
  BY <1>2 DEF Tick, TypeOK, Lagged
<1>3. ASSUME NEW e \in Endpoint, NEW healthy \in BOOLEAN, checkEndpoint(e, healthy)
      PROVE  TypeOK'
  <2>1. status' \in [Endpoint -> Status]
    BY <1>3, CheckedType DEF checkEndpoint, TypeOK
  <2>2. sinceOpened' \in [Endpoint -> 0..RecoveryTimeout]
    BY <1>3 DEF checkEndpoint, TypeOK
  <2>3. inARow' \in [Endpoint -> (0..MaxFails) \cup {Lagged}]
    BY <1>3 DEF checkEndpoint, TypeOK, CountUp, Lagged
  <2>4. currentStatus' \in [Endpoint -> Status]
    BY <1>3 DEF checkEndpoint, TypeOK
  <2> QED
    BY <1>3, <2>1, <2>2, <2>3, <2>4 DEF checkEndpoint, TypeOK
<1>4. ASSUME NEW e \in Endpoint, SendResult(e)
      PROVE  TypeOK'
  <2>1. results' \in Seq(Endpoint \X Status) /\ Len(results') = Len(results) + 1
    BY <1>4 DEF SendResult, TypeOK
  <2>2. Len(results') <= ResultsCap
    BY <1>4, <2>1 DEF SendResult, Room, TypeOK
  <2> QED
    BY <1>4, <2>1, <2>2 DEF SendResult, TypeOK
<1>5. ASSUME NEW e \in Endpoint, PollCancelled(e)
      PROVE  TypeOK'
  BY <1>5 DEF PollCancelled, TypeOK
<1>6. CASE Store
  <2>1. results' \in Seq(Endpoint \X Status) /\ Len(results') <= ResultsCap
    BY <1>6, HeadType DEF Store
  <2>2. statuses' \in [Endpoint -> Status]
    BY <1>6, HeadType DEF Store, TypeOK
  <2>3. Head(results)[2].healthy \in BOOLEAN
    BY <1>6, HeadType DEF Store
  <2>4. \/ aggPc' = "notify" /\ changed' = <<Head(results)[1], Head(results)[2].healthy>>
        \/ aggPc' = aggPc /\ changed' = changed
    BY <1>6 DEF Store
  <2>5. changed' \in (Endpoint \X BOOLEAN) \cup {NoChange}
    <3>1. <<Head(results)[1], Head(results)[2].healthy>> \in Endpoint \X BOOLEAN
      BY <1>6, <2>3, HeadType DEF Store
    <3> QED
      BY <2>4, <3>1 DEF TypeOK
  <2>6. aggPc' \in {"select", "notify", "done"}
    BY <2>4 DEF TypeOK
  <2>7. aggPc' = "notify" <=> changed' # NoChange
    <3>1. <<Head(results)[1], Head(results)[2].healthy>> # NoChange
      BY DEF NoChange
    <3> QED
      BY <2>4, <3>1 DEF TypeOK
  <2>8. UNCHANGED <<closed, pollVars, stopPc, history>>
    BY <1>6 DEF Store
  <2> QED
    BY <2>1, <2>2, <2>5, <2>6, <2>7, <2>8 DEF TypeOK
<1>7. CASE Notify
  <2>1. notified' \in [Endpoint -> BOOLEAN]
    <3>1. changed \in Endpoint \X BOOLEAN
      BY <1>7 DEF Notify, TypeOK
    <3> QED
      BY <1>7, <3>1 DEF Notify, TypeOK
  <2> QED
    BY <1>7, <2>1 DEF Notify, TypeOK
<1>8. CASE AggregateCancelled \/ Cancel \/ CloseResults
  BY <1>8 DEF AggregateCancelled, Cancel, CloseResults, TypeOK
<1>9. CASE UNCHANGED vars
  BY <1>9 DEF vars, TypeOK
<1> QED
  BY <1>1, <1>2, <1>3, <1>4, <1>5, <1>6, <1>7, <1>8, <1>9
  DEF Next, pollEndpoint, aggregateResults

(* Every variable keeps its type: the result channel never holds more than *)
(* it was made for (TypeOK).                                               *)
THEOREM TypeCorrect == Spec => []TypeOK
<1>1. Init => TypeOK
  BY TypeInit
<1>2. TypeOK /\ [Next]_vars => TypeOK'
  BY TypeStep
<1> QED
  BY <1>1, <1>2, PTL DEF Spec

-----------------------------------------------------------------------------
(* The callback.                                                           *)

\* Between a change of a status and its announcement, changed is the
\* difference between what is stored and what was announced; at any other
\* time there is none.
NoticeInv ==
    /\ TypeOK
    /\ aggPc # "notify" =>
          \A e \in Endpoint : notified[e] = statuses[e].healthy
    /\ aggPc = "notify" =>
          /\ statuses[changed[1]].healthy = changed[2]
          /\ \A e \in Endpoint :
                e # changed[1] => notified[e] = statuses[e].healthy

LEMMA NoticeInit == Init => NoticeInv
<1> SUFFICES ASSUME Init PROVE NoticeInv
  OBVIOUS
<1>1. \A e \in Endpoint : notified[e] = statuses[e].healthy
  BY DEF Init
<1> QED
  BY <1>1, TypeInit DEF Init, NoticeInv

LEMMA NoticeStep == NoticeInv /\ [Next]_vars => NoticeInv'
<1> SUFFICES ASSUME NoticeInv, [Next]_vars
             PROVE  NoticeInv'
  OBVIOUS
<1>1. TypeOK /\ TypeOK'
  BY TypeStep DEF NoticeInv
<1>2. CASE Store
  <2> DEFINE e == Head(results)[1]
             new == Head(results)[2]
  <2>1. e \in Endpoint /\ new \in Status
    BY <1>1, <1>2, HeadType DEF Store
  <2>2. statuses' = [statuses EXCEPT ![e] = new] /\ statuses' \in [Endpoint -> Status]
    BY <1>1, <1>2 DEF Store, TypeOK
  <2>3. \A f \in Endpoint : notified'[f] = statuses[f].healthy
    BY <1>2 DEF Store, NoticeInv
  <2>4. CASE IsNews(statuses[e], new)
    <3>1. aggPc' = "notify" /\ changed' = <<e, new.healthy>>
      BY <1>2, <2>4 DEF Store
    <3>2. statuses'[e].healthy = new.healthy
      BY <1>1, <2>1, <2>2 DEF TypeOK
    <3>3. \A f \in Endpoint : f # e => statuses'[f] = statuses[f]
      BY <1>1, <2>1, <2>2 DEF TypeOK
    <3> QED
      BY <1>1, <2>3, <3>1, <3>2, <3>3 DEF NoticeInv
  <2>5. CASE ~IsNews(statuses[e], new)
    <3>1. aggPc' = "select"
      BY <1>2, <2>5 DEF Store
    <3>2. \A f \in Endpoint : statuses'[f].healthy = statuses[f].healthy
      BY <1>1, <2>1, <2>2, <2>5 DEF IsNews, TypeOK
    <3> QED
      BY <1>1, <2>3, <3>1, <3>2 DEF NoticeInv
  <2> QED
    BY <2>4, <2>5
<1>3. CASE Notify
  <2>1. changed[1] \in Endpoint
    BY <1>1, <1>3 DEF Notify, TypeOK
  <2>2. \A e \in Endpoint : notified'[e] = statuses'[e].healthy
    BY <1>1, <1>3, <2>1 DEF Notify, NoticeInv, TypeOK
  <2> QED
    BY <1>1, <1>3, <2>2 DEF Notify, NoticeInv
<1>4. CASE UNCHANGED <<statuses, notified, aggVars>>
  BY <1>1, <1>4 DEF NoticeInv
<1>5. CASE AggregateCancelled
  BY <1>1, <1>5 DEF AggregateCancelled, NoticeInv
<1>6. CASE TimePasses \/ Cancel \/ CloseResults \/ UNCHANGED vars
  BY <1>4, <1>6 DEF TimePasses, Cancel, CloseResults, vars
<1>7. ASSUME NEW e \in Endpoint, pollEndpoint(e)
      PROVE  UNCHANGED <<statuses, notified, aggVars>>
  BY <1>7 DEF pollEndpoint, Tick, checkEndpoint, SendResult, PollCancelled
<1> QED
  BY <1>2, <1>3, <1>4, <1>5, <1>6, <1>7 DEF Next, aggregateResults

(* A caller that keeps what onStatusChange told it last knows what         *)
(* GetStatus says, but for the change that is being announced              *)
(* (CallbackTellsStatus).                                                  *)
THEOREM CallbackTheorem == Spec => []CallbackTellsStatus
<1>1. Init => NoticeInv
  BY NoticeInit
<1>2. NoticeInv /\ [Next]_vars => NoticeInv'
  BY NoticeStep
<1>3. NoticeInv => CallbackTellsStatus
  <2> SUFFICES ASSUME NoticeInv, NEW e \in Endpoint, notified[e] # statuses[e].healthy
               PROVE  changed = <<e, statuses[e].healthy>>
    BY DEF CallbackTellsStatus
  <2>1. aggPc = "notify" /\ changed[1] = e
    BY DEF NoticeInv
  <2>2. changed \in Endpoint \X BOOLEAN
    BY <2>1 DEF NoticeInv, TypeOK
  <2>3. changed[2] = statuses[e].healthy
    BY <2>1 DEF NoticeInv
  <2> QED
    BY <2>1, <2>2, <2>3
<1> QED
  BY <1>1, <1>2, <1>3, PTL DEF Spec

-----------------------------------------------------------------------------
(* The channel is closed last: Stop waits for everyone who uses it.        *)

LEMMA ClosedStep == TypeOK /\ ClosedAtRest /\ [Next]_vars => ClosedAtRest'
<1> SUFFICES ASSUME TypeOK, ClosedAtRest, [Next]_vars
             PROVE  ClosedAtRest'
  OBVIOUS
<1>1. CASE CloseResults
  BY <1>1 DEF CloseResults, AllDone, ClosedAtRest
<1>2. ASSUME NEW e \in Endpoint, pollEndpoint(e)
      PROVE  ClosedAtRest'
  <2>1. pc[e] # "done" /\ UNCHANGED <<closed, aggPc>>
    BY <1>2 DEF pollEndpoint, Tick, checkEndpoint, SendResult, PollCancelled
  <2>2. ~closed
    BY <2>1 DEF ClosedAtRest
  <2> QED
    BY <2>1, <2>2 DEF ClosedAtRest
<1>3. CASE aggregateResults
  <2>1. aggPc # "done" /\ UNCHANGED closed
    BY <1>3 DEF aggregateResults, Store, Notify, AggregateCancelled
  <2> QED
    BY <2>1 DEF ClosedAtRest
<1>4. CASE TimePasses \/ Cancel \/ UNCHANGED vars
  BY <1>4 DEF TimePasses, Cancel, vars, ClosedAtRest
<1> QED
  BY <1>1, <1>2, <1>3, <1>4 DEF Next

(* When results is closed the pollers and the aggregator have returned, so *)
(* nobody sends on it or reads from it any more (ClosedAtRest).            *)
THEOREM ClosedTheorem == Spec => []ClosedAtRest
<1>1. Init => ClosedAtRest
  BY DEF Init, ClosedAtRest
<1> QED
  BY <1>1, ClosedStep, TypeCorrect, PTL DEF Spec

-----------------------------------------------------------------------------
(* The breaker.                                                            *)

\* i is where e's newest result in the channel is.
Latest(e, i) == i \in InFlight(e) /\ \A j \in InFlight(e) : j <= i

\* The status s is what the checks of e counted in a row call for.
Counts(e, s) == s.fails = inARow[e] /\ (s.open <=> inARow[e] >= FailureThreshold)

\* While the aggregator keeps up with e, a check under way has no result of e
\* before it in the channel, so that it counts on from what the newest result
\* said; and the newest result, wherever it is, counts right.
KeptUp(e) ==
    /\ pc[e] = "send" => Counts(e, status[e])
    /\ pc[e] \in {"select", "check"} =>
          /\ InFlight(e) = {} => Counts(e, statuses[e])
          /\ \A i \in InFlight(e) : Latest(e, i) => Counts(e, results[i][2])
    /\ pc[e] = "check" =>
          /\ InFlight(e) = {}
          /\ statuses[e].open => sinceOpened[e] = RecoveryTimeout

BreakerInv == \A e \in Endpoint : inARow[e] # Lagged => KeptUp(e)

\* In a set of places there is a last one, and Max is it.
LEMMA MaxIsLatest ==
  ASSUME TypeOK, NEW e \in Endpoint, InFlight(e) # {}
  PROVE  Latest(e, Max(InFlight(e)))
<1> DEFINE I == InFlight(e)
           D == {Len(results) - i : i \in I}
<1>1. PICK n \in Nat : n = Len(results)
  BY DEF TypeOK
<1>2. \A i \in I : i \in 1..n
  BY <1>1 DEF InFlight, TypeOK
<1>3. D \subseteq Nat /\ D # {}
  BY <1>1, <1>2
<1>4. PICK d \in D : \A y \in D : ~ (<<y, d>> \in OpToRel(<, Nat))
  BY <1>3, NatLessThanWellFounded, WFMin
<1>5. PICK x \in I : d = n - x
  BY <1>1
<1>6. ASSUME NEW y \in I PROVE y <= x
  <2>1. n - y \in D /\ n - y \in Nat /\ d \in Nat
    BY <1>1, <1>3
  <2>2. <<n - y, d>> \in Nat \X Nat /\ <<n - y, d>> \notin OpToRel(<, Nat)
    BY <1>4, <2>1
  <2>3. <<n - y, d>>[1] = n - y /\ <<n - y, d>>[2] = d
    OBVIOUS
  <2>4. ~ (n - y < d)
    BY <2>2, <2>3 DEF OpToRel
  <2>5. x \in Nat /\ y \in Nat
    BY <1>2
  <2> HIDE DEF I, D
  <2> QED
    BY <1>5, <2>4, <2>5
<1> HIDE DEF I, D
<1>7. \E m \in I : \A y \in I : m >= y
  BY <1>2, <1>6
<1>8. Max(I) \in I /\ \A y \in I : Max(I) >= y
  BY <1>7 DEF Max
<1>9. \A y \in I : y <= Max(I)
  BY <1>2, <1>8
<1> QED
  BY <1>8, <1>9 DEF Latest, I

\* What happens to e's places in the channel when nobody else's do.
LEMMA KeptUpSame ==
  ASSUME NEW e \in Endpoint, KeptUp(e),
         UNCHANGED results,
         pc'[e] = pc[e] \/ pc'[e] = "done",
         statuses'[e] = statuses[e], status'[e] = status[e],
         inARow'[e] = inARow[e],
         sinceOpened[e] = RecoveryTimeout => sinceOpened'[e] = RecoveryTimeout
  PROVE  KeptUp(e)'
<1>1. InFlight(e)' = InFlight(e)
  BY DEF InFlight
<1>2. \A i : Latest(e, i)' <=> Latest(e, i)
  BY <1>1 DEF Latest
<1>3. \A s : Counts(e, s)' <=> Counts(e, s)
  BY DEF Counts
<1> QED
  BY <1>1, <1>2, <1>3 DEF KeptUp

\* A send puts the result last, and leaves the others where they are.
LEMMA InFlightSend ==
  ASSUME TypeOK, NEW e \in Endpoint, SendResult(e)
  PROVE  /\ InFlight(e)' = InFlight(e) \cup {Len(results) + 1}
         /\ results'[Len(results) + 1] = <<e, status[e]>>
         /\ \A i \in InFlight(e)' : Latest(e, i)' => i = Len(results) + 1
         /\ \A f \in Endpoint : f # e => InFlight(f)' = InFlight(f)
         /\ \A f \in Endpoint : \A i \in InFlight(f) : results'[i] = results[i]
<1>2. results \in Seq(Endpoint \X Status) /\ <<e, status[e]>> \in Endpoint \X Status
  <2>1. results \in Seq(Endpoint \X Status) /\ status[e] \in Status
    BY DEF TypeOK
  <2> QED
    BY <2>1
<1>1. PICK n \in Nat : n = Len(results) /\ DOMAIN results = 1..n
  <2>1. Len(results) \in Nat /\ DOMAIN results = 1..Len(results)
    BY ONLY <1>2
  <2> QED
    BY ONLY <2>1
<1>3. /\ results' = Append(results, <<e, status[e]>>)
      /\ DOMAIN results' = 1..(n + 1)
  BY <1>1, <1>2 DEF SendResult
<1>4. /\ results'[n + 1] = <<e, status[e]>>
      /\ \A i \in 1..n : results'[i] = results[i]
  BY <1>1, <1>2, <1>3
<1>5. <<e, status[e]>>[1] = e
  OBVIOUS
<1>6. \A f \in Endpoint :
        InFlight(f)' = InFlight(f) \cup (IF f = e THEN {n + 1} ELSE {})
  <2> SUFFICES ASSUME NEW f \in Endpoint
               PROVE  InFlight(f)' = InFlight(f) \cup (IF f = e THEN {n + 1} ELSE {})
    OBVIOUS
  <2>1. InFlight(f)' = {i \in 1..(n + 1) : results'[i][1] = f}
    BY <1>3 DEF InFlight
  <2>2. InFlight(f) = {i \in 1..n : results[i][1] = f}
    BY <1>1 DEF InFlight
  <2>3. \A i : i \in 1..(n + 1) <=> i \in 1..n \/ i = n + 1
    OBVIOUS
  <2> QED
    BY <1>4, <1>5, <2>1, <2>2, <2>3
<1>7. \A i \in InFlight(e) : i \in 1..n
  BY <1>1 DEF InFlight
<1>8. \A i \in InFlight(e)' : i \in Nat /\ i <= n + 1
  BY <1>6, <1>7
<1>9. n + 1 \in InFlight(e)'
  BY <1>6
<1>11. \A i \in InFlight(e)' : Latest(e, i)' => i = n + 1
  BY <1>8, <1>9 DEF Latest
<1>12. \A f \in Endpoint : \A i \in InFlight(f) : results'[i] = results[i]
  BY <1>1, <1>4 DEF InFlight
<1>13. /\ InFlight(e)' = InFlight(e) \cup {n + 1}
       /\ \A f \in Endpoint : f # e => InFlight(f)' = InFlight(f)
  BY <1>6
<1>14. n + 1 = Len(results) + 1
  BY <1>1
<1>15. /\ results'[Len(results) + 1] = <<e, status[e]>>
       /\ \A i \in InFlight(e)' : Latest(e, i)' => i = Len(results) + 1
       /\ InFlight(e)' = InFlight(e) \cup {Len(results) + 1}
  BY <1>4, <1>11, <1>13, <1>14
<1> QED
  BY <1>12, <1>13, <1>15

\* A receive takes the first result, and the others move up.
LEMMA InFlightStore ==
  ASSUME TypeOK, results # <<>>, results' = Tail(results), NEW f \in Endpoint
  PROVE  /\ \A i : i \in InFlight(f)' <=> i \in Nat \ {0} /\ i + 1 \in InFlight(f)
         /\ \A i \in InFlight(f)' : results'[i] = results[i + 1]
         /\ \A i \in InFlight(f)' : Latest(f, i)' => Latest(f, i + 1)
         /\ 1 \in InFlight(f) <=> f = Head(results)[1]
         /\ InFlight(f) \subseteq Nat \ {0}
<1>2. results \in Seq(Endpoint \X Status)
  BY DEF TypeOK
<1>1. PICK n \in Nat : n = Len(results) /\ DOMAIN results = 1..n /\ n > 0
  <2>1. Len(results) \in Nat /\ DOMAIN results = 1..Len(results) /\ Len(results) > 0
    BY ONLY <1>2, results # <<>>
  <2> QED
    BY ONLY <2>1
<1>3. DOMAIN results' = 1..(n - 1) /\ \A i \in 1..(n - 1) : results'[i] = results[i + 1]
  BY <1>1, <1>2
<1>4. InFlight(f)' = {i \in 1..(n - 1) : results'[i][1] = f}
  BY <1>3 DEF InFlight
<1>5. InFlight(f) = {i \in 1..n : results[i][1] = f}
  BY <1>1 DEF InFlight
<1>6. \A i : i \in InFlight(f)' <=> i \in Nat \ {0} /\ i + 1 \in InFlight(f)
  <2>1. ASSUME NEW i \in Nat PROVE i \in 1..(n - 1) <=> i # 0 /\ i + 1 \in 1..n
    BY <1>1, <2>1
  <2>2. \A i : i \in 1..(n - 1) => i \in Nat
    OBVIOUS
  <2> QED
    BY <1>3, <1>4, <1>5, <2>1, <2>2
<1>7. \A i \in InFlight(f)' : results'[i] = results[i + 1]
  BY <1>3, <1>4
<1>8. InFlight(f) \subseteq Nat \ {0}
  BY <1>5
<1>9. ASSUME NEW i \in InFlight(f)', Latest(f, i)' PROVE Latest(f, i + 1)
  <2>1. i \in Nat \ {0} /\ i + 1 \in InFlight(f)
    BY <1>6, <1>9
  <2>2. ASSUME NEW j \in InFlight(f) PROVE j <= i + 1
    <3>1. j \in Nat \ {0}
      BY <1>8
    <3>2. CASE j = 1
      BY <2>1, <3>2
    <3>3. CASE j # 1
      <4>1. j - 1 \in Nat \ {0} /\ (j - 1) + 1 = j
        BY <3>1, <3>3
      <4>2. j - 1 \in InFlight(f)'
        BY <1>6, <4>1
      <4>3. j - 1 <= i
        BY <1>9, <4>2 DEF Latest
      <4> QED
        BY <2>1, <3>1, <4>3
    <3> QED
      BY <3>2, <3>3
  <2> QED
    BY <2>1, <2>2 DEF Latest
<1>10. 1 \in InFlight(f) <=> f = Head(results)[1]
  <2>1. Head(results) = results[1] /\ 1 \in 1..n
    BY <1>1, <1>2
  <2> QED
    BY <1>5, <2>1
<1> QED
  BY <1>6, <1>7, <1>8, <1>9, <1>10

LEMMA BreakerInit == Init => BreakerInv
<1> SUFFICES ASSUME Init, NEW e \in Endpoint PROVE KeptUp(e)
  BY DEF BreakerInv
<1>1. InFlight(e) = {}
  BY DEF Init, InFlight
<1>2. pc[e] = "select" /\ statuses[e] = Unknown /\ inARow[e] = 0
  BY DEF Init
<1>3. Counts(e, statuses[e])
  BY <1>2 DEF Counts
<1> QED
  BY <1>1, <1>2, <1>3 DEF KeptUp

\* A check that ends counts on from what was stored, for it has nothing of its
\* own in the channel.
LEMMA BreakerCheck ==
  ASSUME TypeOK, BreakerInv, NEW e \in Endpoint, NEW healthy \in BOOLEAN,
         checkEndpoint(e, healthy), inARow'[e] # Lagged
  PROVE  KeptUp(e)'
<1>1. pc[e] = "check" /\ pc'[e] = "send" /\ status'[e] = Checked(e, healthy)
  BY DEF checkEndpoint, TypeOK
<1>2. PICK c \in (0..MaxFails) \cup {Lagged} : c = inARow[e]
  BY DEF TypeOK
<1>3. inARow'[e] = IF healthy THEN 0 ELSE IF c = Lagged THEN Lagged ELSE CountUp(c)
  BY <1>2 DEF checkEndpoint, TypeOK
<1>4. Counts(e, status[e])'
  <2>1. CASE healthy
    <3> DEFINE full == 0 >= FailureThreshold
    <3>1. status'[e] = [healthy |-> healthy, fails |-> 0, open |-> full]
      BY <1>1, <2>1 DEF Checked
    <3>2. ~full
      OBVIOUS
    <3> HIDE DEF full
    <3>4. status'[e].fails = 0 /\ status'[e].open = full
      BY <3>1
    <3>3. inARow'[e] = 0 /\ ~ (0 >= FailureThreshold)
      BY <1>3, <2>1
    <3> QED
      BY <3>2, <3>3, <3>4 DEF Counts
  <2>2. CASE ~healthy
    <3>1. c # Lagged /\ inARow'[e] = CountUp(c)
      BY <1>3, <2>2
    <3>2. InFlight(e) = {} /\ Counts(e, statuses[e])
      BY <1>1, <1>2, <3>1 DEF BreakerInv, KeptUp
    <3>3. statuses[e].fails = c
      BY <1>2, <3>2 DEF Counts
    <3>4. PICK k \in 0..MaxFails : k = CountUp(c)
      BY <3>1 DEF CountUp
    <3> DEFINE full == k >= FailureThreshold
    <3>5. status'[e] = [healthy |-> healthy, fails |-> k, open |-> full]
      BY <1>1, <2>2, <3>3, <3>4 DEF Checked
    <3> HIDE DEF full
    <3>6. status'[e].fails = k /\ status'[e].open = full
      BY <3>5
    <3>7. inARow'[e] = k
      BY <3>1, <3>4
    <3> QED
      BY <3>6, <3>7 DEF Counts, full
  <2> QED
    BY <2>1, <2>2
<1> QED
  BY <1>1, <1>4 DEF KeptUp

LEMMA BreakerStep == TypeOK /\ BreakerInv /\ [Next]_vars => BreakerInv'
<1> SUFFICES ASSUME TypeOK, BreakerInv, [Next]_vars, NEW e \in Endpoint, inARow'[e] # Lagged
             PROVE  KeptUp(e)'
  BY DEF BreakerInv
<1>1. CASE TimePasses
  <2>1. sinceOpened[e] = RecoveryTimeout => sinceOpened'[e] = RecoveryTimeout
    BY <1>1 DEF TimePasses
  <2> QED
    BY <1>1, <2>1, KeptUpSame DEF TimePasses, BreakerInv
<1>2. ASSUME NEW f \in Endpoint, pollEndpoint(f), f # e PROVE KeptUp(e)'
  <2>1. /\ pc'[e] = pc[e] /\ status'[e] = status[e] /\ statuses' = statuses
        /\ inARow'[e] = inARow[e] /\ sinceOpened'[e] = sinceOpened[e]
    BY <1>2 DEF pollEndpoint, Tick, checkEndpoint, SendResult, PollCancelled, TypeOK
  <2>2. KeptUp(e)
    BY <2>1 DEF BreakerInv
  <2>3. CASE SendResult(f)
    <3>1. InFlight(e)' = InFlight(e) /\ \A i \in InFlight(e) : results'[i] = results[i]
      BY <1>2, <2>3, InFlightSend
    <3>2. \A i : Latest(e, i)' <=> Latest(e, i)
      BY <3>1 DEF Latest
    <3>3. \A s : Counts(e, s)' <=> Counts(e, s)
      BY <2>1 DEF Counts
    <3> QED
      BY <2>1, <2>2, <3>1, <3>2, <3>3 DEF KeptUp
  <2>4. CASE ~SendResult(f)
    <3>1. UNCHANGED results
      BY <1>2, <2>4 DEF pollEndpoint, Tick, checkEndpoint, PollCancelled
    <3> QED
      BY <2>1, <2>2, <3>1, KeptUpSame
  <2> QED
    BY <2>3, <2>4
<1>3. CASE Tick(e)
  <2>0. UNCHANGED <<statuses, results, closed, status, sinceOpened>>
    BY <1>3 DEF Tick
  <2>1. CASE CoolingDown(e, statuses[e])
    <3>1. pc' = pc /\ inARow' = inARow
      BY <1>3, <2>1 DEF Tick
    <3> QED
      BY <2>0, <3>1, KeptUpSame DEF BreakerInv
  <2>2. CASE ~CoolingDown(e, statuses[e])
    <3>1. /\ pc[e] = "select" /\ pc'[e] = "check"
          /\ inARow'[e] = IF InFlight(e) # {} THEN Lagged ELSE inARow[e]
      BY <1>3, <2>2 DEF Tick, TypeOK
    <3>2. InFlight(e) = {} /\ inARow'[e] = inARow[e]
      BY <3>1
    <3>3. Counts(e, statuses[e])
      BY <3>1, <3>2 DEF BreakerInv, KeptUp
    <3>4. statuses[e].open => sinceOpened[e] = RecoveryTimeout
      <4>1. sinceOpened[e] \in 0..RecoveryTimeout
        BY DEF TypeOK
      <4> QED
        BY <2>2, <4>1 DEF CoolingDown
    <3>5. InFlight(e)' = {}
      BY <2>0, <3>2 DEF InFlight
    <3>6. Counts(e, statuses[e])'
      BY <2>0, <3>2, <3>3 DEF Counts
    <3> QED
      BY <2>0, <3>1, <3>4, <3>5, <3>6 DEF KeptUp
  <2> QED
    BY <2>1, <2>2
<1>4. ASSUME NEW healthy \in BOOLEAN, checkEndpoint(e, healthy) PROVE KeptUp(e)'
  BY <1>4, BreakerCheck
<1>5. CASE SendResult(e)
  <2>1. /\ pc[e] = "send" /\ pc'[e] = "select"
        /\ inARow' = inARow
    BY <1>5 DEF SendResult, TypeOK, history
  <2>2. Counts(e, status[e])
    BY <2>1 DEF BreakerInv, KeptUp
  <2>3. /\ InFlight(e)' # {}
        /\ \A i \in InFlight(e)' : Latest(e, i)' => results'[i] = <<e, status[e]>>
    BY <1>5, InFlightSend
  <2>4. Counts(e, status[e])' <=> status'[e].fails = inARow'[e] /\ (status'[e].open <=> inARow'[e] >= FailureThreshold)
    BY DEF Counts
  <2>5. ASSUME NEW i \in InFlight(e)', Latest(e, i)' PROVE Counts(e, results[i][2])'
    <3>1. results'[i][2] = status[e]
      BY <2>3, <2>5
    <3> QED
      BY <2>1, <2>2, <3>1 DEF Counts
  <2> QED
    BY <2>1, <2>3, <2>5 DEF KeptUp
<1>6. CASE PollCancelled(e)
  <2>1. pc'[e] = "done"
    BY <1>6 DEF PollCancelled, TypeOK
  <2> QED
    BY <2>1 DEF KeptUp
<1>7. CASE Store
  <2>1. /\ results # <<>> /\ results' = Tail(results)
        /\ UNCHANGED <<pc, status, sinceOpened, inARow>>
    BY <1>7 DEF Store
  <2>2. KeptUp(e)
    BY <2>1 DEF BreakerInv
  <2>3. \A s : Counts(e, s)' <=> Counts(e, s)
    BY <2>1 DEF Counts
  <2>4. /\ \A i : i \in InFlight(e)' <=> i \in Nat \ {0} /\ i + 1 \in InFlight(e)
        /\ \A i \in InFlight(e)' : results'[i] = results[i + 1]
        /\ \A i \in InFlight(e)' : Latest(e, i)' => Latest(e, i + 1)
        /\ 1 \in InFlight(e) <=> e = Head(results)[1]
        /\ InFlight(e) \subseteq Nat \ {0}
    BY <2>1, InFlightStore
  <2>5. statuses'[e] = IF e = Head(results)[1] THEN Head(results)[2] ELSE statuses[e]
    BY <1>7 DEF Store, TypeOK
  <2>6. pc[e] = "check" => InFlight(e)' = {} /\ statuses'[e] = statuses[e]
    BY <2>2, <2>4, <2>5 DEF KeptUp
  <2>7. ASSUME pc[e] \in {"select", "check"}, NEW i \in InFlight(e)', Latest(e, i)'
        PROVE  Counts(e, results[i][2])'
    <3>1. Latest(e, i + 1) /\ results'[i] = results[i + 1]
      BY <2>4, <2>7
    <3>2. Counts(e, results[i + 1][2])
      BY <2>2, <2>7, <3>1 DEF KeptUp, Latest
    <3> QED
      BY <2>1, <3>1, <3>2 DEF Counts
  <2>8. ASSUME pc[e] \in {"select", "check"}, InFlight(e)' = {}
        PROVE  Counts(e, statuses'[e])
    <3>1. CASE e = Head(results)[1]
      <4>1. 1 \in InFlight(e)
        BY <2>4, <3>1
      <4>2. ASSUME NEW j \in InFlight(e) PROVE j <= 1
        <5>1. j \in Nat \ {0}
          BY <2>4
        <5>2. CASE j # 1
          <6>1. j - 1 \in Nat \ {0} /\ (j - 1) + 1 = j
            BY <5>1, <5>2
          <6> QED
            BY <2>4, <2>8, <6>1
        <5> QED
          BY <5>2
      <4>3. Counts(e, results[1][2])
        BY <2>2, <2>8, <4>1, <4>2 DEF KeptUp, Latest
      <4>4. Head(results) = results[1]
        BY <2>1 DEF TypeOK
      <4> QED
        BY <2>5, <3>1, <4>3, <4>4
    <3>2. CASE e # Head(results)[1]
      <4>1. InFlight(e) = {}
        <5> SUFFICES ASSUME NEW j \in InFlight(e) PROVE FALSE
          OBVIOUS
        <5>1. j \in Nat \ {0} /\ j # 1
          BY <2>4, <3>2
        <5>2. j - 1 \in Nat \ {0} /\ (j - 1) + 1 = j
          BY <5>1
        <5> QED
          BY <2>4, <2>8, <5>2
      <4> QED
        BY <2>2, <2>5, <2>8, <3>2, <4>1 DEF KeptUp
    <3> QED
      BY <3>1, <3>2
  <2> QED
    BY <2>1, <2>2, <2>3, <2>6, <2>7, <2>8 DEF KeptUp
<1>8. CASE UNCHANGED <<statuses, results, pc, status, sinceOpened, inARow>>
  BY <1>8, KeptUpSame DEF BreakerInv
<1>9. Notify \/ AggregateCancelled \/ Cancel \/ CloseResults \/ UNCHANGED vars
        => UNCHANGED <<statuses, results, pc, status, sinceOpened, inARow>>
  BY DEF Notify, AggregateCancelled, Cancel, CloseResults, vars
<1> QED
  BY <1>1, <1>2, <1>3, <1>4, <1>5, <1>6, <1>7, <1>8, <1>9
  DEF Next, pollEndpoint, aggregateResults

(* Unless a check of it began before the last result was stored, an        *)
(* endpoint's failures are counted one by one, the circuit is open from    *)
(* the FailureThreshold-th in a row on, and no check of an open circuit is *)
(* under way before RecoveryTimeout is over (BreakerExact; main.go         *)
(* 155-166, 208-218, 235-237).                                             *)
THEOREM BreakerTheorem == Spec => []BreakerExact
<1>1. TypeOK /\ BreakerInv => BreakerExact
  <2> SUFFICES ASSUME TypeOK, BreakerInv, NEW e \in Endpoint, inARow[e] # Lagged
               PROVE  /\ pc[e] # "done" => Counts(e, Newest(e))
                      /\ pc[e] = "check" /\ statuses[e].open => sinceOpened[e] = RecoveryTimeout
    BY DEF BreakerExact, Counts
  <2>1. KeptUp(e)
    BY DEF BreakerInv
  <2>2. CASE pc[e] = "send"
    BY <2>1, <2>2 DEF KeptUp, Newest
  <2>3. CASE pc[e] # "send" /\ InFlight(e) # {}
    <3>1. Latest(e, Max(InFlight(e)))
      BY <2>3, MaxIsLatest
    <3>2. Newest(e) = results[Max(InFlight(e))][2]
      BY <2>3 DEF Newest
    <3>3. pc[e] # "done" => pc[e] \in {"select", "check"}
      BY <2>3 DEF TypeOK
    <3>4. pc[e] # "done" => Counts(e, results[Max(InFlight(e))][2])
      BY <2>1, <3>1, <3>3 DEF KeptUp, Latest
    <3> QED
      BY <2>1, <2>3, <3>2, <3>4 DEF KeptUp
  <2>4. CASE pc[e] # "send" /\ InFlight(e) = {}
    <3>1. pc[e] # "done" => pc[e] \in {"select", "check"}
      BY <2>4 DEF TypeOK
    <3> QED
      BY <2>1, <2>4, <3>1 DEF KeptUp, Newest
  <2> QED
    BY <2>2, <2>3, <2>4
<1> QED
  BY <1>1, BreakerInit, BreakerStep, TypeCorrect, PTL DEF Spec

=============================================================================
