----------------------------- MODULE HealthPoller -----------------------------
(***************************************************************************)
(* 02-health_check_poller_with_circuit_breaker/main.go: one polling        *)
(* goroutine per endpoint, the aggregator that installs their results and  *)
(* calls onStatusChange, and Stop.                                         *)
(*                                                                         *)
(* A HealthStatus is [healthy, fails, open]; a stored one is never written *)
(* again, it is replaced.  The time since circuitOpenedAt is counted up to *)
(* RecoveryTimeout, where it makes no more difference.                     *)
(***************************************************************************)
EXTENDS Integers, Sequences, FiniteSetsExt

CONSTANTS
    Endpoint,
    FailureThreshold,
    RecoveryTimeout,
    ResultsCap,         \* capacity of hp.results (100)
    MaxFails            \* bound: consecutive failures are counted up to here

ASSUME HealthPollerAssumption ==
    /\ {FailureThreshold, RecoveryTimeout, ResultsCap} \subseteq Nat \ {0}
    /\ MaxFails \in Nat
    /\ MaxFails >= FailureThreshold

VARIABLES
    statuses,       \* hp.statuses
    results,        \* hp.results: <<endpoint, status>>
    closed,         \* is hp.results closed?
    \* pollEndpoint
    pc,             \* "select", "check", "send", "done"
    currentStatus,  \* the status read at the tick, while the check runs
    status,         \* the result of the check, until it is sent
    sinceOpened,    \* time.Since(circuitOpenedAt)
    \* aggregateResults
    aggPc,          \* "select", "notify", "done"
    changed,        \* <<endpoint, newStatus>> of the callback
    \* Stop
    stopPc,         \* "running", "wait", "returned"
    \* history
    notified,       \* the newStatus that onStatusChange was last called with
    inARow          \* failed checks since the last healthy one, or Lagged: one
                    \* has begun before the last result was stored

pollVars == <<pc, currentStatus, status, sinceOpened>>
aggVars == <<aggPc, changed>>
history == <<notified, inARow>>
vars == <<statuses, results, closed, pollVars, aggVars, stopPc, history>>

Status == [healthy : BOOLEAN, fails : 0..MaxFails, open : BOOLEAN]
Unknown == [healthy |-> FALSE, fails |-> 0, open |-> FALSE]
NoChange == <<>>
Lagged == -1

\* AddEndpoint, before Start; circuitOpenedAt is the zero time.
Init ==
    /\ statuses = [e \in Endpoint |-> Unknown]
    /\ results = <<>>
    /\ closed = FALSE
    /\ pc = [e \in Endpoint |-> "select"]
    /\ currentStatus = [e \in Endpoint |-> Unknown]
    /\ status = [e \in Endpoint |-> Unknown]
    /\ sinceOpened = [e \in Endpoint |-> RecoveryTimeout]
    /\ aggPc = "select"
    /\ changed = NoChange
    /\ stopPc = "running"
    /\ notified = [e \in Endpoint |-> FALSE]
    /\ inARow = [e \in Endpoint |-> 0]

Cancelled == stopPc # "running"

\* Where in the channel e's results are.
InFlight(e) == {i \in DOMAIN results : results[i][1] = e}

-----------------------------------------------------------------------------
TimePasses ==
    /\ \E e \in Endpoint : sinceOpened[e] < RecoveryTimeout
    /\ sinceOpened' = [e \in Endpoint |->
                          IF sinceOpened[e] < RecoveryTimeout
                            THEN sinceOpened[e] + 1 ELSE sinceOpened[e]]
    /\ UNCHANGED <<statuses, results, closed, pc, currentStatus, status,
                   aggVars, stopPc, history>>

\* Mutant of CoolingDown: an open circuit is never polled again.
AlwaysCooling(e, s) == s.open

CoolingDown(e, s) == s.open /\ sinceOpened[e] < RecoveryTimeout

\* case <-ticker.C: the status is read, and "continue" while it cools down.
Tick(e) ==
    /\ pc[e] = "select"
    /\ \/ /\ CoolingDown(e, statuses[e])
          /\ UNCHANGED <<currentStatus, pc, inARow>>
       \/ /\ ~CoolingDown(e, statuses[e])
          /\ currentStatus' = [currentStatus EXCEPT ![e] = statuses[e]]
          /\ pc' = [pc EXCEPT ![e] = "check"]
          /\ inARow' = [inARow EXCEPT ![e] =
                 IF InFlight(e) # {} THEN Lagged ELSE @]
    /\ UNCHANGED <<statuses, results, closed, status, sinceOpened, aggVars,
                   stopPc, notified>>

CountUp(n) == IF n < MaxFails THEN n + 1 ELSE n

\* Mutant of Checked: the count goes on from the status read at the tick.
CheckedAnyway(e, healthy) ==
    LET fails == IF healthy THEN statuses[e].fails ELSE CountUp(statuses[e].fails)
    IN  [healthy |-> healthy, fails |-> fails, open |-> fails >= FailureThreshold]

\* The status checkEndpoint returns, from the one that is stored by then.
Checked(e, healthy) ==
    LET fails == IF healthy THEN 0 ELSE CountUp(statuses[e].fails)
    IN  [healthy |-> healthy, fails |-> fails, open |-> fails >= FailureThreshold]

\* client.Get is over: an answer, an error or the timeout.  circuitOpenedAt is
\* set when the circuit was not open at the tick.
checkEndpoint(e, healthy) ==
    /\ pc[e] = "check"
    /\ status' = [status EXCEPT ![e] = Checked(e, healthy)]
    /\ sinceOpened' = [sinceOpened EXCEPT ![e] =
           IF Checked(e, healthy).open /\ ~currentStatus[e].open THEN 0 ELSE @]
    /\ currentStatus' = [currentStatus EXCEPT ![e] = Unknown]
    /\ pc' = [pc EXCEPT ![e] = "send"]
    /\ inARow' = [inARow EXCEPT ![e] =
           IF healthy THEN 0 ELSE IF @ = Lagged THEN Lagged ELSE CountUp(@)]
    /\ UNCHANGED <<statuses, results, closed, aggVars, stopPc, notified>>

Room == Len(results) < ResultsCap

\* hp.results <- status
SendResult(e) ==
    /\ pc[e] = "send"
    /\ ~closed
    /\ Room
    /\ results' = Append(results, <<e, status[e]>>)
    /\ status' = [status EXCEPT ![e] = Unknown]
    /\ pc' = [pc EXCEPT ![e] = "select"]
    /\ UNCHANGED <<statuses, closed, currentStatus, sinceOpened, aggVars,
                   stopPc, history>>

\* Mutant of PollCancelled: the result is sent without a select.
PollCancelledAtTick(e) ==
    /\ pc[e] = "select"
    /\ Cancelled
    /\ pc' = [pc EXCEPT ![e] = "done"]
    /\ UNCHANGED <<statuses, results, closed, currentStatus, status,
                   sinceOpened, aggVars, stopPc, history>>

\* <-hp.ctx.Done(), in either select.
PollCancelled(e) ==
    /\ pc[e] \in {"select", "send"}
    /\ Cancelled
    /\ pc' = [pc EXCEPT ![e] = "done"]
    /\ UNCHANGED <<statuses, results, closed, currentStatus, status,
                   sinceOpened, aggVars, stopPc, history>>

-----------------------------------------------------------------------------
(* aggregateResults.                                                       *)

\* Mutant of IsNews: only bad news is passed on.
IsBadNews(old, new) == old.healthy /\ ~new.healthy

IsNews(old, new) == old.healthy # new.healthy

\* status := <-hp.results, stored under hp.mu.  One step: until it is stored
\* everybody reads what they read before it was received.
Store ==
    /\ aggPc = "select"
    /\ results # <<>>
    /\ LET e == Head(results)[1]
           new == Head(results)[2]
       IN  /\ statuses' = [statuses EXCEPT ![e] = new]
           /\ \/ /\ IsNews(statuses[e], new)
                 /\ aggPc' = "notify"
                 /\ changed' = <<e, new.healthy>>
              \/ /\ ~IsNews(statuses[e], new)
                 /\ UNCHANGED aggVars
    /\ results' = Tail(results)
    /\ UNCHANGED <<closed, pollVars, stopPc, history>>

\* hp.onStatusChange, outside the lock.
Notify ==
    /\ aggPc = "notify"
    /\ notified' = [notified EXCEPT ![changed[1]] = changed[2]]
    /\ aggPc' = "select"
    /\ changed' = NoChange
    /\ UNCHANGED <<statuses, results, closed, pollVars, stopPc, inARow>>

AggregateCancelled ==
    /\ aggPc = "select"
    /\ Cancelled
    /\ aggPc' = "done"
    /\ UNCHANGED <<statuses, results, closed, pollVars, changed, stopPc, history>>

aggregateResults == Store \/ Notify \/ AggregateCancelled

-----------------------------------------------------------------------------
(* Stop.                                                                   *)

Cancel ==
    /\ stopPc = "running"
    /\ stopPc' = "wait"
    /\ UNCHANGED <<statuses, results, closed, pollVars, aggVars, history>>

\* Mutant of AllDone: the aggregator is not in the WaitGroup.
PollersDone == \A e \in Endpoint : pc[e] = "done"

\* The counter of hp.wg is zero.
AllDone == aggPc = "done" /\ \A e \in Endpoint : pc[e] = "done"

CloseResults ==
    /\ stopPc = "wait"
    /\ AllDone
    /\ closed' = TRUE
    /\ stopPc' = "returned"
    /\ UNCHANGED <<statuses, results, pollVars, aggVars, history>>

-----------------------------------------------------------------------------
pollEndpoint(e) ==
    \/ Tick(e)
    \/ \E healthy \in BOOLEAN : checkEndpoint(e, healthy)
    \/ SendResult(e)
    \/ PollCancelled(e)

Next ==
    \/ TimePasses
    \/ \E e \in Endpoint : pollEndpoint(e)
    \/ aggregateResults
    \/ Cancel
    \/ CloseResults

Spec == Init /\ [][Next]_vars

\* Time goes on, tickers fire, checks end within their Timeout, onStatusChange
\* returns; a full channel serves its senders in turn, and a select serves
\* every case that stays ready (Go picks among the ready cases at random).
FairSpec ==
    /\ Spec
    /\ WF_vars(TimePasses)
    /\ \A e \in Endpoint : WF_vars(pollEndpoint(e)) /\ SF_vars(SendResult(e))
    /\ WF_vars(aggregateResults)
    /\ SF_vars(AggregateCancelled \/ \E e \in Endpoint : PollCancelled(e))
    /\ WF_vars(CloseResults)

-----------------------------------------------------------------------------
TypeOK ==
    /\ statuses \in [Endpoint -> Status]
    /\ results \in Seq(Endpoint \X Status) /\ Len(results) <= ResultsCap
    /\ closed \in BOOLEAN
    /\ pc \in [Endpoint -> {"select", "check", "send", "done"}]
    /\ currentStatus \in [Endpoint -> Status]
    /\ status \in [Endpoint -> Status]
    /\ sinceOpened \in [Endpoint -> 0..RecoveryTimeout]
    /\ aggPc \in {"select", "notify", "done"}
    /\ changed \in (Endpoint \X BOOLEAN) \cup {NoChange}
    /\ aggPc = "notify" <=> changed # NoChange
    /\ stopPc \in {"running", "wait", "returned"}
    /\ notified \in [Endpoint -> BOOLEAN]
    /\ inARow \in [Endpoint -> (0..MaxFails) \cup {Lagged}]

\* What the callback said last is what GetStatus says, but for the change that
\* is being announced (main.go 233-245).
CallbackTellsStatus ==
    \A e \in Endpoint :
        notified[e] # statuses[e].healthy => changed = <<e, statuses[e].healthy>>

\* The newest result of e's checks.
Newest(e) ==
    IF pc[e] = "send" THEN status[e]
    ELSE IF InFlight(e) # {} THEN results[Max(InFlight(e))][2]
    ELSE statuses[e]

\* As long as the aggregator keeps up with an endpoint its failures are
\* counted one by one, the circuit opens with the FailureThreshold-th in a row,
\* and from then on the endpoint is left alone for RecoveryTimeout, no check is
\* under way (main.go 155-166, 208-218, 235-237).
BreakerExact ==
    \A e \in Endpoint : inARow[e] # Lagged =>
        /\ pc[e] # "done" =>
              /\ Newest(e).fails = inARow[e]
              /\ Newest(e).open <=> inARow[e] >= FailureThreshold
        /\ pc[e] = "check" /\ statuses[e].open => sinceOpened[e] = RecoveryTimeout

\* Whoever still runs when results is closed would send on it or read zero
\* values from it: everyone has returned, and nothing is announced any more
\* (main.go 269-273).
ClosedAtRest ==
    closed => aggPc = "done" /\ \A e \in Endpoint : pc[e] = "done"

\* An open circuit is not open for ever: the endpoint is checked again
\* (main.go 155-161).
EventuallyRetried ==
    \A e \in Endpoint :
        statuses[e].open ~> pc[e] = "check" \/ Cancelled

\* Stop returns (main.go 269-273).
StopReturns == stopPc = "wait" ~> stopPc = "returned"

=============================================================================
