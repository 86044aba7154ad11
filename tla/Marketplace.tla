------------------------------- MODULE Marketplace -------------------------------
(***************************************************************************)
(* 04-mining_pool_with_stratum_protocol/market/marketplace.go: a fixed     *)
(* price for the hashrate a miner has registered.  Every method holds m.mu *)
(* throughout and is one step.                                             *)
(***************************************************************************)
EXTENDS Integers

CONSTANTS
    Miner,
    PricePerTH

VARIABLES miners    \* the records [hashrate, earned] by miner

NoRecord == [hashrate |-> 0, earned |-> -1]

Init == miners = [m \in Miner |-> NoRecord]

Known == {m \in Miner : miners[m] # NoRecord}

\* Mutant of Earned: a registered miner starts again from nothing.
StartsAgain(m) == 0

\* What a record keeps when it is replaced.
Earned(m) == IF m \in Known THEN miners[m].earned ELSE 0

RegisterMiner(m, hashrate) ==
    miners' = [miners EXCEPT ![m] = [hashrate |-> hashrate, earned |-> Earned(m)]]

UnregisterMiner(m) == miners' = [miners EXCEPT ![m] = NoRecord]

\* Tick, for durationHours.
Tick(hours) ==
    miners' = [m \in Miner |->
        IF m \in Known
          THEN [miners[m] EXCEPT !.earned = @ + miners[m].hashrate * PricePerTH * hours]
          ELSE NoRecord]

Revenue(m) == IF m \in Known THEN miners[m].earned ELSE 0

=============================================================================
