----------------------------- MODULE MCPrograms -----------------------------
(***************************************************************************)
(* The on-chain programs for TLC: a pool with its auctions and its market  *)
(* (MCRoscaMarket), and what stands beside a pool: the adapter its idle    *)
(* float is in, the reputation of a wallet, the protocol's authorities and *)
(* the value its pools may commit.  They share no state, so each behaviour *)
(* has one subject and leaves the others where they start.                 *)
(***************************************************************************)
EXTENDS MCRoscaMarket, YieldCascade, Reputation, Governance, ProtocolTvl

\* Scaled to three attestations.
Thresholds == [l \in 2..LEVEL_MAX |-> CASE l = 2 -> 20 [] l = 3 -> 60 [] l = 4 -> 100]
MinCycles == [l \in 2..LEVEL_MAX |-> Lesser(l - 1, 2)]

Proposals == [f \in Fields |-> IF f = "fee_bps_yield" THEN {1000, 2000, 4000} ELSE {"first", "second"}]
AtGenesis == [f \in Fields |-> IF f = "fee_bps_yield" THEN 2000 ELSE "first"]
Windows == [f \in Fields |-> IF f = "fee_bps_yield" THEN 1 ELSE 2]

Flows == [p \in Pools |-> IF p = "large" THEN 3 ELSE 2]

onePool == <<vars, bids, market>>

ProgramsInit ==
  /\ subject \in Subjects \cup {"yield", "reputation", "governance", "tvl"}
  /\ BidsInit /\ ValveInit
  /\ YieldInit /\ ReputationInit /\ GovernanceInit /\ TvlInit
  /\ subject # "yield" => ~Lends

ProgramsNext ==
  /\ UNCHANGED subject
  /\ \/ MarketNext /\ UNCHANGED <<yvars, rvars, govVars, tvlVars>>
     \/ /\ subject = "yield" /\ YieldNext
        /\ UNCHANGED <<onePool, rvars, govVars, tvlVars>>
     \/ /\ subject = "reputation" /\ ReputationNext
        /\ UNCHANGED <<onePool, yvars, govVars, tvlVars>>
     \/ /\ subject = "governance" /\ GovernanceNext
        /\ UNCHANGED <<onePool, yvars, rvars, tvlVars>>
     \/ /\ subject = "tvl" /\ TvlNext
        /\ UNCHANGED <<onePool, yvars, rvars, govVars>>

ProgramsSpec ==
  ProgramsInit /\ [][ProgramsNext]_<<allVars, yvars, rvars, govVars, tvlVars>>
=============================================================================
