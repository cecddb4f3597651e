---------------------------- MODULE ProtocolTvl ----------------------------
(***************************************************************************)
(* The value the protocol has committed, over all its pools:               *)
(* create_pool looks at the caps, init_pool_vaults reserves a pool's share *)
(* of them, perhaps much later, and close_pool gives it back, while the    *)
(* protocol authority raises and lowers the caps.  What happens to a pool  *)
(* between its vaults and its completion is RoscaPool.                     *)
(***************************************************************************)
EXTENDS RoundfiMath, FiniteSetsExt

CONSTANTS
  Pools,
  Flow,          \* [Pools -> credit_amount * cycles_total]
  Caps           \* what the two caps are set to, 0 for none

ASSUME TvlAssumption ==
  /\ IsFiniteSet(Pools)
  /\ Flow \in [Pools -> Nat \ {0}]
  /\ Caps \subseteq Nat

VARIABLES
  pool_status,   \* [Pools -> "None" or the status of the account]
  vaults_initialized,
  caps,          \* the two caps
  committed_protocol_tvl_usdc

tvlVars == <<pool_status, vaults_initialized, caps, committed_protocol_tvl_usdc>>

TvlInit ==
  /\ pool_status = [p \in Pools |-> "None"]
  /\ vaults_initialized = [p \in Pools |-> FALSE]
  /\ caps = [max_pool_tvl_usdc |-> 0, max_protocol_tvl_usdc |-> 0]
  /\ committed_protocol_tvl_usdc = 0

FitsTheCaps(p) ==
  /\ caps.max_pool_tvl_usdc > 0 => Flow[p] <= caps.max_pool_tvl_usdc
  /\ caps.max_protocol_tvl_usdc > 0 =>
       committed_protocol_tvl_usdc + Flow[p] <= caps.max_protocol_tvl_usdc

\* Fails early, reserves nothing.
create_pool(p) ==
  /\ pool_status[p] = "None"
  /\ FitsTheCaps(p)
  /\ pool_status' = [pool_status EXCEPT ![p] = "Forming"]
  /\ UNCHANGED <<vaults_initialized, caps, committed_protocol_tvl_usdc>>

\* Once per call (before SEV-004).
Uninitialized_mutant(p) == pool_status[p] # "None"

\* The flag, whatever the status.
Uninitialized(p) == pool_status[p] # "None" /\ ~vaults_initialized[p]

init_pool_vaults(p) ==
  /\ Uninitialized(p)
  /\ FitsTheCaps(p)
  /\ vaults_initialized' = [vaults_initialized EXCEPT ![p] = TRUE]
  /\ committed_protocol_tvl_usdc' = committed_protocol_tvl_usdc + Flow[p]
  /\ UNCHANGED <<pool_status, caps>>

\* The life of a pool in one step: nobody joins one that has no vaults.
Runs(p) ==
  /\ pool_status[p] = "Forming" /\ vaults_initialized[p]
  /\ pool_status' = [pool_status EXCEPT ![p] = "Completed"]
  /\ UNCHANGED <<vaults_initialized, caps, committed_protocol_tvl_usdc>>

close_pool(p) ==
  /\ pool_status[p] = "Completed"
  /\ pool_status' = [pool_status EXCEPT ![p] = "Closed"]
  /\ committed_protocol_tvl_usdc' = SaturatingSub(committed_protocol_tvl_usdc, Flow[p])
  /\ UNCHANGED <<vaults_initialized, caps>>

\* update_protocol_config, which may set a cap below what is committed.
SetCaps(pool_cap, protocol_cap) ==
  /\ caps' = [max_pool_tvl_usdc |-> pool_cap, max_protocol_tvl_usdc |-> protocol_cap]
  /\ UNCHANGED <<pool_status, vaults_initialized, committed_protocol_tvl_usdc>>

TvlNext ==
  \/ \E p \in Pools : \/ create_pool(p) \/ init_pool_vaults(p)
                      \/ Runs(p) \/ close_pool(p)
  \/ \E pool_cap, protocol_cap \in Caps : SetCaps(pool_cap, protocol_cap)

TvlSpec == TvlInit /\ [][TvlNext]_tvlVars

----------------------------------------------------------------------------

\* close_pool.rs:85-93, init_pool_vaults.rs:98-105: however pools are created,
\* given their vaults and closed, in whatever order and with whatever retries,
\* the total is what the pools with vaults that are not closed stand for: no
\* headroom is lost, none is made, and the saturating subtraction hides nothing.
CommittedIsReserved ==
  committed_protocol_tvl_usdc =
    MapThenSumSet(LAMBDA p : Flow[p],
      {p \in Pools : vaults_initialized[p] /\ pool_status[p] # "Closed"})
=============================================================================
