----------------------------- MODULE Governance -----------------------------
(***************************************************************************)
(* What the authorities may change, and how: the treasury, the authority   *)
(* and the yield fee of programs/roundfi-core and the authority of         *)
(* programs/roundfi-reputation, each proposed, left pending for its        *)
(* timelock and then committed by anybody; the allowlisted yield adapter,  *)
(* changed at once until it is locked; and the lock of the treasury.       *)
(*                                                                         *)
(* Proposals, cancellations and locks are signed by the authority of the   *)
(* moment, so there is always somebody who may sign, and who it is is left *)
(* out.  The other fields of update_protocol_config are checked against a  *)
(* bound and written, nothing more, and are left out too.                  *)
(***************************************************************************)
EXTENDS Integers

CONSTANTS
  Fields,      \* the fields with a timelock
  Values,      \* [Fields -> the values that are proposed]
  Adapters,    \* the allowlisted adapters, once there is one
  Genesis,     \* [Fields -> what initialize_protocol sets]
  Timelock,    \* [Fields -> TREASURY_TIMELOCK_SECS and its likes]
  MAX_FEE_BPS_YIELD,
  NoProposal,
  MaxBlockTime \* bound

ASSUME GovernanceAssumption ==
  /\ Fields \subseteq {"treasury", "authority", "fee_bps_yield", "reputation_authority"}
  /\ "treasury" \in Fields
  /\ \A f \in Fields : /\ Genesis[f] \in Values[f] /\ NoProposal \notin Values[f]
                       /\ Timelock[f] \in Nat
  /\ "fee_bps_yield" \in Fields => Values["fee_bps_yield"] \subseteq Nat
  /\ MAX_FEE_BPS_YIELD \in Nat /\ MaxBlockTime \in Nat

VARIABLES
  current,     \* [Fields -> the value in force]
  pending,     \* [Fields -> the value proposed, or NoProposal]
  eta,         \* [Fields -> when it may be committed]
  treasury_locked,
  approved_yield_adapter,          \* "default" while there is no allowlist
  approved_yield_adapter_locked,
  block_time,
  pending_since,   \* history: [Fields -> when pending last changed]
  at_lock          \* history: the treasury and its proposal when it was locked

config_fields == <<current, pending, eta, treasury_locked,
                   approved_yield_adapter, approved_yield_adapter_locked>>
govVars == <<config_fields, block_time, pending_since, at_lock>>

GovernanceInit ==
  /\ current = [f \in Fields |-> Genesis[f]]
  /\ pending = [f \in Fields |-> NoProposal]
  /\ eta = [f \in Fields |-> 0]
  /\ treasury_locked = FALSE
  /\ approved_yield_adapter = "default"
  /\ approved_yield_adapter_locked = FALSE
  /\ block_time = 0
  /\ pending_since = [f \in Fields |-> 0]
  /\ at_lock = NoProposal

\* The lock is not looked at.
MayPropose_mutant(f, v) ==
  /\ pending[f] = NoProposal
  /\ f = "fee_bps_yield" => v <= MAX_FEE_BPS_YIELD

MayPropose(f, v) ==
  /\ f = "treasury" => ~treasury_locked
  /\ pending[f] = NoProposal
  /\ f = "fee_bps_yield" => v <= MAX_FEE_BPS_YIELD

\* FEE_BPS_YIELD_TIMELOCK_SECS everywhere.
Eta_mutant(f) == block_time + Timelock["fee_bps_yield"]

Eta(f) == block_time + Timelock[f]

Propose(f, v) ==
  /\ MayPropose(f, v)
  /\ pending' = [pending EXCEPT ![f] = v]
  /\ eta' = [eta EXCEPT ![f] = Eta(f)]
  /\ pending_since' = [pending_since EXCEPT ![f] = block_time]
  /\ UNCHANGED <<current, treasury_locked, approved_yield_adapter,
                 approved_yield_adapter_locked, block_time, at_lock>>

Cleared(f) ==
  /\ pending' = [pending EXCEPT ![f] = NoProposal]
  /\ eta' = [eta EXCEPT ![f] = 0]
  /\ pending_since' = [pending_since EXCEPT ![f] = block_time]
  /\ UNCHANGED <<treasury_locked, approved_yield_adapter,
                 approved_yield_adapter_locked, block_time, at_lock>>

Cancel(f) ==
  /\ pending[f] # NoProposal
  /\ Cleared(f)
  /\ UNCHANGED current

\* By anybody, locked or not.
Commit(f) ==
  /\ pending[f] # NoProposal
  /\ block_time >= eta[f]
  /\ current' = [current EXCEPT ![f] = pending[f]]
  /\ Cleared(f)

lock_treasury ==
  /\ ~treasury_locked
  /\ treasury_locked' = TRUE
  /\ at_lock' = [current |-> current["treasury"], pending |-> pending["treasury"]]
  /\ UNCHANGED <<current, pending, eta, approved_yield_adapter,
                 approved_yield_adapter_locked, block_time, pending_since>>

update_protocol_config(adapter) ==
  /\ ~approved_yield_adapter_locked
  /\ approved_yield_adapter' = adapter
  /\ UNCHANGED <<current, pending, eta, treasury_locked,
                 approved_yield_adapter_locked, block_time, pending_since, at_lock>>

lock_approved_yield_adapter ==
  /\ ~approved_yield_adapter_locked
  /\ approved_yield_adapter_locked' = TRUE
  /\ UNCHANGED <<current, pending, eta, treasury_locked,
                 approved_yield_adapter, block_time, pending_since, at_lock>>

BlockTimePasses ==
  /\ block_time < MaxBlockTime
  /\ block_time' = block_time + 1
  /\ UNCHANGED <<config_fields, pending_since, at_lock>>

GovernanceNext ==
  \/ \E f \in Fields : \/ \E v \in Values[f] : Propose(f, v)
                       \/ Cancel(f) \/ Commit(f)
  \/ lock_treasury
  \/ \E adapter \in Adapters : update_protocol_config(adapter)
  \/ lock_approved_yield_adapter
  \/ BlockTimePasses

GovernanceSpec == GovernanceInit /\ [][GovernanceNext]_govVars

----------------------------------------------------------------------------

\* audit-readiness.md:136, "what if multiple are pending simultaneously?": whatever
\* is proposed, cancelled and proposed again, whoever holds the authority by then,
\* a field takes no value that has not been pending, and nothing else, for the
\* whole of its timelock; and the allowlist does not change once it is locked.
ChangesAreAnnounced ==
  [][/\ \A f \in Fields : current'[f] # current[f] =>
          /\ current'[f] = pending[f]
          /\ block_time - pending_since[f] >= Timelock[f]
     /\ approved_yield_adapter_locked =>
          approved_yield_adapter' = approved_yield_adapter]_govVars

\* lock_treasury.rs:7-10: a locked treasury is the one it was, or the one that was
\* already proposed, and once that has been committed or cancelled it is final.
LockedTreasuryIsSettled ==
  treasury_locked =>
    /\ current["treasury"] \in {at_lock.current, at_lock.pending} \ {NoProposal}
    /\ pending["treasury"] # NoProposal =>
         /\ pending["treasury"] = at_lock.pending
         /\ current["treasury"] = at_lock.current
=============================================================================
