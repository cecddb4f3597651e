----------------------------- MODULE RoscaPool -----------------------------
(***************************************************************************)
(* One ROSCA pool of programs/roundfi-core, from the first join to the     *)
(* closing of its vaults.  Every action is one instruction: it runs as one *)
(* Solana transaction, so it is atomic, and a failed require! or transfer  *)
(* leaves no trace: it is a false guard here.                              *)
(*                                                                         *)
(* A member is named by its seat (slot_index), which the Member PDA keeps  *)
(* for its whole life.  The pool starts created and with its vaults        *)
(* initialised (create_pool, init_pool_vaults); what create_pool validates *)
(* is assumed of the constants.  Amounts are whole token units, small      *)
(* enough that no checked addition of the code can overflow.  Timestamps   *)
(* that no guard reads (joined_at, started_at), the reporting counters of  *)
(* a member (total_contributed, total_received), the position NFT, account *)
(* rent and the logs are left out.                                         *)
(*                                                                         *)
(* An operator whose name ends in _mutant is a plausible bug of the one    *)
(* that follows it, to be put in its place; the model never uses it.       *)
(***************************************************************************)
EXTENDS RoundfiMath, FiniteSets, Functions

CONSTANTS
  MembersTarget,      \* pool.members_target, which is also cycles_total
  InstallmentAmount,  \* pool.installment_amount
  CreditAmount,       \* pool.credit_amount
  EscrowReleaseBps,   \* pool.escrow_release_bps
  CycleDuration,      \* pool.cycle_duration
  GracePeriod,        \* GRACE_PERIOD_SECS, a build-time constant
  OrderingPolicy,     \* pool.ordering_policy: "ArrivalOrder" or "Sorteio"
  Levels,             \* reputation levels the joining wallets may have
  Funds,              \* [Seats -> Nat]: USDC a seat's wallet starts with
  MayPause,           \* whether the authority ever uses the emergency stop
  MaxLag              \* bound: the clock stops MaxLag past next_cycle_at

CyclesTotal == MembersTarget
Seats  == 0 .. MembersTarget - 1
Cycles == 0 .. CyclesTotal - 1

ASSUME PoolAssumption ==
  /\ MembersTarget \in 1 .. 64
  /\ InstallmentAmount \in Nat \ {0}
  /\ CreditAmount \in Nat \ {0}
  /\ EscrowReleaseBps \in 0 .. MAX_BPS
  /\ pool_is_viable(MembersTarget, InstallmentAmount, CreditAmount,
                    SOLIDARITY_BPS, EscrowReleaseBps)

ASSUME ClockAssumption ==
  /\ CycleDuration \in Nat \ {0}
  /\ GracePeriod \in Nat \ {0}
  /\ MaxLag \in Nat
  /\ MaxLag >= GracePeriod

ASSUME ActorAssumption ==
  /\ OrderingPolicy \in {"ArrivalOrder", "Sorteio"}
  /\ Levels \subseteq 1 .. 4
  /\ Funds \in [Seats -> Nat]
  /\ MayPause \in BOOLEAN

VARIABLES
  config,        \* the ProtocolConfig fields these handlers touch
  pool,          \* the Pool account
  member,        \* [Seats -> Member record]; blank until the seat is taken
  memberPdas,    \* the seats whose Member PDA exists
  order,         \* DrawResult.order, seat -> payout cycle; Undrawn before it
  vault,         \* balances of the pool's token accounts
  wallet,        \* [Seats -> Nat]: USDC of each seat's wallet
  treasury,      \* USDC swept to the treasury by close_pool_vaults
  attestations,  \* Attestation PDAs the pool has issued
  now            \* Clock::unix_timestamp

vars == <<config, pool, member, memberPdas, order, vault, wallet, treasury,
          attestations, now>>

money == <<vault, wallet, treasury>>

----------------------------------------------------------------------------
(* Accounts.                                                               *)

PoolStatus == {"Forming", "Active", "Completed", "Closed", "Gone"}
   \* "Gone": close_pool_vaults has closed the Pool PDA itself.

Schema == {"PAYMENT", "LATE", "DEFAULT", "POOL_COMPLETE", "PAYOUT_CLAIMED",
           "CLAIM_NEGLECT"}

Undrawn == [s \in Seats |-> CyclesTotal]

BlankMember ==
  [stake_deposited |-> 0, stake_deposited_initial |-> 0, escrow_balance |-> 0,
   total_escrow_deposited |-> 0, contributions_paid |-> 0,
   on_time_count |-> 0, late_count |-> 0, last_released_checkpoint |-> 0,
   defaulted |-> FALSE, paid_out |-> FALSE]

\* Split of one installment, the same for every contribution to this pool.
Split == split_installment(InstallmentAmount, SOLIDARITY_BPS, EscrowReleaseBps)

stake_bps_for_level(level) ==
  CASE level = 1 -> 5000 [] level = 2 -> 2500 [] level = 3 -> 1000 [] OTHER -> 300

StakeAmount(level) == apply_bps(CreditAmount, stake_bps_for_level(level))

debt_initial == CyclesTotal * InstallmentAmount
debt_remaining(m) ==
  SaturatingSub(CyclesTotal, m.contributions_paid) * InstallmentAmount
collateral_initial(m) == m.stake_deposited_initial + m.total_escrow_deposited
collateral_remaining(m) == m.stake_deposited + m.escrow_balance

\* The rule before the M-1 fix: arrears are late by construction.
installment_deadline_mutant(cycle) ==
  IF cycle < pool.current_cycle THEN 0 ELSE pool.next_cycle_at

\* Pool::installment_deadline: step back from the deadline of current_cycle.
installment_deadline(cycle) ==
  pool.next_cycle_at - (pool.current_cycle - cycle) * CycleDuration

GraceDeadline == pool.next_cycle_at + GracePeriod

\* contemplated_cycle_for_seat = cycle; false while a Sorteio pool is undrawn.
Contemplated(s, cycle) == order[s] = cycle

Live_mutant(s) == s \in memberPdas

\* A live Member account: the PDA exists and was not settled as defaulted.
Live(s) == s \in memberPdas /\ ~member[s].defaulted

\* The reputation CPI: attest initialises one PDA per (schema, cycle, seat)
\* and the whole instruction fails when that PDA exists already.
Attestation(schema, cycle, s) == [schema |-> schema, cycle |-> cycle, seat |-> s]
Attest(new) == /\ new \cap attestations = {}
               /\ attestations' = attestations \cup new

----------------------------------------------------------------------------
(* Forming the pool.                                                       *)

Init ==
  /\ config = [paused |-> FALSE,
               committed_protocol_tvl_usdc |-> CreditAmount * CyclesTotal]
  /\ pool = [status |-> "Forming", members_joined |-> 0, slots |-> {},
             current_cycle |-> 0, next_cycle_at |-> 0,
             total_contributed |-> 0, total_paid_out |-> 0,
             solidarity_balance |-> 0, escrow_balance |-> 0,
             guarantee_fund_balance |-> 0, lp_distribution_balance |-> 0,
             defaulted_members |-> 0, current_bid_depth |-> 0]
  /\ member = [s \in Seats |-> BlankMember]
  /\ memberPdas = {}
  /\ order = IF OrderingPolicy = "ArrivalOrder" THEN [s \in Seats |-> s]
                                                ELSE Undrawn
  /\ vault = [pool_usdc |-> 0, escrow |-> 0, solidarity |-> 0]
  /\ wallet = Funds
  /\ treasury = 0
  /\ attestations = {}
  /\ now = 0

\* The payout orders draw_slot_order can produce: bijections seat -> cycle.
DrawOrders == Bijection(Seats, Cycles)

\* The join that fills the pool may carry the draw account, in which case the
\* order is drawn in the same transaction; otherwise finalize_draw does it.
AutoDraw(full) ==
  \/ order' = order
  \/ full /\ OrderingPolicy = "Sorteio" /\ order' \in DrawOrders

JoinPool(s, level) ==
  LET stake == StakeAmount(level)
      full  == pool.members_joined + 1 = MembersTarget
  IN
  /\ ~config.paused
  /\ pool.status = "Forming"
  /\ s \notin pool.slots
  /\ stake > 0
  /\ wallet[s] >= stake
  /\ wallet' = [wallet EXCEPT ![s] = @ - stake]
  /\ vault' = [vault EXCEPT !.escrow = @ + stake]
  /\ member' = [member EXCEPT ![s] =
       [BlankMember EXCEPT !.stake_deposited = stake,
                           !.stake_deposited_initial = stake,
                           !.escrow_balance = stake]]
  /\ memberPdas' = memberPdas \cup {s}
  /\ pool' = [pool EXCEPT
       !.slots = @ \cup {s},
       !.members_joined = @ + 1,
       !.escrow_balance = @ + stake,
       !.status = IF full THEN "Active" ELSE @,
       !.next_cycle_at = IF full THEN now + CycleDuration ELSE @]
  /\ AutoDraw(full)
  /\ UNCHANGED <<config, treasury, attestations, now>>

\* Permissionless backstop draw; a DrawResult is created once and never re-rolled.
NotDrawn == order = Undrawn

\* Drawing late without moving the first deadline.
DrawDeadline_mutant(next_cycle_at) == next_cycle_at

DrawDeadline(next_cycle_at) == Greater(next_cycle_at, now + CycleDuration)

FinalizeDraw ==
  /\ OrderingPolicy = "Sorteio"
  /\ pool.status = "Active"
  /\ pool.members_joined = MembersTarget
  /\ NotDrawn
  /\ order' \in DrawOrders
  /\ pool' = [pool EXCEPT !.next_cycle_at = DrawDeadline(@)]
  /\ UNCHANGED <<config, member, memberPdas, money, attestations, now>>

----------------------------------------------------------------------------
(* Contributing.                                                           *)

\* An overdue installment may still be paid while the grace window is open.
CatchUpOpen(cycle) == cycle < pool.current_cycle /\ now < GraceDeadline

\* A late last installment attested as LATE only.
contribution_schema_mutant(cycle, on_time) ==
  IF ~on_time THEN "LATE"
  ELSE IF cycle + 1 = CyclesTotal THEN "POOL_COMPLETE" ELSE "PAYMENT"

\* Paying the last installment is completion, whether it is late or not.
contribution_schema(cycle, on_time) ==
  IF cycle + 1 = CyclesTotal THEN "POOL_COMPLETE"
  ELSE IF on_time THEN "PAYMENT" ELSE "LATE"

Contribute(s) ==
  LET m       == member[s]
      cycle   == m.contributions_paid
      on_time == now <= installment_deadline(cycle)
  IN
  /\ ~config.paused
  /\ pool.status = "Active"
  /\ Live(s)
  /\ cycle >= pool.current_cycle \/ CatchUpOpen(cycle)
  /\ cycle < CyclesTotal
  /\ wallet[s] >= InstallmentAmount
  /\ wallet' = [wallet EXCEPT ![s] =
       @ - (Split.solidarity + Split.escrow + Split.pool)]
  /\ vault' = [vault EXCEPT !.solidarity = @ + Split.solidarity,
                            !.escrow = @ + Split.escrow,
                            !.pool_usdc = @ + Split.pool]
  /\ member' = [member EXCEPT ![s] = [m EXCEPT
       !.on_time_count = IF on_time THEN @ + 1 ELSE @,
       !.late_count = IF on_time THEN @ ELSE @ + 1,
       !.contributions_paid = @ + 1,
       !.escrow_balance = @ + Split.escrow,
       !.total_escrow_deposited = @ + Split.escrow]]
  /\ pool' = [pool EXCEPT !.total_contributed = @ + InstallmentAmount,
                          !.solidarity_balance = @ + Split.solidarity,
                          !.escrow_balance = @ + Split.escrow]
  /\ Attest({Attestation(contribution_schema(cycle, on_time), cycle, s)})
  /\ UNCHANGED <<config, memberPdas, order, treasury, now>>

----------------------------------------------------------------------------
(* Paying the contemplated member, and advancing the cycle.                *)

\* Before SEV-053: anchored on the schedule alone.
Reanchored_mutant(next_cycle_at) == next_cycle_at + CycleDuration

\* SEV-053: the next deadline is anchored on the later of schedule and clock.
Reanchored(next_cycle_at) == Greater(next_cycle_at, now) + CycleDuration

\* An off-by-one in the test for the last cycle.
AdvancedCycle_mutant(p) ==
  IF p.current_cycle >= CyclesTotal
  THEN [p EXCEPT !.current_bid_depth = 0, !.status = "Completed"]
  ELSE [p EXCEPT !.current_bid_depth = 0, !.current_cycle = @ + 1,
                 !.next_cycle_at = Reanchored(@)]

\* The pot is advanced past the bids of its cycle, and their depth stays.
AdvancedCycle_stale_bid(p) ==
  IF p.current_cycle + 1 >= CyclesTotal
  THEN [p EXCEPT !.status = "Completed"]
  ELSE [p EXCEPT !.current_cycle = @ + 1, !.next_cycle_at = Reanchored(@)]

\* The tail shared by claim_payout, crank_payout and skip_defaulted_payout.
AdvancedCycle(p) ==
  LET cleared == [p EXCEPT !.current_bid_depth = 0]
  IN  IF p.current_cycle + 1 >= CyclesTotal
      THEN [cleared EXCEPT !.status = "Completed"]
      ELSE [cleared EXCEPT !.current_cycle = @ + 1,
                           !.next_cycle_at = Reanchored(@)]

\* Invariant #1 of the code: only the first payout has to meet the seed draw.
SeedDrawMet ==
  pool.current_cycle = 0 =>
    retained_meets_seed_draw(MembersTarget, InstallmentAmount, SEED_DRAW_BPS,
                             vault.pool_usdc + pool.escrow_balance)

\* Counting the escrow of the pool as float, as the seed draw does.
Spendable_mutant ==
  SaturatingSub(vault.pool_usdc + pool.escrow_balance,
    pool.guarantee_fund_balance + pool.lp_distribution_balance)

\* What a payout may spend: the Guarantee Fund and LP earmarks stay.
Spendable ==
  SaturatingSub(vault.pool_usdc,
    pool.guarantee_fund_balance + pool.lp_distribution_balance)

\* Seat s is the live, unpaid member contemplated in the current cycle.
Payable(s) ==
  /\ ~config.paused
  /\ pool.status = "Active"
  /\ Live(s)
  /\ ~member[s].paid_out
  /\ Contemplated(s, pool.current_cycle)
  /\ SeedDrawMet
  /\ Spendable >= CreditAmount

PayOut(s) ==
  /\ vault' = [vault EXCEPT !.pool_usdc = @ - CreditAmount]
  /\ wallet' = [wallet EXCEPT ![s] = @ + CreditAmount]
  /\ member' = [member EXCEPT ![s].paid_out = TRUE]
  /\ pool' = [AdvancedCycle(pool) EXCEPT !.total_paid_out = @ + CreditAmount]
  /\ UNCHANGED <<config, memberPdas, order, treasury, now>>

\* The member's own claim: no lower bound on the clock.
ClaimPayout(s) ==
  /\ Payable(s)
  /\ PayOut(s)
  /\ Attest({Attestation("PAYOUT_CLAIMED", pool.current_cycle, s)})

\* Anyone may deliver the payout once the member let the grace window pass.
CrankPayout(s) ==
  /\ Payable(s)
  /\ now >= GraceDeadline
  /\ PayOut(s)
  /\ Attest({Attestation("PAYOUT_CLAIMED", pool.current_cycle, s),
             Attestation("CLAIM_NEGLECT", pool.current_cycle, s)})

\* Skipping whoever has not been paid.
Skippable_mutant(s) == ~member[s].paid_out

\* The contemplated member defaulted: its pot stays in the float.
Skippable(s) == member[s].defaulted /\ ~member[s].paid_out

SkipDefaultedPayout(s) ==
  /\ ~config.paused
  /\ pool.status = "Active"
  /\ s \in memberPdas
  /\ Skippable(s)
  /\ Contemplated(s, pool.current_cycle)
  /\ pool' = AdvancedCycle(pool)
  /\ UNCHANGED <<config, member, memberPdas, order, money, attestations, now>>

----------------------------------------------------------------------------
(* Settling a default, and releasing the stake.                            *)

\* Stake and escrow deposits lie in the same vault; each cap is clipped to
\* what that vault holds.
EscrowCap(m) == Lesser(m.escrow_balance, vault.escrow)
StakeCap(m) == Lesser(m.stake_deposited, SaturatingSub(vault.escrow, EscrowCap(m)))

Seizure(m) ==
  seize_for_default(
    [d_init |-> debt_initial, d_rem |-> debt_remaining(m),
     c_init |-> collateral_initial(m), c_before |-> collateral_remaining(m),
     missed |-> Lesser(InstallmentAmount, debt_remaining(m)),
     solidarity_available |-> vault.solidarity,
     escrow_cap |-> EscrowCap(m), stake_cap |-> StakeCap(m)])

Seized(m) ==
  LET z == Seizure(m)
  IN  [m EXCEPT !.escrow_balance = SaturatingSub(@, z.from_escrow),
                !.stake_deposited = SaturatingSub(@, z.from_stake)]

\* The seized stake is forgotten: it lies in the escrow vault too.
SeizureBooked_mutant(p, z) ==
  [p EXCEPT !.solidarity_balance = SaturatingSub(@, z.from_solidarity),
            !.escrow_balance = SaturatingSub(@, z.from_escrow)]

\* The pool's tallies of the two vaults after the seizure.
SeizureBooked(p, z) ==
  [p EXCEPT !.solidarity_balance = SaturatingSub(@, z.from_solidarity),
            !.escrow_balance = SaturatingSub(@, z.from_escrow + z.from_stake)]

\* The D/C check after the seizure; false means DebtCollateralViolation.
SettlementHoldsDC(m) ==
  dc_invariant_holds(debt_initial, debt_remaining(m), collateral_initial(m),
                     collateral_remaining(Seized(m)))

\* The pause flag also stops the settlements.
Delinquent_mutant(s) ==
  /\ ~config.paused
  /\ member[s].contributions_paid < pool.current_cycle
  /\ now >= GraceDeadline

\* The member is behind and the grace window is over.
Delinquent(s) ==
  /\ member[s].contributions_paid < pool.current_cycle
  /\ now >= GraceDeadline

\* Permissionless, and deliberately not stopped by the pause flag.
SettleDefault(s) ==
  LET m == member[s]
      z == Seizure(m)
  IN
  /\ pool.status = "Active"
  /\ Live(s)
  /\ Delinquent(s)
  /\ SettlementHoldsDC(m)
  /\ vault' = [vault EXCEPT
       !.solidarity = @ - z.from_solidarity,
       !.escrow = @ - (z.from_escrow + z.from_stake),
       !.pool_usdc = @ + (z.from_solidarity + z.from_escrow + z.from_stake)]
  /\ member' = [member EXCEPT ![s] = [Seized(m) EXCEPT !.defaulted = TRUE]]
  /\ pool' = [SeizureBooked(pool, z) EXCEPT !.defaulted_members = @ + 1]
  /\ Attest({Attestation("DEFAULT", pool.current_cycle, s)})
  /\ UNCHANGED <<config, memberPdas, order, wallet, treasury, now>>

\* SEV-029: released so far taken as stake minus escrow balance.
ReleaseTarget_mutant(m, checkpoint) ==
  SaturatingSub(cumulative_vested(m.stake_deposited_initial, checkpoint, CyclesTotal),
                SaturatingSub(m.stake_deposited_initial, m.escrow_balance))

\* What release_escrow still owes member m at a checkpoint.
ReleaseTarget(m, checkpoint) ==
  compute_release_delta_target(m.stake_deposited_initial,
    m.total_escrow_deposited, m.escrow_balance, checkpoint, CyclesTotal)

\* The checkpoint is new, already reached, and backed by on-time payments.
CheckpointReached(m, checkpoint) ==
  /\ checkpoint > m.last_released_checkpoint
  /\ checkpoint <= pool.current_cycle + 1
  /\ m.on_time_count >= checkpoint

ReleaseEscrow(s, checkpoint) ==
  LET m     == member[s]
      owed  == ReleaseTarget(m, checkpoint)
      delta == Lesser(owed, vault.escrow)
  IN
  /\ ~config.paused
  /\ pool.status # "Gone"
  /\ Live(s)
  /\ CheckpointReached(m, checkpoint)
  /\ owed > 0 /\ owed <= m.escrow_balance
  /\ delta > 0 /\ delta <= pool.escrow_balance
  /\ vault' = [vault EXCEPT !.escrow = @ - delta]
  /\ wallet' = [wallet EXCEPT ![s] = @ + delta]
  /\ member' = [member EXCEPT ![s] = [m EXCEPT
       !.escrow_balance = @ - delta,
       !.last_released_checkpoint = checkpoint]]
  /\ pool' = [pool EXCEPT !.escrow_balance = @ - delta]
  /\ UNCHANGED <<config, memberPdas, order, treasury, attestations, now>>

----------------------------------------------------------------------------
(* Emergency stop, closing ceremony, clock.                                *)

Pause ==
  /\ MayPause
  /\ config' = [config EXCEPT !.paused = ~@]
  /\ UNCHANGED <<pool, member, memberPdas, order, money, attestations, now>>

ClosePool ==
  /\ pool.status = "Completed"
  /\ config' = [config EXCEPT !.committed_protocol_tvl_usdc =
       SaturatingSub(@, CreditAmount * CyclesTotal)]
  /\ pool' = [pool EXCEPT !.status = "Closed"]
  /\ UNCHANGED <<member, memberPdas, order, money, attestations, now>>

\* By the pool authority, the protocol authority or the member itself.
CloseMember(s) ==
  /\ pool.status = "Closed"
  /\ s \in memberPdas
  /\ memberPdas' = memberPdas \ {s}
  /\ pool' = [pool EXCEPT !.members_joined = SaturatingSub(@, 1)]
  /\ UNCHANGED <<config, member, order, money, attestations, now>>

ClosePoolVaults ==
  /\ pool.status = "Closed"
  /\ pool.members_joined = 0
  /\ treasury' = treasury + (vault.pool_usdc + vault.escrow + vault.solidarity)
  /\ vault' = [pool_usdc |-> 0, escrow |-> 0, solidarity |-> 0]
  /\ pool' = [pool EXCEPT !.status = "Gone"]
  /\ UNCHANGED <<config, member, memberPdas, order, wallet, attestations, now>>

\* Time passes; it stops mattering MaxLag after the deadline of the current
\* cycle, where every window of that cycle is over.
Tick ==
  /\ pool.status = "Active"
  /\ now < pool.next_cycle_at + MaxLag
  /\ now' = now + 1
  /\ UNCHANGED <<config, pool, member, memberPdas, order, money, attestations>>

----------------------------------------------------------------------------

Next ==
  \/ \E s \in Seats, level \in Levels : JoinPool(s, level)
  \/ FinalizeDraw
  \/ \E s \in Seats : Contribute(s)
  \/ \E s \in Seats : ClaimPayout(s)
  \/ \E s \in Seats : CrankPayout(s)
  \/ \E s \in Seats : SkipDefaultedPayout(s)
  \/ \E s \in Seats : SettleDefault(s)
  \/ \E s \in Seats, checkpoint \in 1 .. CyclesTotal : ReleaseEscrow(s, checkpoint)
  \/ Pause
  \/ ClosePool
  \/ \E s \in Seats : CloseMember(s)
  \/ ClosePoolVaults
  \/ Tick

Spec == Init /\ [][Next]_vars

----------------------------------------------------------------------------
(* Types.                                                                  *)

PoolRecord ==
  [status : PoolStatus, members_joined : Nat, slots : SUBSET Seats,
   current_cycle : Cycles, next_cycle_at : Nat,
   total_contributed : Nat, total_paid_out : Nat,
   solidarity_balance : Nat, escrow_balance : Nat,
   guarantee_fund_balance : Nat, lp_distribution_balance : Nat,
   defaulted_members : Nat, current_bid_depth : Nat]

MemberRecord ==
  [stake_deposited : Nat, stake_deposited_initial : Nat, escrow_balance : Nat,
   total_escrow_deposited : Nat, contributions_paid : 0 .. CyclesTotal,
   on_time_count : Nat, late_count : Nat,
   last_released_checkpoint : 0 .. CyclesTotal,
   defaulted : BOOLEAN, paid_out : BOOLEAN]

AttestationRecord == [schema : Schema, cycle : Cycles, seat : Seats]

\* No account ever leaves its type: in particular no token account and no
\* unsigned field goes below zero, whatever order the handlers run in.
TypeOK ==
  /\ config \in [paused : BOOLEAN, committed_protocol_tvl_usdc : Nat]
  /\ pool \in PoolRecord
  /\ member \in [Seats -> MemberRecord]
  /\ memberPdas \in SUBSET Seats
  /\ order \in [Seats -> 0 .. CyclesTotal]
  /\ vault \in [pool_usdc : Nat, escrow : Nat, solidarity : Nat]
  /\ wallet \in [Seats -> Nat]
  /\ treasury \in Nat
  /\ attestations \in SUBSET AttestationRecord
  /\ now \in Nat

----------------------------------------------------------------------------
(* Safety.                                                                 *)

\* pool.escrow_balance and pool.solidarity_balance are counters kept beside
\* the vaults, updated with saturating_sub by settle_default: they never drift
\* from what the vaults hold, so no saturation ever hides a loss.
TalliesMatchVaults ==
  pool.status # "Gone" =>
    /\ pool.escrow_balance = vault.escrow
    /\ pool.solidarity_balance = vault.solidarity

\* How many payout cycles are over.
Served == IF pool.status \in {"Forming", "Active"} THEN pool.current_cycle
                                                   ELSE CyclesTotal

\* claim_payout, crank_payout and skip_defaulted_payout together serve every
\* seat in its own cycle: none is paid before its turn, and a turn is over
\* only for a seat that was paid or that forfeited by defaulting.
ServedInOrder ==
  \A s \in Seats :
    /\ member[s].paid_out => order[s] < Served
    /\ order[s] < Served => member[s].paid_out \/ member[s].defaulted

\* What release_escrow has paid a live member never exceeds what its stake had
\* vested at the last checkpoint it released (the SEV-016/029/034 chain): the
\* derived counter survives contributions that land between two releases.
StakeNeverOverReleased ==
  \A s \in Seats :
    LET m == member[s]
    IN  ~m.defaulted =>
          m.stake_deposited_initial + m.total_escrow_deposited - m.escrow_balance
            <= cumulative_vested(m.stake_deposited_initial,
                                 m.last_released_checkpoint, CyclesTotal)

\* The D/C check that ends settle_default never turns down a seizure, so the
\* collateral of a live member can always be settled (SEV-054), however many
\* installments it paid and however much stake it had released.
SettlementNeverBlocked ==
  \A s \in Seats : Live(s) => SettlementHoldsDC(member[s])

Issued(s, schemas) ==
  {a \in attestations : a.seat = s /\ a.schema \in schemas}

IssuedFor(s, schemas) == {a.cycle : a \in Issued(s, schemas)}

\* The attestation PDAs are a faithful record of the pool: one of PAYMENT, LATE
\* and POOL_COMPLETE per installment paid, POOL_COMPLETE exactly when the last
\* one is, PAYOUT_CLAIMED exactly for a seat paid and in its own cycle, and
\* DEFAULT exactly for a settled seat, which is never also POOL_COMPLETE.
AttestationsTellTheStory ==
  \A s \in Seats :
    LET m == member[s]
        installment == {"PAYMENT", "LATE", "POOL_COMPLETE"}
    IN  /\ IssuedFor(s, installment) = 0 .. m.contributions_paid - 1
        /\ Cardinality(Issued(s, installment)) = m.contributions_paid
        /\ IssuedFor(s, {"POOL_COMPLETE"}) =
             {c \in {CyclesTotal - 1} : m.contributions_paid = CyclesTotal}
        /\ IssuedFor(s, {"PAYOUT_CLAIMED"}) = {c \in {order[s]} : m.paid_out}
        /\ IssuedFor(s, {"CLAIM_NEGLECT"}) \subseteq IssuedFor(s, {"PAYOUT_CLAIMED"})
        /\ m.defaulted <=> Issued(s, {"DEFAULT"}) # {}
        /\ m.defaulted => m.contributions_paid < CyclesTotal

\* settle_default is irreversible: afterwards no handler changes the Member
\* account, so a settled seat is never paid, released or settled again.
DefaultIsFinal ==
  [][\A s \in Seats : member[s].defaulted => member'[s] = member[s]]_vars

\* A DrawResult is created once: no later call re-rolls the payout order, and
\* the order drawn gives every cycle to exactly one seat.
DrawnOnce ==
  [][order' # order => order = Undrawn /\ order' \in DrawOrders]_vars

\* finalize_draw may land long after the pool filled: whatever it lost, cycle 0
\* still opens a full window from the draw.
FullWindowAfterDraw ==
  [][order = Undrawn /\ order' # order =>
       pool'.next_cycle_at >= now' + CycleDuration]_vars

----------------------------------------------------------------------------
(* Statements of the repository that the code does not keep.               *)

\* settle_default.rs:15-16: "All seized funds flow into pool_usdc_vault so
\* remaining members never foot the bill", that is, the escrow vault always
\* still holds what the live members have in escrow.
EscrowBacked ==
  pool.status = "Active" =>
    SumFunctionOnSet([s \in Seats |-> member[s].escrow_balance],
                     {s \in Seats : Live(s)}) <= vault.escrow
=============================================================================
