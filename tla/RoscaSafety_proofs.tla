------------------------- MODULE RoscaSafety_proofs -------------------------
(***************************************************************************)
(* The safety properties of RoscaPool for every pool create_pool accepts:  *)
(* type correctness first (no token account, wallet or unsigned field ever *)
(* goes below zero), then what rests on it.  And in every pool LATE and    *)
(* DEFAULT surprise nobody, however late the turns end and the order is    *)
(* drawn.                                                                  *)
(***************************************************************************)
EXTENDS RoscaPool, RoundfiMath_proofs, RoscaHistory

\* What the constants are, in the form the proofs use.
LEMMA Constants ==
  /\ MembersTarget \in Nat \ {0} /\ CyclesTotal = MembersTarget
  /\ InstallmentAmount \in Nat \ {0}
  /\ CreditAmount \in Nat \ {0}
  /\ EscrowReleaseBps \in Nat
  /\ SOLIDARITY_BPS \in Nat
  /\ SOLIDARITY_BPS + EscrowReleaseBps <= MAX_BPS
  /\ CycleDuration \in Nat \ {0} /\ GracePeriod \in Nat \ {0}
  /\ OrderingPolicy \in {"ArrivalOrder", "Sorteio"}
  /\ Funds \in [Seats -> Nat]
BY PoolAssumption, ClockAssumption, ActorAssumption
   DEF pool_is_viable, MAX_BPS, SOLIDARITY_BPS, CyclesTotal

\* Every installment is split without a remainder.
LEMMA SplitType ==
  /\ Split.solidarity \in Nat /\ Split.escrow \in Nat /\ Split.pool \in Nat
  /\ Split.solidarity + Split.escrow + Split.pool = InstallmentAmount
BY Constants, SplitConserves DEF Split

LEMMA StakeNat == ASSUME NEW level PROVE StakeAmount(level) \in Nat
<1>1. stake_bps_for_level(level) \in {5000, 2500, 1000, 300}
  BY DEF stake_bps_for_level
<1>2. stake_bps_for_level(level) \in Nat
  BY <1>1
<1> QED BY <1>2, Constants, ApplyBpsNat DEF StakeAmount

\* The three amounts a settlement moves are covered by the vaults they leave
\* and by the fields they are booked against.
LEMMA SeizureBounds ==
  ASSUME TypeOK, NEW s \in Seats
  PROVE  LET m == member[s]
             z == Seizure(m)
         IN  /\ z.from_solidarity \in Nat /\ z.from_solidarity <= vault.solidarity
             /\ z.from_escrow \in Nat /\ z.from_escrow <= m.escrow_balance
             /\ z.from_stake \in Nat /\ z.from_stake <= m.stake_deposited
             /\ z.from_escrow + z.from_stake <= vault.escrow
<1> DEFINE m == member[s]
           z == Seizure(m)
<1>1. /\ m \in MemberRecord
      /\ vault.escrow \in Nat /\ vault.solidarity \in Nat
  BY DEF TypeOK
<1> HIDE DEF m
<1>2. /\ m.escrow_balance \in Nat /\ m.stake_deposited \in Nat
      /\ m.stake_deposited_initial \in Nat /\ m.total_escrow_deposited \in Nat
      /\ m.contributions_paid \in Nat
  BY <1>1, Constants DEF MemberRecord
<1>3. /\ EscrowCap(m) \in Nat /\ EscrowCap(m) <= m.escrow_balance
      /\ EscrowCap(m) <= vault.escrow
  BY <1>1, <1>2, LesserNat DEF EscrowCap
<1>4. /\ SaturatingSub(vault.escrow, EscrowCap(m)) = vault.escrow - EscrowCap(m)
        /\ SaturatingSub(vault.escrow, EscrowCap(m)) \in Nat
  BY <1>1, <1>3 DEF SaturatingSub
<1>5. /\ StakeCap(m) \in Nat /\ StakeCap(m) <= m.stake_deposited
      /\ StakeCap(m) <= vault.escrow - EscrowCap(m)
  BY <1>1, <1>2, <1>3, <1>4, LesserNat DEF StakeCap
<1>6. SaturatingSub(CyclesTotal, m.contributions_paid) \in Nat
  BY <1>2, Constants, SaturatingSubNat
<1>7. debt_initial \in Nat /\ debt_remaining(m) \in Nat
  BY <1>6, Constants, MulMonotone DEF debt_initial, debt_remaining
<1>8. collateral_initial(m) \in Nat /\ collateral_remaining(m) \in Nat
  BY <1>2 DEF collateral_initial, collateral_remaining
<1>9. Lesser(InstallmentAmount, debt_remaining(m)) \in Nat
  BY <1>7, Constants, LesserNat
<1> DEFINE ins == [d_init |-> debt_initial, d_rem |-> debt_remaining(m),
                   c_init |-> collateral_initial(m), c_before |-> collateral_remaining(m),
                   missed |-> Lesser(InstallmentAmount, debt_remaining(m)),
                   solidarity_available |-> vault.solidarity,
                   escrow_cap |-> EscrowCap(m), stake_cap |-> StakeCap(m)]
<1>10. ins \in CascadeInputs
  BY <1>1, <1>3, <1>5, <1>7, <1>8, <1>9 DEF CascadeInputs
<1>11. z = seize_for_default(ins)
  BY DEF Seizure
<1>12. /\ ins.solidarity_available = vault.solidarity
       /\ ins.escrow_cap = EscrowCap(m) /\ ins.stake_cap = StakeCap(m)
  OBVIOUS
<1> HIDE DEF ins, z
<1>13. /\ z.from_solidarity \in Nat /\ z.from_solidarity <= vault.solidarity
       /\ z.from_escrow \in Nat /\ z.from_escrow <= EscrowCap(m)
       /\ z.from_stake \in Nat /\ z.from_stake <= StakeCap(m)
  BY <1>10, <1>11, <1>12, CascadeWithinCaps
<1> QED BY <1>1, <1>2, <1>3, <1>5, <1>13 DEF z, m

----------------------------------------------------------------------------
(* One lemma per handler that does more than flip a status.                *)

LEMMA BlankType == BlankMember \in MemberRecord
BY Constants DEF BlankMember, MemberRecord

\* A Pool account after a change of the fields the handlers change.
LEMMA PoolUpdate ==
  ASSUME NEW p \in PoolRecord, NEW a \in Nat, NEW b \in Nat, NEW c \in Nat,
         NEW st \in PoolStatus, NEW slots \in SUBSET Seats
  PROVE  /\ [p EXCEPT !.slots = slots, !.members_joined = a, !.escrow_balance = b,
                      !.status = st, !.next_cycle_at = c] \in PoolRecord
         /\ [p EXCEPT !.total_contributed = a, !.solidarity_balance = b,
                      !.escrow_balance = c] \in PoolRecord
         /\ [p EXCEPT !.solidarity_balance = a, !.escrow_balance = b,
                      !.defaulted_members = c] \in PoolRecord
BY DEF PoolRecord

\* The same for the end of a cycle.
LEMMA PoolAdvance ==
  ASSUME NEW p \in PoolRecord, NEW st \in PoolStatus, NEW cycle \in Cycles,
         NEW due \in Nat
  PROVE  /\ [p EXCEPT !.current_bid_depth = 0, !.status = st] \in PoolRecord
         /\ [p EXCEPT !.current_bid_depth = 0, !.current_cycle = cycle,
                      !.next_cycle_at = due] \in PoolRecord
BY DEF PoolRecord

LEMMA InitType == Init => TypeOK
<1> SUFFICES ASSUME Init PROVE TypeOK
  OBVIOUS
<1>1. CreditAmount * CyclesTotal \in Nat
  BY Constants
<1>2. BlankMember \in MemberRecord
  BY Constants DEF BlankMember, MemberRecord
<1>3. order \in [Seats -> 0 .. CyclesTotal]
  BY Constants DEF Init, Undrawn, Seats
<1>4. pool \in PoolRecord
  BY Constants DEF Init, PoolRecord, PoolStatus, Cycles
<1> QED BY <1>1, <1>2, <1>3, <1>4, Constants DEF Init, TypeOK

LEMMA JoinType ==
  ASSUME TypeOK, NEW s \in Seats, NEW level \in Levels, JoinPool(s, level)
  PROVE  TypeOK'
<1> DEFINE stake == StakeAmount(level)
<1>1. stake \in Nat
  BY StakeNat
<1> HIDE DEF stake
<1>2. member' \in [Seats -> MemberRecord]
  <2>1. [BlankMember EXCEPT !.stake_deposited = stake,
                            !.stake_deposited_initial = stake,
                            !.escrow_balance = stake] \in MemberRecord
    BY <1>1, BlankType DEF MemberRecord
  <2> QED BY <2>1 DEF JoinPool, TypeOK, stake
<1>3. pool' \in PoolRecord
  <2>1. /\ pool.members_joined + 1 \in Nat /\ pool.escrow_balance + stake \in Nat
        /\ pool.slots \cup {s} \in SUBSET Seats
        /\ pool.next_cycle_at \in Nat /\ pool.status \in PoolStatus
        /\ pool \in PoolRecord
    BY <1>1 DEF TypeOK, PoolRecord
  <2>2. now + CycleDuration \in Nat /\ "Active" \in PoolStatus
    BY Constants DEF TypeOK, PoolStatus
  <2> DEFINE full == pool.members_joined + 1 = MembersTarget
             st   == IF full THEN "Active" ELSE pool.status
             due  == IF full THEN now + CycleDuration ELSE pool.next_cycle_at
  <2>3. pool' = [pool EXCEPT !.slots = pool.slots \cup {s},
                             !.members_joined = pool.members_joined + 1,
                             !.escrow_balance = pool.escrow_balance + stake,
                             !.status = st, !.next_cycle_at = due]
    BY DEF JoinPool, stake
  <2>4. st \in PoolStatus /\ due \in Nat
    BY <2>1, <2>2
  <2> HIDE DEF st, due
  <2> QED BY <2>1, <2>3, <2>4, PoolUpdate
<1>4. order' \in [Seats -> 0 .. CyclesTotal]
  <2>1. DrawOrders \subseteq [Seats -> Cycles]
    BY DEF DrawOrders, Bijection, Injection
  <2>2. Cycles \subseteq 0 .. CyclesTotal
    BY Constants DEF Cycles
  <2> QED BY <2>1, <2>2 DEF JoinPool, AutoDraw, TypeOK
<1>5. vault' \in [pool_usdc : Nat, escrow : Nat, solidarity : Nat]
      /\ wallet' \in [Seats -> Nat]
  BY <1>1 DEF JoinPool, TypeOK, stake
<1>6. memberPdas' \in SUBSET Seats
  BY DEF JoinPool, TypeOK
<1> QED BY <1>2, <1>3, <1>4, <1>5, <1>6 DEF JoinPool, TypeOK

LEMMA DrawType == ASSUME TypeOK, FinalizeDraw PROVE TypeOK'
<1>1. order' \in [Seats -> 0 .. CyclesTotal]
  <2>1. DrawOrders \subseteq [Seats -> Cycles]
    BY DEF DrawOrders, Bijection, Injection
  <2>2. Cycles \subseteq 0 .. CyclesTotal
    BY Constants DEF Cycles
  <2> QED BY <2>1, <2>2 DEF FinalizeDraw
<1>2. pool' \in PoolRecord
  BY Constants DEF FinalizeDraw, TypeOK, PoolRecord, DrawDeadline, Greater
<1> QED BY <1>1, <1>2 DEF FinalizeDraw, TypeOK, money

LEMMA ContributeType ==
  ASSUME TypeOK, NEW s \in Seats, Contribute(s)
  PROVE  TypeOK'
<1> DEFINE m == member[s]
           sol == Split.solidarity
           esc == Split.escrow
           flt == Split.pool
<1>1. /\ sol \in Nat /\ esc \in Nat /\ flt \in Nat
      /\ sol + esc + flt = InstallmentAmount
  BY SplitType
<1> HIDE DEF sol, esc, flt
<1>2. m \in MemberRecord /\ m.contributions_paid < CyclesTotal
  BY DEF TypeOK, Contribute
<1>3. wallet' \in [Seats -> Nat]
  BY <1>1, Constants DEF Contribute, TypeOK, sol, esc, flt
<1>4. vault' \in [pool_usdc : Nat, escrow : Nat, solidarity : Nat]
  <2>1. vault' = [vault EXCEPT !.solidarity = vault.solidarity + sol,
                               !.escrow = vault.escrow + esc,
                               !.pool_usdc = vault.pool_usdc + flt]
    BY DEF Contribute, sol, esc, flt
  <2>2. /\ vault.solidarity + sol \in Nat /\ vault.escrow + esc \in Nat
        /\ vault.pool_usdc + flt \in Nat
        /\ vault \in [pool_usdc : Nat, escrow : Nat, solidarity : Nat]
    BY <1>1 DEF TypeOK
  <2> QED BY <2>1, <2>2
<1>5. member' \in [Seats -> MemberRecord]
  <2> DEFINE on_time == now <= installment_deadline(m.contributions_paid)
  <2> HIDE DEF on_time
  <2>1. [m EXCEPT !.on_time_count = IF on_time THEN @ + 1 ELSE @,
                  !.late_count = IF on_time THEN @ ELSE @ + 1,
                  !.contributions_paid = @ + 1,
                  !.escrow_balance = @ + esc,
                  !.total_escrow_deposited = @ + esc] \in MemberRecord
    <3>1. /\ m.on_time_count \in Nat /\ m.late_count \in Nat
          /\ m.on_time_count + 1 \in Nat /\ m.late_count + 1 \in Nat
          /\ m.contributions_paid + 1 \in 0 .. CyclesTotal
          /\ m.escrow_balance + esc \in Nat
          /\ m.total_escrow_deposited + esc \in Nat
      BY <1>1, <1>2, Constants DEF MemberRecord
    <3> QED BY <1>2, <3>1 DEF MemberRecord
  <2> QED BY <2>1 DEF Contribute, TypeOK, esc, on_time
<1>6. pool' \in PoolRecord
  <2>1. pool' = [pool EXCEPT
          !.total_contributed = pool.total_contributed + InstallmentAmount,
          !.solidarity_balance = pool.solidarity_balance + sol,
          !.escrow_balance = pool.escrow_balance + esc]
    BY DEF Contribute, sol, esc
  <2>2. /\ pool \in PoolRecord
        /\ pool.total_contributed + InstallmentAmount \in Nat
        /\ pool.solidarity_balance + sol \in Nat /\ pool.escrow_balance + esc \in Nat
    BY <1>1, Constants DEF TypeOK, PoolRecord
  <2>3. "Active" \in PoolStatus
    BY DEF PoolStatus
  <2> QED BY <2>1, <2>2, <2>3, PoolUpdate
<1>7. attestations' \in SUBSET AttestationRecord
  <2> DEFINE schema == contribution_schema(m.contributions_paid,
                         now <= installment_deadline(m.contributions_paid))
  <2>1. schema \in Schema
    BY DEF contribution_schema, Schema
  <2> HIDE DEF schema
  <2>2. m.contributions_paid \in Cycles
    BY <1>2, Constants DEF MemberRecord, Cycles
  <2>3. attestations' = attestations \cup {Attestation(schema, m.contributions_paid, s)}
    BY DEF Contribute, Attest, schema
  <2> QED BY <2>1, <2>2, <2>3 DEF TypeOK, Attestation, AttestationRecord
<1> QED BY <1>3, <1>4, <1>5, <1>6, <1>7 DEF Contribute, TypeOK

\* The next cycle stays below cycles_total.
LEMMA AdvancedType ==
  ASSUME TypeOK PROVE AdvancedCycle(pool) \in PoolRecord
<1>1. pool \in PoolRecord /\ now \in Nat
  BY DEF TypeOK
<1>2. Reanchored(pool.next_cycle_at) \in Nat
  BY <1>1, Constants DEF PoolRecord, Reanchored, Greater
<1>3. pool.current_cycle + 1 < CyclesTotal => pool.current_cycle + 1 \in Cycles
  BY <1>1, Constants DEF PoolRecord, Cycles
<1>4. CyclesTotal \in Nat /\ pool.current_cycle \in Nat /\ pool.current_cycle \in Cycles
  BY <1>1, Constants DEF PoolRecord, Cycles
<1>5. CASE pool.current_cycle + 1 >= CyclesTotal
  <2>1. AdvancedCycle(pool) = [pool EXCEPT !.current_bid_depth = 0, !.status = "Completed"]
    BY <1>5 DEF AdvancedCycle
  <2>2. "Completed" \in PoolStatus
    BY DEF PoolStatus
  <2>3. [pool EXCEPT !.current_bid_depth = 0, !.status = "Completed"] \in PoolRecord
    BY <1>1, <1>2, <1>4, <2>2, PoolAdvance
  <2> QED BY <2>1, <2>3
<1>6. CASE ~(pool.current_cycle + 1 >= CyclesTotal)
  <2>1. AdvancedCycle(pool) =
          [pool EXCEPT !.current_bid_depth = 0,
                       !.current_cycle = pool.current_cycle + 1,
                       !.next_cycle_at = Reanchored(pool.next_cycle_at)]
    BY <1>1, <1>6 DEF AdvancedCycle, PoolRecord
  <2>2. pool.current_cycle + 1 \in Cycles /\ "Active" \in PoolStatus
    BY <1>3, <1>4, <1>6 DEF PoolStatus
  <2>3. [pool EXCEPT !.current_bid_depth = 0,
                     !.current_cycle = pool.current_cycle + 1,
                     !.next_cycle_at = Reanchored(pool.next_cycle_at)] \in PoolRecord
    BY <1>1, <1>2, <2>2, PoolAdvance
  <2> QED BY <2>1, <2>3
<1> QED BY <1>5, <1>6

\* The float pays the credit without going below zero.
LEMMA PayOutType ==
  ASSUME TypeOK, NEW s \in Seats, Payable(s), PayOut(s),
         NEW new, Attest(new),
         new \subseteq {Attestation("PAYOUT_CLAIMED", pool.current_cycle, s),
                        Attestation("CLAIM_NEGLECT", pool.current_cycle, s)}
  PROVE  TypeOK'
<1>1. vault.pool_usdc >= CreditAmount
  <2>1. /\ vault.pool_usdc \in Nat /\ pool.guarantee_fund_balance \in Nat
        /\ pool.lp_distribution_balance \in Nat
    BY DEF TypeOK, PoolRecord
  <2> QED BY <2>1, Constants DEF Payable, Spendable, SaturatingSub
<1>2. vault' \in [pool_usdc : Nat, escrow : Nat, solidarity : Nat]
      /\ wallet' \in [Seats -> Nat]
  BY <1>1, Constants DEF PayOut, TypeOK
<1>3. member' \in [Seats -> MemberRecord]
  BY DEF PayOut, TypeOK, MemberRecord
<1>4. pool' \in PoolRecord
  <2>1. AdvancedCycle(pool) \in PoolRecord
    BY AdvancedType
  <2> HIDE DEF PoolRecord
  <2>2. \A p \in PoolRecord : [p EXCEPT !.total_paid_out = @ + CreditAmount] \in PoolRecord
    BY Constants DEF PoolRecord
  <2> QED BY <2>1, <2>2 DEF PayOut
<1>5. attestations' \in SUBSET AttestationRecord
  <2>1. pool.current_cycle \in Cycles
    BY DEF TypeOK, PoolRecord
  <2>2. new \subseteq AttestationRecord
    BY <2>1 DEF Attestation, AttestationRecord, Schema
  <2> QED BY <2>2 DEF Attest, TypeOK
<1> QED BY <1>2, <1>3, <1>4, <1>5 DEF PayOut, TypeOK

LEMMA SkipType ==
  ASSUME TypeOK, NEW s \in Seats, SkipDefaultedPayout(s)
  PROVE  TypeOK'
<1>1. pool' \in PoolRecord
  BY AdvancedType DEF SkipDefaultedPayout
<1> QED BY <1>1 DEF SkipDefaultedPayout, TypeOK, money

LEMMA SettleType ==
  ASSUME TypeOK, NEW s \in Seats, SettleDefault(s)
  PROVE  TypeOK'
<1> DEFINE m == member[s]
           z == Seizure(m)
<1>1. /\ z.from_solidarity \in Nat /\ z.from_solidarity <= vault.solidarity
      /\ z.from_escrow \in Nat /\ z.from_escrow <= m.escrow_balance
      /\ z.from_stake \in Nat /\ z.from_stake <= m.stake_deposited
      /\ z.from_escrow + z.from_stake <= vault.escrow
  BY SeizureBounds
<1>2. m \in MemberRecord
  BY DEF TypeOK
<1> HIDE DEF z
<1>3. vault' \in [pool_usdc : Nat, escrow : Nat, solidarity : Nat]
  <2>1. vault' = [vault EXCEPT
          !.solidarity = vault.solidarity - z.from_solidarity,
          !.escrow = vault.escrow - (z.from_escrow + z.from_stake),
          !.pool_usdc = vault.pool_usdc +
                          (z.from_solidarity + z.from_escrow + z.from_stake)]
    BY DEF SettleDefault, z
  <2>2. /\ vault \in [pool_usdc : Nat, escrow : Nat, solidarity : Nat]
        /\ vault.solidarity - z.from_solidarity \in Nat
        /\ vault.escrow - (z.from_escrow + z.from_stake) \in Nat
        /\ vault.pool_usdc + (z.from_solidarity + z.from_escrow + z.from_stake) \in Nat
    BY <1>1 DEF TypeOK
  <2> QED BY <2>1, <2>2
<1>4. member' \in [Seats -> MemberRecord]
  <2>1. [Seized(m) EXCEPT !.defaulted = TRUE] \in MemberRecord
    BY <1>1, <1>2, SaturatingSubNat DEF Seized, MemberRecord, z
  <2> QED BY <2>1 DEF SettleDefault, TypeOK
<1>5. pool' \in PoolRecord
  <2>1. z.from_escrow + z.from_stake \in Nat
    BY <1>1
  <2>2. pool \in PoolRecord
    BY DEF TypeOK
  <2>3. SaturatingSub(pool.solidarity_balance, z.from_solidarity) \in Nat
        /\ SaturatingSub(pool.escrow_balance, z.from_escrow + z.from_stake) \in Nat
    BY <1>1, <2>1, <2>2, SaturatingSubNat DEF PoolRecord
  <2>4. pool.defaulted_members + 1 \in Nat
    BY <2>2 DEF PoolRecord
  <2>5. pool' = [pool EXCEPT
          !.solidarity_balance = SaturatingSub(pool.solidarity_balance, z.from_solidarity),
          !.escrow_balance = SaturatingSub(pool.escrow_balance, z.from_escrow + z.from_stake),
          !.defaulted_members = pool.defaulted_members + 1]
    BY <2>2 DEF SettleDefault, SeizureBooked, PoolRecord, z
  <2>6. "Active" \in PoolStatus
    BY DEF PoolStatus
  <2> QED BY <2>2, <2>3, <2>4, <2>5, <2>6, PoolUpdate
<1>6. attestations' \in SUBSET AttestationRecord
  BY DEF SettleDefault, Attest, Attestation, AttestationRecord, Schema, TypeOK, PoolRecord
<1> QED BY <1>3, <1>4, <1>5, <1>6 DEF SettleDefault, TypeOK

\* What a release may still pay is a natural number, whatever was released.
LEMMA ReleaseNat ==
  ASSUME TypeOK, NEW s \in Seats, NEW checkpoint \in 1 .. CyclesTotal
  PROVE  ReleaseTarget(member[s], checkpoint) \in Nat
         /\ Lesser(ReleaseTarget(member[s], checkpoint), vault.escrow) \in Nat
<1> DEFINE m == member[s]
           owed == ReleaseTarget(m, checkpoint)
<1>1. m \in MemberRecord /\ vault.escrow \in Nat
  BY DEF TypeOK
<1>2. owed \in Nat
  <2>1. m.stake_deposited_initial * checkpoint \in Nat
    BY <1>1, Constants DEF MemberRecord
  <2>2. cumulative_vested(m.stake_deposited_initial, checkpoint, CyclesTotal) \in Nat
    BY <1>1, <2>1, Constants, DivBounds DEF cumulative_vested, MemberRecord
  <2>3. derive_total_released(m.stake_deposited_initial, m.total_escrow_deposited,
                              m.escrow_balance) \in Nat
    <3>1. m.stake_deposited_initial + m.total_escrow_deposited \in Nat
          /\ m.escrow_balance \in Nat
      BY <1>1 DEF MemberRecord
    <3> QED BY <3>1, SaturatingSubNat DEF derive_total_released
  <2> QED BY <2>2, <2>3, SaturatingSubNat DEF ReleaseTarget, compute_release_delta_target
<1> HIDE DEF owed
<1>3. Lesser(owed, vault.escrow) \in Nat
  BY <1>1, <1>2, LesserNat
<1> QED BY <1>2, <1>3 DEF owed

LEMMA ReleaseType ==
  ASSUME TypeOK, NEW s \in Seats, NEW checkpoint \in 1 .. CyclesTotal,
         ReleaseEscrow(s, checkpoint)
  PROVE  TypeOK'
<1> DEFINE m == member[s]
           owed == ReleaseTarget(m, checkpoint)
           delta == Lesser(owed, vault.escrow)
<1>1. m \in MemberRecord /\ vault.escrow \in Nat /\ pool \in PoolRecord
  BY DEF TypeOK
<1>2. owed \in Nat
  BY ReleaseNat
<1> HIDE DEF owed
<1>3. delta \in Nat /\ delta <= owed /\ delta <= vault.escrow
  BY <1>1, <1>2, LesserNat
<1> HIDE DEF delta
<1>4. owed <= m.escrow_balance /\ delta <= pool.escrow_balance
  BY DEF ReleaseEscrow, owed, delta
<1>5. vault' \in [pool_usdc : Nat, escrow : Nat, solidarity : Nat]
      /\ wallet' \in [Seats -> Nat]
  BY <1>3 DEF ReleaseEscrow, TypeOK, delta, owed
<1>6. member' \in [Seats -> MemberRecord]
  <2>1. [m EXCEPT !.escrow_balance = @ - delta,
                  !.last_released_checkpoint = checkpoint] \in MemberRecord
    <3>1. m.escrow_balance - delta \in Nat /\ checkpoint \in 0 .. CyclesTotal
      BY <1>1, <1>2, <1>3, <1>4, Constants DEF MemberRecord
    <3> QED BY <1>1, <3>1 DEF MemberRecord
  <2> QED BY <2>1 DEF ReleaseEscrow, TypeOK, delta, owed
<1>7. pool' \in PoolRecord
  BY <1>1, <1>3, <1>4 DEF ReleaseEscrow, PoolRecord, delta, owed
<1> QED BY <1>5, <1>6, <1>7 DEF ReleaseEscrow, TypeOK

LEMMA CeremonyType ==
  ASSUME TypeOK,
         \/ Pause \/ ClosePool \/ ClosePoolVaults \/ Tick
         \/ \E s \in Seats : CloseMember(s)
  PROVE  TypeOK'
<1>1. CASE Pause
  BY <1>1 DEF Pause, TypeOK, money
<1>2. CASE ClosePool
  <2>1. CreditAmount * CyclesTotal \in Nat
    BY Constants
  <2>2. SaturatingSub(config.committed_protocol_tvl_usdc, CreditAmount * CyclesTotal) \in Nat
    BY <2>1, SaturatingSubNat DEF TypeOK
  <2>3. pool' \in PoolRecord
    BY <1>2 DEF ClosePool, TypeOK, PoolRecord, PoolStatus
  <2> QED BY <1>2, <2>2, <2>3 DEF ClosePool, TypeOK, money
<1>3. CASE ClosePoolVaults
  BY <1>3 DEF ClosePoolVaults, TypeOK, PoolRecord, PoolStatus
<1>4. CASE Tick
  BY <1>4 DEF Tick, TypeOK, money
<1>5. ASSUME NEW s \in Seats, CloseMember(s) PROVE TypeOK'
  <2>1. SaturatingSub(pool.members_joined, 1) \in Nat
    BY SaturatingSubNat DEF TypeOK, PoolRecord
  <2>2. pool' \in PoolRecord
    BY <1>5, <2>1 DEF CloseMember, TypeOK, PoolRecord
  <2> QED BY <1>5, <2>2 DEF CloseMember, TypeOK, money
<1> QED BY <1>1, <1>2, <1>3, <1>4, <1>5

\* Every handler keeps every account within its type.
LEMMA NextType == TypeOK /\ [Next]_vars => TypeOK'
<1> SUFFICES ASSUME TypeOK, [Next]_vars PROVE TypeOK'
  OBVIOUS
<1>1. ASSUME NEW s \in Seats, NEW level \in Levels, JoinPool(s, level) PROVE TypeOK'
  BY <1>1, JoinType
<1>2. CASE FinalizeDraw
  BY <1>2, DrawType
<1>3. ASSUME NEW s \in Seats, Contribute(s) PROVE TypeOK'
  BY <1>3, ContributeType
<1>4. ASSUME NEW s \in Seats, ClaimPayout(s) PROVE TypeOK'
  BY <1>4, PayOutType DEF ClaimPayout
<1>5. ASSUME NEW s \in Seats, CrankPayout(s) PROVE TypeOK'
  BY <1>5, PayOutType DEF CrankPayout
<1>6. ASSUME NEW s \in Seats, SkipDefaultedPayout(s) PROVE TypeOK'
  BY <1>6, SkipType
<1>7. ASSUME NEW s \in Seats, SettleDefault(s) PROVE TypeOK'
  BY <1>7, SettleType
<1>8. ASSUME NEW s \in Seats, NEW checkpoint \in 1 .. CyclesTotal,
             ReleaseEscrow(s, checkpoint)
      PROVE  TypeOK'
  BY <1>8, ReleaseType
<1>9. CASE Pause \/ ClosePool \/ ClosePoolVaults \/ Tick \/ \E s \in Seats : CloseMember(s)
  BY <1>9, CeremonyType
<1>10. CASE UNCHANGED vars
  BY <1>10 DEF TypeOK, vars, money
<1> QED BY <1>1, <1>2, <1>3, <1>4, <1>5, <1>6, <1>7, <1>8, <1>9, <1>10 DEF Next

\* For every pool create_pool accepts and whatever the handlers' order: no
\* token account, wallet or unsigned field goes below zero, no payout is made
\* past the last cycle and no member pays more installments than there are.
THEOREM TypeCorrect == Spec => []TypeOK
BY InitType, NextType, PTL DEF Spec

----------------------------------------------------------------------------
(* The tallies of the Pool account and the vaults.                         *)

\* No saturating subtraction of settle_default loses anything: what it takes
\* is in the vault, and the tally equals the vault before it.
LEMMA SettleTallies ==
  ASSUME TypeOK, TalliesMatchVaults, NEW s \in Seats, SettleDefault(s)
  PROVE  TalliesMatchVaults'
<1> DEFINE z == Seizure(member[s])
<1>1. /\ z.from_solidarity \in Nat /\ z.from_solidarity <= vault.solidarity
      /\ z.from_escrow \in Nat /\ z.from_stake \in Nat
      /\ z.from_escrow + z.from_stake <= vault.escrow
  BY SeizureBounds
<1> HIDE DEF z
<1>2. /\ pool.escrow_balance = vault.escrow
      /\ pool.solidarity_balance = vault.solidarity
      /\ vault.escrow \in Nat /\ vault.solidarity \in Nat
  BY DEF SettleDefault, TalliesMatchVaults, TypeOK
<1>3. /\ vault'.escrow = vault.escrow - (z.from_escrow + z.from_stake)
      /\ vault'.solidarity = vault.solidarity - z.from_solidarity
  BY DEF SettleDefault, TypeOK, z
<1>4. /\ pool'.escrow_balance =
           SaturatingSub(pool.escrow_balance, z.from_escrow + z.from_stake)
      /\ pool'.solidarity_balance =
           SaturatingSub(pool.solidarity_balance, z.from_solidarity)
  BY DEF SettleDefault, SeizureBooked, TypeOK, PoolRecord, z
<1> QED BY <1>1, <1>2, <1>3, <1>4 DEF TalliesMatchVaults, SaturatingSub

LEMMA NextTallies ==
  TypeOK /\ TalliesMatchVaults /\ [Next]_vars => TalliesMatchVaults'
<1> SUFFICES ASSUME TypeOK, TalliesMatchVaults, [Next]_vars PROVE TalliesMatchVaults'
  OBVIOUS
<1> USE DEF TalliesMatchVaults
<1>0. /\ pool \in PoolRecord
      /\ vault \in [pool_usdc : Nat, escrow : Nat, solidarity : Nat]
  BY DEF TypeOK
<1>1. ASSUME NEW s \in Seats, NEW level \in Levels, JoinPool(s, level)
      PROVE  TalliesMatchVaults'
  BY <1>0, <1>1 DEF JoinPool, PoolRecord
<1>2. CASE FinalizeDraw
  BY <1>0, <1>2 DEF FinalizeDraw, PoolRecord, money
<1>3. ASSUME NEW s \in Seats, Contribute(s) PROVE TalliesMatchVaults'
  BY <1>0, <1>3 DEF Contribute, PoolRecord
<1>4. ASSUME NEW s \in Seats, PayOut(s), pool.status = "Active" PROVE TalliesMatchVaults'
  <2>1. /\ pool'.escrow_balance = pool.escrow_balance
        /\ pool'.solidarity_balance = pool.solidarity_balance
    BY <1>0, <1>4 DEF PayOut, AdvancedCycle, PoolRecord
  <2> QED BY <1>0, <1>4, <2>1 DEF PayOut
<1>5. ASSUME NEW s \in Seats, SkipDefaultedPayout(s) PROVE TalliesMatchVaults'
  BY <1>0, <1>5 DEF SkipDefaultedPayout, AdvancedCycle, PoolRecord, money
<1>6. ASSUME NEW s \in Seats, SettleDefault(s) PROVE TalliesMatchVaults'
  BY <1>6, SettleTallies
<1>7. ASSUME NEW s \in Seats, NEW checkpoint \in 1 .. CyclesTotal,
             ReleaseEscrow(s, checkpoint)
      PROVE  TalliesMatchVaults'
  BY <1>0, <1>7 DEF ReleaseEscrow, PoolRecord
<1>8. CASE Pause \/ Tick \/ UNCHANGED vars
  BY <1>8 DEF Pause, Tick, vars, money
<1>9. CASE ClosePool \/ ClosePoolVaults \/ \E s \in Seats : CloseMember(s)
  BY <1>0, <1>9 DEF ClosePool, ClosePoolVaults, CloseMember, PoolRecord, money
<1> QED BY <1>1, <1>2, <1>3, <1>4, <1>5, <1>6, <1>7, <1>8, <1>9
        DEF Next, ClaimPayout, CrankPayout, Payable

\* The counters kept beside the vaults never drift from what they hold.
THEOREM TalliesAreExact == Spec => []TalliesMatchVaults
<1>1. Init => TalliesMatchVaults
  BY DEF Init, TalliesMatchVaults
<1> QED BY <1>1, NextTallies, TypeCorrect, PTL DEF Spec

----------------------------------------------------------------------------
(* A settled seat stays as it is.                                          *)

\* A Member account exists only for a taken seat, and only such a seat can
\* have defaulted: join_pool therefore never overwrites a settled account.
SeatsTaken ==
  /\ memberPdas \subseteq pool.slots
  /\ \A s \in Seats : member[s].defaulted => s \in pool.slots

LEMMA NextSeats == TypeOK /\ SeatsTaken /\ [Next]_vars => SeatsTaken'
<1> SUFFICES ASSUME TypeOK, SeatsTaken, [Next]_vars PROVE SeatsTaken'
  OBVIOUS
<1> USE DEF SeatsTaken
<1>0. pool \in PoolRecord /\ member \in [Seats -> MemberRecord]
  BY DEF TypeOK
<1>1. ASSUME NEW s \in Seats, NEW level \in Levels, JoinPool(s, level) PROVE SeatsTaken'
  <2>1. pool'.slots = pool.slots \cup {s} /\ memberPdas' = memberPdas \cup {s}
    BY <1>0, <1>1 DEF JoinPool, PoolRecord
  <2>2. \A t \in Seats \ {s} : member'[t] = member[t]
    BY <1>0, <1>1 DEF JoinPool
  <2> QED BY <2>1, <2>2
<1>2. ASSUME NEW s \in Seats, SettleDefault(s) PROVE SeatsTaken'
  <2>1. pool'.slots = pool.slots /\ memberPdas' = memberPdas /\ s \in memberPdas
    BY <1>0, <1>2 DEF SettleDefault, SeizureBooked, Live, PoolRecord
  <2>2. \A t \in Seats \ {s} : member'[t] = member[t]
    BY <1>0, <1>2 DEF SettleDefault
  <2> QED BY <2>1, <2>2
<1>3. ASSUME NEW s \in Seats, Contribute(s) PROVE SeatsTaken'
  <2>1. pool'.slots = pool.slots /\ memberPdas' = memberPdas
    BY <1>0, <1>3 DEF Contribute, PoolRecord
  <2>2. \A t \in Seats : member'[t].defaulted = member[t].defaulted
    BY <1>0, <1>3 DEF Contribute, MemberRecord
  <2> QED BY <2>1, <2>2
<1>4. ASSUME NEW s \in Seats, PayOut(s) PROVE SeatsTaken'
  <2>1. pool'.slots = pool.slots /\ memberPdas' = memberPdas
    BY <1>0, <1>4 DEF PayOut, AdvancedCycle, PoolRecord
  <2>2. \A t \in Seats : member'[t].defaulted = member[t].defaulted
    BY <1>0, <1>4 DEF PayOut, MemberRecord
  <2> QED BY <2>1, <2>2
<1>5. ASSUME NEW s \in Seats, NEW checkpoint \in 1 .. CyclesTotal,
             ReleaseEscrow(s, checkpoint)
      PROVE  SeatsTaken'
  <2>1. pool'.slots = pool.slots /\ memberPdas' = memberPdas
    BY <1>0, <1>5 DEF ReleaseEscrow, PoolRecord
  <2>2. \A t \in Seats : member'[t].defaulted = member[t].defaulted
    BY <1>0, <1>5 DEF ReleaseEscrow, MemberRecord
  <2> QED BY <2>1, <2>2
<1>6. CASE \/ FinalizeDraw \/ Pause \/ ClosePool \/ ClosePoolVaults \/ Tick
           \/ \E s \in Seats : SkipDefaultedPayout(s) \/ CloseMember(s)
  BY <1>0, <1>6 DEF FinalizeDraw, Pause, ClosePool, ClosePoolVaults, Tick, CloseMember,
                    SkipDefaultedPayout, AdvancedCycle, PoolRecord
<1>7. CASE UNCHANGED vars
  BY <1>7 DEF vars
<1> QED BY <1>1, <1>2, <1>3, <1>4, <1>5, <1>6, <1>7 DEF Next, ClaimPayout, CrankPayout

LEMMA SettledUntouched ==
  ASSUME TypeOK, SeatsTaken, [Next]_vars, NEW s \in Seats, member[s].defaulted
  PROVE  member'[s] = member[s]
<1>0. member \in [Seats -> MemberRecord] /\ s \in pool.slots
  BY DEF TypeOK, SeatsTaken
<1>1. ASSUME NEW t \in Seats, NEW level \in Levels, JoinPool(t, level)
      PROVE  member'[s] = member[s]
  BY <1>0, <1>1 DEF JoinPool
<1>2. ASSUME NEW t \in Seats, Live(t), NEW record,
             member' = [member EXCEPT ![t] = record]
      PROVE  member'[s] = member[s]
  BY <1>0, <1>2 DEF Live
<1>3. ASSUME NEW t \in Seats, Contribute(t) PROVE member'[s] = member[s]
  BY <1>2, <1>3 DEF Contribute
<1>4. ASSUME NEW t \in Seats, Live(t), PayOut(t) PROVE member'[s] = member[s]
  BY <1>0, <1>4 DEF PayOut, Live
<1>5. ASSUME NEW t \in Seats, SettleDefault(t) PROVE member'[s] = member[s]
  BY <1>2, <1>5 DEF SettleDefault
<1>6. ASSUME NEW t \in Seats, NEW checkpoint \in 1 .. CyclesTotal,
             ReleaseEscrow(t, checkpoint)
      PROVE  member'[s] = member[s]
  BY <1>2, <1>6 DEF ReleaseEscrow
<1>7. CASE \/ FinalizeDraw \/ Pause \/ ClosePool \/ ClosePoolVaults \/ Tick
           \/ UNCHANGED vars
           \/ \E t \in Seats : SkipDefaultedPayout(t) \/ CloseMember(t)
  BY <1>7 DEF FinalizeDraw, Pause, ClosePool, ClosePoolVaults, Tick, CloseMember,
              SkipDefaultedPayout, vars
<1> QED BY <1>1, <1>3, <1>4, <1>5, <1>6, <1>7
        DEF Next, ClaimPayout, CrankPayout, Payable

\* settle_default is irreversible in every pool: no handler changes the Member
\* account of a settled seat.
THEOREM DefaultStays == Spec => DefaultIsFinal
<1>1. Init => SeatsTaken
  BY DEF Init, SeatsTaken, BlankMember
<1>2. TypeOK /\ SeatsTaken /\ [Next]_vars
        => [\A s \in Seats : member[s].defaulted => member'[s] = member[s]]_vars
  BY SettledUntouched
<1> QED BY <1>1, <1>2, NextSeats, TypeCorrect, PTL DEF Spec, DefaultIsFinal
----------------------------------------------------------------------------
(* The stake of a live member is released no faster than it vests.         *)

\* One release: derived with a saturating subtraction, it still never pays
\* past what has vested at its checkpoint.
LEMMA ReleaseWithinVested ==
  ASSUME NEW initial \in Nat, NEW deposited \in Nat, NEW balance \in Nat,
         NEW checkpoint, cumulative_vested(initial, checkpoint, CyclesTotal) \in Nat,
         NEW delta \in Nat, delta > 0,
         delta <= compute_release_delta_target(initial, deposited, balance,
                                               checkpoint, CyclesTotal)
  PROVE  initial + deposited - (balance - delta)
           <= cumulative_vested(initial, checkpoint, CyclesTotal)
<1> DEFINE vested == cumulative_vested(initial, checkpoint, CyclesTotal)
<1>1. vested \in Nat
  OBVIOUS
<1> HIDE DEF vested
<1>2. delta <= SaturatingSub(vested, SaturatingSub(initial + deposited, balance))
  BY DEF compute_release_delta_target, derive_total_released, vested
<1>3. SaturatingSub(initial + deposited, balance) >= initial + deposited - balance
  BY DEF SaturatingSub
<1>4. delta + SaturatingSub(initial + deposited, balance) <= vested
  BY <1>1, <1>2 DEF SaturatingSub
<1>5. delta + (initial + deposited - balance) <= vested
  BY <1>1, <1>3, <1>4 DEF SaturatingSub
<1> QED BY <1>1, <1>5 DEF vested

\* The bound of one member, as a function of its account.
Released(m) == m.stake_deposited_initial + m.total_escrow_deposited - m.escrow_balance
ReleasedWithinVested(m) ==
  ~m.defaulted =>
    Released(m) <= cumulative_vested(m.stake_deposited_initial,
                                     m.last_released_checkpoint, CyclesTotal)

LEMMA FreshWithinVested ==
  ASSUME NEW stake \in Nat
  PROVE  ReleasedWithinVested([BlankMember EXCEPT !.stake_deposited = stake,
                                                  !.stake_deposited_initial = stake,
                                                  !.escrow_balance = stake])
<1>1. 0 # CyclesTotal /\ CyclesTotal \in Nat \ {0}
  BY Constants
<1>2. (stake * 0) \div CyclesTotal = 0
  BY <1>1
<1> QED BY <1>1, <1>2 DEF ReleasedWithinVested, Released, BlankMember, cumulative_vested

LEMMA NextReleased ==
  TypeOK /\ StakeNeverOverReleased /\ [Next]_vars => StakeNeverOverReleased'
<1> SUFFICES ASSUME TypeOK, \A s \in Seats : ReleasedWithinVested(member[s]), [Next]_vars,
                    NEW t \in Seats
             PROVE  ReleasedWithinVested(member'[t])
  BY DEF StakeNeverOverReleased, ReleasedWithinVested, Released
<1>0. member \in [Seats -> MemberRecord]
  BY DEF TypeOK
<1>1. ASSUME NEW s \in Seats, NEW record, ReleasedWithinVested(record),
             member' = [member EXCEPT ![s] = record]
      PROVE  ReleasedWithinVested(member'[t])
  BY <1>0, <1>1
<1>2. ASSUME NEW s \in Seats, NEW level \in Levels, JoinPool(s, level)
      PROVE  ReleasedWithinVested(member'[t])
  BY <1>1, <1>2, StakeNat, FreshWithinVested DEF JoinPool
<1>3. ASSUME NEW s \in Seats, Contribute(s) PROVE ReleasedWithinVested(member'[t])
  <2> DEFINE record == member'[s]
  <2>1. /\ record.defaulted = member[s].defaulted
        /\ record.stake_deposited_initial = member[s].stake_deposited_initial
        /\ record.last_released_checkpoint = member[s].last_released_checkpoint
        /\ record.total_escrow_deposited = member[s].total_escrow_deposited + Split.escrow
        /\ record.escrow_balance = member[s].escrow_balance + Split.escrow
        /\ member' = [member EXCEPT ![s] = record]
    BY <1>0, <1>3 DEF Contribute, MemberRecord
  <2>2. /\ member[s].stake_deposited_initial \in Nat /\ member[s].escrow_balance \in Nat
        /\ member[s].total_escrow_deposited \in Nat /\ Split.escrow \in Nat
    BY <1>0, SplitType DEF MemberRecord
  <2>3. Released(record) = Released(member[s])
    BY <2>1, <2>2 DEF Released
  <2>4. ReleasedWithinVested(record)
    BY <2>1, <2>3 DEF ReleasedWithinVested
  <2> QED BY <1>1, <2>1, <2>4
<1>4. ASSUME NEW s \in Seats, PayOut(s) PROVE ReleasedWithinVested(member'[t])
  BY <1>0, <1>4 DEF PayOut, MemberRecord, ReleasedWithinVested, Released
<1>5. ASSUME NEW s \in Seats, SettleDefault(s) PROVE ReleasedWithinVested(member'[t])
  <2>1. ReleasedWithinVested([Seized(member[s]) EXCEPT !.defaulted = TRUE])
    BY <1>0 DEF Seized, MemberRecord, ReleasedWithinVested
  <2> QED BY <1>1, <1>5, <2>1 DEF SettleDefault
<1>6. ASSUME NEW s \in Seats, NEW checkpoint \in 1 .. CyclesTotal,
             ReleaseEscrow(s, checkpoint)
      PROVE  ReleasedWithinVested(member'[t])
  <2> DEFINE m == member[s]
             delta == Lesser(ReleaseTarget(m, checkpoint), vault.escrow)
             record == [m EXCEPT !.escrow_balance = m.escrow_balance - delta,
                                 !.last_released_checkpoint = checkpoint]
  <2>1. /\ m \in MemberRecord /\ vault.escrow \in Nat
        /\ m.stake_deposited_initial \in Nat /\ m.total_escrow_deposited \in Nat
        /\ m.escrow_balance \in Nat
    BY <1>0 DEF TypeOK, MemberRecord
  <2>2. m.stake_deposited_initial * checkpoint \in Nat
    BY <2>1, Constants
  <2>3. cumulative_vested(m.stake_deposited_initial, checkpoint, CyclesTotal) \in Nat
    BY <2>1, <2>2, Constants, DivBounds DEF cumulative_vested
  <2>4. SaturatingSub(m.stake_deposited_initial + m.total_escrow_deposited,
                      m.escrow_balance) \in Nat
    <3>1. m.stake_deposited_initial + m.total_escrow_deposited \in Nat
      BY <2>1
    <3> QED BY <2>1, <3>1, SaturatingSubNat
  <2>5. ReleaseTarget(m, checkpoint) \in Nat
    BY <2>3, <2>4, SaturatingSubNat
       DEF ReleaseTarget, compute_release_delta_target, derive_total_released
  <2>6. delta \in Nat /\ delta <= ReleaseTarget(m, checkpoint)
    BY <2>1, <2>5, LesserNat
  <2>7. delta > 0 /\ member' = [member EXCEPT ![s] = record]
    BY <1>0, <1>6 DEF ReleaseEscrow, MemberRecord
  <2> HIDE DEF delta
  <2>8. m.stake_deposited_initial + m.total_escrow_deposited - (m.escrow_balance - delta)
          <= cumulative_vested(m.stake_deposited_initial, checkpoint, CyclesTotal)
    BY <2>1, <2>3, <2>6, <2>7, ReleaseWithinVested DEF ReleaseTarget
  <2>9. ReleasedWithinVested(record)
    <3>1. /\ record.stake_deposited_initial = m.stake_deposited_initial
          /\ record.total_escrow_deposited = m.total_escrow_deposited
          /\ record.escrow_balance = m.escrow_balance - delta
          /\ record.last_released_checkpoint = checkpoint
      BY <2>1 DEF MemberRecord
    <3> QED BY <2>8, <3>1 DEF ReleasedWithinVested, Released
  <2> QED BY <1>1, <2>7, <2>9
<1>7. CASE \/ FinalizeDraw \/ Pause \/ ClosePool \/ ClosePoolVaults \/ Tick
           \/ UNCHANGED vars
           \/ \E s \in Seats : SkipDefaultedPayout(s) \/ CloseMember(s)
  BY <1>7 DEF FinalizeDraw, Pause, ClosePool, ClosePoolVaults, Tick, CloseMember,
              SkipDefaultedPayout, vars
<1> QED BY <1>2, <1>3, <1>4, <1>5, <1>6, <1>7 DEF Next, ClaimPayout, CrankPayout

\* Whatever the rounding and however contributions and releases interleave, a
\* live member is never paid more of its stake than has vested.
THEOREM ReleasesVest == Spec => []StakeNeverOverReleased
<1>1. Init => StakeNeverOverReleased
  <2>1. CyclesTotal \in Nat \ {0} /\ (0 * 0) \div CyclesTotal = 0
    BY Constants
  <2> QED BY <2>1 DEF Init, StakeNeverOverReleased, BlankMember, cumulative_vested
<1> QED BY <1>1, NextReleased, TypeCorrect, PTL DEF Spec

----------------------------------------------------------------------------
(* Every seat is served once, in its turn.                                 *)

\* The order is a bijection once it is drawn, and no turn is over before.
OrderDrawn ==
  /\ order = Undrawn \/ order \in DrawOrders
  /\ order = Undrawn => Served = 0
  /\ pool.status = "Forming" => pool.current_cycle = 0

\* What the turns rest on, as an inductive invariant.
TurnInv == TypeOK /\ OrderDrawn /\ ServedInOrder

LEMMA DrawOrderFacts ==
  ASSUME NEW f \in DrawOrders
  PROVE  /\ f \in [Seats -> Cycles] /\ f # Undrawn
         /\ \A s, t \in Seats : f[s] = f[t] => s = t
<1>1. /\ f \in [Seats -> Cycles]
      /\ \A s, t \in Seats : f[s] = f[t] => s = t
  BY DEF DrawOrders, Bijection, Injection, IsInjective
<1>2. 0 \in Seats /\ CyclesTotal \notin Cycles
  BY Constants DEF Seats, Cycles
<1> QED BY <1>1, <1>2 DEF Undrawn

\* One turn is over: by AdvancedCycle from an Active pool.
LEMMA TurnOver ==
  ASSUME TypeOK, pool.status = "Active", NEW p,
         p.status = AdvancedCycle(pool).status,
         p.current_cycle = AdvancedCycle(pool).current_cycle
  PROVE  /\ Served = pool.current_cycle /\ Served < CyclesTotal
         /\ (IF p.status \in {"Forming", "Active"} THEN p.current_cycle ELSE CyclesTotal)
              = Served + 1
         /\ p.status # "Forming"
<1>1. pool \in PoolRecord /\ pool.current_cycle \in 0 .. CyclesTotal - 1
  BY DEF TypeOK, PoolRecord, Cycles
<1>2. CyclesTotal \in Nat
  BY Constants
<1>3. CASE pool.current_cycle + 1 >= CyclesTotal
  <2>1. p.status = "Completed"
    BY <1>1, <1>3 DEF AdvancedCycle, PoolRecord
  <2> QED BY <1>1, <1>2, <1>3, <2>1 DEF Served
<1>4. CASE ~(pool.current_cycle + 1 >= CyclesTotal)
  <2>1. p.status = "Active" /\ p.current_cycle = pool.current_cycle + 1
    BY <1>1, <1>4 DEF AdvancedCycle, PoolRecord
  <2> QED BY <1>1, <1>2, <2>1 DEF Served
<1> QED BY <1>3, <1>4

\* Handlers that neither end a turn nor change who was paid.
LEMMA TurnKept ==
  ASSUME TurnInv, Served' = Served, order' = order,
         pool'.status = "Forming" => pool.status = "Forming",
         pool'.status = "Forming" => pool'.current_cycle = pool.current_cycle,
         \A s \in Seats : /\ member'[s].paid_out = member[s].paid_out
                          /\ member[s].defaulted => member'[s].defaulted
  PROVE  OrderDrawn' /\ ServedInOrder'
<1>1. OrderDrawn'
  BY DEF TurnInv, OrderDrawn, DrawOrders, Undrawn
<1>2. ServedInOrder'
  BY DEF TurnInv, ServedInOrder
<1> QED BY <1>1, <1>2

\* A turn ends for the seat it belongs to.
LEMMA TurnServed ==
  ASSUME TurnInv, pool.status = "Active", NEW s \in Seats, Contemplated(s, pool.current_cycle),
         pool'.status = AdvancedCycle(pool).status,
         pool'.current_cycle = AdvancedCycle(pool).current_cycle,
         order' = order,
         \A t \in Seats : /\ member'[t].defaulted = member[t].defaulted
                          /\ member'[t].paid_out => member[t].paid_out \/ t = s
                          /\ member[t].paid_out => member'[t].paid_out,
         member'[s].paid_out \/ member'[s].defaulted
  PROVE  OrderDrawn' /\ ServedInOrder'
<1>1. /\ Served = pool.current_cycle /\ Served < CyclesTotal
      /\ Served' = Served + 1 /\ pool'.status # "Forming"
  BY TurnOver DEF TurnInv, Served
<1>2. order[s] = Served /\ Served \in Nat /\ CyclesTotal \in Nat
  BY <1>1, Constants DEF Contemplated, TurnInv, TypeOK, PoolRecord, Cycles
<1>3. order # Undrawn
  BY <1>1, <1>2 DEF Undrawn
<1>4. order \in DrawOrders
  BY <1>3 DEF TurnInv, OrderDrawn
<1>5. order \in [Seats -> Cycles] /\ \A t \in Seats : order[t] = order[s] => t = s
  BY <1>4, DrawOrderFacts
<1>6. OrderDrawn'
  BY <1>1, <1>3, <1>4 DEF OrderDrawn, DrawOrders, Undrawn
<1>7. ASSUME NEW t \in Seats
      PROVE  /\ member'[t].paid_out => order[t] < Served'
             /\ order[t] < Served' => member'[t].paid_out \/ member'[t].defaulted
  <2>1. order[t] \in Nat
    BY <1>5, Constants DEF Cycles
  <2>2. /\ member[t].paid_out => order[t] < Served
        /\ order[t] < Served => member[t].paid_out \/ member[t].defaulted
    BY DEF TurnInv, ServedInOrder
  <2>3. CASE t = s
    BY <1>1, <1>2, <2>1, <2>3
  <2>4. CASE t # s
    BY <1>1, <1>2, <1>5, <2>1, <2>2, <2>4
  <2> QED BY <2>3, <2>4
<1> QED BY <1>6, <1>7 DEF ServedInOrder

\* While no turn is over nobody was paid, so the order may still be drawn.
LEMMA TurnNotStarted ==
  ASSUME TurnInv, Served = 0, Served' = 0,
         order' = order \/ order' \in DrawOrders,
         pool'.status = "Forming" => pool'.current_cycle = 0,
         \A s \in Seats : member'[s].paid_out => member[s].paid_out
  PROVE  OrderDrawn' /\ ServedInOrder'
<1>1. order \in [Seats -> Nat]
  BY Constants DEF TurnInv, TypeOK
<1>2. order' \in [Seats -> Nat]
  BY <1>1, DrawOrderFacts, Constants DEF Cycles
<1>3. OrderDrawn'
  BY DEF TurnInv, OrderDrawn, DrawOrders, Undrawn
<1>4. ServedInOrder'
  <2>1. \A s \in Seats : ~member[s].paid_out
    BY <1>1 DEF TurnInv, ServedInOrder
  <2> QED BY <1>2, <2>1 DEF ServedInOrder
<1> QED BY <1>3, <1>4

LEMMA NextTurn == TurnInv /\ [Next]_vars => TurnInv'
<1> SUFFICES ASSUME TurnInv, [Next]_vars PROVE OrderDrawn' /\ ServedInOrder'
  BY NextType DEF TurnInv
<1>0. pool \in PoolRecord /\ member \in [Seats -> MemberRecord]
  BY DEF TurnInv, TypeOK
<1>1. ASSUME NEW s \in Seats, NEW level \in Levels, JoinPool(s, level)
      PROVE  OrderDrawn' /\ ServedInOrder'
  <2>1. /\ pool.status = "Forming" /\ pool.current_cycle = 0
        /\ pool'.status \in {"Forming", "Active"} /\ pool'.current_cycle = 0
    BY <1>0, <1>1 DEF JoinPool, TurnInv, OrderDrawn, PoolRecord
  <2>2. Served = 0 /\ Served' = 0
    BY <2>1 DEF Served
  <2>3. order' = order \/ order' \in DrawOrders
    BY <1>1 DEF JoinPool, AutoDraw
  <2>4. \A t \in Seats : member'[t].paid_out => member[t].paid_out
    BY <1>0, <1>1 DEF JoinPool, BlankMember
  <2> QED BY <2>1, <2>2, <2>3, <2>4, TurnNotStarted
<1>2. CASE FinalizeDraw
  <2>1. /\ order = Undrawn /\ order' \in DrawOrders /\ member' = member
        /\ pool'.status = pool.status /\ pool'.current_cycle = pool.current_cycle
        /\ pool.status = "Active"
    BY <1>0, <1>2 DEF FinalizeDraw, NotDrawn, PoolRecord
  <2>2. Served = 0 /\ Served' = 0
    BY <2>1 DEF TurnInv, OrderDrawn, Served
  <2> QED BY <2>1, <2>2, TurnNotStarted
<1>3. ASSUME NEW s \in Seats, Contribute(s) PROVE OrderDrawn' /\ ServedInOrder'
  <2>1. /\ pool'.status = pool.status /\ pool'.current_cycle = pool.current_cycle
        /\ order' = order
    BY <1>0, <1>3 DEF Contribute, PoolRecord
  <2>2. \A t \in Seats : /\ member'[t].paid_out = member[t].paid_out
                         /\ member'[t].defaulted = member[t].defaulted
    BY <1>0, <1>3 DEF Contribute, MemberRecord
  <2> QED BY <2>1, <2>2, TurnKept DEF Served
<1>4. ASSUME NEW s \in Seats, Payable(s), PayOut(s) PROVE OrderDrawn' /\ ServedInOrder'
  <2>1. /\ pool.status = "Active" /\ Contemplated(s, pool.current_cycle) /\ order' = order
    BY <1>4 DEF Payable, PayOut
  <2>2. /\ pool'.status = AdvancedCycle(pool).status
        /\ pool'.current_cycle = AdvancedCycle(pool).current_cycle
    BY <1>4 DEF PayOut
  <2>3. \A t \in Seats : /\ member'[t].defaulted = member[t].defaulted
                         /\ member'[t].paid_out => member[t].paid_out \/ t = s
                         /\ member[t].paid_out => member'[t].paid_out
    BY <1>0, <1>4 DEF PayOut, MemberRecord
  <2>4. member'[s].paid_out
    BY <1>0, <1>4 DEF PayOut, MemberRecord
  <2> QED BY <2>1, <2>2, <2>3, <2>4, TurnServed
<1>5. ASSUME NEW s \in Seats, SkipDefaultedPayout(s) PROVE OrderDrawn' /\ ServedInOrder'
  <2>1. /\ pool.status = "Active" /\ Contemplated(s, pool.current_cycle) /\ order' = order
        /\ pool' = AdvancedCycle(pool) /\ member' = member /\ member[s].defaulted
    BY <1>5 DEF SkipDefaultedPayout, Skippable
  <2> QED BY <2>1, TurnServed
<1>6. ASSUME NEW s \in Seats, SettleDefault(s) PROVE OrderDrawn' /\ ServedInOrder'
  <2>1. /\ pool'.status = pool.status /\ pool'.current_cycle = pool.current_cycle
        /\ order' = order
    BY <1>0, <1>6 DEF SettleDefault, SeizureBooked, PoolRecord
  <2>2. \A t \in Seats : /\ member'[t].paid_out = member[t].paid_out
                         /\ member[t].defaulted => member'[t].defaulted
    BY <1>0, <1>6 DEF SettleDefault, Seized, MemberRecord
  <2> QED BY <2>1, <2>2, TurnKept DEF Served
<1>7. ASSUME NEW s \in Seats, NEW checkpoint \in 1 .. CyclesTotal,
             ReleaseEscrow(s, checkpoint)
      PROVE  OrderDrawn' /\ ServedInOrder'
  <2>1. /\ pool'.status = pool.status /\ pool'.current_cycle = pool.current_cycle
        /\ order' = order
    BY <1>0, <1>7 DEF ReleaseEscrow, PoolRecord
  <2>2. \A t \in Seats : /\ member'[t].paid_out = member[t].paid_out
                         /\ member'[t].defaulted = member[t].defaulted
    BY <1>0, <1>7 DEF ReleaseEscrow, MemberRecord
  <2> QED BY <2>1, <2>2, TurnKept DEF Served
<1>8. CASE \/ Pause \/ ClosePool \/ ClosePoolVaults \/ Tick \/ UNCHANGED vars
           \/ \E s \in Seats : CloseMember(s)
  <2>1. /\ Served' = Served /\ order' = order /\ member' = member
        /\ pool'.status = "Forming" => pool.status = "Forming"
        /\ pool'.current_cycle = pool.current_cycle
    BY <1>0, <1>8 DEF Pause, ClosePool, ClosePoolVaults, Tick, CloseMember, vars, Served,
                      PoolRecord
  <2> QED BY <2>1, TurnKept
<1> QED BY <1>1, <1>2, <1>3, <1>4, <1>5, <1>6, <1>7, <1>8 DEF Next, ClaimPayout, CrankPayout

LEMMA InitTurn == Init => TurnInv
<1> SUFFICES ASSUME Init PROVE OrderDrawn /\ ServedInOrder
  BY InitType DEF TurnInv
<1>1. [s \in Seats |-> s] \in DrawOrders
  BY DEF DrawOrders, Bijection, Injection, Surjection, IsInjective, Seats, Cycles, CyclesTotal
<1>2. order \in [Seats -> Nat]
  BY InitType, Constants DEF TypeOK
<1>3. Served = 0 /\ pool.current_cycle = 0
  BY DEF Init, Served
<1>4. OrderDrawn
  BY <1>1, <1>3 DEF Init, OrderDrawn
<1>5. \A s \in Seats : ~member[s].paid_out
  BY DEF Init, BlankMember
<1> QED BY <1>2, <1>3, <1>4, <1>5 DEF ServedInOrder

\* claim_payout, crank_payout and skip_defaulted_payout serve every seat once
\* and in its own turn, in every pool and under every drawn order.
THEOREM TurnsAreServed == Spec => []ServedInOrder
<1>1. Spec => []TurnInv
  BY InitTurn, NextTurn, PTL DEF Spec
<1>2. TurnInv => ServedInOrder
  BY DEF TurnInv
<1> QED BY <1>1, <1>2, PTL

----------------------------------------------------------------------------
(* A default that is due can always be settled.                            *)

\* The stake of a live member is untouched, and an existing account has one.
StakeKept ==
  \A s \in Seats :
    /\ ~member[s].defaulted =>
         member[s].stake_deposited = member[s].stake_deposited_initial
    /\ s \in memberPdas => member[s].stake_deposited_initial > 0

LEMMA NextStake == TypeOK /\ StakeKept /\ [Next]_vars => StakeKept'
<1> SUFFICES ASSUME TypeOK, StakeKept, [Next]_vars PROVE StakeKept'
  OBVIOUS
<1> USE DEF StakeKept
<1>0. member \in [Seats -> MemberRecord]
  BY DEF TypeOK
<1>1. ASSUME NEW s \in Seats, NEW level \in Levels, JoinPool(s, level) PROVE StakeKept'
  <2>1. member'[s].stake_deposited = member'[s].stake_deposited_initial
        /\ member'[s].stake_deposited_initial > 0
    BY <1>0, <1>1 DEF JoinPool, BlankMember
  <2>2. \A t \in Seats \ {s} : member'[t] = member[t]
    BY <1>0, <1>1 DEF JoinPool
  <2>3. memberPdas' = memberPdas \cup {s}
    BY <1>1 DEF JoinPool
  <2> QED BY <2>1, <2>2, <2>3
<1>2. ASSUME memberPdas' \subseteq memberPdas,
             \A t \in Seats :
               /\ member'[t].stake_deposited_initial = member[t].stake_deposited_initial
               /\ ~member'[t].defaulted =>
                    /\ ~member[t].defaulted
                    /\ member'[t].stake_deposited = member[t].stake_deposited
      PROVE  StakeKept'
  BY <1>2
<1>3. ASSUME NEW s \in Seats, Contribute(s) PROVE StakeKept'
  BY <1>0, <1>2, <1>3 DEF Contribute, MemberRecord
<1>4. ASSUME NEW s \in Seats, PayOut(s) PROVE StakeKept'
  BY <1>0, <1>2, <1>4 DEF PayOut, MemberRecord
<1>5. ASSUME NEW s \in Seats, SettleDefault(s) PROVE StakeKept'
  <2>1. /\ [Seized(member[s]) EXCEPT !.defaulted = TRUE].defaulted
        /\ [Seized(member[s]) EXCEPT !.defaulted = TRUE].stake_deposited_initial
             = member[s].stake_deposited_initial
    BY <1>0 DEF Seized, MemberRecord
  <2>2. /\ member' = [member EXCEPT ![s] = [Seized(member[s]) EXCEPT !.defaulted = TRUE]]
        /\ memberPdas' = memberPdas
    BY <1>5 DEF SettleDefault
  <2> QED BY <1>0, <1>2, <2>1, <2>2
<1>6. ASSUME NEW s \in Seats, NEW checkpoint \in 1 .. CyclesTotal,
             ReleaseEscrow(s, checkpoint)
      PROVE  StakeKept'
  BY <1>0, <1>2, <1>6 DEF ReleaseEscrow, MemberRecord
<1>7. CASE \/ FinalizeDraw \/ Pause \/ ClosePool \/ ClosePoolVaults \/ Tick
           \/ UNCHANGED vars
           \/ \E s \in Seats : SkipDefaultedPayout(s) \/ CloseMember(s)
  BY <1>7 DEF FinalizeDraw, Pause, ClosePool, ClosePoolVaults, Tick, CloseMember,
              SkipDefaultedPayout, vars
<1> QED BY <1>1, <1>3, <1>4, <1>5, <1>6, <1>7 DEF Next, ClaimPayout, CrankPayout

\* At most the whole stake is vested, so what a live member still has covers
\* the collateral it posted: the escrow balance counts the stake once more.
LEMMA CollateralCovers ==
  ASSUME TypeOK, StakeKept, StakeNeverOverReleased, NEW s \in Seats, Live(s)
  PROVE  /\ collateral_initial(member[s]) \in Nat \ {0}
         /\ collateral_remaining(member[s]) >= collateral_initial(member[s])
<1> DEFINE m == member[s]
           vested == cumulative_vested(m.stake_deposited_initial,
                                       m.last_released_checkpoint, CyclesTotal)
<1>1. /\ m.stake_deposited_initial \in Nat \ {0} /\ m.escrow_balance \in Nat
      /\ m.total_escrow_deposited \in Nat
      /\ m.stake_deposited = m.stake_deposited_initial
      /\ m.last_released_checkpoint \in 0 .. CyclesTotal
  BY DEF TypeOK, MemberRecord, StakeKept, Live
<1>2. m.stake_deposited_initial + m.total_escrow_deposited - m.escrow_balance <= vested
  BY DEF StakeNeverOverReleased, Live
<1>3. vested \in Nat /\ vested <= m.stake_deposited_initial
  BY <1>1, Constants, VestedWithinPrincipal
<1> HIDE DEF vested
<1> QED BY <1>1, <1>2, <1>3 DEF collateral_initial, collateral_remaining

LEMMA SettlementHolds ==
  ASSUME TypeOK, StakeKept, StakeNeverOverReleased, NEW s \in Seats, Live(s)
  PROVE  SettlementHoldsDC(member[s])
<1> DEFINE m == member[s]
           z == Seizure(m)
           floor == c_min(debt_initial, debt_remaining(m), collateral_initial(m))
<1>1. /\ collateral_initial(m) \in Nat \ {0}
      /\ collateral_remaining(m) >= collateral_initial(m)
  BY CollateralCovers
<1>2. /\ m.escrow_balance \in Nat /\ m.stake_deposited \in Nat
      /\ m.contributions_paid \in 0 .. CyclesTotal
      /\ m \in MemberRecord
  BY DEF TypeOK, MemberRecord
<1>3. /\ debt_initial \in Nat \ {0}
      /\ debt_remaining(m) \in Nat /\ debt_remaining(m) <= debt_initial
  <2>1. SaturatingSub(CyclesTotal, m.contributions_paid) \in 0 .. CyclesTotal
    BY <1>2, Constants DEF SaturatingSub
  <2> QED BY <2>1, Constants, MulMonotone DEF debt_initial, debt_remaining
<1>4. /\ floor \in Nat /\ floor <= collateral_initial(m)
      /\ debt_remaining(m) * collateral_initial(m) <= debt_initial * floor
  BY <1>1, <1>3, CeilingFloor
<1>5. collateral_remaining(m) \in Nat
  BY <1>2 DEF collateral_remaining
<1>6. /\ z.from_escrow \in Nat /\ z.from_escrow <= m.escrow_balance
      /\ z.from_stake \in Nat /\ z.from_stake <= m.stake_deposited
      /\ z.from_escrow + z.from_stake <= collateral_remaining(m) - floor
  <2> DEFINE ins == [d_init |-> debt_initial, d_rem |-> debt_remaining(m),
                     c_init |-> collateral_initial(m), c_before |-> collateral_remaining(m),
                     missed |-> Lesser(InstallmentAmount, debt_remaining(m)),
                     solidarity_available |-> vault.solidarity,
                     escrow_cap |-> EscrowCap(m), stake_cap |-> StakeCap(m)]
  <2>1. ins \in CascadeInputs
    <3>1. /\ EscrowCap(m) \in Nat /\ StakeCap(m) \in Nat /\ vault.solidarity \in Nat
      <4>1. vault.escrow \in Nat /\ vault.solidarity \in Nat
        BY DEF TypeOK
      <4>2. EscrowCap(m) \in Nat
        BY <1>2, <4>1, LesserNat DEF EscrowCap
      <4>3. SaturatingSub(vault.escrow, EscrowCap(m)) \in Nat
        BY <4>1, <4>2, SaturatingSubNat
      <4> QED BY <1>2, <4>1, <4>2, <4>3, LesserNat DEF StakeCap
    <3>2. Lesser(InstallmentAmount, debt_remaining(m)) \in Nat
      BY <1>3, Constants, LesserNat
    <3> QED BY <1>1, <1>3, <1>5, <3>1, <3>2 DEF CascadeInputs
  <2>2. z = seize_for_default(ins)
    BY DEF Seizure
  <2>3. /\ ins.d_init = debt_initial /\ ins.d_rem = debt_remaining(m)
        /\ ins.c_init = collateral_initial(m) /\ ins.c_before = collateral_remaining(m)
    OBVIOUS
  <2>4. /\ z.from_escrow \in Nat /\ z.from_escrow <= m.escrow_balance
        /\ z.from_stake \in Nat /\ z.from_stake <= m.stake_deposited
    BY SeizureBounds
  <2> HIDE DEF ins, z
  <2>5. floor <= collateral_remaining(m)
    BY <1>1, <1>4, <1>5
  <2>6. ins.d_init # 0 /\ floor = c_min(ins.d_init, ins.d_rem, ins.c_init)
        /\ floor <= ins.c_before
    BY <1>3, <2>3, <2>5 DEF floor
  <2> HIDE DEF floor
  <2>7. seize_for_default(ins).from_escrow + seize_for_default(ins).from_stake
          <= ins.c_before - floor
    BY <1>4, <2>1, <2>6, CascadeKeepsFloor
  <2> QED BY <2>2, <2>3, <2>4, <2>7
<1> HIDE DEF z, floor
<1>7. collateral_remaining(Seized(m)) =
        collateral_remaining(m) - (z.from_escrow + z.from_stake)
  BY <1>2, <1>6 DEF Seized, collateral_remaining, SaturatingSub, MemberRecord, z
<1>8. collateral_remaining(Seized(m)) \in Nat /\ floor <= collateral_remaining(Seized(m))
  BY <1>4, <1>5, <1>6, <1>7
<1>9. debt_initial * floor <= collateral_remaining(Seized(m)) * debt_initial
  BY <1>3, <1>4, <1>8, MulMonotone
<1>10. debt_remaining(m) * collateral_initial(m) <=
         collateral_remaining(Seized(m)) * debt_initial
  <2>1. /\ debt_remaining(m) * collateral_initial(m) \in Nat
        /\ debt_initial * floor \in Nat
        /\ collateral_remaining(Seized(m)) * debt_initial \in Nat
    BY <1>1, <1>3, <1>4, <1>8, MulMonotone
  <2> QED BY <1>4, <1>9, <2>1
<1> QED BY <1>1, <1>10 DEF SettlementHoldsDC, dc_invariant_holds

\* SEV-054: in no pool and at no moment does the final D/C check of
\* settle_default turn down the settlement of a live member.
THEOREM SettlementsGoThrough == Spec => []SettlementNeverBlocked
<1>1. Init => StakeKept
  BY DEF Init, StakeKept, BlankMember
<1>2. Spec => []StakeKept
  BY <1>1, NextStake, TypeCorrect, PTL DEF Spec
<1>3. TypeOK /\ StakeKept /\ StakeNeverOverReleased => SettlementNeverBlocked
  BY SettlementHolds DEF SettlementNeverBlocked
<1> QED BY <1>2, <1>3, TypeCorrect, ReleasesVest, PTL

----------------------------------------------------------------------------
(* The history: announced deadlines and windows.                           *)

\* The current window is a whole one, and no deadline that was announced moves
\* to an earlier instant.
DeadlinesKept ==
  pool.status = "Active" =>
    /\ pool.next_cycle_at >= opened + CycleDuration
    /\ \A c \in Cycles :
         c <= pool.current_cycle => announced[c] <= installment_deadline(c)

HistoryType == opened \in Nat /\ announced \in [Cycles -> Nat]

\* Everything the two properties rest on.
HistoryInv == TurnInv /\ HistoryType /\ DeadlinesKept

LEMMA HistoryTypes ==
  ASSUME TypeOK
  PROVE  /\ pool \in PoolRecord /\ member \in [Seats -> MemberRecord]
         /\ pool.current_cycle \in Cycles /\ pool.current_cycle \in Nat
         /\ pool.next_cycle_at \in Nat /\ now \in Nat
         /\ CycleDuration \in Nat /\ GracePeriod \in Nat
         /\ 0 \in Cycles /\ \A c \in Cycles : c \in Nat
<1>1. /\ pool \in PoolRecord /\ member \in [Seats -> MemberRecord] /\ now \in Nat
  BY DEF TypeOK
<1>2. pool.current_cycle \in Cycles /\ pool.next_cycle_at \in Nat
  BY <1>1 DEF PoolRecord
<1>3. 0 \in Cycles /\ \A c \in Cycles : c \in Nat
  BY Constants DEF Cycles
<1> QED BY <1>1, <1>2, <1>3, Constants

----------------------------------------------------------------------------
(* How the deadline of a pool moves.                                       *)

Activated ==
  /\ pool.status = "Forming" /\ pool'.current_cycle = 0
  /\ now' = now /\ pool'.next_cycle_at = now + CycleDuration

Advanced ==
  /\ pool.status = "Active" /\ pool'.current_cycle = pool.current_cycle + 1
  /\ now' = now /\ pool'.next_cycle_at = Reanchored(pool.next_cycle_at)

SameCycle ==
  /\ pool.status = "Active" /\ pool'.current_cycle = pool.current_cycle
  /\ pool'.next_cycle_at >= pool.next_cycle_at

\* A turn that ends and leaves the pool Active opens the next cycle.
LEMMA AdvanceOpens ==
  ASSUME TypeOK, pool.status = "Active", pool'.status = "Active", now' = now,
         pool'.status = AdvancedCycle(pool).status,
         pool'.current_cycle = AdvancedCycle(pool).current_cycle,
         pool'.next_cycle_at = AdvancedCycle(pool).next_cycle_at
  PROVE  Advanced
<1>0. pool \in PoolRecord
  BY HistoryTypes
<1>1. CASE pool.current_cycle + 1 >= CyclesTotal
  BY <1>0, <1>1 DEF AdvancedCycle, PoolRecord
<1>2. CASE ~(pool.current_cycle + 1 >= CyclesTotal)
  BY <1>0, <1>2 DEF AdvancedCycle, PoolRecord, Advanced
<1> QED BY <1>1, <1>2

LEMMA DeadlineMoves ==
  ASSUME TypeOK, OrderDrawn, [Next]_vars, pool'.status = "Active"
  PROVE  Activated \/ Advanced \/ SameCycle
<1>0. /\ pool \in PoolRecord /\ pool.next_cycle_at \in Nat /\ now \in Nat
      /\ CycleDuration \in Nat
  BY HistoryTypes
<1>1. ASSUME NEW s \in Seats, NEW level \in Levels, JoinPool(s, level) PROVE Activated
  <2>1. /\ pool.status = "Forming" /\ pool'.current_cycle = pool.current_cycle
        /\ pool'.next_cycle_at = now + CycleDuration /\ now' = now
    BY <1>0, <1>1 DEF JoinPool, PoolRecord
  <2> QED BY <2>1 DEF Activated, OrderDrawn
<1>2. CASE FinalizeDraw
  <2>1. /\ pool.status = "Active" /\ pool'.current_cycle = pool.current_cycle
        /\ pool'.next_cycle_at = DrawDeadline(pool.next_cycle_at)
    BY <1>0, <1>2 DEF FinalizeDraw, PoolRecord
  <2> QED BY <1>0, <2>1 DEF SameCycle, DrawDeadline, Greater
<1>3. ASSUME NEW s \in Seats, Payable(s), PayOut(s) PROVE Advanced
  <2>1. /\ pool.status = "Active" /\ now' = now
        /\ pool'.status = AdvancedCycle(pool).status
        /\ pool'.current_cycle = AdvancedCycle(pool).current_cycle
        /\ pool'.next_cycle_at = AdvancedCycle(pool).next_cycle_at
    BY <1>0, <1>3 DEF Payable, PayOut, AdvancedCycle, PoolRecord
  <2> QED BY <2>1, AdvanceOpens
<1>4. ASSUME NEW s \in Seats, SkipDefaultedPayout(s) PROVE Advanced
  <2>1. pool.status = "Active" /\ now' = now /\ pool' = AdvancedCycle(pool)
    BY <1>4 DEF SkipDefaultedPayout
  <2> QED BY <2>1, AdvanceOpens
<1>5. ASSUME pool'.status = pool.status, pool'.current_cycle = pool.current_cycle,
             pool'.next_cycle_at = pool.next_cycle_at
      PROVE  SameCycle
  BY <1>0, <1>5 DEF SameCycle
<1>6. ASSUME NEW s \in Seats, Contribute(s) PROVE SameCycle
  BY <1>0, <1>5, <1>6 DEF Contribute, PoolRecord
<1>7. ASSUME NEW s \in Seats, SettleDefault(s) PROVE SameCycle
  BY <1>0, <1>5, <1>7 DEF SettleDefault, SeizureBooked, PoolRecord
<1>8. ASSUME NEW s \in Seats, NEW checkpoint \in 1 .. CyclesTotal,
             ReleaseEscrow(s, checkpoint)
      PROVE  SameCycle
  BY <1>0, <1>5, <1>8 DEF ReleaseEscrow, PoolRecord
<1>9. CASE Pause \/ Tick \/ UNCHANGED vars
  BY <1>5, <1>9 DEF Pause, Tick, vars
<1>10. CASE ClosePool \/ ClosePoolVaults \/ \E s \in Seats : CloseMember(s)
  BY <1>0, <1>10 DEF ClosePool, ClosePoolVaults, CloseMember, PoolRecord
<1> QED BY <1>1, <1>2, <1>3, <1>4, <1>6, <1>7, <1>8, <1>9, <1>10
        DEF Next, ClaimPayout, CrankPayout

----------------------------------------------------------------------------
(* The invariant.                                                          *)

\* One more cycle is one more window to step back over.
LEMMA OneMoreWindow ==
  ASSUME NEW k \in Nat, NEW d \in Nat PROVE (k + 1) * d = k * d + d
OBVIOUS

LEMMA KeptByActivation ==
  ASSUME HistoryInv, Record, pool'.status = "Active", Activated
  PROVE  DeadlinesKept'
<1>0. /\ now \in Nat /\ CycleDuration \in Nat /\ 0 \in Cycles
      /\ \A c \in Cycles : c \in Nat
  BY HistoryTypes DEF HistoryInv, TurnInv
<1>1. opened' = now /\ announced' = [announced EXCEPT ![0] = now + CycleDuration]
  BY DEF Record, CycleStarts, Activated
<1>2. announced'[0] = now + CycleDuration
  BY <1>0, <1>1 DEF HistoryInv, HistoryType
<1>3. ASSUME NEW c \in Cycles, c <= pool'.current_cycle
      PROVE  announced'[c] <= installment_deadline(c)'
  <2>1. c = 0 /\ pool'.current_cycle - c = 0
    BY <1>0, <1>3 DEF Activated
  <2>2. installment_deadline(c)' = now + CycleDuration
    BY <1>0, <2>1 DEF installment_deadline, Activated
  <2> QED BY <1>0, <1>2, <2>1, <2>2
<1>4. pool'.next_cycle_at >= opened' + CycleDuration
  BY <1>0, <1>1 DEF Activated
<1> QED BY <1>3, <1>4 DEF DeadlinesKept, Cycles

LEMMA KeptByAdvance ==
  ASSUME HistoryInv, Record, pool'.status = "Active", Advanced,
         pool'.current_cycle \in Cycles
  PROVE  DeadlinesKept'
<1>0. /\ now \in Nat /\ CycleDuration \in Nat /\ pool.next_cycle_at \in Nat
      /\ pool.current_cycle \in Nat /\ \A c \in Cycles : c \in Nat
  BY HistoryTypes DEF HistoryInv, TurnInv
<1> DEFINE due == pool'.next_cycle_at
<1>1. /\ due \in Nat /\ due >= now + CycleDuration
      /\ due >= pool.next_cycle_at + CycleDuration
  BY <1>0 DEF Advanced, Reanchored, Greater
<1>2. pool'.current_cycle # pool.current_cycle
  BY <1>0 DEF Advanced
<1>3. /\ opened' = now /\ announced' = [announced EXCEPT ![pool'.current_cycle] = due]
  BY <1>2 DEF Record, CycleStarts, Advanced
<1>4. ASSUME NEW c \in Cycles, c <= pool'.current_cycle
      PROVE  announced'[c] <= installment_deadline(c)'
  <2>1. CASE c = pool'.current_cycle
    <3>1. announced'[c] = due
      BY <1>3, <2>1 DEF HistoryInv, HistoryType
    <3>2. pool'.current_cycle - c = 0
      BY <1>0, <2>1
    <3>3. installment_deadline(c)' = due
      BY <1>0, <1>1, <3>2 DEF installment_deadline
    <3> QED BY <1>1, <3>1, <3>3
  <2>2. CASE c # pool'.current_cycle
    <3> DEFINE back == pool.current_cycle - c
    <3>1. c <= pool.current_cycle /\ back \in Nat /\ pool'.current_cycle - c = back + 1
      BY <1>0, <1>4, <2>2 DEF Advanced
    <3>2. announced'[c] = announced[c] /\ announced[c] \in Nat
      BY <1>3, <2>2 DEF HistoryInv, HistoryType
    <3>3. announced[c] <= pool.next_cycle_at - back * CycleDuration
      BY <3>1 DEF HistoryInv, DeadlinesKept, installment_deadline, Advanced
    <3>4. installment_deadline(c)' = due - (back + 1) * CycleDuration
      BY <3>1 DEF installment_deadline
    <3>5. (back + 1) * CycleDuration = back * CycleDuration + CycleDuration
      BY <1>0, <3>1, OneMoreWindow
    <3>6. back * CycleDuration \in Nat
      BY <1>0, <3>1
    <3> HIDE DEF back, due
    <3> QED BY <1>0, <1>1, <3>2, <3>3, <3>4, <3>5, <3>6
  <2> QED BY <2>1, <2>2
<1>5. due >= opened' + CycleDuration
  BY <1>1, <1>3
<1> QED BY <1>4, <1>5 DEF DeadlinesKept, Cycles

LEMMA KeptInCycle ==
  ASSUME HistoryInv, Record, pool'.status = "Active", SameCycle,
         pool'.next_cycle_at \in Nat
  PROVE  DeadlinesKept'
<1>0. /\ CycleDuration \in Nat /\ pool.next_cycle_at \in Nat
      /\ pool.current_cycle \in Nat /\ pool.current_cycle \in Cycles
      /\ \A c \in Cycles : c \in Nat
  BY HistoryTypes DEF HistoryInv, TurnInv
<1> DEFINE due == pool'.next_cycle_at
<1>1. opened' = opened /\ announced' = [announced EXCEPT ![pool.current_cycle] = due]
  BY DEF Record, CycleStarts, SameCycle
<1>2. ASSUME NEW c \in Cycles, c <= pool'.current_cycle
      PROVE  announced'[c] <= installment_deadline(c)'
  <2> DEFINE back == pool.current_cycle - c
  <2>1. c <= pool.current_cycle /\ back \in Nat /\ pool'.current_cycle - c = back
    BY <1>0, <1>2 DEF SameCycle
  <2>2. installment_deadline(c)' = due - back * CycleDuration
    BY <2>1 DEF installment_deadline
  <2>3. CASE c = pool.current_cycle
    <3>1. announced'[c] = due /\ back = 0
      BY <1>0, <1>1, <2>3 DEF HistoryInv, HistoryType
    <3> QED BY <1>0, <2>2, <3>1
  <2>4. CASE c # pool.current_cycle
    <3>1. announced'[c] = announced[c] /\ announced[c] \in Nat
      BY <1>1, <2>4 DEF HistoryInv, HistoryType
    <3>2. announced[c] <= pool.next_cycle_at - back * CycleDuration
      BY <2>1 DEF HistoryInv, DeadlinesKept, installment_deadline, SameCycle
    <3>3. back * CycleDuration \in Nat /\ due >= pool.next_cycle_at /\ due \in Nat
      BY <1>0, <2>1 DEF SameCycle
    <3> HIDE DEF back, due
    <3> QED BY <1>0, <2>2, <3>1, <3>2, <3>3
  <2> QED BY <2>3, <2>4
<1>3. due >= opened' + CycleDuration
  <2>1. pool.next_cycle_at >= opened + CycleDuration /\ opened \in Nat
    BY DEF HistoryInv, HistoryType, DeadlinesKept, SameCycle
  <2> QED BY <1>0, <1>1, <2>1 DEF SameCycle
<1> QED BY <1>2, <1>3 DEF DeadlinesKept, Cycles

LEMMA NextHistory == HistoryInv /\ [HistoryNext]_hvars => HistoryInv'
<1>1. ASSUME HistoryInv, UNCHANGED hvars PROVE HistoryInv'
  <2>1. TurnInv'
    BY <1>1, NextTurn DEF HistoryInv, hvars
  <2>2. HistoryType'
    BY <1>1 DEF HistoryInv, HistoryType, hvars, Cycles
  <2>3. DeadlinesKept'
    BY <1>1 DEF HistoryInv, DeadlinesKept, hvars, vars, installment_deadline, Cycles
  <2> QED BY <2>1, <2>2, <2>3 DEF HistoryInv
<1>2. ASSUME HistoryInv, HistoryNext PROVE HistoryInv'
  <2>1. TurnInv'
    BY <1>2, NextTurn DEF HistoryInv, HistoryNext
  <2>2. /\ pool'.current_cycle \in Cycles /\ pool'.next_cycle_at \in Nat /\ now' \in Nat
    BY <2>1 DEF TurnInv, TypeOK, PoolRecord, Cycles
  <2>3. HistoryType'
    BY <1>2, <2>2 DEF HistoryInv, HistoryType, HistoryNext, Record, Cycles
  <2>4. DeadlinesKept'
    <3>1. CASE pool'.status # "Active"
      BY <3>1 DEF DeadlinesKept
    <3>2. CASE pool'.status = "Active"
      <4>1. Activated \/ Advanced \/ SameCycle
        BY <1>2, <3>2, DeadlineMoves DEF HistoryInv, TurnInv, HistoryNext
      <4> QED BY <1>2, <2>2, <3>2, <4>1, KeptByActivation, KeptByAdvance, KeptInCycle
              DEF HistoryNext
    <3> QED BY <3>1, <3>2
  <2> QED BY <2>1, <2>3, <2>4 DEF HistoryInv
<1> QED BY <1>1, <1>2

LEMMA InitHistory == HistoryInit => HistoryInv
<1> SUFFICES ASSUME HistoryInit PROVE HistoryInv
  OBVIOUS
<1>1. TurnInv
  BY InitTurn DEF HistoryInit
<1>2. pool.status = "Forming"
  BY DEF HistoryInit, Init
<1> QED BY <1>1, <1>2 DEF HistoryInit, HistoryInv, HistoryType, DeadlinesKept

----------------------------------------------------------------------------
(* The two properties.                                                     *)

\* Only a contribution is counted late, and only past its derived deadline.
LEMMA LateMeansLate ==
  ASSUME TypeOK, [Next]_vars, NEW s \in Seats,
         member'[s].late_count > member[s].late_count
  PROVE  /\ member[s].contributions_paid \in Cycles /\ pool.status = "Active"
         /\ ~(now <= installment_deadline(member[s].contributions_paid))
<1>0. /\ pool \in PoolRecord /\ member \in [Seats -> MemberRecord]
      /\ member[s].late_count \in Nat /\ member[s].contributions_paid \in Nat
  BY HistoryTypes, Constants DEF MemberRecord
<1>1. ASSUME member'[s].late_count = member[s].late_count PROVE FALSE
  BY <1>0, <1>1
<1>2. ASSUME NEW t \in Seats, NEW level \in Levels, JoinPool(t, level) PROVE FALSE
  <2>1. member'[s].late_count = member[s].late_count \/ member'[s].late_count = 0
    BY <1>0, <1>2 DEF JoinPool, BlankMember
  <2> QED BY <1>0, <2>1
<1>3. ASSUME NEW t \in Seats, PayOut(t) PROVE FALSE
  BY <1>0, <1>1, <1>3 DEF PayOut, MemberRecord
<1>4. ASSUME NEW t \in Seats, SettleDefault(t) PROVE FALSE
  BY <1>0, <1>1, <1>4 DEF SettleDefault, Seized, MemberRecord
<1>5. ASSUME NEW t \in Seats, NEW checkpoint \in 1 .. CyclesTotal,
             ReleaseEscrow(t, checkpoint)
      PROVE  FALSE
  BY <1>0, <1>1, <1>5 DEF ReleaseEscrow, MemberRecord
<1>6. CASE \/ FinalizeDraw \/ Pause \/ ClosePool \/ ClosePoolVaults \/ Tick
           \/ UNCHANGED vars
           \/ \E t \in Seats : SkipDefaultedPayout(t) \/ CloseMember(t)
  BY <1>1, <1>6 DEF FinalizeDraw, Pause, ClosePool, ClosePoolVaults, Tick, CloseMember,
                    SkipDefaultedPayout, vars
<1>7. ASSUME NEW t \in Seats, Contribute(t)
      PROVE  /\ member[s].contributions_paid \in Cycles /\ pool.status = "Active"
             /\ ~(now <= installment_deadline(member[s].contributions_paid))
  <2>1. CASE t # s
    <3>1. member'[s] = member[s]
      BY <1>0, <1>7, <2>1 DEF Contribute
    <3> QED BY <1>1, <3>1
  <2>2. CASE t = s
    <3>1. pool.status = "Active" /\ member[s].contributions_paid \in Cycles
      BY <1>0, <1>7, <2>2, Constants DEF Contribute, Cycles
    <3>2. CASE now <= installment_deadline(member[s].contributions_paid)
      <4>1. member'[s].late_count = member[s].late_count
        BY <1>0, <1>7, <2>2, <3>2 DEF Contribute, MemberRecord
      <4> QED BY <1>1, <4>1
    <3> QED BY <3>1, <3>2
  <2> QED BY <2>1, <2>2
<1> QED BY <1>2, <1>3, <1>4, <1>5, <1>6, <1>7 DEF Next, ClaimPayout, CrankPayout

\* Nobody is counted late before the deadline it was shown.
THEOREM LateWasAnnounced == HistorySpec => NoWrongfulLate
<1>1. HistorySpec => []HistoryInv
  BY InitHistory, NextHistory, PTL DEF HistorySpec
<1>2. HistoryInv /\ [HistoryNext]_hvars
        => [\A s \in Seats :
              LET cycle == member[s].contributions_paid
              IN  /\ member'[s].late_count > member[s].late_count
                  /\ cycle <= pool.current_cycle
                  => now > announced[cycle]]_hvars
  <2> SUFFICES ASSUME HistoryInv, [HistoryNext]_hvars, NEW s \in Seats,
                      member'[s].late_count > member[s].late_count,
                      member[s].contributions_paid <= pool.current_cycle
               PROVE  now > announced[member[s].contributions_paid]
    OBVIOUS
  <2> DEFINE cycle == member[s].contributions_paid
  <2>0. TypeOK /\ [Next]_vars
    BY DEF HistoryInv, TurnInv, HistoryNext, hvars
  <2>1. /\ cycle \in Cycles /\ pool.status = "Active"
        /\ ~(now <= installment_deadline(cycle))
    BY <2>0, LateMeansLate
  <2>2. announced[cycle] <= installment_deadline(cycle) /\ announced[cycle] \in Nat
    BY <2>1 DEF HistoryInv, HistoryType, DeadlinesKept
  <2>3. installment_deadline(cycle) \in Int /\ now \in Int
    BY <2>0, <2>1, HistoryTypes DEF installment_deadline
  <2> QED BY <2>1, <2>2, <2>3
<1> QED BY <1>1, <1>2, PTL DEF HistorySpec, NoWrongfulLate

\* Only settle_default turns a member into a defaulted one.
LEMMA DefaultMeansSettled ==
  ASSUME TypeOK, [Next]_vars, NEW s \in Seats, member'[s].defaulted, ~member[s].defaulted
  PROVE  pool.status = "Active" /\ now >= GraceDeadline
<1>0. /\ pool \in PoolRecord /\ member \in [Seats -> MemberRecord]
  BY HistoryTypes
<1>1. ASSUME NEW t \in Seats, NEW level \in Levels, JoinPool(t, level) PROVE FALSE
  BY <1>0, <1>1 DEF JoinPool, BlankMember
<1>2. ASSUME NEW t \in Seats, PayOut(t) PROVE FALSE
  BY <1>0, <1>2 DEF PayOut, MemberRecord
<1>3. ASSUME NEW t \in Seats, Contribute(t) PROVE FALSE
  BY <1>0, <1>3 DEF Contribute, MemberRecord
<1>4. ASSUME NEW t \in Seats, NEW checkpoint \in 1 .. CyclesTotal,
             ReleaseEscrow(t, checkpoint)
      PROVE  FALSE
  BY <1>0, <1>4 DEF ReleaseEscrow, MemberRecord
<1>5. CASE \/ FinalizeDraw \/ Pause \/ ClosePool \/ ClosePoolVaults \/ Tick
           \/ UNCHANGED vars
           \/ \E t \in Seats : SkipDefaultedPayout(t) \/ CloseMember(t)
  BY <1>5 DEF FinalizeDraw, Pause, ClosePool, ClosePoolVaults, Tick, CloseMember,
              SkipDefaultedPayout, vars
<1>6. ASSUME NEW t \in Seats, SettleDefault(t)
      PROVE  pool.status = "Active" /\ now >= GraceDeadline
  BY <1>6 DEF SettleDefault, Delinquent
<1> QED BY <1>1, <1>2, <1>3, <1>4, <1>5, <1>6 DEF Next, ClaimPayout, CrankPayout

\* Nobody is settled before a whole window and the grace after it are over.
THEOREM DefaultHadAWindow == HistorySpec => DefaultNeedsAFullWindow
<1>1. HistorySpec => []HistoryInv
  BY InitHistory, NextHistory, PTL DEF HistorySpec
<1>2. HistoryInv /\ [HistoryNext]_hvars
        => [\A s \in Seats :
              member'[s].defaulted /\ ~member[s].defaulted =>
                /\ now >= opened + CycleDuration + GracePeriod
                /\ ~CatchUpOpen(member[s].contributions_paid)]_hvars
  <2> SUFFICES ASSUME HistoryInv, [HistoryNext]_hvars, NEW s \in Seats,
                      member'[s].defaulted, ~member[s].defaulted
               PROVE  /\ now >= opened + CycleDuration + GracePeriod
                      /\ ~CatchUpOpen(member[s].contributions_paid)
    OBVIOUS
  <2>0. TypeOK /\ [Next]_vars
    BY DEF HistoryInv, TurnInv, HistoryNext, hvars
  <2>1. pool.status = "Active" /\ now >= pool.next_cycle_at + GracePeriod
    BY <2>0, DefaultMeansSettled DEF GraceDeadline
  <2>2. pool.next_cycle_at >= opened + CycleDuration /\ opened \in Nat
    BY <2>1 DEF HistoryInv, HistoryType, DeadlinesKept
  <2>3. /\ now \in Nat /\ pool.next_cycle_at \in Nat
        /\ CycleDuration \in Nat /\ GracePeriod \in Nat
    BY <2>0, HistoryTypes
  <2> QED BY <2>1, <2>2, <2>3 DEF CatchUpOpen, GraceDeadline
<1> QED BY <1>1, <1>2, PTL DEF HistorySpec, DefaultNeedsAFullWindow
=============================================================================
