-------------------------- MODULE Programs_proofs --------------------------
(***************************************************************************)
(* For any fields, proposals, timelocks and adapters: no field changes to  *)
(* what has not been pending for its whole timelock, and a locked treasury *)
(* settles.  For any amounts and shares: what the yield earmarks stays in  *)
(* the vault.  For any thresholds and cooldowns: no level is held without  *)
(* the completions it takes, and the score covers the standing record.  For*)
(* every number of seats and every seed: the draw stays a permutation, and *)
(* the slots the loop has passed are final.  For any pools: the committed  *)
(* total is what they hold of it.  For every amount: the seizure cascade is*)
(* the best one allowed, and the viability guard is enough.                *)
(***************************************************************************)
EXTENDS Governance, YieldCascade, Reputation, SlotDraw, MathContracts, ProtocolTvl,
        RoundfiMath_proofs, TLAPS

----------------------------------------------------------------------------
(* Governance.                                                             *)

Proposable == UNION {Values[f] : f \in Fields}

GovernanceType ==
  /\ current \in [Fields -> Proposable]
  /\ pending \in [Fields -> Proposable \cup {NoProposal}]
  /\ eta \in [Fields -> Int]
  /\ pending_since \in [Fields -> Int]
  /\ block_time \in Int
  /\ treasury_locked \in BOOLEAN

\* The code keeps only the date of a proposal's end; it is never early.
EtaIsDue ==
  \A f \in Fields : pending[f] # NoProposal => eta[f] = pending_since[f] + Timelock[f]

GovernanceInv == GovernanceType /\ EtaIsDue /\ LockedTreasuryIsSettled

----------------------------------------------------------------------------

\* NoProposal is nobody's value, for any field.
LEMMA NoProposalIsNoValue == NoProposal \notin Proposable
BY GovernanceAssumption DEF Proposable

\* initialize_protocol establishes the invariant.
LEMMA InitEstablishes == GovernanceInit => GovernanceInv
<1> SUFFICES ASSUME GovernanceInit PROVE GovernanceInv
  OBVIOUS
<1>1. GovernanceType
  <2>1. \A f \in Fields : Genesis[f] \in Proposable
    BY GovernanceAssumption DEF Proposable
  <2>2. current \in [Fields -> Proposable]
    BY <2>1 DEF GovernanceInit
  <2>3. pending \in [Fields -> Proposable \cup {NoProposal}]
    BY DEF GovernanceInit
  <2>4. eta \in [Fields -> Int] /\ pending_since \in [Fields -> Int]
    BY DEF GovernanceInit
  <2>5. block_time \in Int
    BY DEF GovernanceInit
  <2>6. treasury_locked \in BOOLEAN
    BY DEF GovernanceInit
  <2> QED
    BY <2>2, <2>3, <2>4, <2>5, <2>6 DEF GovernanceType
<1>2. EtaIsDue
  BY DEF GovernanceInit, EtaIsDue
<1>3. LockedTreasuryIsSettled
  BY DEF GovernanceInit, LockedTreasuryIsSettled
<1> QED
  BY <1>1, <1>2, <1>3 DEF GovernanceInv

\* A proposal is dated from the clock, and none is made for a locked treasury.
LEMMA ProposeKeeps ==
  ASSUME GovernanceInv, NEW f \in Fields, NEW v \in Values[f], Propose(f, v)
  PROVE  GovernanceInv'
<1> USE DEF GovernanceInv
<1>1. v \in Proposable /\ Timelock[f] \in Int
  BY GovernanceAssumption DEF Proposable
<1>2. GovernanceType'
  BY <1>1 DEF GovernanceType, Propose, Eta
<1>3. EtaIsDue'
  BY <1>1 DEF GovernanceType, EtaIsDue, Propose, Eta
<1>4. LockedTreasuryIsSettled'
  <2>1. CASE f = "treasury"
    BY <2>1 DEF Propose, MayPropose, LockedTreasuryIsSettled
  <2>2. CASE f # "treasury"
    <3>1. pending'["treasury"] = pending["treasury"]
      BY <2>2, GovernanceAssumption DEF Propose, GovernanceType
    <3> QED
      BY <3>1 DEF Propose, LockedTreasuryIsSettled
  <2> QED
    BY <2>1, <2>2
<1> QED
  BY <1>2, <1>3, <1>4

\* A cancellation leaves the field without a proposal.
LEMMA CancelKeeps ==
  ASSUME GovernanceInv, NEW f \in Fields, Cancel(f)
  PROVE  GovernanceInv'
<1> USE DEF GovernanceInv, Cancel, Cleared
<1>1. GovernanceType'
  BY DEF GovernanceType
<1>2. EtaIsDue'
  BY DEF GovernanceType, EtaIsDue
<1>3. pending'["treasury"] \in {pending["treasury"], NoProposal}
  BY GovernanceAssumption DEF GovernanceType
<1>4. LockedTreasuryIsSettled'
  BY <1>3 DEF LockedTreasuryIsSettled
<1> QED
  BY <1>1, <1>2, <1>4

\* What a commit writes is the value that was pending, under a lock too.
LEMMA CommitKeeps ==
  ASSUME GovernanceInv, NEW f \in Fields, Commit(f)
  PROVE  GovernanceInv'
<1> USE DEF GovernanceInv, Commit, Cleared
<1>1. GovernanceType'
  BY DEF GovernanceType
<1>2. EtaIsDue'
  BY DEF GovernanceType, EtaIsDue
<1>3. LockedTreasuryIsSettled'
  <2>1. CASE f = "treasury"
    <3>1. current'["treasury"] = pending["treasury"] /\ pending'["treasury"] = NoProposal
      BY <2>1 DEF GovernanceType
    <3> QED
      BY <2>1, <3>1 DEF LockedTreasuryIsSettled
  <2>2. CASE f # "treasury"
    <3>1. current'["treasury"] = current["treasury"] /\ pending'["treasury"] = pending["treasury"]
      BY <2>2, GovernanceAssumption DEF GovernanceType
    <3> QED
      BY <3>1 DEF LockedTreasuryIsSettled
  <2> QED
    BY <2>1, <2>2
<1> QED
  BY <1>1, <1>2, <1>3

\* What is locked is a value, whatever is proposed at that moment.
LEMMA LockKeeps ==
  ASSUME GovernanceInv, lock_treasury
  PROVE  GovernanceInv'
<1> USE DEF GovernanceInv, lock_treasury
<1>1. GovernanceType' /\ EtaIsDue'
  BY DEF GovernanceType, EtaIsDue
<1>2. current["treasury"] # NoProposal
  BY NoProposalIsNoValue, GovernanceAssumption DEF GovernanceType
<1>3. LockedTreasuryIsSettled'
  BY <1>2 DEF LockedTreasuryIsSettled
<1> QED
  BY <1>1, <1>3

\* Every other step leaves the timelocked fields alone.
LEMMA OthersKeep ==
  ASSUME GovernanceInv,
         \/ \E a \in Adapters : update_protocol_config(a)
         \/ lock_approved_yield_adapter
         \/ BlockTimePasses
         \/ UNCHANGED govVars
  PROVE  GovernanceInv'
<1> USE DEF GovernanceInv
<1>1. GovernanceType'
  BY DEF GovernanceType, update_protocol_config, lock_approved_yield_adapter,
         BlockTimePasses, govVars, config_fields
<1>2. EtaIsDue'
  BY DEF EtaIsDue, update_protocol_config, lock_approved_yield_adapter,
         BlockTimePasses, govVars, config_fields
<1>3. LockedTreasuryIsSettled'
  BY DEF LockedTreasuryIsSettled, update_protocol_config, lock_approved_yield_adapter,
         BlockTimePasses, govVars, config_fields
<1> QED
  BY <1>1, <1>2, <1>3

\* The invariant holds in every state the authorities can bring about.
LEMMA GovernanceInvariant == GovernanceSpec => []GovernanceInv
<1>1. GovernanceInv /\ [GovernanceNext]_govVars => GovernanceInv'
  BY ProposeKeeps, CancelKeeps, CommitKeeps, LockKeeps, OthersKeep DEF GovernanceNext
<1> QED
  BY InitEstablishes, <1>1, PTL DEF GovernanceSpec

----------------------------------------------------------------------------

\* lock_treasury.rs:7-10, for every timelock and every sequence of proposals: a
\* locked treasury is the one it was, or the one that was already pending.
THEOREM LockedTreasurySettles == GovernanceSpec => []LockedTreasuryIsSettled
<1>1. GovernanceInv => LockedTreasuryIsSettled
  BY DEF GovernanceInv
<1> QED
  BY GovernanceInvariant, <1>1, PTL

\* What ChangesAreAnnounced asks of one step.
Announced ==
  /\ \A f \in Fields : current'[f] # current[f] =>
       /\ current'[f] = pending[f]
       /\ block_time - pending_since[f] >= Timelock[f]
  /\ approved_yield_adapter_locked =>
       approved_yield_adapter' = approved_yield_adapter

\* The commits are the only steps that change a field, and they wait.
LEMMA CommitsAreAnnounced ==
  ASSUME GovernanceInv, NEW f \in Fields, Commit(f)
  PROVE  Announced
<1> USE DEF GovernanceInv, Commit, Cleared
<1>1. \A g \in Fields : g # f => current'[g] = current[g]
  BY DEF GovernanceType
<1>2. current'[f] = pending[f]
  BY DEF GovernanceType
<1>3. block_time - pending_since[f] >= Timelock[f]
  <2>1. eta[f] = pending_since[f] + Timelock[f] /\ block_time >= eta[f]
    BY DEF EtaIsDue
  <2>2. pending_since[f] \in Int /\ block_time \in Int /\ Timelock[f] \in Int
    BY GovernanceAssumption DEF GovernanceType
  <2> QED
    BY <2>1, <2>2
<1> QED
  BY <1>1, <1>2, <1>3 DEF Announced

\* propose, cancel, lock and commit in any order, for any number of fields: every
\* change was announced for the whole of its timelock, and the allowlist stays.
THEOREM EveryChangeIsAnnounced == GovernanceSpec => ChangesAreAnnounced
<1>1. GovernanceInv /\ [GovernanceNext]_govVars => [Announced]_govVars
  <2> SUFFICES ASSUME GovernanceInv, [GovernanceNext]_govVars
               PROVE  Announced \/ UNCHANGED govVars
    OBVIOUS
  <2>1. CASE \E f \in Fields : Commit(f)
    BY <2>1, CommitsAreAnnounced
  <2>2. CASE \E f \in Fields : Cancel(f) \/ \E v \in Values[f] : Propose(f, v)
    BY <2>2 DEF Cancel, Cleared, Propose, Announced
  <2>3. CASE lock_treasury \/ lock_approved_yield_adapter \/ BlockTimePasses
    BY <2>3 DEF lock_treasury, lock_approved_yield_adapter, BlockTimePasses,
                config_fields, Announced
  <2>4. CASE \E a \in Adapters : update_protocol_config(a)
    BY <2>4 DEF update_protocol_config, Announced
  <2> QED
    BY <2>1, <2>2, <2>3, <2>4 DEF GovernanceNext
<1> QED
  BY GovernanceInvariant, <1>1, PTL DEF GovernanceSpec, ChangesAreAnnounced, Announced

----------------------------------------------------------------------------
(* The yield cascade.                                                      *)

\* What the two kinds of adapter hold: the mock the principal at least, Kamino
\* nothing, since core refuses every deposit that is lent on.
AdapterIsBacked ==
  /\ adapter.lent = 0
  /\ adapter.vault >= adapter.tracked_principal
  /\ Lends => adapter.vault = 0

YieldPool == [vault : Nat, guarantee_fund_balance : Nat, lp_distribution_balance : Nat,
              yield_principal_deposited : Nat, total_protocol_fee_accrued : Nat,
              installments : Nat, payouts : Nat]

YieldType ==
  /\ ypool \in YieldPool
  /\ adapter \in [lends : BOOLEAN, tracked_principal : Nat, vault : Nat, lent : Nat, interests : Nat]

YieldInv == YieldType /\ AdapterIsBacked /\ EarmarksAreSound

----------------------------------------------------------------------------

\* A share of at most the whole is at most the amount.
LEMMA ApplyBpsWithin ==
  ASSUME NEW amount \in Nat, NEW bps \in 0 .. MAX_BPS
  PROVE  apply_bps(amount, bps) \in Nat /\ apply_bps(amount, bps) <= amount
<1> DEFINE q == apply_bps(amount, bps)
           x == amount * bps
<1>1. x \in Nat /\ MAX_BPS * amount \in Nat /\ x <= MAX_BPS * amount
  <2>1. bps \in Nat /\ MAX_BPS \in Nat /\ bps <= MAX_BPS
    BY DEF MAX_BPS
  <2>2. bps * amount <= MAX_BPS * amount
    BY <2>1, MulMonotone
  <2>3. amount * bps = bps * amount
    BY <2>1
  <2> QED
    BY <2>1, <2>2, <2>3, MulMonotone
<1>2. q \in Nat /\ MAX_BPS * q <= x
  <2>1. MAX_BPS \in Nat \ {0}
    BY DEF MAX_BPS
  <2> QED
    BY <1>1, <2>1, DivBounds DEF apply_bps
<1> HIDE DEF q, x
<1>3. q <= amount
  BY <1>1, <1>2 DEF MAX_BPS
<1> QED
  BY <1>2, <1>3 DEF q

\* harvest_yield divides a yield, it does not make one: what the treasury, the
\* fund and the LPs get is within it, and the fund gets no more than its room.
LEMMA WaterfallDivides ==
  ASSUME NEW yield \in Nat, NEW room \in Nat, NEW fee \in 0 .. MAX_BPS, NEW lp \in 0 .. MAX_BPS
  PROVE  LET w == waterfall(yield, room, fee, lp)
         IN  /\ w.protocol_fee \in Nat /\ w.guarantee_fund \in Nat /\ w.lp_share \in Nat
             /\ w.protocol_fee + w.guarantee_fund + w.lp_share <= yield
             /\ w.guarantee_fund <= room
<1> DEFINE f   == apply_bps(yield, fee)
           gf  == Lesser(yield - f, room)
           rest == yield - f - gf
           l   == apply_bps(rest, lp)
<1>1. f \in Nat /\ f <= yield
  BY ApplyBpsWithin
<1>2. gf \in Nat /\ gf <= yield - f /\ gf <= room
  <2> HIDE DEF f
  <2> QED BY <1>1, yield - f \in Nat, LesserNat
<1>3. rest \in Nat
  BY <1>1, <1>2
<1>4. l \in Nat /\ l <= rest
  <2> HIDE DEF rest
  <2> QED BY <1>3, ApplyBpsWithin
<1>5. f + gf + l <= yield
  <2> HIDE DEF f, gf, l
  <2> QED BY <1>1, <1>2, <1>4
<1>6. waterfall(yield, room, fee, lp)
        = [protocol_fee |-> f, guarantee_fund |-> gf, lp_share |-> l, participants |-> rest - l]
  BY DEF waterfall, gf_top_up
<1> HIDE DEF f, gf, l, rest
<1> QED
  BY <1>1, <1>2, <1>4, <1>5, <1>6

\* The cap of the Guarantee Fund is a natural and grows with the fees.
LEMMA CapGrows ==
  ASSUME NEW a \in Nat, NEW b \in Nat, a <= b, NEW bps \in Nat
  PROVE  /\ guarantee_fund_cap(a, bps) \in Nat
         /\ guarantee_fund_cap(b, bps) \in Nat
         /\ guarantee_fund_cap(a, bps) <= guarantee_fund_cap(b, bps)
<1> DEFINE p == (a * bps) \div MAX_BPS
           q == (b * bps) \div MAX_BPS
<1>1. a * bps \in Nat /\ b * bps \in Nat /\ a * bps <= b * bps
  BY MulMonotone
<1>2. p \in Nat /\ MAX_BPS * p <= a * bps
  BY <1>1, DivBounds, MAX_BPS \in Nat \ {0} DEF MAX_BPS
<1>3. q \in Nat /\ b * bps < MAX_BPS * q + MAX_BPS
  BY <1>1, DivBounds, MAX_BPS \in Nat \ {0} DEF MAX_BPS
<1> HIDE DEF p, q
<1>4. p <= q
  BY <1>1, <1>2, <1>3 DEF MAX_BPS
<1> QED
  BY <1>2, <1>3, <1>4 DEF p, q, guarantee_fund_cap

----------------------------------------------------------------------------

\* init_pool_vaults leaves everything at zero.
LEMMA YieldInitEstablishes == YieldInit => YieldInv
<1> SUFFICES ASSUME YieldInit PROVE YieldInv
  OBVIOUS
<1>1. guarantee_fund_cap(0, guarantee_fund_bps) \in Nat
  <2>1. guarantee_fund_bps \in Nat
    BY YieldAssumption
  <2> QED BY <2>1, CapGrows
<1>2. YieldType
  BY DEF YieldInit, YieldType, YieldPool
<1>3. AdapterIsBacked
  BY DEF YieldInit, AdapterIsBacked
<1>4. EarmarksAreSound
  <2>1. 0 <= guarantee_fund_cap(0, guarantee_fund_bps)
    BY <1>1
  <2> QED BY <2>1 DEF YieldInit, EarmarksAreSound
<1> QED
  BY <1>2, <1>3, <1>4 DEF YieldInv

\* An installment adds to the float.
LEMMA InstallmentKeeps ==
  ASSUME YieldInv, InstallmentArrives
  PROVE  YieldInv'
<1>1. YieldType'
  <2> DEFINE v == ypool.vault + Float
             n == ypool.installments + 1
  <2>1. v \in Nat /\ n \in Nat
    BY YieldAssumption DEF YieldInv, YieldType, YieldPool
  <2>2. ypool' = [ypool EXCEPT !.vault = v, !.installments = n] /\ adapter' = adapter
    BY DEF InstallmentArrives
  <2> HIDE DEF v, n
  <2> QED BY <2>1, <2>2 DEF YieldInv, YieldType, YieldPool
<1>0. AdapterIsBacked'
  BY DEF YieldInv, AdapterIsBacked, InstallmentArrives, Lends
<1>2. EarmarksAreSound'
  BY YieldAssumption DEF YieldInv, YieldType, YieldPool, EarmarksAreSound, InstallmentArrives
<1> QED
  BY <1>0, <1>1, <1>2 DEF YieldInv

\* A payout takes from the spendable float alone.
LEMMA PayoutKeeps ==
  ASSUME YieldInv, PayoutLeaves
  PROVE  YieldInv'
<1>1. ypool.vault - Credit >= ypool.guarantee_fund_balance + ypool.lp_distribution_balance
  BY YieldAssumption DEF YieldInv, YieldType, YieldPool, EarmarksAreSound, PayoutLeaves, spendable, earmark,
     SaturatingSub
<1>2. YieldType'
  <2> DEFINE v == ypool.vault - Credit
             n == ypool.payouts + 1
  <2>1. v \in Nat /\ n \in Nat
    BY <1>1, YieldAssumption DEF YieldInv, YieldType, YieldPool
  <2>2. ypool' = [ypool EXCEPT !.vault = v, !.payouts = n] /\ adapter' = adapter
    BY DEF PayoutLeaves
  <2> HIDE DEF v, n
  <2> QED BY <2>1, <2>2 DEF YieldInv, YieldType, YieldPool
<1>0. AdapterIsBacked'
  BY DEF YieldInv, AdapterIsBacked, PayoutLeaves, Lends
<1>3. EarmarksAreSound'
  BY <1>1, YieldAssumption DEF YieldInv, YieldType, YieldPool, EarmarksAreSound, PayoutLeaves
<1> QED
  BY <1>0, <1>2, <1>3 DEF YieldInv

\* A deposit takes from the spendable float what the adapter is then seen to
\* have; from an adapter that lends it on, nothing is seen, so it fails.
LEMMA DepositKeeps ==
  ASSUME YieldInv, NEW amount \in 1 .. ypool.vault, deposit_idle_to_yield(amount)
  PROVE  YieldInv'
<1>0. ypool.vault \in Nat /\ amount \in Nat /\ amount >= 1
  BY DEF YieldInv, YieldType, YieldPool
<1>1. ~Lends
  <2> SUFFICES ASSUME Lends PROVE FALSE
    OBVIOUS
  <2>1. adapter_deposit(amount).vault - adapter.vault = 0
    BY DEF YieldInv, YieldType, YieldPool, adapter_deposit
  <2>2. SaturatingSub(amount, 0) = amount
    BY <1>0 DEF SaturatingSub
  <2> QED
    BY <1>0, <2>1, <2>2 DEF deposit_idle_to_yield, Balances
<1>2. ypool.vault - amount >= ypool.guarantee_fund_balance + ypool.lp_distribution_balance
  BY <1>0 DEF YieldInv, YieldType, YieldPool, EarmarksAreSound, deposit_idle_to_yield, spendable, earmark,
     SaturatingSub
<1>3. adapter' = [adapter EXCEPT !.tracked_principal = @ + amount, !.vault = @ + amount,
                                 !.lent = @]
  BY <1>1 DEF deposit_idle_to_yield, adapter_deposit
<1>4. YieldType'
  <2> DEFINE v == ypool.vault - amount
             p == ypool.yield_principal_deposited + amount
             t == adapter.tracked_principal + amount
             a == adapter.vault + amount
  <2>1. v \in Nat /\ p \in Nat /\ t \in Nat /\ a \in Nat
    BY <1>0, <1>2 DEF YieldInv, YieldType, YieldPool
  <2>2. /\ ypool' = [ypool EXCEPT !.vault = v, !.yield_principal_deposited = p]
        /\ adapter' = [adapter EXCEPT !.tracked_principal = t, !.vault = a, !.lent = @]
    BY <1>3 DEF deposit_idle_to_yield
  <2> HIDE DEF v, p, t, a
  <2>3. ypool' \in YieldPool
    BY <2>1, <2>2 DEF YieldInv, YieldType, YieldPool
  <2> QED BY <2>1, <2>2, <2>3 DEF YieldInv, YieldType
<1>6. AdapterIsBacked'
  <2>1. /\ adapter'.lent = 0 /\ adapter'.vault >= adapter'.tracked_principal
        /\ adapter'.lends = adapter.lends
    BY <1>0, <1>3 DEF YieldInv, YieldType, AdapterIsBacked
  <2> QED BY <1>1, <2>1 DEF AdapterIsBacked, Lends
<1>5. EarmarksAreSound'
  BY <1>0, <1>2, <1>3 DEF YieldInv, YieldType, YieldPool, EarmarksAreSound, deposit_idle_to_yield
<1> QED
  BY <1>4, <1>5, <1>6 DEF YieldInv

\* Interest only adds, and none comes to a reserve that was lent nothing.
LEMMA InterestKeeps ==
  ASSUME YieldInv, Interest
  PROVE  YieldInv'
<1>1. PICK earned \in Interests :
        adapter' = IF Lends
                   THEN [adapter EXCEPT !.interests = @ + 1,
                           !.lent = IF @ = 0 THEN 0 ELSE @ + earned]
                   ELSE [adapter EXCEPT !.interests = @ + 1, !.vault = @ + earned]
  BY DEF Interest
<1>2. earned \in Nat /\ ypool' = ypool
  BY YieldAssumption DEF Interest
<1>3. CASE Lends
  <2>1. adapter.lent = 0 /\ adapter.vault = 0
    BY <1>3 DEF YieldInv, AdapterIsBacked
  <2>2. adapter' = [adapter EXCEPT !.interests = @ + 1, !.lent = 0]
    BY <1>1, <1>3, <2>1
  <2>3. YieldType'
    <3> DEFINE n == adapter.interests + 1
    <3>1. n \in Nat /\ adapter' = [adapter EXCEPT !.interests = n, !.lent = 0]
      BY <2>2 DEF YieldInv, YieldType
    <3> HIDE DEF n
    <3> QED BY <1>2, <3>1 DEF YieldInv, YieldType
  <2>4. /\ adapter'.lent = adapter.lent /\ adapter'.vault = adapter.vault
        /\ adapter'.tracked_principal = adapter.tracked_principal
        /\ adapter'.lends = adapter.lends
    BY <2>1, <2>2 DEF YieldInv, YieldType
  <2>5. AdapterIsBacked'
    BY <2>4 DEF YieldInv, AdapterIsBacked, Lends
  <2>6. EarmarksAreSound'
    BY <1>2, <2>4 DEF YieldInv, EarmarksAreSound
  <2> QED BY <2>3, <2>5, <2>6 DEF YieldInv
<1>4. CASE ~Lends
  <2>1. adapter' = [adapter EXCEPT !.interests = @ + 1, !.vault = @ + earned]
    BY <1>1, <1>4
  <2>2. YieldType'
    <3> DEFINE n == adapter.interests + 1
               v == adapter.vault + earned
    <3>1. n \in Nat /\ v \in Nat
      BY <1>2 DEF YieldInv, YieldType
    <3>2. adapter' = [adapter EXCEPT !.interests = n, !.vault = v]
      BY <2>1
    <3> HIDE DEF n, v
    <3> QED BY <1>2, <3>1, <3>2 DEF YieldInv, YieldType
  <2>3. /\ adapter'.lent = adapter.lent /\ adapter'.vault = adapter.vault + earned
        /\ adapter'.tracked_principal = adapter.tracked_principal
        /\ adapter'.lends = adapter.lends
    BY <2>1 DEF YieldInv, YieldType
  <2>4. adapter'.lent = 0 /\ adapter'.vault >= adapter'.tracked_principal
    BY <1>2, <2>3 DEF YieldInv, YieldType, AdapterIsBacked
  <2>5. AdapterIsBacked'
    BY <1>4, <2>3, <2>4 DEF AdapterIsBacked, Lends
  <2>6. EarmarksAreSound'
    BY <1>2, <2>3 DEF YieldInv, YieldType, YieldPool, EarmarksAreSound
  <2> QED BY <2>2, <2>5, <2>6 DEF YieldInv
<1> QED
  BY <1>3, <1>4

\* A harvest takes the surplus over the principal, and leaves in the vault all
\* that it earmarks.
LEMMA HarvestKeeps ==
  ASSUME YieldInv, harvest_yield(0)
  PROVE  YieldInv'
<1> DEFINE room == guarantee_fund_room(ypool.total_protocol_fee_accrued,
                     ypool.guarantee_fund_balance, guarantee_fund_bps)
           w == waterfall(Yield, room, fee_bps_yield, lp_share_bps)
<1>1. ~Lends
  BY DEF YieldInv, YieldType, YieldPool, AdapterIsBacked, harvest_yield, Yield, SaturatingSub
<1>2. Yield \in Nat /\ adapter.vault - Yield = adapter.tracked_principal
  BY <1>1 DEF YieldInv, YieldType, YieldPool, AdapterIsBacked, Yield, SaturatingSub
<1>3. guarantee_fund_cap(ypool.total_protocol_fee_accrued, guarantee_fund_bps) \in Nat
  <2>1. ypool.total_protocol_fee_accrued \in Nat /\ guarantee_fund_bps \in Nat
    BY YieldAssumption DEF YieldInv, YieldType, YieldPool
  <2> QED BY <2>1, CapGrows
<1>4. room \in Nat /\ ypool.guarantee_fund_balance + room
        = guarantee_fund_cap(ypool.total_protocol_fee_accrued, guarantee_fund_bps)
  BY <1>3 DEF guarantee_fund_room, SaturatingSub, YieldInv, YieldType, YieldPool, EarmarksAreSound
<1>5. /\ w.protocol_fee \in Nat /\ w.guarantee_fund \in Nat /\ w.lp_share \in Nat
      /\ w.protocol_fee + w.guarantee_fund + w.lp_share <= Yield
      /\ w.guarantee_fund <= room
  <2> HIDE DEF room
  <2> QED BY <1>2, <1>4, WaterfallDivides, YieldAssumption
<1>6. /\ ypool' = [ypool EXCEPT
           !.vault = @ + Yield - w.protocol_fee,
           !.total_protocol_fee_accrued = @ + w.protocol_fee,
           !.guarantee_fund_balance = @ + w.guarantee_fund,
           !.lp_distribution_balance = @ + w.lp_share,
           !.yield_principal_deposited = SaturatingSub(@, SaturatingSub(Yield, Yield))]
      /\ adapter' = [adapter EXCEPT !.vault = @ - Yield]
  BY <1>1 DEF harvest_yield, adapter_harvest
<1> HIDE DEF w, room
<1>7. SaturatingSub(ypool.yield_principal_deposited, SaturatingSub(Yield, Yield))
        = ypool.yield_principal_deposited
  BY <1>2 DEF SaturatingSub, YieldInv, YieldType, YieldPool
<1>8. YieldType'
  <2> DEFINE v == ypool.vault + Yield - w.protocol_fee
             f == ypool.total_protocol_fee_accrued + w.protocol_fee
             g == ypool.guarantee_fund_balance + w.guarantee_fund
             l == ypool.lp_distribution_balance + w.lp_share
             p == ypool.yield_principal_deposited
             a == adapter.vault - Yield
  <2>1. v \in Nat /\ a \in Nat
    BY <1>2, <1>5 DEF YieldInv, YieldType, YieldPool
  <2>2. f \in Nat /\ g \in Nat /\ l \in Nat /\ p \in Nat
    BY <1>5 DEF YieldInv, YieldType, YieldPool
  <2>3. /\ ypool' = [ypool EXCEPT !.vault = v, !.total_protocol_fee_accrued = f,
                        !.guarantee_fund_balance = g, !.lp_distribution_balance = l,
                        !.yield_principal_deposited = p]
        /\ adapter' = [adapter EXCEPT !.vault = a]
    BY <1>6, <1>7
  <2> HIDE DEF v, f, g, l, p, a
  <2>4. ypool' \in YieldPool
    BY <2>1, <2>2, <2>3 DEF YieldInv, YieldType, YieldPool
  <2> QED BY <2>1, <2>3, <2>4 DEF YieldInv, YieldType
<1>11. AdapterIsBacked'
  <2>1. /\ adapter'.lent = 0 /\ adapter'.vault >= adapter'.tracked_principal
        /\ adapter'.lends = adapter.lends
    BY <1>2, <1>6 DEF YieldInv, YieldType, AdapterIsBacked
  <2> QED BY <1>1, <2>1 DEF AdapterIsBacked, Lends
<1>9. ypool'.guarantee_fund_balance
        <= guarantee_fund_cap(ypool'.total_protocol_fee_accrued, guarantee_fund_bps)
  <2>1. /\ ypool'.total_protocol_fee_accrued = ypool.total_protocol_fee_accrued + w.protocol_fee
        /\ ypool'.guarantee_fund_balance = ypool.guarantee_fund_balance + w.guarantee_fund
    BY <1>6 DEF YieldInv, YieldType, YieldPool
  <2>2. /\ guarantee_fund_cap(ypool'.total_protocol_fee_accrued, guarantee_fund_bps) \in Nat
        /\ guarantee_fund_cap(ypool.total_protocol_fee_accrued, guarantee_fund_bps)
             <= guarantee_fund_cap(ypool'.total_protocol_fee_accrued, guarantee_fund_bps)
    <3>1. /\ ypool.total_protocol_fee_accrued \in Nat
          /\ ypool'.total_protocol_fee_accrued \in Nat
          /\ ypool.total_protocol_fee_accrued <= ypool'.total_protocol_fee_accrued
      BY <1>5, <2>1 DEF YieldInv, YieldType, YieldPool
    <3> QED BY <3>1, CapGrows, YieldAssumption
  <2>3. ypool.guarantee_fund_balance \in Nat
    BY DEF YieldInv, YieldType, YieldPool
  <2> QED
    BY <1>3, <1>4, <1>5, <2>1, <2>2, <2>3
<1>10. EarmarksAreSound'
  <2>1. ypool'.vault >= ypool'.guarantee_fund_balance + ypool'.lp_distribution_balance
    BY <1>2, <1>5, <1>6 DEF YieldInv, YieldType, YieldPool, EarmarksAreSound
  <2>2. ypool'.yield_principal_deposited = adapter'.tracked_principal
    BY <1>6, <1>7 DEF YieldInv, YieldType, YieldPool, EarmarksAreSound
  <2>3. adapter'.vault + adapter'.lent >= ypool'.yield_principal_deposited
    BY <1>2, <1>6, <2>2 DEF YieldInv, YieldType, YieldPool
  <2> QED
    BY <1>9, <2>1, <2>2, <2>3 DEF EarmarksAreSound
<1> QED
  BY <1>8, <1>10, <1>11 DEF YieldInv

\* Every call keeps what the earmarks rest on.
LEMMA YieldInvariant == YieldSpec => []YieldInv
<1>1. YieldInv /\ [YieldNext]_yvars => YieldInv'
  <2> SUFFICES ASSUME YieldInv, [YieldNext]_yvars PROVE YieldInv'
    OBVIOUS
  <2>1. CASE InstallmentArrives
    BY <2>1, InstallmentKeeps
  <2>2. CASE PayoutLeaves
    BY <2>2, PayoutKeeps
  <2>3. CASE \E amount \in 1..ypool.vault : deposit_idle_to_yield(amount)
    BY <2>3, DepositKeeps
  <2>4. CASE Interest
    BY <2>4, InterestKeeps
  <2>5. CASE harvest_yield(0)
    BY <2>5, HarvestKeeps
  <2>6. CASE UNCHANGED yvars
    BY <2>6 DEF yvars, YieldInv, YieldType, YieldPool, AdapterIsBacked, EarmarksAreSound, Lends
  <2> QED
    BY <2>1, <2>2, <2>3, <2>4, <2>5, <2>6 DEF YieldNext
<1> QED
  BY <1>1, YieldInitEstablishes, PTL DEF YieldSpec

\* The earmarks stay, in any order of the calls and of any amounts.
THEOREM EarmarksStay == YieldSpec => []EarmarksAreSound
<1>1. YieldInv => EarmarksAreSound
  BY DEF YieldInv
<1> QED
  BY <1>1, YieldInvariant, PTL

\* "Drop-in replacement for `roundfi-yield-mock`" (roundfi-yield-kamino/src/lib.rs:3)
\* cannot be: of an adapter that lends on what it receives within the call, as
\* Kamino's does, core never accepts a deposit of any amount, at any time.
THEOREM KaminoIsNeverUsed == YieldSpec => [](Lends => ypool.yield_principal_deposited = 0)
<1>1. YieldInv => (Lends => ypool.yield_principal_deposited = 0)
  BY DEF YieldInv, YieldType, YieldPool, AdapterIsBacked, EarmarksAreSound
<1> QED
  BY <1>1, YieldInvariant, PTL

----------------------------------------------------------------------------
(* The reputation of a wallet.                                             *)

Profile == [score : Int, level : LEVEL_MIN..LEVEL_MAX, on_time_payments : Int, late_payments : Int,
            defaults : Int, cycles_completed : Int, total_participated : Int,
            last_cycle_complete_at : Int, last_admin_attest_at : Int]

ReputationType ==
  /\ profile \in Profile
  /\ required_min_level \in {0} \cup 2..LEVEL_MAX
  /\ clock \in Int
  /\ credited \in Seq(Int)
  /\ \A a \in BagToSet(standing) : a.schema \in Schemas

\* The cooldown is measured from the last completion credited, and no counter is
\* ahead of the completions credited, which revocations only take from.
CreditIsDated ==
  /\ credited # <<>> => credited[Len(credited)] = profile.last_cycle_complete_at
  /\ profile.cycles_completed <= Len(credited)

ReputationInv == ReputationType /\ CreditIsDated /\ LevelsAreEarnedSlowly

----------------------------------------------------------------------------

\* The levels up to the one resolved were earned: it is one whose completions the
\* profile has, and a lower one asks for no more.
LEMMA ResolvedIsEarned ==
  ASSUME NEW p \in Profile
  PROVE  /\ resolve_level(p) \in LEVEL_MIN..LEVEL_MAX
         /\ \A l \in 2..resolve_level(p) : p.cycles_completed >= LEVEL_MIN_CYCLES[l]
<1> DEFINE S == {LEVEL_MIN} \cup
             {l \in 2..LEVEL_MAX : /\ p.score >= LEVEL_THRESHOLD[l]
                                   /\ p.cycles_completed >= LEVEL_MIN_CYCLES[l]}
           m == resolve_level(p)
<1>1. \E x \in S : \A y \in S : x >= y
  <2> DEFINE T == {1} \cup {l \in 2..4 : l \in S}
  <2>1. S = T
    BY DEF LEVEL_MIN, LEVEL_MAX
  <2> HIDE DEF S
  <2>2. CASE 4 \in T
    BY <2>1, <2>2
  <2>3. CASE 4 \notin T /\ 3 \in T
    BY <2>1, <2>3
  <2>4. CASE 4 \notin T /\ 3 \notin T /\ 2 \in T
    BY <2>1, <2>4
  <2>5. CASE 4 \notin T /\ 3 \notin T /\ 2 \notin T
    BY <2>1, <2>5
  <2> QED BY <2>2, <2>3, <2>4, <2>5
<1>2. m \in S
  <2> HIDE DEF S
  <2>1. Max(S) \in S
    BY <1>1 DEF Max
  <2> QED BY <2>1 DEF resolve_level, S
<1>3. m \in LEVEL_MIN..LEVEL_MAX
  BY <1>2 DEF LEVEL_MIN, LEVEL_MAX
<1>4. ASSUME NEW l \in 2..m PROVE p.cycles_completed >= LEVEL_MIN_CYCLES[l]
  <2>1. m \in 2..4 /\ p.cycles_completed >= LEVEL_MIN_CYCLES[m]
    BY <1>2, <1>3 DEF LEVEL_MIN, LEVEL_MAX
  <2>2. /\ LEVEL_MIN_CYCLES[2] \in Nat /\ LEVEL_MIN_CYCLES[3] \in Nat /\ LEVEL_MIN_CYCLES[4] \in Nat
        /\ LEVEL_MIN_CYCLES[2] <= LEVEL_MIN_CYCLES[3]
        /\ LEVEL_MIN_CYCLES[3] <= LEVEL_MIN_CYCLES[4]
    BY ReputationAssumption DEF LEVEL_MAX
  <2>3. p.cycles_completed \in Int
    BY DEF Profile
  <2> HIDE DEF m
  <2> QED BY <2>1, <2>2, <2>3
<1> QED BY <1>3, <1>4

\* The identity cap takes a level down, never below the first nor up.
LEMMA CapOnlyLowers ==
  ASSUME NEW level \in LEVEL_MIN..LEVEL_MAX, required_min_level \in {0} \cup 2..LEVEL_MAX,
         NEW verified \in BOOLEAN
  PROVE  cap_level_for_identity(level, verified) \in LEVEL_MIN..level
<1> DEFINE S == {level, IDENTITY_HARD_FLOOR_LEVEL - 1}
                \cup (IF required_min_level = 0 THEN {} ELSE {required_min_level - 1})
           c == IF required_min_level = 0 THEN level ELSE required_min_level - 1
<1>1. S = {level, 3, c}
  BY DEF IDENTITY_HARD_FLOOR_LEVEL, LEVEL_MAX
<1>2. level \in 1..4 /\ c \in 1..4
  BY DEF LEVEL_MIN, LEVEL_MAX
<1> HIDE DEF S, c
<1>3. \E x \in S : \A y \in S : x <= y
  BY <1>1, <1>2
<1>4. Min(S) \in S /\ \A y \in S : Min(S) <= y
  BY <1>3 DEF Min
<1>5. Min(S) \in 1..level
  BY <1>1, <1>2, <1>4
<1>6. CASE verified
  BY <1>2, <1>6 DEF cap_level_for_identity, LEVEL_MIN
<1>7. CASE ~verified
  <2>1. cap_level_for_identity(level, verified) = Min(S)
    BY <1>7 DEF cap_level_for_identity, S
  <2> QED BY <1>5, <2>1 DEF LEVEL_MIN
<1> QED BY <1>6, <1>7

\* The smaller of two levels is a level, and no higher than the first.
LEMMA MinOfTwo ==
  ASSUME NEW a \in LEVEL_MIN..LEVEL_MAX, NEW b \in LEVEL_MIN..LEVEL_MAX
  PROVE  Min({a, b}) \in LEVEL_MIN..a
<1>1. \E x \in {a, b} : \A y \in {a, b} : x <= y
  BY DEF LEVEL_MIN, LEVEL_MAX
<1>2. Min({a, b}) \in {a, b} /\ \A y \in {a, b} : Min({a, b}) <= y
  BY <1>1 DEF Min
<1> QED BY <1>2 DEF LEVEL_MIN, LEVEL_MAX

\* What an attestation is worth is an integer, whoever it is for.
LEMMA DeltaInt ==
  ASSUME NEW schema \in Schemas, NEW verified
  PROVE  Delta(schema, verified) \in Int
<1>1. SCORE[schema] \in Int
  BY DEF Schemas, SCORE
<1> QED BY <1>1 DEF Delta

\* Score and counters stay numbers; the level and both dates are not touched.
LEMMA CountedProfile ==
  ASSUME NEW p \in Profile, NEW delta \in Int, NEW schema, NEW by \in Int
  PROVE  LET q == Counted(apply_score_delta(p, delta), schema, by)
         IN  /\ q \in Profile
             /\ q.level = p.level
             /\ q.last_cycle_complete_at = p.last_cycle_complete_at
             /\ q.cycles_completed = IF schema = "POOL_COMPLETE" THEN p.cycles_completed + by
                                     ELSE p.cycles_completed
<1> DEFINE s == IF p.score + delta > 0 THEN p.score + delta ELSE 0
           a == apply_score_delta(p, delta)
<1>1. s \in Int
  BY DEF Profile
<1>2. a = [p EXCEPT !.score = s]
  BY DEF apply_score_delta
<1> HIDE DEF s, a
<1>3. /\ a \in Profile /\ a.level = p.level /\ a.cycles_completed = p.cycles_completed
      /\ a.last_cycle_complete_at = p.last_cycle_complete_at
  BY <1>1, <1>2 DEF Profile
<1> DEFINE o == IF schema = "PAYMENT" THEN a.on_time_payments + by ELSE a.on_time_payments
           t == IF schema = "LATE" THEN a.late_payments + by ELSE a.late_payments
           d == IF schema = "DEFAULT" THEN a.defaults + by ELSE a.defaults
           c == IF schema = "POOL_COMPLETE" THEN a.cycles_completed + by ELSE a.cycles_completed
           j == IF schema \in {"POOL_COMPLETE", "PAYOUT_CLAIMED"} THEN a.total_participated + by
                ELSE a.total_participated
           q == Counted(a, schema, by)
<1>4. o \in Int /\ t \in Int /\ d \in Int
  BY <1>3 DEF Profile
<1>5. c \in Int /\ j \in Int
  BY <1>3 DEF Profile
<1>6. q = [a EXCEPT !.on_time_payments = o, !.late_payments = t, !.defaults = d,
                    !.cycles_completed = c, !.total_participated = j]
  BY DEF Counted
<1>7. c = IF schema = "POOL_COMPLETE" THEN p.cycles_completed + by ELSE p.cycles_completed
  BY <1>3
<1> HIDE DEF o, t, d, c, j, q
<1>8. q \in Profile /\ q.level = a.level /\ q.cycles_completed = c
      /\ q.last_cycle_complete_at = a.last_cycle_complete_at
  BY <1>3, <1>4, <1>5, <1>6 DEF Profile
<1> QED BY <1>3, <1>7, <1>8 DEF q, a

----------------------------------------------------------------------------

\* What the invariant says needs of a step no more than this: credits that are
\* the same, or one more a cooldown later; a level no higher, or one that was
\* resolved.
LEMMA CreditsKept ==
  ASSUME ReputationInv, ReputationType', credited' = credited,
         profile'.last_cycle_complete_at = profile.last_cycle_complete_at,
         profile'.cycles_completed <= profile.cycles_completed,
         profile'.level <= profile.level
  PROVE  ReputationInv'
<1>1. Len(credited) \in Nat /\ profile.cycles_completed \in Int /\ profile'.cycles_completed \in Int
  BY DEF ReputationInv, ReputationType, Profile
<1>2. CreditIsDated'
  BY <1>1 DEF ReputationInv, CreditIsDated
<1>3. \A l \in 2..profile'.level : l \in 2..profile.level
  <2>1. profile.level \in 1..4 /\ profile'.level \in 1..4
    BY DEF ReputationInv, ReputationType, Profile, LEVEL_MIN, LEVEL_MAX
  <2> QED BY <2>1
<1>4. LevelsAreEarnedSlowly'
  BY <1>3 DEF ReputationInv, LevelsAreEarnedSlowly
<1> QED BY <1>2, <1>4 DEF ReputationInv

\* The sums an attestation writes, and the level a default may take down.
LEMMA AppliedProfile ==
  ASSUME ReputationInv, NEW schema \in Schemas, NEW verified \in BOOLEAN
  PROVE  /\ Applied(schema, verified) \in Profile
         /\ Applied(schema, verified).level <= profile.level
         /\ Applied(schema, verified).cycles_completed =
              IF schema = "POOL_COMPLETE" THEN profile.cycles_completed + 1
              ELSE profile.cycles_completed
         /\ Applied(schema, verified).last_cycle_complete_at =
              IF schema = "POOL_COMPLETE" THEN clock ELSE profile.last_cycle_complete_at
<1> DEFINE d == Delta(schema, verified)
           p == Counted(apply_score_delta(profile, d), schema, 1)
           m == Min({p.level, resolve_level(p)})
<1>1. d \in Int
  BY DeltaInt
<1>2. profile \in Profile /\ clock \in Int
  BY DEF ReputationInv, ReputationType
<1> HIDE DEF d
<1>3. /\ p \in Profile /\ p.level = profile.level
      /\ p.last_cycle_complete_at = profile.last_cycle_complete_at
      /\ p.cycles_completed = IF schema = "POOL_COMPLETE" THEN profile.cycles_completed + 1
                              ELSE profile.cycles_completed
  BY <1>1, <1>2, CountedProfile, 1 \in Int
<1>4. Applied(schema, verified) =
        CASE schema = "DEFAULT" -> [p EXCEPT !.level = m]
          [] schema = "POOL_COMPLETE" -> [p EXCEPT !.last_cycle_complete_at = clock]
          [] OTHER -> p
  BY DEF Applied, d
<1> HIDE DEF p
<1>5. m \in LEVEL_MIN..p.level /\ p.level \in LEVEL_MIN..LEVEL_MAX
  <2>1. p.level \in LEVEL_MIN..LEVEL_MAX
    BY <1>3 DEF Profile
  <2>2. resolve_level(p) \in LEVEL_MIN..LEVEL_MAX
    BY <1>3, ResolvedIsEarned
  <2> QED BY <2>1, <2>2, MinOfTwo
<1>9. m \in LEVEL_MIN..LEVEL_MAX /\ m <= p.level
  BY <1>5 DEF LEVEL_MIN, LEVEL_MAX
<1> HIDE DEF m
<1>6. CASE schema = "DEFAULT"
  <2>1. Applied(schema, verified) = [p EXCEPT !.level = m]
    BY <1>4, <1>6
  <2> QED BY <1>3, <1>9, <1>6, <2>1 DEF Profile
<1>7. CASE schema = "POOL_COMPLETE"
  <2>1. Applied(schema, verified) = [p EXCEPT !.last_cycle_complete_at = clock]
    BY <1>4, <1>7
  <2> QED BY <1>2, <1>3, <1>7, <2>1 DEF Profile, LEVEL_MIN, LEVEL_MAX
<1>8. CASE schema # "DEFAULT" /\ schema # "POOL_COMPLETE"
  <2>1. Applied(schema, verified) = p
    BY <1>4, <1>8
  <2> QED BY <1>2, <1>3, <1>8, <2>1 DEF Profile, LEVEL_MIN, LEVEL_MAX
<1> QED BY <1>6, <1>7, <1>8

\* A completion is credited only a cooldown after the last, and dated.
LEMMA AttestKeeps ==
  ASSUME ReputationInv, NEW issuer \in {"admin", "pool"}, NEW schema \in Attested,
         NEW verified \in BOOLEAN, attest(issuer, schema, verified)
  PROVE  ReputationInv'
<1> DEFINE neutralized == schema = "POOL_COMPLETE" /\ InCooldown
           p == IF neutralized THEN profile ELSE Applied(schema, verified)
           a == [issuer |-> issuer, schema |-> schema,
                 verified_at_attest |-> verified, neutralized |-> neutralized]
<1>0. schema \in Schemas
  BY ReputationAssumption
<1>1. /\ profile \in Profile /\ clock \in Int /\ credited \in Seq(Int)
      /\ profile.last_cycle_complete_at \in Int /\ profile.cycles_completed \in Int
      /\ profile.level \in 1..4
  BY DEF ReputationInv, ReputationType, Profile, LEVEL_MIN, LEVEL_MAX
<1>2. /\ p \in Profile /\ p.level <= profile.level
      /\ p.cycles_completed = IF schema = "POOL_COMPLETE" /\ ~neutralized
                              THEN profile.cycles_completed + 1 ELSE profile.cycles_completed
      /\ p.last_cycle_complete_at = IF schema = "POOL_COMPLETE" /\ ~neutralized
                                    THEN clock ELSE profile.last_cycle_complete_at
  <2>1. CASE neutralized
    <3>1. p = profile
      BY <2>1
    <3> QED BY <1>1, <2>1, <3>1
  <2>2. CASE ~neutralized
    <3>1. p = Applied(schema, verified)
      BY <2>2
    <3> HIDE DEF neutralized, p
    <3> QED BY <1>0, <1>1, <2>2, <3>1, AppliedProfile
  <2> QED BY <2>1, <2>2
<1>3. profile' = (IF issuer = "admin" THEN [p EXCEPT !.last_admin_attest_at = clock] ELSE p)
  BY DEF attest
<1>4. /\ standing' = standing (+) SetToBag({a})
      /\ credited' = IF schema = "POOL_COMPLETE" /\ ~neutralized
                     THEN Append(credited, clock) ELSE credited
      /\ required_min_level' = required_min_level /\ clock' = clock
  BY DEF attest
<1>5. \A b \in BagToSet(standing)' : b \in BagToSet(standing) \/ b = a
  BY <1>4 DEF BagToSet, SetToBag, (+)
<1>6. a.schema \in Schemas
  BY <1>0
<1> HIDE DEF p, a
<1>7. /\ profile' \in Profile /\ profile'.level = p.level
      /\ profile'.cycles_completed = p.cycles_completed
      /\ profile'.last_cycle_complete_at = p.last_cycle_complete_at
  BY <1>1, <1>2, <1>3 DEF Profile
<1>8. ReputationType'
  <2>1. credited' \in Seq(Int)
    BY <1>1, <1>4
  <2>2. \A b \in BagToSet(standing)' : b.schema \in Schemas
    BY <1>5, <1>6 DEF ReputationInv, ReputationType
  <2>3. required_min_level' \in {0} \cup 2..LEVEL_MAX /\ clock' \in Int
    BY <1>1, <1>4 DEF ReputationInv, ReputationType
  <2> QED BY <1>7, <2>1, <2>2, <2>3 DEF ReputationType
<1>9. CASE ~(schema = "POOL_COMPLETE" /\ ~neutralized)
  <2>1. credited' = credited
    BY <1>4, <1>9
  <2>2. /\ profile'.cycles_completed = profile.cycles_completed
        /\ profile'.last_cycle_complete_at = profile.last_cycle_complete_at
        /\ profile'.level <= profile.level
    BY <1>2, <1>7, <1>9
  <2>3. profile'.cycles_completed <= profile.cycles_completed
    BY <1>1, <2>2
  <2> QED BY <1>8, <2>1, <2>2, <2>3, CreditsKept
<1>10. CASE schema = "POOL_COMPLETE" /\ ~neutralized
  <2> DEFINE n == Len(credited)
  <2>1. credited' = Append(credited, clock) /\ n \in Nat
    BY <1>1, <1>4, <1>10
  <2>2. /\ Len(credited') = n + 1 /\ credited'[n + 1] = clock
        /\ \A k \in 1..n : credited'[k] = credited[k]
    BY <1>1, <2>1
  <2>3. clock - profile.last_cycle_complete_at >= MIN_POOL_COMPLETE_COOLDOWN_SECS
    <3>1. ~InCooldown
      BY <1>10
    <3>2. MIN_POOL_COMPLETE_COOLDOWN_SECS \in Nat
      BY ReputationAssumption
    <3> QED BY <1>1, <3>1, <3>2 DEF InCooldown
  <2>4. /\ profile'.cycles_completed = profile.cycles_completed + 1
        /\ profile'.last_cycle_complete_at = clock
        /\ profile'.level <= profile.level /\ profile'.level \in 1..4
    BY <1>2, <1>7, <1>10 DEF Profile, LEVEL_MIN, LEVEL_MAX
  <2>5. CreditIsDated'
    <3>1. credited'[Len(credited')] = profile'.last_cycle_complete_at
      BY <2>2, <2>4
    <3>2. profile.cycles_completed <= n
      BY DEF ReputationInv, CreditIsDated
    <3>3. profile'.cycles_completed <= Len(credited')
      BY <1>1, <2>1, <2>2, <2>4, <3>2
    <3> QED BY <3>1, <3>3 DEF CreditIsDated
  <2>6. ASSUME NEW k \in 2..Len(credited')
        PROVE  credited'[k] - credited'[k - 1] >= MIN_POOL_COMPLETE_COOLDOWN_SECS
    <3>1. CASE k \in 2..n
      <4>1. credited'[k] = credited[k] /\ credited'[k - 1] = credited[k - 1]
        BY <2>1, <2>2, <3>1
      <4> QED BY <3>1, <4>1 DEF ReputationInv, LevelsAreEarnedSlowly
    <3>2. CASE k = n + 1
      <4>1. n >= 1 /\ credited # <<>>
        BY <2>1, <2>2, <3>2, <1>1
      <4>2. credited'[k - 1] = profile.last_cycle_complete_at
        BY <2>1, <2>2, <3>2, <4>1 DEF ReputationInv, CreditIsDated
      <4> QED BY <2>2, <2>3, <3>2, <4>2
    <3> QED BY <2>1, <2>2, <3>1, <3>2
  <2>7. \A l \in 2..profile'.level : Len(credited') >= LEVEL_MIN_CYCLES[l]
    <3> TAKE l \in 2..profile'.level
    <3>1. l \in 2..profile.level /\ l \in 2..LEVEL_MAX
      BY <1>1, <2>4 DEF LEVEL_MAX
    <3>2. n >= LEVEL_MIN_CYCLES[l]
      BY <3>1 DEF ReputationInv, LevelsAreEarnedSlowly
    <3>3. LEVEL_MIN_CYCLES[l] \in Nat
      BY <3>1, ReputationAssumption
    <3> QED BY <2>1, <2>2, <3>2, <3>3
  <2> QED BY <1>8, <2>5, <2>6, <2>7 DEF ReputationInv, LevelsAreEarnedSlowly
<1> QED BY <1>9, <1>10

\* A revocation takes from the counters and the score; it gives no credit back,
\* and no date.
LEMMA RevokeKeeps ==
  ASSUME ReputationInv, NEW a \in BagToSet(standing), revoke(a)
  PROVE  ReputationInv'
<1>1. a.schema \in Schemas /\ profile \in Profile
  BY DEF ReputationInv, ReputationType
<1>2. ReversedDelta(a) \in Int
  <2>1. Delta(a.schema, a.verified_at_attest) \in Int
    BY <1>1, DeltaInt
  <2> QED BY <2>1 DEF ReversedDelta
<1>3. /\ profile' \in Profile /\ profile'.level = profile.level
      /\ profile'.last_cycle_complete_at = profile.last_cycle_complete_at
      /\ profile'.cycles_completed <= profile.cycles_completed
  <2>0. profile.cycles_completed \in Int
    BY <1>1 DEF Profile
  <2>1. CASE a.neutralized
    <3>1. profile' = profile
      BY <2>1 DEF revoke, Reversed
    <3> QED BY <1>1, <2>0, <3>1
  <2>2. CASE ~a.neutralized
    <3>1. profile' = Counted(apply_score_delta(profile, ReversedDelta(a)), a.schema, -1)
      BY <2>2 DEF revoke, Reversed
    <3>2. /\ profile' \in Profile /\ profile'.level = profile.level
          /\ profile'.last_cycle_complete_at = profile.last_cycle_complete_at
          /\ profile'.cycles_completed = IF a.schema = "POOL_COMPLETE"
                                         THEN profile.cycles_completed + -1
                                         ELSE profile.cycles_completed
      BY <1>1, <1>2, <3>1, CountedProfile, -1 \in Int
    <3> QED BY <2>0, <3>2
  <2> QED BY <2>1, <2>2
<1>4. BagToSet(standing)' \subseteq BagToSet(standing)
  BY DEF revoke, BagToSet, (-)
<1>5. UNCHANGED <<required_min_level, clock, credited>>
  BY DEF revoke
<1>6. ReputationType'
  BY <1>3, <1>4, <1>5 DEF ReputationInv, ReputationType
<1>7. profile'.level <= profile.level
  BY <1>1, <1>3 DEF Profile, LEVEL_MIN, LEVEL_MAX
<1> QED BY <1>3, <1>5, <1>6, <1>7, CreditsKept

\* A level is promoted to no more than the one resolved, which was earned.
LEMMA PromoteKeeps ==
  ASSUME ReputationInv, promote_level
  PROVE  ReputationInv'
<1> DEFINE r == resolve_level(profile)
           n == cap_level_for_identity(r, is_verified(identity))
<1>1. profile \in Profile /\ required_min_level \in {0} \cup 2..LEVEL_MAX
  BY DEF ReputationInv, ReputationType
<1>2. r \in LEVEL_MIN..LEVEL_MAX /\ \A l \in 2..r : profile.cycles_completed >= LEVEL_MIN_CYCLES[l]
  BY <1>1, ResolvedIsEarned
<1>3. n \in LEVEL_MIN..r
  <2>1. is_verified(identity) \in BOOLEAN
    BY DEF is_verified
  <2> HIDE DEF r
  <2> QED BY <1>1, <1>2, <2>1, CapOnlyLowers
<1>4. /\ profile' = [profile EXCEPT !.level = n]
      /\ UNCHANGED <<required_min_level, clock, standing, credited>>
  BY DEF promote_level
<1> HIDE DEF r, n
<1>5. n \in LEVEL_MIN..LEVEL_MAX /\ n <= r
  BY <1>2, <1>3 DEF LEVEL_MIN, LEVEL_MAX
<1>6. /\ profile' \in Profile /\ profile'.level = n
      /\ profile'.cycles_completed = profile.cycles_completed
      /\ profile'.last_cycle_complete_at = profile.last_cycle_complete_at
  BY <1>1, <1>4, <1>5 DEF Profile
<1>7. ReputationType'
  BY <1>4, <1>6 DEF ReputationInv, ReputationType, BagToSet
<1>8. CreditIsDated'
  BY <1>4, <1>6 DEF ReputationInv, CreditIsDated
<1>9. \A l \in 2..profile'.level : Len(credited') >= LEVEL_MIN_CYCLES[l]
  <2> TAKE l \in 2..profile'.level
  <2>1. l \in 2..r /\ l \in 2..LEVEL_MAX
    BY <1>2, <1>5, <1>6 DEF LEVEL_MIN, LEVEL_MAX
  <2>2. profile.cycles_completed >= LEVEL_MIN_CYCLES[l]
    BY <1>2, <2>1
  <2>3. profile.cycles_completed \in Int /\ LEVEL_MIN_CYCLES[l] \in Nat
    BY <1>1, <2>1, ReputationAssumption DEF Profile
  <2>4. Len(credited) \in Nat /\ profile.cycles_completed <= Len(credited)
    BY DEF ReputationInv, ReputationType, CreditIsDated
  <2> QED BY <1>4, <2>2, <2>3, <2>4
<1> QED BY <1>4, <1>7, <1>8, <1>9 DEF ReputationInv, LevelsAreEarnedSlowly

\* An identity that lapses, or is taken away, may cost a level and gives none.
LEMMA DemotionKeeps ==
  ASSUME ReputationInv, profile' \in {profile, demote_to_identity_floor(profile)},
         UNCHANGED <<required_min_level, clock, standing, credited>>
  PROVE  ReputationInv'
<1> DEFINE c == cap_level_for_identity(profile.level, FALSE)
<1>1. /\ profile \in Profile /\ required_min_level \in {0} \cup 2..LEVEL_MAX
      /\ profile.level \in LEVEL_MIN..LEVEL_MAX /\ profile.cycles_completed \in Int
  BY DEF ReputationInv, ReputationType, Profile
<1>2. c \in LEVEL_MIN..profile.level
  BY <1>1, CapOnlyLowers
<1>3. demote_to_identity_floor(profile) = [profile EXCEPT !.level = c]
  BY DEF demote_to_identity_floor
<1> HIDE DEF c
<1>4. c \in LEVEL_MIN..LEVEL_MAX /\ c <= profile.level
  BY <1>1, <1>2 DEF LEVEL_MIN, LEVEL_MAX
<1>5. /\ profile' \in Profile /\ profile'.level <= profile.level
      /\ profile'.cycles_completed = profile.cycles_completed
      /\ profile'.last_cycle_complete_at = profile.last_cycle_complete_at
  <2>1. CASE profile' = profile
    BY <1>1, <2>1 DEF LEVEL_MIN, LEVEL_MAX
  <2>2. CASE profile' = [profile EXCEPT !.level = c]
    BY <1>1, <1>4, <2>2 DEF Profile
  <2> QED BY <1>3, <2>1, <2>2
<1>6. ReputationType'
  BY <1>5 DEF ReputationInv, ReputationType, BagToSet
<1>7. profile'.cycles_completed <= profile.cycles_completed
  BY <1>1, <1>5
<1> QED BY <1>5, <1>6, <1>7, CreditsKept

\* Every call keeps it, whoever makes it.
LEMMA ReputationStepKeeps == ReputationInv /\ [ReputationNext]_rvars => ReputationInv'
<1> SUFFICES ASSUME ReputationInv, [ReputationNext]_rvars PROVE ReputationInv'
  OBVIOUS
<1>1. ASSUME NEW issuer \in {"admin", "pool"}, NEW schema \in Attested,
             NEW verified \in BOOLEAN, attest(issuer, schema, verified)
      PROVE  ReputationInv'
  BY <1>1, AttestKeeps
<1>2. ASSUME NEW a \in BagToSet(standing), revoke(a) PROVE ReputationInv'
  BY <1>2, RevokeKeeps
<1>3. CASE promote_level
  BY <1>3, PromoteKeeps
<1>4. ASSUME NEW view, link_passport_identity(view) PROVE ReputationInv'
  BY <1>4, DemotionKeeps DEF link_passport_identity
<1>5. ASSUME NEW view, refresh_identity(view) PROVE ReputationInv'
  BY <1>5, DemotionKeeps DEF refresh_identity
<1>6. CASE unlink_identity
  BY <1>6, DemotionKeeps DEF unlink_identity
<1>7. ASSUME NEW floor \in IdentityFloors, set_identity_gate(floor) PROVE ReputationInv'
  <2>1. required_min_level' \in {0} \cup 2..LEVEL_MAX
    BY <1>7, ReputationAssumption DEF set_identity_gate
  <2>2. UNCHANGED <<profile, clock, standing, credited>>
    BY <1>7 DEF set_identity_gate
  <2> QED BY <2>1, <2>2 DEF ReputationInv, ReputationType, CreditIsDated, LevelsAreEarnedSlowly, BagToSet
<1>8. CASE ClockTicks
  <2>1. clock' \in Int
    BY <1>8 DEF ClockTicks, ReputationInv, ReputationType
  <2>2. UNCHANGED <<profile, required_min_level, standing, credited>>
    BY <1>8 DEF ClockTicks
  <2> QED BY <2>1, <2>2 DEF ReputationInv, ReputationType, CreditIsDated, LevelsAreEarnedSlowly, BagToSet
<1>9. CASE UNCHANGED rvars
  BY <1>9, DemotionKeeps DEF rvars
<1> QED BY <1>1, <1>2, <1>3, <1>4, <1>5, <1>6, <1>7, <1>8, <1>9 DEF ReputationNext

\* A new profile is at the first level and was credited nothing.
LEMMA ReputationInitEstablishes == ReputationInit => ReputationInv
<1> SUFFICES ASSUME ReputationInit PROVE ReputationInv
  OBVIOUS
<1>1. clock \in Int
  BY ReputationAssumption DEF ReputationInit
<1>2. BagToSet(standing) = {}
  BY DEF ReputationInit, EmptyBag, SetToBag, BagToSet
<1>3. profile \in Profile
  BY DEF ReputationInit, Profile, LEVEL_MIN, LEVEL_MAX
<1>4. credited \in Seq(Int) /\ credited = <<>> /\ Len(credited) = 0
  BY DEF ReputationInit
<1>5. ReputationType
  BY <1>1, <1>2, <1>3, <1>4 DEF ReputationInit, ReputationType
<1>6. profile.cycles_completed = 0 /\ profile.level = 1
  BY DEF ReputationInit, LEVEL_MIN
<1>7. CreditIsDated
  BY <1>4, <1>6 DEF CreditIsDated
<1>8. LevelsAreEarnedSlowly
  BY <1>4, <1>6 DEF LevelsAreEarnedSlowly
<1> QED BY <1>5, <1>7, <1>8 DEF ReputationInv

\* Whatever the thresholds, cooldowns and gates, and however attestations,
\* revocations and identities interleave: completions are credited a cooldown
\* apart, and no level is held without as many as it takes.
THEOREM LevelsTakeTime == ReputationSpec => []LevelsAreEarnedSlowly
<1>1. ReputationInv => LevelsAreEarnedSlowly
  BY DEF ReputationInv
<1> QED
  BY <1>1, ReputationInitEstablishes, ReputationStepKeeps, PTL DEF ReputationSpec

----------------------------------------------------------------------------
(* What the score and the counters stand for.                              *)

RecordBag(n) ==
  /\ IsFiniteSet(DOMAIN n)
  /\ n \in [DOMAIN n -> Nat \ {0}]
  /\ \A a \in DOMAIN n : a.schema \in Schemas

\* m is n with one more copy of e.
OneMore(n, m, e) ==
  /\ DOMAIN m = DOMAIN n \cup {e}
  /\ \A a \in DOMAIN n \ {e} : m[a] = n[a]
  /\ e \in DOMAIN n => m[e] = n[e] + 1
  /\ e \notin DOMAIN n => m[e] = 1

Worth(a) == Delta(a.schema, a.verified_at_attest)

CountsFor(n, schemas) == {a \in DOMAIN n : a.schema \in schemas /\ ~a.neutralized}
CountIn(n, schemas) == SumOver(n, CountsFor(n, schemas))

CreditOf(n) == [a \in DOMAIN n |-> n[a] * Worth(a)]
CreditIn(n) == SumOver(CreditOf(n), {a \in DOMAIN n : ~a.neutralized})

LEMMA CountOneMore ==
  ASSUME NEW n, NEW m, NEW e, RecordBag(n), OneMore(n, m, e), NEW schemas
  PROVE  /\ CountIn(n, schemas) \in Int
         /\ CountIn(m, schemas) = CountIn(n, schemas)
              + (IF e.schema \in schemas /\ ~e.neutralized THEN 1 ELSE 0)
<1>1. PICK D, E : D = CountsFor(n, schemas) /\ E = CountsFor(m, schemas)
  OBVIOUS
<1>2. /\ D \subseteq DOMAIN n /\ IsFiniteSet(D) /\ \A a \in D : n[a] \in Int
      /\ \A a \in D \ {e} : m[a] = n[a]
  BY <1>1, FS_Subset DEF RecordBag, OneMore, CountsFor
<1>3. SumOver(n, D) \in Int
  BY <1>2, SumType
<1>4. CASE e.schema \in schemas /\ ~e.neutralized
  <2>1. E = D \cup {e} /\ (e \in D <=> e \in DOMAIN n)
    BY <1>1, <1>4 DEF OneMore, CountsFor
  <2>2. /\ e \in D => m[e] = n[e] + 1
        /\ e \notin D => m[e] = 1
    BY <2>1 DEF OneMore
  <2>3. SumOver(m, E) = SumOver(n, D) + 1
    BY <1>2, <2>1, <2>2, SumMore
  <2> QED BY <1>1, <1>3, <1>4, <2>3 DEF CountIn
<1>5. CASE ~(e.schema \in schemas /\ ~e.neutralized)
  <2>1. E = D /\ e \notin D
    BY <1>1, <1>5 DEF OneMore, CountsFor
  <2>2. SumOver(m, D) = SumOver(n, D)
    BY <1>2, <2>1, SumSame
  <2> QED BY <1>1, <1>3, <1>5, <2>1, <2>2 DEF CountIn
<1> QED BY <1>4, <1>5

LEMMA CreditOneMore ==
  ASSUME NEW n, NEW m, NEW e, RecordBag(n), OneMore(n, m, e), e.schema \in Schemas
  PROVE  /\ CreditIn(n) \in Int
         /\ CreditIn(m) = CreditIn(n) + (IF ~e.neutralized THEN Worth(e) ELSE 0)
<1>1. PICK D, E, f, h, w : /\ D = {a \in DOMAIN n : ~a.neutralized}
                           /\ E = {a \in DOMAIN m : ~a.neutralized}
                           /\ f = CreditOf(n) /\ h = CreditOf(m) /\ w = Worth(e)
  OBVIOUS
<1>2. w \in Int /\ \A a \in DOMAIN n : Worth(a) \in Int
  BY <1>1, DeltaInt DEF Worth, RecordBag
<1>3. \A a \in DOMAIN n : f[a] \in Int
  <2> TAKE a \in DOMAIN n
  <2>1. n[a] \in Nat /\ f[a] = n[a] * Worth(a)
    BY <1>1 DEF RecordBag, CreditOf
  <2>2. Worth(a) \in Int
    BY <1>2
  <2> QED BY <2>1, <2>2
<1>4. \A a \in DOMAIN n \ {e} : h[a] = f[a]
  BY <1>1 DEF CreditOf, OneMore
<1>5. /\ e \in DOMAIN n => h[e] = f[e] + w
      /\ e \notin DOMAIN n => h[e] = w
  <2>1. e \in DOMAIN m /\ h[e] = m[e] * w
    BY <1>1 DEF CreditOf, OneMore
  <2>2. CASE e \in DOMAIN n
    <3>1. n[e] \in Nat /\ m[e] = n[e] + 1 /\ f[e] = n[e] * w
      BY <1>1, <2>2 DEF RecordBag, OneMore, CreditOf
    <3>2. (n[e] + 1) * w = n[e] * w + w
      BY <1>2, <3>1
    <3> QED BY <2>1, <2>2, <3>1, <3>2
  <2>3. CASE e \notin DOMAIN n
    <3>1. m[e] = 1
      BY <2>3 DEF OneMore
    <3> QED BY <1>2, <2>1, <2>3, <3>1
  <2> QED BY <2>2, <2>3
<1>6. /\ D \subseteq DOMAIN n /\ IsFiniteSet(D) /\ \A a \in D : f[a] \in Int
      /\ \A a \in D \ {e} : h[a] = f[a]
  BY <1>1, <1>3, <1>4, FS_Subset DEF RecordBag
<1>7. SumOver(f, D) \in Int
  BY <1>6, SumType
<1>8. CASE ~e.neutralized
  <2>1. E = D \cup {e} /\ (e \in D <=> e \in DOMAIN n)
    BY <1>1, <1>8 DEF OneMore
  <2>2. SumOver(h, E) = SumOver(f, D) + w
    BY <1>2, <1>5, <1>6, <2>1, SumMore
  <2> QED BY <1>1, <1>7, <1>8, <2>2 DEF CreditIn
<1>9. CASE e.neutralized
  <2>1. E = D /\ e \notin D
    BY <1>1, <1>9 DEF OneMore
  <2>2. SumOver(h, D) = SumOver(f, D)
    BY <1>6, <2>1, SumSame
  <2>3. CreditIn(m) = SumOver(h, D) /\ CreditIn(n) = SumOver(f, D)
    BY <1>1, <2>1 DEF CreditIn
  <2>4. CreditIn(m) = CreditIn(n) + 0
    BY <1>7, <2>2, <2>3
  <2> QED BY <1>7, <1>9, <2>3, <2>4
<1> QED BY <1>8, <1>9

\* The score is worth the standing attestations, and the counters count them.
Covered ==
  /\ profile.score >= CreditIn(standing)
  /\ profile.on_time_payments = CountIn(standing, {"PAYMENT"})
  /\ profile.late_payments = CountIn(standing, {"LATE"})
  /\ profile.defaults = CountIn(standing, {"DEFAULT"})
  /\ profile.cycles_completed = CountIn(standing, {"POOL_COMPLETE"})
  /\ profile.total_participated = CountIn(standing, {"POOL_COMPLETE", "PAYOUT_CLAIMED"})

CoverInv == ReputationInv /\ RecordBag(standing) /\ Covered

\* q is p with delta on the score, or zero, and by on the counters of the schema.
Tallied(p, q, delta, schema, by) ==
  /\ q.score >= p.score + delta
  /\ q.on_time_payments = p.on_time_payments + (IF schema = "PAYMENT" THEN by ELSE 0)
  /\ q.late_payments = p.late_payments + (IF schema = "LATE" THEN by ELSE 0)
  /\ q.defaults = p.defaults + (IF schema = "DEFAULT" THEN by ELSE 0)
  /\ q.cycles_completed = p.cycles_completed + (IF schema = "POOL_COMPLETE" THEN by ELSE 0)
  /\ q.total_participated = p.total_participated
       + (IF schema \in {"POOL_COMPLETE", "PAYOUT_CLAIMED"} THEN by ELSE 0)

LEMMA CountedTally ==
  ASSUME NEW p \in Profile, NEW delta \in Int, NEW schema, NEW by \in Int
  PROVE  Tallied(p, Counted(apply_score_delta(p, delta), schema, by), delta, schema, by)
<1> DEFINE s == IF p.score + delta > 0 THEN p.score + delta ELSE 0
           a == apply_score_delta(p, delta)
           q == Counted(a, schema, by)
<1>1. s \in Int /\ s >= p.score + delta
  BY DEF Profile
<1>2. a = [p EXCEPT !.score = s]
  BY DEF apply_score_delta
<1> HIDE DEF s, a
<1>3. /\ a \in Profile /\ a.score = s /\ a.on_time_payments = p.on_time_payments
      /\ a.late_payments = p.late_payments /\ a.defaults = p.defaults
      /\ a.cycles_completed = p.cycles_completed
      /\ a.total_participated = p.total_participated
  BY <1>1, <1>2 DEF Profile
<1>4. /\ q.score = a.score
      /\ q.on_time_payments = a.on_time_payments + (IF schema = "PAYMENT" THEN by ELSE 0)
      /\ q.late_payments = a.late_payments + (IF schema = "LATE" THEN by ELSE 0)
      /\ q.defaults = a.defaults + (IF schema = "DEFAULT" THEN by ELSE 0)
  BY <1>3 DEF Counted, Profile
<1>5. q.cycles_completed = a.cycles_completed + (IF schema = "POOL_COMPLETE" THEN by ELSE 0)
  BY <1>3 DEF Counted, Profile
<1>6. q.total_participated = a.total_participated
        + (IF schema \in {"POOL_COMPLETE", "PAYOUT_CLAIMED"} THEN by ELSE 0)
  BY <1>3 DEF Counted, Profile
<1> HIDE DEF q
<1>7. Tallied(p, q, delta, schema, by)
  BY <1>1, <1>3, <1>4, <1>5, <1>6 DEF Tallied
<1> QED BY <1>7 DEF q, a

\* A call about attestation e that tallies it, or takes it back, keeps the books.
LEMMA TallyKeeps ==
  ASSUME CoverInv, ReputationInv', RecordBag(standing'), NEW e, e.schema \in Schemas,
         NEW by \in {1, -1},
         by = 1 => OneMore(standing, standing', e),
         by = -1 => OneMore(standing', standing, e),
         ~e.neutralized => Tallied(profile, profile', by * Worth(e), e.schema, by),
         e.neutralized => /\ profile'.score = profile.score
                          /\ profile'.on_time_payments = profile.on_time_payments
                          /\ profile'.late_payments = profile.late_payments
                          /\ profile'.defaults = profile.defaults
                          /\ profile'.cycles_completed = profile.cycles_completed
                          /\ profile'.total_participated = profile.total_participated
  PROVE  CoverInv'
<1>1. RecordBag(standing) /\ Covered /\ profile \in Profile /\ profile' \in Profile
  BY DEF CoverInv, ReputationInv, ReputationType, Profile, LEVEL_MIN, LEVEL_MAX
<1>2. PICK w : w = Worth(e)
  OBVIOUS
<1>3. w \in Int
  BY <1>2, DeltaInt DEF Worth
<1>4. /\ CreditIn(standing') = CreditIn(standing) + (IF ~e.neutralized THEN by * w ELSE 0)
      /\ CreditIn(standing) \in Int
  <2>1. CASE by = 1
    BY <1>1, <1>2, <1>3, <2>1, CreditOneMore
  <2>2. CASE by = -1
    <3>1. /\ CreditIn(standing) = CreditIn(standing') + (IF ~e.neutralized THEN w ELSE 0)
          /\ CreditIn(standing') \in Int
      BY <1>2, <2>2, CreditOneMore
    <3> QED BY <1>3, <2>2, <3>1
  <2> QED BY <2>1, <2>2
<1>5. \A schemas :
        /\ CountIn(standing', schemas) = CountIn(standing, schemas)
             + (IF e.schema \in schemas /\ ~e.neutralized THEN by ELSE 0)
        /\ CountIn(standing, schemas) \in Int
  <2> TAKE schemas
  <2>1. CASE by = 1
    BY <1>1, <2>1, CountOneMore
  <2>2. CASE by = -1
    <3>1. /\ CountIn(standing, schemas) = CountIn(standing', schemas)
               + (IF e.schema \in schemas /\ ~e.neutralized THEN 1 ELSE 0)
          /\ CountIn(standing', schemas) \in Int
      BY <2>2, CountOneMore
    <3> QED BY <2>2, <3>1
  <2> QED BY <2>1, <2>2
<1>6. profile'.score >= CreditIn(standing')
  <2>1. profile.score \in Int /\ profile'.score \in Int /\ by * w \in Int
        /\ profile.score >= CreditIn(standing)
    BY <1>1, <1>3 DEF Profile, Covered
  <2>2. CASE ~e.neutralized
    <3>1. profile'.score >= profile.score + by * w
      BY <1>2, <2>2 DEF Tallied
    <3> QED BY <1>4, <2>1, <2>2, <3>1
  <2>3. CASE e.neutralized
    BY <1>4, <2>1, <2>3
  <2> QED BY <2>2, <2>3
<1>7. /\ profile'.on_time_payments = CountIn(standing', {"PAYMENT"})
      /\ profile'.late_payments = CountIn(standing', {"LATE"})
      /\ profile'.defaults = CountIn(standing', {"DEFAULT"})
      /\ profile'.cycles_completed = CountIn(standing', {"POOL_COMPLETE"})
      /\ profile'.total_participated
           = CountIn(standing', {"POOL_COMPLETE", "PAYOUT_CLAIMED"})
  <2>1. PICK one, two, three, four, five :
          /\ one = {"PAYMENT"} /\ two = {"LATE"} /\ three = {"DEFAULT"}
          /\ four = {"POOL_COMPLETE"} /\ five = {"POOL_COMPLETE", "PAYOUT_CLAIMED"}
    OBVIOUS
  <2>2. /\ profile.on_time_payments = CountIn(standing, one)
        /\ profile.late_payments = CountIn(standing, two)
        /\ profile.defaults = CountIn(standing, three)
        /\ profile.cycles_completed = CountIn(standing, four)
        /\ profile.total_participated = CountIn(standing, five)
    BY <1>1, <2>1 DEF Covered
  <2>3. CASE ~e.neutralized
    <3>1. /\ profile'.on_time_payments
               = profile.on_time_payments + (IF e.schema \in one THEN by ELSE 0)
          /\ profile'.late_payments
               = profile.late_payments + (IF e.schema \in two THEN by ELSE 0)
          /\ profile'.defaults = profile.defaults + (IF e.schema \in three THEN by ELSE 0)
          /\ profile'.cycles_completed
               = profile.cycles_completed + (IF e.schema \in four THEN by ELSE 0)
          /\ profile'.total_participated
               = profile.total_participated + (IF e.schema \in five THEN by ELSE 0)
      BY <2>1, <2>3 DEF Tallied
    <3> QED BY <1>5, <2>1, <2>2, <2>3, <3>1
  <2>4. CASE e.neutralized
    BY <1>5, <2>1, <2>2, <2>4
  <2> QED BY <2>3, <2>4
<1> QED BY <1>6, <1>7 DEF CoverInv, Covered

\* A call that changes neither the books nor what they count.
LEMMA CoverKept ==
  ASSUME CoverInv, ReputationInv', standing' = standing,
         profile' = profile \/ \E l : profile' = [profile EXCEPT !.level = l]
  PROVE  CoverInv'
<1>1. profile \in Profile
  BY DEF CoverInv, ReputationInv, ReputationType
<1>2. /\ profile'.score = profile.score
      /\ profile'.on_time_payments = profile.on_time_payments
      /\ profile'.late_payments = profile.late_payments
      /\ profile'.defaults = profile.defaults
      /\ profile'.cycles_completed = profile.cycles_completed
      /\ profile'.total_participated = profile.total_participated
  BY <1>1 DEF Profile
<1>3. RecordBag(standing')
  BY DEF CoverInv
<1>4. Covered'
  <2>1. CreditIn(standing') = CreditIn(standing)
    OBVIOUS
  <2>2. \A schemas : CountIn(standing', schemas) = CountIn(standing, schemas)
    OBVIOUS
  <2> QED BY <1>2, <2>1, <2>2 DEF CoverInv, Covered
<1> QED BY <1>3, <1>4 DEF CoverInv

\* What Applied does beyond the books: a level, a date.
LEMMA AppliedTally ==
  ASSUME ReputationInv, NEW schema \in Schemas, NEW verified \in BOOLEAN
  PROVE  Tallied(profile, Applied(schema, verified), Delta(schema, verified), schema, 1)
<1> DEFINE d == Delta(schema, verified)
           p == Counted(apply_score_delta(profile, d), schema, 1)
           m == Min({p.level, resolve_level(p)})
<1>1. d \in Int /\ profile \in Profile
  BY DeltaInt DEF ReputationInv, ReputationType
<1> HIDE DEF d
<1>2. p \in Profile /\ Tallied(profile, p, d, schema, 1)
  BY <1>1, CountedProfile, CountedTally, 1 \in Int
<1>3. \/ Applied(schema, verified) = [p EXCEPT !.level = m]
      \/ Applied(schema, verified) = [p EXCEPT !.last_cycle_complete_at = clock]
      \/ Applied(schema, verified) = p
  BY DEF Applied, d
<1> HIDE DEF p, m
<1>4. /\ Applied(schema, verified).score = p.score
      /\ Applied(schema, verified).on_time_payments = p.on_time_payments
      /\ Applied(schema, verified).late_payments = p.late_payments
      /\ Applied(schema, verified).defaults = p.defaults
      /\ Applied(schema, verified).cycles_completed = p.cycles_completed
      /\ Applied(schema, verified).total_participated = p.total_participated
  BY <1>2, <1>3 DEF Profile
<1>5. Tallied(profile, Applied(schema, verified), d, schema, 1)
  BY <1>2, <1>4 DEF Tallied
<1> QED BY <1>5 DEF d

LEMMA AttestCovers ==
  ASSUME CoverInv, NEW issuer \in {"admin", "pool"}, NEW schema \in Attested,
         NEW verified \in BOOLEAN, attest(issuer, schema, verified)
  PROVE  CoverInv'
<1> DEFINE neutralized == schema = "POOL_COMPLETE" /\ InCooldown
           p == IF neutralized THEN profile ELSE Applied(schema, verified)
<1>1. /\ ReputationInv /\ ReputationInv' /\ RecordBag(standing) /\ schema \in Schemas
      /\ profile \in Profile
  BY AttestKeeps, ReputationAssumption DEF CoverInv, ReputationInv, ReputationType
<1>2. PICK a : a = [issuer |-> issuer, schema |-> schema,
                    verified_at_attest |-> verified, neutralized |-> neutralized]
  OBVIOUS
<1>3. /\ a.schema = schema /\ a.verified_at_attest = verified
      /\ a.neutralized = neutralized
  BY <1>2
<1>4. standing' = standing (+) SetToBag({a})
  BY <1>2 DEF attest
<1>5. profile' = (IF issuer = "admin" THEN [p EXCEPT !.last_admin_attest_at = clock] ELSE p)
  BY DEF attest
<1>6. p \in Profile
  <2>1. Applied(schema, verified) \in Profile
    BY <1>1, AppliedProfile
  <2> HIDE DEF neutralized
  <2> QED BY <1>1, <2>1
<1>7. /\ neutralized => p = profile
      /\ ~neutralized => p = Applied(schema, verified)
  OBVIOUS
<1> HIDE DEF p, neutralized
<1>8. /\ profile'.score = p.score
      /\ profile'.on_time_payments = p.on_time_payments
      /\ profile'.late_payments = p.late_payments
      /\ profile'.defaults = p.defaults
      /\ profile'.cycles_completed = p.cycles_completed
      /\ profile'.total_participated = p.total_participated
  BY <1>5, <1>6 DEF Profile
<1>9. PICK new : new = {a}
  OBVIOUS
<1>10. /\ DOMAIN standing' = DOMAIN standing \cup new
       /\ \A x \in DOMAIN standing' :
            standing'[x] = (IF x \in DOMAIN standing THEN standing[x] ELSE 0)
                           + (IF x \in new THEN 1 ELSE 0)
  BY <1>4, <1>9 DEF SetToBag, (+)
<1>11. \A x : x \in new <=> x = a
  BY <1>9
<1>12. \A x \in DOMAIN standing : standing[x] \in Nat \ {0}
  BY <1>1 DEF RecordBag
<1>13. OneMore(standing, standing', a)
  <2>1. DOMAIN standing' = DOMAIN standing \cup {a}
    BY <1>9, <1>10
  <2>2. \A x \in DOMAIN standing \ {a} : standing'[x] = standing[x]
    BY <1>10, <1>11, <1>12
  <2>3. a \in DOMAIN standing => standing'[a] = standing[a] + 1
    BY <1>10, <1>11, <1>12
  <2>4. a \notin DOMAIN standing => standing'[a] = 1
    BY <1>10, <1>11
  <2> QED BY <2>1, <2>2, <2>3, <2>4 DEF OneMore
<1>14. RecordBag(standing')
  <2>1. IsFiniteSet(DOMAIN standing')
    BY <1>1, <1>13, FS_AddElement DEF RecordBag, OneMore
  <2>2. standing' = [x \in DOMAIN standing' |-> standing'[x]]
    BY <1>4 DEF (+)
  <2>3. \A x \in DOMAIN standing' : standing'[x] \in Nat \ {0}
    <3> TAKE x \in DOMAIN standing'
    <3>1. CASE x \in DOMAIN standing
      BY <1>10, <1>12, <3>1
    <3>2. CASE x \notin DOMAIN standing
      BY <1>10, <3>2
    <3> QED BY <3>1, <3>2
  <2>4. \A x \in DOMAIN standing' : x.schema \in Schemas
    BY <1>1, <1>3, <1>13 DEF RecordBag, OneMore
  <2> QED BY <2>1, <2>2, <2>3, <2>4 DEF RecordBag
<1>15. ~a.neutralized => Tallied(profile, profile', 1 * Worth(a), a.schema, 1)
  <2> SUFFICES ASSUME ~a.neutralized
               PROVE  Tallied(profile, profile', 1 * Worth(a), a.schema, 1)
    OBVIOUS
  <2>1. PICK w : w = Delta(schema, verified)
    OBVIOUS
  <2>2. Tallied(profile, p, w, schema, 1)
    BY <1>1, <1>3, <1>7, <2>1, AppliedTally
  <2>3. Worth(a) = w /\ w \in Int
    BY <1>1, <1>3, <2>1, DeltaInt DEF Worth
  <2>4. 1 * w = w
    BY <2>3
  <2>5. Tallied(profile, profile', w, schema, 1)
    BY <1>8, <2>2 DEF Tallied
  <2> QED BY <1>3, <2>3, <2>4, <2>5
<1>16. a.neutralized => /\ profile'.score = profile.score
                        /\ profile'.on_time_payments = profile.on_time_payments
                        /\ profile'.late_payments = profile.late_payments
                        /\ profile'.defaults = profile.defaults
                        /\ profile'.cycles_completed = profile.cycles_completed
                        /\ profile'.total_participated = profile.total_participated
  BY <1>3, <1>7, <1>8
<1>17. PICK by \in {1, -1} : by = 1
  OBVIOUS
<1>18. ~a.neutralized => Tallied(profile, profile', by * Worth(a), a.schema, by)
  BY <1>15, <1>17
<1>19. (by = 1 => OneMore(standing, standing', a)) /\ by # -1
  BY <1>13, <1>17
<1> QED BY <1>1, <1>3, <1>14, <1>16, <1>18, <1>19, TallyKeeps

LEMMA RevokeCovers ==
  ASSUME CoverInv, NEW a \in BagToSet(standing), revoke(a)
  PROVE  CoverInv'
<1>1. /\ ReputationInv /\ ReputationInv' /\ RecordBag(standing) /\ profile \in Profile
      /\ a \in DOMAIN standing /\ a.schema \in Schemas
      /\ \A x \in DOMAIN standing : standing[x] \in Nat \ {0}
  BY RevokeKeeps DEF CoverInv, ReputationInv, ReputationType, RecordBag, BagToSet
<1>2. PICK old : old = {a}
  OBVIOUS
<1>3. standing' = standing (-) SetToBag(old)
  BY <1>2 DEF revoke
<1>4. \A x : x \in old <=> x = a
  BY <1>2
<1>5. PICK left : left = [x \in DOMAIN standing |-> IF x \in old THEN standing[x] - 1
                                                              ELSE standing[x]]
  OBVIOUS
<1>6. standing' = [x \in {y \in DOMAIN left : left[y] > 0} |-> left[x]]
  <2>1. /\ DOMAIN SetToBag(old) = old /\ \A x \in old : SetToBag(old)[x] = 1
    BY DEF SetToBag
  <2>2. left = [x \in DOMAIN standing |-> IF x \in DOMAIN SetToBag(old)
                                          THEN standing[x] - SetToBag(old)[x]
                                          ELSE standing[x]]
    BY <1>5, <2>1
  <2> QED BY <1>3, <2>2 DEF (-)
<1>7. /\ left[a] = standing[a] - 1
      /\ \A x \in DOMAIN standing \ {a} : left[x] = standing[x]
      /\ DOMAIN left = DOMAIN standing
  BY <1>1, <1>4, <1>5
<1>8. /\ DOMAIN standing' = {y \in DOMAIN standing : left[y] > 0}
      /\ \A x \in DOMAIN standing' : standing'[x] = left[x]
  BY <1>6, <1>7
<1>9. \A x \in DOMAIN standing \ {a} : x \in DOMAIN standing' /\ standing'[x] = standing[x]
  <2> TAKE x \in DOMAIN standing \ {a}
  <2>1. standing[x] \in Nat \ {0} /\ left[x] = standing[x]
    BY <1>1, <1>7
  <2>2. left[x] > 0
    BY <2>1
  <2> QED BY <1>8, <2>1, <2>2
<1>10. OneMore(standing', standing, a)
  <2>1. DOMAIN standing = DOMAIN standing' \cup {a}
    BY <1>1, <1>8, <1>9
  <2>2. \A x \in DOMAIN standing' \ {a} : standing[x] = standing'[x]
    BY <1>8, <1>9
  <2>3. a \in DOMAIN standing' => standing[a] = standing'[a] + 1
    BY <1>1, <1>7, <1>8
  <2>4. a \notin DOMAIN standing' => standing[a] = 1
    <3>1. standing[a] \in Nat \ {0} /\ left[a] = standing[a] - 1
      BY <1>1, <1>7
    <3>2. a \notin DOMAIN standing' => ~(left[a] > 0)
      BY <1>1, <1>8
    <3> QED BY <3>1, <3>2
  <2> QED BY <2>1, <2>2, <2>3, <2>4 DEF OneMore
<1>11. RecordBag(standing')
  <2>1. IsFiniteSet(DOMAIN standing') /\ \A x \in DOMAIN standing' : x.schema \in Schemas
    <3>1. DOMAIN standing' \subseteq DOMAIN standing
      BY <1>8
    <3> QED BY <1>1, <3>1, FS_Subset DEF RecordBag
  <2>2. standing' = [x \in DOMAIN standing' |-> standing'[x]]
    BY <1>6
  <2>3. \A x \in DOMAIN standing' : standing'[x] \in Nat \ {0}
    <3> TAKE x \in DOMAIN standing'
    <3>1. x \in DOMAIN standing /\ left[x] > 0 /\ standing'[x] = left[x]
      BY <1>8
    <3>2. standing[x] \in Nat /\ (left[x] = standing[x] \/ left[x] = standing[x] - 1)
      BY <1>1, <1>7, <3>1
    <3> QED BY <3>1, <3>2
  <2> QED BY <2>1, <2>2, <2>3 DEF RecordBag
<1>12. PICK w : w = Worth(a)
  OBVIOUS
<1>13. w \in Int /\ ReversedDelta(a) = -w /\ -w \in Int
  BY <1>1, <1>12, DeltaInt DEF ReversedDelta, Worth
<1>14. ~a.neutralized => Tallied(profile, profile', -w, a.schema, -1)
  <2> SUFFICES ASSUME ~a.neutralized
               PROVE  Tallied(profile, profile', -w, a.schema, -1)
    OBVIOUS
  <2>1. profile' = Counted(apply_score_delta(profile, -w), a.schema, -1)
    BY <1>13 DEF revoke, Reversed
  <2>2. PICK delta, by : delta = -w /\ by = -1
    OBVIOUS
  <2>3. delta \in Int /\ by \in Int
    BY <1>13, <2>2
  <2>4. Tallied(profile, Counted(apply_score_delta(profile, delta), a.schema, by),
                delta, a.schema, by)
    BY <1>1, <2>3, CountedTally
  <2> QED BY <2>1, <2>2, <2>4
<1>15. a.neutralized => profile' = profile
  BY DEF revoke, Reversed
<1>16. PICK by \in {1, -1} : by = -1
  OBVIOUS
<1>17. ~a.neutralized => Tallied(profile, profile', by * Worth(a), a.schema, by)
  <2>1. by * w = -w
    BY <1>13, <1>16
  <2> QED BY <1>12, <1>14, <1>16, <2>1
<1>18. (by = -1 => OneMore(standing', standing, a)) /\ by # 1
  BY <1>10, <1>16
<1>19. a.neutralized => /\ profile'.score = profile.score
                        /\ profile'.on_time_payments = profile.on_time_payments
                        /\ profile'.late_payments = profile.late_payments
                        /\ profile'.defaults = profile.defaults
                        /\ profile'.cycles_completed = profile.cycles_completed
                        /\ profile'.total_participated = profile.total_participated
  BY <1>15
<1> QED BY <1>1, <1>11, <1>17, <1>18, <1>19, TallyKeeps

LEMMA CoverStepKeeps == ASSUME CoverInv, [ReputationNext]_rvars PROVE CoverInv'
<1>0. ReputationInv'
  BY ReputationStepKeeps DEF CoverInv
<1>1. ASSUME NEW issuer \in {"admin", "pool"}, NEW schema \in Attested,
             NEW verified \in BOOLEAN, attest(issuer, schema, verified)
      PROVE  CoverInv'
  BY <1>1, AttestCovers
<1>2. ASSUME NEW a \in BagToSet(standing), revoke(a) PROVE CoverInv'
  BY <1>2, RevokeCovers
<1>3. CASE promote_level
  BY <1>0, <1>3, CoverKept DEF promote_level
<1>4. ASSUME NEW view, link_passport_identity(view) PROVE CoverInv'
  BY <1>0, <1>4, CoverKept DEF link_passport_identity
<1>5. ASSUME NEW view, refresh_identity(view) PROVE CoverInv'
  BY <1>0, <1>5, CoverKept DEF refresh_identity, demote_to_identity_floor
<1>6. CASE unlink_identity
  BY <1>0, <1>6, CoverKept DEF unlink_identity, demote_to_identity_floor
<1>7. ASSUME NEW floor \in IdentityFloors, set_identity_gate(floor) PROVE CoverInv'
  BY <1>0, <1>7, CoverKept DEF set_identity_gate
<1>8. CASE ClockTicks
  BY <1>0, <1>8, CoverKept DEF ClockTicks
<1>9. CASE UNCHANGED rvars
  BY <1>0, <1>9, CoverKept DEF rvars
<1> QED BY <1>1, <1>2, <1>3, <1>4, <1>5, <1>6, <1>7, <1>8, <1>9 DEF ReputationNext

\* The sums of the property are those of the invariant.
LEMMA CreditSum ==
  ASSUME NEW n, RecordBag(n), NEW S \in SUBSET DOMAIN n
  PROVE  MapThenSumSet(LAMBDA a : n[a] * Delta(a.schema, a.verified_at_attest), S)
           = SumOver(CreditOf(n), S)
<1> DEFINE f == CreditOf(n)
           IsTable(g) ==
             g = [s \in SUBSET S |->
                    IF s = {} THEN 0
                    ELSE n[AnyOf(s)] * Delta(AnyOf(s).schema, AnyOf(s).verified_at_attest)
                         + g[s \ {AnyOf(s)}]]
           table == CHOOSE g : IsTable(g)
<1>1. IsFiniteSet(S)
  BY FS_Subset DEF RecordBag
<1>2. \A s \in SUBSET S : s # {} =>
        f[AnyOf(s)] = n[AnyOf(s)] * Delta(AnyOf(s).schema, AnyOf(s).verified_at_attest)
  BY AnyOfIsIn DEF CreditOf, Worth
<1>3. ASSUME NEW g PROVE IsTable(g) <=> IsSumTable(g, f, S)
  <2>1. [s \in SUBSET S |->
           IF s = {} THEN 0
           ELSE n[AnyOf(s)] * Delta(AnyOf(s).schema, AnyOf(s).verified_at_attest)
                + g[s \ {AnyOf(s)}]]
          = [s \in SUBSET S |-> IF s = {} THEN 0 ELSE f[AnyOf(s)] + g[s \ {AnyOf(s)}]]
    <3> HIDE DEF f
    <3> QED BY <1>2
  <2> QED BY <2>1 DEF IsSumTable
<1>4. MapThenSumSet(LAMBDA a : n[a] * Delta(a.schema, a.verified_at_attest), S) = table[S]
  BY DEF MapThenSumSet, MapThenFoldSet, AnyOf
<1> HIDE DEF f, IsTable
<1>5. IsSumTable(SumTable(f, S), f, S)
  BY <1>1, TableExists
<1>6. IsTable(table)
  BY <1>3, <1>5
<1>7. IsSumTable(table, f, S)
  BY <1>3, <1>6
<1>8. table[S] = SumTable(f, S)[S]
  <2>1. S \in SUBSET (S \cap S)
    OBVIOUS
  <2> HIDE DEF table
  <2> QED BY <1>1, <1>5, <1>7, <2>1, TablesAgree
<1> QED BY <1>4, <1>8 DEF SumOver, f

LEMMA CountSum ==
  ASSUME NEW schemas PROVE Count(schemas) = CountIn(standing, schemas)
BY DEF Count, CountIn, CountsFor, BagToSet, MapThenSumSet, MapThenFoldSet, SumOver, SumTable,
       IsSumTable, AnyOf

\* However attestations, revocations and identities interleave: the score is worth
\* at least the standing attestations, as each was weighed when it was made, and
\* every counter counts the standing ones of its schemas.
THEOREM RevocationsAreZeroSum == ReputationSpec => []ScoreCoversTheRecord
<1>1. ReputationInit => CoverInv
  <2> SUFFICES ASSUME ReputationInit PROVE CoverInv
    OBVIOUS
  <2>1. ReputationInv
    BY ReputationInitEstablishes
  <2>2. standing = EmptyBag /\ DOMAIN standing = {}
    BY DEF ReputationInit, EmptyBag, SetToBag
  <2>3. RecordBag(standing)
    BY <2>2, FS_EmptySet DEF RecordBag, EmptyBag, SetToBag
  <2>4. /\ CreditIn(standing) = 0
        /\ \A schemas : CountIn(standing, schemas) = 0
    BY <2>2, SumUnfolds, FS_EmptySet DEF CreditIn, CountIn, CountsFor
  <2>5. Covered
    BY <2>4 DEF ReputationInit, Covered
  <2> QED BY <2>1, <2>3, <2>5 DEF CoverInv
<1>2. CoverInv /\ [ReputationNext]_rvars => CoverInv'
  BY CoverStepKeeps
<1>3. CoverInv => ScoreCoversTheRecord
  <2> SUFFICES ASSUME CoverInv PROVE ScoreCoversTheRecord
    OBVIOUS
  <2>1. PICK S : S = {a \in BagToSet(standing) : ~a.neutralized}
    OBVIOUS
  <2>2. S \in SUBSET DOMAIN standing /\ RecordBag(standing)
    BY <2>1 DEF BagToSet, CoverInv
  <2>3. MapThenSumSet(LAMBDA a : standing[a] * Delta(a.schema, a.verified_at_attest), S)
          = SumOver(CreditOf(standing), S)
    BY <2>2, CreditSum
  <2>4. CreditIn(standing) = SumOver(CreditOf(standing), S)
    BY <2>1 DEF CreditIn, BagToSet
  <2>5. profile.score >= MapThenSumSet(
          LAMBDA a : standing[a] * Delta(a.schema, a.verified_at_attest), S)
    BY <2>3, <2>4 DEF CoverInv, Covered
  <2>6. profile.score >= MapThenSumSet(
          LAMBDA a : standing[a] * Delta(a.schema, a.verified_at_attest),
          {a \in BagToSet(standing) : ~a.neutralized})
    BY <2>1, <2>5
  <2> QED BY <2>6, CountSum DEF CoverInv, Covered, ScoreCoversTheRecord
<1> QED BY <1>1, <1>2, <1>3, PTL DEF ReputationSpec

----------------------------------------------------------------------------
(* The slot draw.                                                          *)

\* order.swap(i, j) of a permutation is a permutation.
LEMMA SwapKeepsBijection ==
  ASSUME NEW f \in Bijection(Slots, Slots), NEW a \in Slots, NEW b \in Slots
  PROVE  swap(f, a, b) \in Bijection(Slots, Slots)
<1> DEFINE g == swap(f, a, b)
<1>1. g \in [Slots -> Slots] /\ \A s \in Slots :
        g[s] = IF s = b THEN f[a] ELSE IF s = a THEN f[b] ELSE f[s]
  BY DEF swap, Bijection, Injection, Surjection
<1> HIDE DEF g
<1>2. \A s, t \in Slots : g[s] = g[t] => s = t
  BY <1>1 DEF Bijection, Injection, IsInjective
<1>3. \A y \in Slots : \E s \in Slots : g[s] = y
  <2> SUFFICES ASSUME NEW y \in Slots PROVE \E s \in Slots : g[s] = y
    OBVIOUS
  <2>1. PICK s \in Slots : f[s] = y
    BY DEF Bijection, Surjection
  <2> QED BY <1>1, <2>1
<1> QED BY <1>1, <1>2, <1>3 DEF g, Bijection, Injection, Surjection, IsInjective

\* The loop counter stays in range and the slots are slots (vec![u8; n]).
THEOREM TypeCorrect == Spec => []TypeOK
<1>1. Init => TypeOK
  BY NAssumption DEF Init, TypeOK, Identity, Slots
<1>2. TypeOK /\ [Next]_vars => TypeOK'
  <2> SUFFICES ASSUME TypeOK, [Next]_vars PROVE TypeOK'
    OBVIOUS
  <2>1. ASSUME NEW j \in Picks, Turn(j)
        PROVE  TypeOK'
    <3>1. i \in Slots /\ j \in Slots
      BY <2>1, NAssumption DEF TypeOK, Picks, Slots
    <3>2. order' \in [Slots -> Slots]
      BY <2>1, <3>1 DEF TypeOK, Turn, swap
    <3>3. i' \in 0 .. N - 1
      BY <2>1, <3>1, NAssumption DEF Turn, Slots
    <3> QED BY <3>2, <3>3 DEF TypeOK
  <2>2. CASE UNCHANGED vars
    BY <2>2 DEF TypeOK, vars
  <2> QED BY <2>1, <2>2 DEF Next
<1> QED BY <1>1, <1>2, PTL DEF Spec

\* draw_slot_order yields a permutation whatever the seed: no cycle is drawn
\* twice and none is left without a member, for every pool size.
THEOREM DrawnOrderIsPermutation == Spec => []DrawIsPermutation
<1>1. Init => DrawIsPermutation
  <2> SUFFICES ASSUME Init PROVE DrawIsPermutation
    OBVIOUS
  <2>1. order = [s \in Slots |-> s]
    BY DEF Init, Identity
  <2> QED BY <2>1 DEF DrawIsPermutation, Bijection, Injection, Surjection, IsInjective
<1>2. TypeOK /\ DrawIsPermutation /\ [Next]_vars => DrawIsPermutation'
  <2> SUFFICES ASSUME TypeOK, DrawIsPermutation, [Next]_vars
               PROVE  DrawIsPermutation'
    OBVIOUS
  <2>1. ASSUME NEW j \in Picks, Turn(j)
        PROVE  DrawIsPermutation'
    <3>1. i \in Slots /\ j \in Slots
      BY <2>1, NAssumption DEF TypeOK, Picks, Slots
    <3> QED BY <2>1, <3>1, SwapKeepsBijection DEF DrawIsPermutation, Turn
  <2>2. CASE UNCHANGED vars
    BY <2>2 DEF DrawIsPermutation, vars
  <2> QED BY <2>1, <2>2 DEF Next
<1> QED BY <1>1, <1>2, TypeCorrect, PTL DEF Spec

\* A turn of the loop only touches the slots at or below its counter, so a slot
\* the loop has passed is final: the result can be read once i is below it.
THEOREM PassedSlotsStay == Spec => PassedSlotsAreFinal
<1>1. TypeOK /\ [Next]_vars =>
        [\A s \in Slots : s > i => order'[s] = order[s]]_vars
  <2> SUFFICES ASSUME TypeOK, NEW j \in Picks, Turn(j), NEW s \in Slots, s > i
               PROVE  order'[s] = order[s]
    BY DEF Next
  <2>1. i \in Int /\ j \in Int /\ s # i /\ s # j
    BY NAssumption DEF TypeOK, Picks, Slots
  <2> QED BY <2>1 DEF TypeOK, Turn, swap
<1> QED BY <1>1, TypeCorrect, PTL DEF Spec, PassedSlotsAreFinal

----------------------------------------------------------------------------
(* The arithmetic against what it is for.                                  *)

\* The cascade is an allowed seizure, and none that is preferred is allowed.
LEMMA CascadeIsBestAllowed ==
  ASSUME NEW ins \in SettlementInputs
  PROVE  LET z == seize_for_default(ins)
             t == <<z.from_solidarity, z.from_escrow, z.from_stake>>
         IN  /\ t \in Allowed(ins)
             /\ \A u \in Allowed(ins) : Precedes(u, t)
<1> DEFINE z == seize_for_default(ins)
           t == <<z.from_solidarity, z.from_escrow, z.from_stake>>
           floor == c_min(ins.d_init, ins.d_rem, ins.c_init)
<1>0. /\ ins.d_init \in Nat \ {0} /\ ins.d_rem \in 0 .. ins.d_init
      /\ ins.c_init \in Nat \ {0}
      /\ ins.c_before \in Nat /\ ins.missed \in Nat
      /\ ins.solidarity_available \in Nat /\ ins.escrow_cap \in Nat
      /\ ins.stake_cap \in Nat /\ ins.escrow_cap + ins.stake_cap <= ins.c_before
  BY DEF SettlementInputs, CascadeInputs
<1>1. floor \in Nat
  BY <1>0, RatioIsAFloor
<1>2. \A c \in Nat : dc_invariant_holds(ins.d_init, ins.d_rem, ins.c_init, c) <=> floor <= c
  BY <1>0, RatioIsAFloor
<1>3. PICK room : room = SaturatingSub(ins.c_before, floor)
  OBVIOUS
<1>4. PICK sol, esc, stk : sol = z.from_solidarity /\ esc = z.from_escrow /\ stk = z.from_stake
  OBVIOUS
<1>5. /\ sol = Lesser(ins.missed, ins.solidarity_available)
      /\ esc = Lesser(Lesser(ins.missed - sol, ins.escrow_cap), room)
      /\ stk = Lesser(Lesser(ins.missed - sol - esc, ins.stake_cap), room - esc)
  BY <1>3, <1>4, CascadeLimits
<1>6. t = <<sol, esc, stk>>
  BY <1>4
<1> HIDE DEF floor, t, z
<1>7. room \in Nat /\ (room > 0 => room = ins.c_before - floor)
  BY <1>0, <1>1, <1>3 DEF SaturatingSub
<1>8. /\ sol \in 0 .. ins.solidarity_available
      /\ sol <= ins.missed
  BY <1>0, <1>5 DEF Lesser
<1>9. /\ esc \in 0 .. ins.escrow_cap
      /\ esc <= ins.missed - sol /\ esc <= room
  BY <1>0, <1>5, <1>7, <1>8 DEF Lesser
<1>10. /\ stk \in 0 .. ins.stake_cap
       /\ stk <= ins.missed - sol - esc /\ stk <= room - esc
  BY <1>0, <1>5, <1>7, <1>8, <1>9 DEF Lesser
<1>11. t \in Allowed(ins)
  <2>1. sol + esc + stk <= ins.missed
    BY <1>0, <1>8, <1>9, <1>10
  <2>2. ASSUME esc + stk > 0
        PROVE  dc_invariant_holds(ins.d_init, ins.d_rem, ins.c_init, ins.c_before - (esc + stk))
    <3>1. ins.c_before - (esc + stk) \in Nat /\ floor <= ins.c_before - (esc + stk)
      BY <1>0, <1>1, <1>7, <1>9, <1>10, <2>2
    <3> QED BY <1>2, <3>1
  <2>3. t \in (0 .. ins.solidarity_available) \X (0 .. ins.escrow_cap) \X (0 .. ins.stake_cap)
    BY <1>6, <1>8, <1>9, <1>10
  <2>4. t[1] = sol /\ t[2] = esc /\ t[3] = stk
    BY <1>6
  <2> QED BY <2>1, <2>2, <2>3, <2>4 DEF Allowed
<1>12. ASSUME NEW u \in Allowed(ins)
       PROVE  Precedes(u, t)
  <2>1. PICK a \in 0 .. ins.solidarity_available, b \in 0 .. ins.escrow_cap,
             c \in 0 .. ins.stake_cap : u = <<a, b, c>>
    BY DEF Allowed
  <2>2. a + b + c <= ins.missed
    BY <2>1 DEF Allowed
  <2>3. b + c > 0 => b + c <= room
    <3>1. SUFFICES ASSUME b + c > 0 PROVE b + c <= room
      OBVIOUS
    <3>2. dc_invariant_holds(ins.d_init, ins.d_rem, ins.c_init, ins.c_before - (b + c))
      BY <2>1, <3>1 DEF Allowed
    <3>3. ins.c_before - (b + c) \in Nat
      BY <1>0
    <3>4. floor <= ins.c_before - (b + c)
      BY <1>2, <3>2, <3>3
    <3> QED BY <1>0, <1>1, <1>3, <3>3, <3>4 DEF SaturatingSub
  <2>4. a <= sol
    <3>1. a \in Nat /\ b \in Nat /\ c \in Nat /\ a <= ins.solidarity_available
      BY <1>0, <2>1
    <3>2. a <= ins.missed
      BY <1>0, <2>2, <3>1
    <3> QED BY <1>5, <3>1, <3>2 DEF Lesser
  <2>5. a = sol => b <= esc
    BY <1>0, <1>5, <1>7, <1>8, <2>2, <2>3 DEF Lesser
  <2>6. a = sol /\ b = esc => c <= stk
    <3>1. SUFFICES ASSUME a = sol, b = esc PROVE c <= stk
      OBVIOUS
    <3>2. c <= ins.missed - sol - esc /\ c <= ins.stake_cap
      BY <1>0, <1>8, <1>9, <2>2, <3>1
    <3>3. c <= room - esc
      BY <1>7, <1>9, <2>3, <3>1
    <3> QED BY <1>5, <3>2, <3>3 DEF Lesser
  <2>7. a < sol \/ (a = sol /\ b < esc) \/ (a = sol /\ b = esc /\ c <= stk)
    BY <1>8, <1>9, <1>10, <2>4, <2>5, <2>6
  <2> QED BY <1>6, <2>1, <2>7 DEF Precedes
<1> QED BY <1>11, <1>12 DEF t, z

\* A call is one of the settlements or splits described above.
ContractsInv ==
  /\ call.fn = "seize" => call.in \in SettlementInputs
  /\ call.fn = "split" => /\ call.members \in Nat /\ call.installment \in Nat
                          /\ call.escrow_bps \in Nat /\ call.credit \in Nat

LEMMA ContractsInvHolds == ContractsSpec => []ContractsInv
<1>1. ContractsInit => ContractsInv
  BY DEF ContractsInit, ContractsInv
<1>2. ContractsInv /\ [ContractsNext]_call => ContractsInv'
  <2> SUFFICES ASSUME ContractsInv, [ContractsNext]_call PROVE ContractsInv'
    OBVIOUS
  <2>1. CASE CallSeize
    <3>1. PICK d_init \in Small \ {0}, c_init \in Small \ {0}, d_rem \in Small,
               c_before \in Small, missed \in Small, esc \in Small, sol \in Small,
               stk \in Small :
             /\ d_rem \in 0 .. d_init /\ esc \in 0 .. c_before /\ stk \in 0 .. c_before - esc
             /\ call' = [fn |-> "seize",
                in |-> [d_init |-> d_init, d_rem |-> d_rem, c_init |-> c_init,
                        c_before |-> c_before, missed |-> missed,
                        solidarity_available |-> sol, escrow_cap |-> esc,
                        stake_cap |-> stk]]
      BY <2>1 DEF CallSeize
    <3>2. /\ d_init \in Nat \ {0} /\ c_init \in Nat \ {0} /\ d_rem \in Nat
          /\ c_before \in Nat /\ missed \in Nat /\ esc \in Nat /\ sol \in Nat /\ stk \in Nat
          /\ d_rem <= d_init /\ esc + stk <= c_before
      BY <3>1, ContractAssumption
    <3>3. call'.fn = "seize" /\ call'.in \in SettlementInputs
      BY <3>1, <3>2 DEF SettlementInputs, CascadeInputs
    <3> QED BY <3>3 DEF ContractsInv
  <2>2. CASE CallSplit
    <3>1. PICK n \in SomeSizes, inst \in Installments, bps \in SomeBps :
             /\ SOLIDARITY_BPS + bps <= MAX_BPS
             /\ \E credit \in CreditsAround(n * inst * (MAX_BPS - SOLIDARITY_BPS - bps)) :
                  call' = [fn |-> "split", members |-> n, installment |-> inst,
                           escrow_bps |-> bps, credit |-> credit]
      BY <2>2 DEF CallSplit
    <3>2. PICK credit \in CreditsAround(n * inst * (MAX_BPS - SOLIDARITY_BPS - bps)) :
             call' = [fn |-> "split", members |-> n, installment |-> inst,
                      escrow_bps |-> bps, credit |-> credit]
      BY <3>1
    <3>3. n \in Nat /\ inst \in Nat /\ bps \in Nat
      <4>1. n \in 1 .. 64
        BY ContractAssumption
      <4>2. bps \in 0 .. MAX_BPS
        BY ContractAssumption
      <4>3. inst \in Nat
        BY ContractAssumption
      <4> QED BY <4>1, <4>2, <4>3
    <3>4. (n * inst) * (MAX_BPS - SOLIDARITY_BPS - bps) \in Nat
      <4>1. n * inst \in Nat /\ MAX_BPS - SOLIDARITY_BPS - bps \in Nat
        BY <3>1, <3>3 DEF MAX_BPS, SOLIDARITY_BPS
      <4> QED BY <4>1
    <3>5. credit \in Nat
      BY <3>4, DivBounds DEF CreditsAround, MAX_BPS
    <3>6. /\ call'.fn = "split" /\ call'.members = n /\ call'.installment = inst
          /\ call'.escrow_bps = bps /\ call'.credit = credit
      BY <3>2
    <3> QED BY <3>3, <3>5, <3>6 DEF ContractsInv
  <2>3. CASE UNCHANGED call
    BY <2>3 DEF ContractsInv
  <2> QED BY <2>1, <2>2, <2>3 DEF ContractsNext
<1> QED BY <1>1, <1>2, PTL DEF ContractsSpec

\* settle_default.rs:11-22, for every amount: the cascade is the best seizure
\* that the caps and the debt/collateral rule allow.
THEOREM CascadeIsOptimal == ContractsSpec => []CascadeIsBest
<1>1. ContractsInv => CascadeIsBest
  BY CascadeIsBestAllowed DEF ContractsInv, CascadeIsBest
<1> QED BY <1>1, ContractsInvHolds, PTL

\* The viability guard of create_pool is enough, for every size, installment and
\* share: one cycle of contributions pays the credit and meets the seed draw.
THEOREM ViablePoolsPay == ContractsSpec => []ViablePoolIsFunded
<1>1. ContractsInv => ViablePoolIsFunded
  BY ViableIsFunded DEF ContractsInv, ViablePoolIsFunded
<1> QED BY <1>1, ContractsInvHolds, PTL

----------------------------------------------------------------------------
(* The committed total.                                                    *)

\* The pools that hold a share of the caps.
Reserved == {p \in Pools : vaults_initialized[p] /\ pool_status[p] # "Closed"}

\* A pool that ran had its vaults: so none that is closed is given them again.
TvlInv ==
  /\ pool_status \in [Pools -> {"None", "Forming", "Completed", "Closed"}]
  /\ vaults_initialized \in [Pools -> BOOLEAN]
  /\ \A p \in Pools : pool_status[p] \in {"Completed", "Closed"} => vaults_initialized[p]
  /\ committed_protocol_tvl_usdc = SumOver(Flow, Reserved)

LEMMA FlowSum ==
  ASSUME NEW S PROVE MapThenSumSet(LAMBDA p : Flow[p], S) = SumOver(Flow, S)
BY DEF MapThenSumSet, MapThenFoldSet, SumOver, SumTable, IsSumTable, AnyOf

LEMMA FlowFacts ==
  ASSUME NEW S \in SUBSET Pools
  PROVE  /\ IsFiniteSet(S) /\ SumOver(Flow, S) \in Nat
         /\ \A p \in S : Flow[p] \in Nat /\ SumOver(Flow, S) = Flow[p] + SumOver(Flow, S \ {p})
         /\ \A p \in Pools \ S : SumOver(Flow, S \cup {p}) = SumOver(Flow, S) + Flow[p]
<1>1. IsFiniteSet(S) /\ \A p \in Pools : Flow[p] \in Nat /\ Flow[p] \in Int
  BY TvlAssumption, FS_Subset
<1>2. SumOver(Flow, S) \in Nat
  BY <1>1, SumType
<1>3. ASSUME NEW p \in S PROVE SumOver(Flow, S) = Flow[p] + SumOver(Flow, S \ {p})
  BY <1>1, SumWithout
<1>4. ASSUME NEW p \in Pools \ S PROVE SumOver(Flow, S \cup {p}) = SumOver(Flow, S) + Flow[p]
  BY <1>1, SumWith
<1> QED BY <1>1, <1>2, <1>3, <1>4

LEMMA NextTvl == ASSUME TvlInv, [TvlNext]_tvlVars PROVE TvlInv'
<1>0. Reserved \in SUBSET Pools
  BY DEF Reserved
<1>1. ASSUME NEW p \in Pools, create_pool(p) PROVE TvlInv'
  <2>1. /\ ~vaults_initialized[p] \/ pool_status[p] # "Completed"
        /\ pool_status'[p] = "Forming"
        /\ \A q \in Pools \ {p} : pool_status'[q] = pool_status[q]
    BY <1>1 DEF create_pool, TvlInv
  <2>2. Reserved' = Reserved
    BY <1>1, <2>1 DEF create_pool, TvlInv, Reserved
  <2>3. SumOver(Flow, Reserved') = SumOver(Flow, Reserved)
    BY <2>2
  <2> QED BY <1>1, <2>1, <2>3 DEF create_pool, TvlInv
<1>2. ASSUME NEW p \in Pools, init_pool_vaults(p) PROVE TvlInv'
  <2>1. /\ pool_status[p] = "Forming" /\ ~vaults_initialized[p]
        /\ vaults_initialized'[p]
        /\ \A q \in Pools \ {p} : vaults_initialized'[q] = vaults_initialized[q]
        /\ vaults_initialized' \in [Pools -> BOOLEAN] /\ pool_status' = pool_status
    BY <1>2 DEF init_pool_vaults, Uninitialized, TvlInv
  <2>2. p \in Pools \ Reserved /\ Reserved' = Reserved \cup {p}
    BY <2>1 DEF Reserved
  <2>3. SumOver(Flow, Reserved') = SumOver(Flow, Reserved) + Flow[p]
    BY <1>0, <2>2, FlowFacts
  <2> QED BY <1>2, <2>1, <2>3 DEF init_pool_vaults, TvlInv
<1>3. ASSUME NEW p \in Pools, Runs(p) PROVE TvlInv'
  <2>1. /\ pool_status[p] = "Forming" /\ vaults_initialized[p] /\ pool_status'[p] = "Completed"
        /\ \A q \in Pools \ {p} : pool_status'[q] = pool_status[q]
    BY <1>3 DEF Runs, TvlInv
  <2>2. Reserved' = Reserved
    BY <1>3, <2>1 DEF Runs, Reserved
  <2>3. SumOver(Flow, Reserved') = SumOver(Flow, Reserved)
    BY <2>2
  <2> QED BY <1>3, <2>1, <2>3 DEF Runs, TvlInv
<1>4. ASSUME NEW p \in Pools, close_pool(p) PROVE TvlInv'
  <2>1. /\ pool_status[p] = "Completed" /\ vaults_initialized[p] /\ pool_status'[p] = "Closed"
        /\ \A q \in Pools \ {p} : pool_status'[q] = pool_status[q]
        /\ vaults_initialized' = vaults_initialized
    BY <1>4 DEF close_pool, TvlInv
  <2>2. p \in Reserved /\ Reserved' = Reserved \ {p}
    BY <2>1 DEF Reserved
  <2>3. PICK rest : rest = Reserved \ {p}
    OBVIOUS
  <2>4. /\ SumOver(Flow, Reserved) = Flow[p] + SumOver(Flow, rest)
        /\ Flow[p] \in Nat /\ SumOver(Flow, rest) \in Nat
    BY <1>0, <2>2, <2>3, FlowFacts
  <2>5. SaturatingSub(SumOver(Flow, Reserved), Flow[p]) = SumOver(Flow, rest)
    BY <2>4 DEF SaturatingSub
  <2>6. committed_protocol_tvl_usdc' = SumOver(Flow, Reserved')
    BY <1>4, <2>2, <2>3, <2>5 DEF close_pool, TvlInv
  <2> QED BY <1>4, <2>1, <2>6 DEF close_pool, TvlInv
<1>5. ASSUME NEW pool_cap \in Caps, NEW protocol_cap \in Caps, SetCaps(pool_cap, protocol_cap)
      PROVE  TvlInv'
  BY <1>5 DEF SetCaps, TvlInv, Reserved
<1>6. CASE UNCHANGED tvlVars
  BY <1>6 DEF tvlVars, TvlInv, Reserved
<1> QED BY <1>1, <1>2, <1>3, <1>4, <1>5, <1>6 DEF TvlNext

\* However many pools, whatever they take and whatever the caps are set to: the
\* committed total is the sum over the pools that hold a share, so the saturating
\* subtraction of close_pool never saturates.
THEOREM NoHeadroomIsLost == TvlSpec => []CommittedIsReserved
<1>1. TvlInit => TvlInv
  <2> SUFFICES ASSUME TvlInit PROVE TvlInv
    OBVIOUS
  <2>1. Reserved = {}
    BY DEF TvlInit, Reserved
  <2>2. SumOver(Flow, Reserved) = 0
    BY <2>1, SumUnfolds, FS_EmptySet
  <2> QED BY <2>2 DEF TvlInit, TvlInv
<1>2. TvlInv /\ [TvlNext]_tvlVars => TvlInv'
  BY NextTvl
<1>3. TvlInv => CommittedIsReserved
  <2>1. MapThenSumSet(LAMBDA p : Flow[p], Reserved) = SumOver(Flow, Reserved)
    BY FlowSum
  <2> QED BY <2>1 DEF TvlInv, CommittedIsReserved, Reserved
<1> QED BY <1>1, <1>2, <1>3, PTL DEF TvlSpec
=============================================================================
