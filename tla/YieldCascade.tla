---------------------------- MODULE YieldCascade ----------------------------
(***************************************************************************)
(* The idle float of a pool in a yield adapter: deposit_idle_to_yield and  *)
(* harvest_yield of programs/roundfi-core against the adapter they call,   *)
(* while installments arrive and payouts leave.  The adapter is the mock,  *)
(* which keeps what it is given in its own vault, or Kamino, which lends   *)
(* it on in the same call.  Core measures what happened by the balances    *)
(* before and after.                                                       *)
(*                                                                         *)
(* Anybody may make these calls, of any amount.  An action is a call that  *)
(* succeeds: one that fails is rolled back whole.  Of installments and     *)
(* payouts the pool vault alone is kept (RoscaPool has the rest), and the  *)
(* pause of the protocol and the identity of the accounts are left out.    *)
(***************************************************************************)
EXTENDS RoundfiMath

CONSTANTS
  Float,               \* what an installment leaves in the pool vault
  Credit,              \* credit_amount
  fee_bps_yield, lp_share_bps, guarantee_fund_bps,
  MAX_HARVEST_YIELD_MULTIPLE,
  MaxInstallments,     \* bound: installments of the whole pool
  MaxPayouts,          \* cycles_total
  Interests,           \* what the adapter may earn at a time
  MaxInterests         \* bound: how often it does

ASSUME YieldAssumption ==
  /\ Float \in Nat \ {0} /\ Credit \in Nat \ {0}
  /\ {fee_bps_yield, lp_share_bps} \subseteq 0 .. MAX_BPS
  /\ guarantee_fund_bps \in Nat
  /\ {MAX_HARVEST_YIELD_MULTIPLE, MaxInstallments, MaxInterests} \subseteq Nat
  /\ MaxPayouts \in Nat \ {0}
  /\ Interests \subseteq Nat \ {0}

VARIABLES
  ypool,     \* the fields of Pool, and the balance of its USDC vault
  adapter    \* whether it lends on, tracked_principal, the adapter's vault, what
             \* is lent (with its interest), and how often interest has come

yvars == <<ypool, adapter>>

YieldInit ==
  /\ ypool = [vault |-> 0, guarantee_fund_balance |-> 0, lp_distribution_balance |-> 0,
              yield_principal_deposited |-> 0, total_protocol_fee_accrued |-> 0,
              installments |-> 0, payouts |-> 0]
  /\ \E kamino \in BOOLEAN :
       adapter = [lends |-> kamino, tracked_principal |-> 0, vault |-> 0, lent |-> 0,
                  interests |-> 0]

\* Kamino's deposit, as against the mock's.
Lends == adapter.lends

PoolIsActive == ypool.payouts < MaxPayouts

\* The LP part left out (before SEV-048).
earmark_mutant == ypool.guarantee_fund_balance

earmark == ypool.guarantee_fund_balance + ypool.lp_distribution_balance
spendable == SaturatingSub(ypool.vault, earmark)

InstallmentArrives ==
  /\ PoolIsActive
  /\ ypool.installments < MaxInstallments
  /\ ypool' = [ypool EXCEPT !.vault = @ + Float, !.installments = @ + 1]
  /\ UNCHANGED adapter

PayoutLeaves ==
  /\ PoolIsActive
  /\ spendable >= Credit
  /\ ypool' = [ypool EXCEPT !.vault = @ - Credit, !.payouts = @ + 1]
  /\ UNCHANGED adapter

----------------------------------------------------------------------------

\* The adapter's deposit: into its vault, and with Kamino on to the reserve.
adapter_deposit(amount) ==
  [adapter EXCEPT !.tracked_principal = @ + amount,
                  !.vault = IF Lends THEN @ ELSE @ + amount,
                  !.lent = IF Lends THEN @ + amount ELSE @]

\* The checks of the measured balances: no more left the pool than was asked
\* for, and all that left it has arrived.
Balances(amount, src_delta, dst_delta) ==
  /\ src_delta <= amount
  /\ SaturatingSub(src_delta, dst_delta) = 0

deposit_idle_to_yield(amount) ==
  LET after == adapter_deposit(amount) IN
  /\ PoolIsActive
  /\ amount > 0 /\ amount <= spendable
  /\ Balances(amount, amount, after.vault - adapter.vault)
  /\ adapter' = after
  /\ ypool' = [ypool EXCEPT !.vault = @ - amount,
                            !.yield_principal_deposited = @ + amount]

\* Tokens sent to the mock's vault; with Kamino, the rate of the reserve rises.
Interest ==
  /\ adapter.interests < MaxInterests
  /\ \E earned \in Interests :
       adapter' = IF Lends
                  THEN [adapter EXCEPT !.interests = @ + 1,
                          !.lent = IF @ = 0 THEN 0 ELSE @ + earned]
                  ELSE [adapter EXCEPT !.interests = @ + 1, !.vault = @ + earned]
  /\ UNCHANGED ypool

\* The surplus over the principal is the yield; Kamino's guards refuse a loss
\* and a yield beyond belief.
Yield == IF Lends
         THEN SaturatingSub(adapter.lent, adapter.tracked_principal)
         ELSE SaturatingSub(adapter.vault, adapter.tracked_principal)

adapter_harvest ==
  /\ Lends /\ adapter.lent # 0 =>
       /\ adapter.lent >= adapter.tracked_principal
       /\ Yield <= adapter.tracked_principal * MAX_HARVEST_YIELD_MULTIPLE
  /\ adapter' = IF Lends THEN [adapter EXCEPT !.lent = @ - Yield]
                         ELSE [adapter EXCEPT !.vault = @ - Yield]

\* The fee leaves for the treasury; the parts of the Guarantee Fund and of the
\* LPs are earmarked where they are.
harvest_yield(min_realized_usdc) ==
  LET realized == Yield
      drop     == IF Lends THEN 0 ELSE Yield
      room     == guarantee_fund_room(ypool.total_protocol_fee_accrued,
                    ypool.guarantee_fund_balance, guarantee_fund_bps)
      w        == waterfall(realized, room, fee_bps_yield, lp_share_bps)
  IN
  /\ PoolIsActive
  /\ adapter_harvest
  /\ drop <= realized + 1
  /\ realized >= min_realized_usdc
  /\ realized # 0
  /\ ypool' = [ypool EXCEPT
       !.vault = @ + realized - w.protocol_fee,
       !.total_protocol_fee_accrued = @ + w.protocol_fee,
       !.guarantee_fund_balance = @ + w.guarantee_fund,
       !.lp_distribution_balance = @ + w.lp_share,
       !.yield_principal_deposited = SaturatingSub(@, SaturatingSub(drop, realized))]

YieldNext ==
  \/ InstallmentArrives \/ PayoutLeaves
  \/ \E amount \in 1..ypool.vault : deposit_idle_to_yield(amount)
  \/ Interest
  \/ harvest_yield(0)

YieldSpec == YieldInit /\ [][YieldNext]_yvars

----------------------------------------------------------------------------

\* claim_payout.rs:137-149 and harvest_yield.rs: in whatever order installments,
\* payouts, deposits and harvests come, what is earmarked for the Guarantee Fund
\* and the LPs is in the vault, the fund is within its cap, and the principal on
\* the pool's books is what the adapter owes it, and has.
EarmarksAreSound ==
  /\ ypool.vault >= ypool.guarantee_fund_balance + ypool.lp_distribution_balance
  /\ ypool.guarantee_fund_balance
       <= guarantee_fund_cap(ypool.total_protocol_fee_accrued, guarantee_fund_bps)
  /\ ypool.yield_principal_deposited = adapter.tracked_principal
  /\ adapter.vault + adapter.lent >= ypool.yield_principal_deposited
=============================================================================
