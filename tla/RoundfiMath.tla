---------------------------- MODULE RoundfiMath ----------------------------
(***************************************************************************)
(* The pure arithmetic of the protocol: crates/math (roundfi-math), which  *)
(* every money-moving handler of programs/roundfi-core calls.  Amounts are *)
(* naturals; the u64/u128 overflow errors of the code are out of range for *)
(* every amount used here and are left out.  An argument on which the code *)
(* returns Err is outside the domain stated above the operator.            *)
(*                                                                         *)
(* An operator whose name ends in _mutant is a plausible bug of the one    *)
(* that follows it.  Nothing uses it: it is there to be put in the place   *)
(* of that definition, to see which property notices.                      *)
(***************************************************************************)
EXTENDS Integers

MAX_BPS        == 10000     \* 1 bp = 0.01%
SEED_DRAW_BPS  == 9160      \* retention required before the first payout
SOLIDARITY_BPS == 100       \* share of every installment for solidarity

Lesser(a, b) == IF a <= b THEN a ELSE b           \* u64::min
Greater(a, b) == IF a >= b THEN a ELSE b          \* i64::max
SaturatingSub(a, b) == IF a >= b THEN a - b ELSE 0

----------------------------------------------------------------------------
(* Basis points and the three-way split of an installment.                 *)

apply_bps(amount, bps) == (amount * bps) \div MAX_BPS

\* Domain: solidarity_bps + escrow_deposit_bps <= MAX_BPS.  The pool float
\* is what the two floors leave.
split_installment(installment, solidarity_bps, escrow_deposit_bps) ==
  LET sol == apply_bps(installment, solidarity_bps)
      esc == apply_bps(installment, escrow_deposit_bps)
  IN  [solidarity |-> sol, escrow |-> esc, pool |-> installment - (sol + esc)]

----------------------------------------------------------------------------
(* The debt/collateral guard and the seizure cascade of settle_default.    *)

dc_invariant_holds(d_init, d_rem, c_init, c_rem) ==
  \/ d_init = 0
  \/ c_init = 0 /\ d_rem = 0
  \/ c_init # 0 /\ d_rem * c_init <= c_rem * d_init

\* Rounding the floor down instead of up.
c_min_mutant(d_init, d_rem, c_init) == (d_rem * c_init) \div d_init

\* The least collateral that keeps the debt/collateral ratio: a ceiling.
c_min(d_init, d_rem, c_init) == (d_rem * c_init + (d_init - 1)) \div d_init

max_seizure_respecting_dc(d_init, d_rem, c_init, c_before, proposed) ==
  IF d_init = 0
  THEN proposed
  ELSE Lesser(proposed, SaturatingSub(c_before, c_min(d_init, d_rem, c_init)))

\* ins is the code's CascadeInputs: solidarity first, then the member's
\* escrow, then the member's stake, the last two capped by the D/C guard.
seize_for_default(ins) ==
  LET sol   == Lesser(ins.missed, ins.solidarity_available)
      short == SaturatingSub(ins.missed, sol)
      esc   == max_seizure_respecting_dc(ins.d_init, ins.d_rem, ins.c_init,
                 ins.c_before, Lesser(short, ins.escrow_cap))
      stk   == max_seizure_respecting_dc(ins.d_init, ins.d_rem, ins.c_init,
                 SaturatingSub(ins.c_before, esc),
                 Lesser(SaturatingSub(short, esc), ins.stake_cap))
  IN  [from_solidarity |-> sol, from_escrow |-> esc, from_stake |-> stk]

----------------------------------------------------------------------------
(* Linear vesting of the stake, and what release_escrow still owes.        *)

\* Domain: checkpoint <= total_checkpoints and total_checkpoints > 0.
cumulative_vested(principal, checkpoint, total_checkpoints) ==
  IF checkpoint = total_checkpoints
  THEN principal
  ELSE (principal * checkpoint) \div total_checkpoints

\* Released so far, derived from three fields instead of counted.
derive_total_released(stake_initial, escrow_deposited, escrow_balance) ==
  SaturatingSub(stake_initial + escrow_deposited, escrow_balance)

compute_release_delta_target(initial, deposited, balance, checkpoint, cycles) ==
  SaturatingSub(cumulative_vested(initial, checkpoint, cycles),
                derive_total_released(initial, deposited, balance))

----------------------------------------------------------------------------
(* Seed draw and pool viability.                                           *)

seed_draw_floor(members_target, installment, seed_draw_bps) ==
  apply_bps(members_target * installment, seed_draw_bps)

retained_meets_seed_draw(members_target, installment, seed_draw_bps, retained) ==
  retained >= seed_draw_floor(members_target, installment, seed_draw_bps)

\* The guard before SEV-031: the escrow share counts as float.
pool_is_viable_mutant(members_target, installment, credit, solidarity_bps, escrow_bps) ==
  (members_target * installment * (MAX_BPS - solidarity_bps)) \div MAX_BPS >= credit

pool_is_viable(members_target, installment, credit, solidarity_bps, escrow_bps) ==
  /\ solidarity_bps + escrow_bps <= MAX_BPS
  /\ (members_target * installment * (MAX_BPS - solidarity_bps - escrow_bps))
       \div MAX_BPS >= credit

----------------------------------------------------------------------------
(* The yield waterfall of harvest_yield.                                   *)

gf_top_up(after_fee, gf_target_remaining) == Lesser(after_fee, gf_target_remaining)

waterfall(yield_amount, gf_target_remaining, protocol_fee_bps, lp_share_bps) ==
  LET fee      == apply_bps(yield_amount, protocol_fee_bps)
      afterFee == yield_amount - fee
      gf       == gf_top_up(afterFee, gf_target_remaining)
      afterGf  == afterFee - gf
      lp       == apply_bps(afterGf, lp_share_bps)
  IN  [protocol_fee |-> fee, guarantee_fund |-> gf, lp_share |-> lp,
       participants |-> afterGf - lp]

guarantee_fund_cap(total_protocol_fee_accrued, guarantee_fund_bps) ==
  (total_protocol_fee_accrued * guarantee_fund_bps) \div MAX_BPS

guarantee_fund_room(total_protocol_fee_accrued, gf_balance, guarantee_fund_bps) ==
  SaturatingSub(guarantee_fund_cap(total_protocol_fee_accrued, guarantee_fund_bps),
                gf_balance)
=============================================================================
