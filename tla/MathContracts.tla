---------------------------- MODULE MathContracts ----------------------------
(***************************************************************************)
(* The functions of RoundfiMath against what they are for, over bounded    *)
(* arguments: one action per function picks its arguments, and the         *)
(* invariants compare the result with a definition that does not compute   *)
(* it the same way (the best of all candidates, or an exact sum).          *)
(***************************************************************************)
EXTENDS RoundfiMath, FiniteSets

CONSTANTS
  Small,          \* amounts for the cascade
  Installments,   \* installment amounts
  SomeBps,        \* rates
  SomeSizes       \* member counts

ASSUME ContractAssumption ==
  /\ Small \subseteq Nat
  /\ Installments \subseteq Nat
  /\ SomeBps \subseteq 0 .. MAX_BPS
  /\ SomeSizes \subseteq 1 .. 64

VARIABLE call     \* the function called and its arguments

ContractsInit == call = [fn |-> "none"]

NoCall == call.fn = "none"

\* A settlement the pool can ask for: some collateral was posted, the debt
\* left is at most the debt taken, and the missed installment is part of it.
CallSeize ==
  /\ NoCall
  /\ \E d_init, c_init \in Small \ {0} :
     \E d_rem \in Small \cap (0 .. d_init), c_before \in Small :
     \E missed \in Small \cap (0 .. d_rem), esc \in Small \cap (0 .. c_before) :
     \E sol \in Small, stk \in Small \cap (0 .. c_before - esc) :
       call' = [fn |-> "seize",
                in |-> [d_init |-> d_init, d_rem |-> d_rem, c_init |-> c_init,
                        c_before |-> c_before, missed |-> missed,
                        solidarity_available |-> sol, escrow_cap |-> esc,
                        stake_cap |-> stk]]

\* The largest credit the viability guard allows, and the first it refuses.
CreditsAround(float) == {float \div MAX_BPS, (float \div MAX_BPS) + 1}

CallSplit ==
  /\ NoCall
  /\ \E n \in SomeSizes, inst \in Installments, bps \in SomeBps :
       /\ SOLIDARITY_BPS + bps <= MAX_BPS
       /\ \E credit \in CreditsAround(n * inst * (MAX_BPS - SOLIDARITY_BPS - bps)) :
            call' = [fn |-> "split", members |-> n, installment |-> inst,
                     escrow_bps |-> bps, credit |-> credit]

ContractsNext == CallSeize \/ CallSplit

ContractsSpec == ContractsInit /\ [][ContractsNext]_call

----------------------------------------------------------------------------

\* A seizure that is allowed: within every cap, and one that leaves the
\* debt/collateral ratio if it takes any collateral at all.
Allowed(in) ==
  {t \in (0 .. in.solidarity_available) \X (0 .. in.escrow_cap) \X (0 .. in.stake_cap) :
     /\ t[1] + t[2] + t[3] <= in.missed
     /\ t[2] + t[3] > 0 =>
          dc_invariant_holds(in.d_init, in.d_rem, in.c_init,
                             in.c_before - (t[2] + t[3]))}

Precedes(t, u) == \/ t[1] < u[1]
                  \/ t[1] = u[1] /\ t[2] < u[2]
                  \/ t[1] = u[1] /\ t[2] = u[2] /\ t[3] <= u[3]

\* settle_default.rs:11-22: the cascade is deterministic and complete.  It is
\* the best allowed seizure when solidarity is preferred to the member's
\* escrow and escrow to its stake; in particular no unit is left unseized that
\* the debt/collateral rule would have let the pool have.
CascadeIsBest ==
  call.fn = "seize" =>
    LET z == seize_for_default(call.in)
        t == <<z.from_solidarity, z.from_escrow, z.from_stake>>
    IN  /\ t \in Allowed(call.in)
        /\ \A u \in Allowed(call.in) : Precedes(u, t)

\* create_pool's viability guard sums exact shares while contribute rounds each
\* share of each installment: a pool it lets through can really pay its credit
\* from one cycle of full contributions, and those also meet the seed draw.
ViablePoolIsFunded ==
  /\ call.fn = "split"
  /\ pool_is_viable(call.members, call.installment, call.credit,
                    SOLIDARITY_BPS, call.escrow_bps)
  => LET share == split_installment(call.installment, SOLIDARITY_BPS, call.escrow_bps)
     IN  /\ call.members * share.pool >= call.credit
         /\ retained_meets_seed_draw(call.members, call.installment, SEED_DRAW_BPS,
              call.members * (share.pool + share.escrow))
=============================================================================
