------------------------- MODULE RoundfiMath_proofs -------------------------
(***************************************************************************)
(* What the arithmetic of roundfi-math guarantees for every amount: the    *)
(* facts the handlers of roundfi-core rely on when they subtract.  And what*)
(* the sums of the community modules add up to, for the books kept in them.*)
(***************************************************************************)
EXTENDS RoundfiMath, Functions, FiniteSetsExt, FiniteSetTheorems, TLAPS

\* Rounding down, without the division.
LEMMA DivBounds ==
  ASSUME NEW a \in Nat, NEW n \in Nat \ {0}
  PROVE  /\ a \div n \in Nat
         /\ n * (a \div n) <= a
         /\ a < n * (a \div n) + n
OBVIOUS

\* A product is monotone in its first factor.
LEMMA MulMonotone ==
  ASSUME NEW a \in Nat, NEW b \in Nat, NEW c \in Nat, a <= b
  PROVE  a * c \in Nat /\ b * c \in Nat /\ a * c <= b * c
OBVIOUS

\* A positive factor can be cancelled.
LEMMA MulCancel ==
  ASSUME NEW a \in Nat, NEW b \in Nat, NEW c \in Nat \ {0}, c * a <= c * b
  PROVE  a <= b
<1>1. SUFFICES ASSUME b + 1 <= a PROVE FALSE
  OBVIOUS
<1>2. (b + 1) * c <= a * c
  BY <1>1, MulMonotone, b + 1 \in Nat
<1>3. (b + 1) * c = c * b + c /\ a * c = c * a
  OBVIOUS
<1>4. c * a \in Nat /\ c * b \in Nat
  OBVIOUS
<1> QED BY <1>2, <1>3, <1>4

\* The smaller and the saturated difference stay within what they are taken of.
LEMMA LesserNat ==
  ASSUME NEW a \in Nat, NEW b \in Nat
  PROVE  Lesser(a, b) \in Nat /\ Lesser(a, b) <= a /\ Lesser(a, b) <= b
BY DEF Lesser

LEMMA SaturatingSubNat ==
  ASSUME NEW a \in Nat, NEW b \in Nat
  PROVE  SaturatingSub(a, b) \in Nat /\ SaturatingSub(a, b) <= a
BY DEF SaturatingSub

\* A share in basis points is a natural.
LEMMA ApplyBpsNat ==
  ASSUME NEW amount \in Nat, NEW bps \in Nat
  PROVE  apply_bps(amount, bps) \in Nat
<1>1. amount * bps \in Nat
  OBVIOUS
<1> QED BY <1>1, DivBounds DEF apply_bps, MAX_BPS

\* contribute moves exactly one installment: the two floors never take more
\* than it, and the float is what they leave.
LEMMA SplitConserves ==
  ASSUME NEW amount \in Nat, NEW s \in Nat, NEW e \in Nat, s + e <= MAX_BPS
  PROVE  LET split == split_installment(amount, s, e)
         IN  /\ split.solidarity \in Nat
             /\ split.escrow \in Nat
             /\ split.pool \in Nat
             /\ split.solidarity + split.escrow + split.pool = amount
<1> DEFINE sol == apply_bps(amount, s)
           esc == apply_bps(amount, e)
<1>1. amount * s \in Nat /\ amount * e \in Nat
  OBVIOUS
<1>2. /\ sol \in Nat /\ MAX_BPS * sol <= amount * s
      /\ esc \in Nat /\ MAX_BPS * esc <= amount * e
  BY <1>1, DivBounds DEF apply_bps, MAX_BPS
<1>3. amount * s + amount * e = (s + e) * amount
  OBVIOUS
<1>4. (s + e) * amount <= MAX_BPS * amount
  BY MulMonotone, s + e \in Nat DEF MAX_BPS
<1> HIDE DEF sol, esc
<1>5. MAX_BPS * (sol + esc) <= MAX_BPS * amount
  BY <1>1, <1>2, <1>3, <1>4 DEF MAX_BPS
<1>6. sol + esc <= amount
  BY <1>2, <1>5 DEF MAX_BPS
<1> QED BY <1>2, <1>6 DEF split_installment, sol, esc

\* What the D/C guard lets through is a natural within the proposed amount.
LEMMA MaxSeizureNat ==
  ASSUME NEW d_init \in Nat, NEW d_rem \in Nat, NEW c_init \in Nat,
         NEW c_before \in Nat, NEW proposed \in Nat
  PROVE  /\ max_seizure_respecting_dc(d_init, d_rem, c_init, c_before, proposed) \in Nat
         /\ max_seizure_respecting_dc(d_init, d_rem, c_init, c_before, proposed)
              <= proposed
<1>1. CASE d_init = 0
  BY <1>1 DEF max_seizure_respecting_dc
<1>2. CASE d_init # 0
  <2> DEFINE floor == c_min(d_init, d_rem, c_init)
  <2>1. d_rem * c_init + (d_init - 1) \in Nat
    BY <1>2, d_rem * c_init \in Nat
  <2>2. floor \in Nat
    BY <1>2, <2>1, DivBounds DEF c_min
  <2> HIDE DEF floor
  <2>3. SaturatingSub(c_before, floor) \in Nat
    BY <2>2, SaturatingSubNat
  <2>4. Lesser(proposed, SaturatingSub(c_before, floor)) \in Nat
        /\ Lesser(proposed, SaturatingSub(c_before, floor)) <= proposed
    BY <2>3, LesserNat
  <2> QED BY <1>2, <2>4 DEF max_seizure_respecting_dc, floor
<1> QED BY <1>1, <1>2

CascadeInputs ==
  [d_init : Nat, d_rem : Nat, c_init : Nat, c_before : Nat, missed : Nat,
   solidarity_available : Nat, escrow_cap : Nat, stake_cap : Nat]

\* settle_default never asks a vault for more than the cascade was offered.
LEMMA CascadeWithinCaps ==
  ASSUME NEW ins \in CascadeInputs
  PROVE  LET z == seize_for_default(ins)
         IN  /\ z.from_solidarity \in Nat /\ z.from_solidarity <= ins.solidarity_available
             /\ z.from_escrow \in Nat /\ z.from_escrow <= ins.escrow_cap
             /\ z.from_stake \in Nat /\ z.from_stake <= ins.stake_cap
<1> DEFINE sol   == Lesser(ins.missed, ins.solidarity_available)
           short == SaturatingSub(ins.missed, sol)
           esc   == max_seizure_respecting_dc(ins.d_init, ins.d_rem, ins.c_init,
                      ins.c_before, Lesser(short, ins.escrow_cap))
           stk   == max_seizure_respecting_dc(ins.d_init, ins.d_rem, ins.c_init,
                      SaturatingSub(ins.c_before, esc),
                      Lesser(SaturatingSub(short, esc), ins.stake_cap))
<1>0. /\ ins.d_init \in Nat /\ ins.d_rem \in Nat /\ ins.c_init \in Nat
      /\ ins.c_before \in Nat /\ ins.missed \in Nat
      /\ ins.solidarity_available \in Nat /\ ins.escrow_cap \in Nat
      /\ ins.stake_cap \in Nat
  BY DEF CascadeInputs
<1>1. sol \in Nat /\ sol <= ins.solidarity_available
  BY <1>0, LesserNat
<1> HIDE DEF sol
<1>2. short \in Nat
  BY <1>0, <1>1, SaturatingSubNat
<1> HIDE DEF short
<1>3. Lesser(short, ins.escrow_cap) \in Nat /\ Lesser(short, ins.escrow_cap) <= ins.escrow_cap
  BY <1>0, <1>2, LesserNat
<1>4. esc \in Nat /\ esc <= Lesser(short, ins.escrow_cap)
  BY <1>0, <1>3, MaxSeizureNat
<1> HIDE DEF esc
<1>5. SaturatingSub(short, esc) \in Nat /\ SaturatingSub(ins.c_before, esc) \in Nat
  BY <1>0, <1>2, <1>4, SaturatingSubNat
<1>6. /\ Lesser(SaturatingSub(short, esc), ins.stake_cap) \in Nat
      /\ Lesser(SaturatingSub(short, esc), ins.stake_cap) <= ins.stake_cap
  BY <1>0, <1>5, LesserNat
<1>7. stk \in Nat /\ stk <= Lesser(SaturatingSub(short, esc), ins.stake_cap)
  BY <1>0, <1>5, <1>6, MaxSeizureNat
<1> HIDE DEF stk
<1>8. esc <= ins.escrow_cap /\ stk <= ins.stake_cap
  BY <1>0, <1>3, <1>4, <1>6, <1>7
<1>9. seize_for_default(ins) =
        [from_solidarity |-> sol, from_escrow |-> esc, from_stake |-> stk]
  BY DEF seize_for_default, sol, short, esc, stk
<1> QED BY <1>1, <1>4, <1>7, <1>8, <1>9

----------------------------------------------------------------------------
(* The floor of the debt/collateral guard.                                 *)

\* c_min rounds up: it is enough collateral for the debt left, and never more
\* than what was posted while the debt has not grown.
LEMMA CeilingFloor ==
  ASSUME NEW d_init \in Nat \ {0}, NEW d_rem \in Nat, NEW c_init \in Nat, d_rem <= d_init
  PROVE  LET floor == c_min(d_init, d_rem, c_init)
         IN  /\ floor \in Nat
             /\ floor <= c_init
             /\ d_rem * c_init <= d_init * floor
<1> DEFINE x == d_rem * c_init
           floor == (x + (d_init - 1)) \div d_init
<1>1. x \in Nat /\ d_init * c_init \in Nat /\ x <= d_init * c_init
  BY MulMonotone
<1> HIDE DEF x
<1>2. x + (d_init - 1) \in Nat
  BY <1>1
<1>3. /\ floor \in Nat
      /\ d_init * floor <= x + (d_init - 1)
      /\ x + (d_init - 1) < d_init * floor + d_init
  BY <1>2, DivBounds
<1> HIDE DEF floor
<1>4. d_init * floor \in Nat
  BY <1>3
<1>5. x <= d_init * floor
  BY <1>1, <1>3, <1>4
<1>6. floor <= c_init
  <2>1. SUFFICES ASSUME c_init + 1 <= floor PROVE FALSE
    BY <1>3
  <2>2. (c_init + 1) * d_init <= floor * d_init
    BY <1>3, <2>1, MulMonotone, c_init + 1 \in Nat
  <2>3. (c_init + 1) * d_init = d_init * c_init + d_init /\ floor * d_init = d_init * floor
    BY <1>3
  <2> QED BY <1>1, <1>3, <1>4, <2>2, <2>3
<1> QED BY <1>3, <1>5, <1>6 DEF c_min, x, floor

\* A guarded seizure leaves the floor if the floor was there.
LEMMA SeizureKeepsFloor ==
  ASSUME NEW d_init \in Nat \ {0}, NEW d_rem \in Nat, NEW c_init \in Nat,
         NEW c_before \in Nat, NEW proposed \in Nat,
         c_min(d_init, d_rem, c_init) \in Nat,
         c_min(d_init, d_rem, c_init) <= c_before
  PROVE  max_seizure_respecting_dc(d_init, d_rem, c_init, c_before, proposed)
           <= c_before - c_min(d_init, d_rem, c_init)
BY DEF max_seizure_respecting_dc, Lesser, SaturatingSub

\* Both guarded seizures of the cascade together leave it.
LEMMA CascadeKeepsFloor ==
  ASSUME NEW ins \in CascadeInputs, ins.d_init # 0, NEW floor \in Nat,
         floor = c_min(ins.d_init, ins.d_rem, ins.c_init), floor <= ins.c_before
  PROVE  LET z == seize_for_default(ins)
         IN  z.from_escrow + z.from_stake <= ins.c_before - floor
<1> DEFINE sol   == Lesser(ins.missed, ins.solidarity_available)
           short == SaturatingSub(ins.missed, sol)
           esc   == max_seizure_respecting_dc(ins.d_init, ins.d_rem, ins.c_init,
                      ins.c_before, Lesser(short, ins.escrow_cap))
           left  == SaturatingSub(ins.c_before, esc)
           stk   == max_seizure_respecting_dc(ins.d_init, ins.d_rem, ins.c_init, left,
                      Lesser(SaturatingSub(short, esc), ins.stake_cap))
<1>0. /\ ins.d_init \in Nat \ {0} /\ ins.d_rem \in Nat /\ ins.c_init \in Nat
      /\ ins.c_before \in Nat /\ ins.missed \in Nat
      /\ ins.solidarity_available \in Nat /\ ins.escrow_cap \in Nat
      /\ ins.stake_cap \in Nat
  BY DEF CascadeInputs
<1>1. short \in Nat
  BY <1>0, LesserNat, SaturatingSubNat
<1> HIDE DEF short
<1>2. Lesser(short, ins.escrow_cap) \in Nat
  BY <1>0, <1>1, LesserNat
<1>3. esc \in Nat /\ esc <= ins.c_before - floor
  BY <1>0, <1>2, MaxSeizureNat, SeizureKeepsFloor
<1> HIDE DEF esc
<1>4. left = ins.c_before - esc /\ left \in Nat /\ floor <= left
  BY <1>0, <1>3 DEF SaturatingSub
<1> HIDE DEF left
<1>5. Lesser(SaturatingSub(short, esc), ins.stake_cap) \in Nat
  BY <1>0, <1>1, <1>3, LesserNat, SaturatingSubNat
<1>6. stk \in Nat /\ stk <= left - floor
  BY <1>0, <1>4, <1>5, MaxSeizureNat, SeizureKeepsFloor
<1> HIDE DEF stk
<1>7. seize_for_default(ins) =
        [from_solidarity |-> sol, from_escrow |-> esc, from_stake |-> stk]
  BY DEF seize_for_default, sol, short, esc, left, stk
<1> QED BY <1>0, <1>3, <1>4, <1>6, <1>7

\* No more than the principal ever vests.
LEMMA VestedWithinPrincipal ==
  ASSUME NEW principal \in Nat, NEW total \in Nat \ {0}, NEW checkpoint \in 0 .. total
  PROVE  /\ cumulative_vested(principal, checkpoint, total) \in Nat
         /\ cumulative_vested(principal, checkpoint, total) <= principal
<1> DEFINE q == (principal * checkpoint) \div total
<1>1. checkpoint * principal <= total * principal /\ principal * checkpoint \in Nat
  BY MulMonotone
<1>2. q \in Nat /\ total * q <= principal * checkpoint
  BY <1>1, DivBounds
<1> HIDE DEF q
<1>3. total * q <= total * principal
  BY <1>1, <1>2
<1>4. q <= principal
  BY <1>2, <1>3, MulCancel
<1> QED BY <1>2, <1>4 DEF cumulative_vested, q

----------------------------------------------------------------------------
(* The cascade takes the most that its limits allow.                       *)

\* The floor is the least collateral that is enough for the debt left.
LEMMA CeilingIsLeast ==
  ASSUME NEW d_init \in Nat \ {0}, NEW d_rem \in Nat, NEW c_init \in Nat,
         NEW c \in Nat, d_rem * c_init <= c * d_init
  PROVE  c_min(d_init, d_rem, c_init) <= c
<1> DEFINE x == d_rem * c_init
           floor == (x + (d_init - 1)) \div d_init
<1>1. x \in Nat /\ c * d_init \in Nat /\ x <= c * d_init
  OBVIOUS
<1> HIDE DEF x
<1>2. x + (d_init - 1) \in Nat
  BY <1>1
<1>3. floor \in Nat /\ d_init * floor <= x + (d_init - 1)
  BY <1>2, DivBounds
<1> HIDE DEF floor
<1>4. floor <= c
  <2>1. SUFFICES ASSUME c + 1 <= floor PROVE FALSE
    BY <1>3
  <2>2. (c + 1) * d_init <= floor * d_init
    BY <1>3, <2>1, MulMonotone, c + 1 \in Nat
  <2>3. (c + 1) * d_init = c * d_init + d_init /\ floor * d_init = d_init * floor
    BY <1>3
  <2> QED BY <1>1, <1>3, <2>2, <2>3
<1> QED BY <1>4 DEF c_min, x, floor

\* What may be seized of collateral c without breaking the ratio: as much as
\* lies above the floor.
LEMMA RatioIsAFloor ==
  ASSUME NEW d_init \in Nat \ {0}, NEW d_rem \in 0 .. d_init, NEW c_init \in Nat \ {0},
         NEW c \in Nat
  PROVE  /\ c_min(d_init, d_rem, c_init) \in Nat
         /\ dc_invariant_holds(d_init, d_rem, c_init, c) <=> c_min(d_init, d_rem, c_init) <= c
<1> DEFINE floor == c_min(d_init, d_rem, c_init)
<1>1. floor \in Nat /\ d_rem * c_init <= d_init * floor
  BY CeilingFloor
<1>2. dc_invariant_holds(d_init, d_rem, c_init, c) => floor <= c
  BY CeilingIsLeast DEF dc_invariant_holds
<1>3. ASSUME floor <= c PROVE dc_invariant_holds(d_init, d_rem, c_init, c)
  <2> HIDE DEF floor
  <2>1. floor * d_init <= c * d_init
    BY <1>1, <1>3, MulMonotone
  <2>2. floor * d_init = d_init * floor
    BY <1>1
  <2>3. d_rem * c_init \in Nat /\ c * d_init \in Nat /\ d_init * floor \in Nat
    BY <1>1
  <2>4. d_rem * c_init <= c * d_init
    BY <1>1, <2>1, <2>2, <2>3
  <2> QED BY <2>4 DEF dc_invariant_holds
<1> QED BY <1>1, <1>2, <1>3

\* What settle_default passes to the cascade: some collateral was posted, the debt
\* left is part of the debt, and the two caps lie within the collateral left.
SettlementInputs ==
  {ins \in CascadeInputs :
     /\ ins.d_init # 0 /\ ins.c_init # 0
     /\ ins.d_rem <= ins.d_init
     /\ ins.escrow_cap + ins.stake_cap <= ins.c_before}

\* What each source gives, written as the least of its three limits.
LEMMA CascadeLimits ==
  ASSUME NEW ins \in SettlementInputs,
         NEW room, room = SaturatingSub(ins.c_before, c_min(ins.d_init, ins.d_rem, ins.c_init))
  PROVE  LET z     == seize_for_default(ins)
             short == ins.missed - z.from_solidarity
         IN  /\ room \in Nat
             /\ z.from_solidarity = Lesser(ins.missed, ins.solidarity_available)
             /\ z.from_escrow = Lesser(Lesser(short, ins.escrow_cap), room)
             /\ z.from_stake = Lesser(Lesser(short - z.from_escrow, ins.stake_cap),
                                      room - z.from_escrow)
<1> DEFINE sol   == Lesser(ins.missed, ins.solidarity_available)
           short == SaturatingSub(ins.missed, sol)
           floor == c_min(ins.d_init, ins.d_rem, ins.c_init)
           esc   == max_seizure_respecting_dc(ins.d_init, ins.d_rem, ins.c_init,
                      ins.c_before, Lesser(short, ins.escrow_cap))
           left  == SaturatingSub(ins.c_before, esc)
           rest  == SaturatingSub(short, esc)
           stk   == max_seizure_respecting_dc(ins.d_init, ins.d_rem, ins.c_init, left,
                      Lesser(rest, ins.stake_cap))
<1>0. /\ ins.d_init \in Nat \ {0} /\ ins.d_rem \in Nat /\ ins.c_init \in Nat \ {0}
      /\ ins.c_before \in Nat /\ ins.missed \in Nat
      /\ ins.solidarity_available \in Nat /\ ins.escrow_cap \in Nat
      /\ ins.stake_cap \in Nat /\ ins.d_rem \in 0 .. ins.d_init
      /\ ins.escrow_cap <= ins.c_before
  BY DEF SettlementInputs, CascadeInputs
<1>1. floor \in Nat
  BY <1>0, RatioIsAFloor
<1>2. esc = Lesser(Lesser(short, ins.escrow_cap), room)
  BY <1>0 DEF max_seizure_respecting_dc
<1>3. stk = Lesser(Lesser(rest, ins.stake_cap), SaturatingSub(left, floor))
  BY <1>0 DEF max_seizure_respecting_dc
<1>4. seize_for_default(ins) =
        [from_solidarity |-> sol, from_escrow |-> esc, from_stake |-> stk]
  BY DEF seize_for_default, sol, short, esc, left, rest, stk
<1>5. room = SaturatingSub(ins.c_before, floor)
  OBVIOUS
<1> HIDE DEF floor, esc, stk
<1>6. sol \in Nat /\ short = ins.missed - sol /\ short \in Nat
  BY <1>0 DEF Lesser, SaturatingSub
<1> HIDE DEF sol, short
<1>7. room \in Nat /\ room <= ins.c_before
  BY <1>0, <1>1, <1>5 DEF SaturatingSub
<1>8. esc \in Nat /\ esc <= short /\ esc <= room /\ esc <= ins.c_before
  BY <1>0, <1>2, <1>6, <1>7 DEF Lesser
<1>9. rest = short - esc /\ left = ins.c_before - esc
  BY <1>0, <1>6, <1>8 DEF SaturatingSub
<1>10. SaturatingSub(left, floor) = room - esc
  BY <1>0, <1>1, <1>5, <1>8, <1>9 DEF SaturatingSub
<1>11. stk = Lesser(Lesser(short - esc, ins.stake_cap), room - esc)
  BY <1>3, <1>9, <1>10
<1> QED BY <1>2, <1>4, <1>6, <1>7, <1>11 DEF sol

----------------------------------------------------------------------------
(* The viability guard.                                                    *)

\* What create_pool lets through is funded by one cycle of full contributions,
\* in spite of the rounding of every share, and those meet the seed draw.
LEMMA ViableIsFunded ==
  ASSUME NEW n \in Nat, NEW inst \in Nat, NEW credit \in Nat, NEW bps \in Nat,
         pool_is_viable(n, inst, credit, SOLIDARITY_BPS, bps)
  PROVE  LET share == split_installment(inst, SOLIDARITY_BPS, bps)
         IN  /\ n * share.pool >= credit
             /\ retained_meets_seed_draw(n, inst, SEED_DRAW_BPS,
                  n * (share.pool + share.escrow))
<1>1. PICK share : share = split_installment(inst, SOLIDARITY_BPS, bps)
  OBVIOUS
<1>2. /\ SOLIDARITY_BPS \in Nat /\ SOLIDARITY_BPS + bps <= MAX_BPS /\ MAX_BPS \in Nat \ {0}
      /\ MAX_BPS - SOLIDARITY_BPS - bps \in Nat
  BY DEF pool_is_viable, SOLIDARITY_BPS, MAX_BPS
<1>3. /\ share.solidarity \in Nat /\ share.escrow \in Nat /\ share.pool \in Nat
      /\ share.solidarity + share.escrow + share.pool = inst
  BY <1>1, <1>2, SplitConserves
<1>4. /\ MAX_BPS * share.solidarity <= inst * SOLIDARITY_BPS
      /\ MAX_BPS * share.escrow <= inst * bps
  <2>1. inst * SOLIDARITY_BPS \in Nat /\ inst * bps \in Nat
    BY <1>2
  <2>2. /\ share.solidarity = (inst * SOLIDARITY_BPS) \div MAX_BPS
        /\ share.escrow = (inst * bps) \div MAX_BPS
    BY <1>1 DEF split_installment, apply_bps
  <2> QED BY <1>2, <2>1, <2>2, DivBounds
<1>5. PICK kept, exact : kept = share.pool + share.escrow /\ exact = n * inst
  OBVIOUS
<1>6. kept \in Nat /\ exact \in Nat
  BY <1>3, <1>5
\* Per member: a share of the float is at least the exact one.
<1>7. MAX_BPS * share.pool >= inst * (MAX_BPS - SOLIDARITY_BPS - bps)
  <2>1. inst * (MAX_BPS - SOLIDARITY_BPS - bps)
          = MAX_BPS * inst - inst * SOLIDARITY_BPS - inst * bps
    BY DEF MAX_BPS, SOLIDARITY_BPS
  <2>2. inst * SOLIDARITY_BPS \in Nat /\ inst * bps \in Nat
    BY <1>2
  <2> QED BY <1>3, <1>4, <2>1, <2>2 DEF MAX_BPS
<1>8. MAX_BPS * kept >= inst * (MAX_BPS - SOLIDARITY_BPS)
  BY <1>3, <1>4, <1>5 DEF MAX_BPS, SOLIDARITY_BPS
<1>9. n * share.pool >= credit
  <2>1. PICK part, whole : /\ part = inst * (MAX_BPS - SOLIDARITY_BPS - bps)
                           /\ whole = exact * (MAX_BPS - SOLIDARITY_BPS - bps)
    OBVIOUS
  <2>2. part \in Nat /\ whole \in Nat /\ whole = part * n
    BY <1>2, <1>5, <1>6, <2>1
  <2>3. part * n <= (MAX_BPS * share.pool) * n
    <3>1. MAX_BPS * share.pool \in Nat /\ part <= MAX_BPS * share.pool
      BY <1>2, <1>3, <1>7, <2>1 DEF MAX_BPS
    <3> QED BY <2>2, <3>1, MulMonotone
  <2>4. credit <= whole \div MAX_BPS
    BY <1>5, <2>1 DEF pool_is_viable
  <2>5. whole \div MAX_BPS \in Nat /\ MAX_BPS * (whole \div MAX_BPS) <= whole
    BY <1>2, <2>2, DivBounds
  <2>6. MAX_BPS * credit <= whole
    <3>1. PICK quotient : quotient = whole \div MAX_BPS
      OBVIOUS
    <3> QED BY <2>2, <2>4, <2>5, <3>1 DEF MAX_BPS
  <2>7. (MAX_BPS * share.pool) * n = MAX_BPS * (n * share.pool) /\ n * share.pool \in Nat
    BY <1>3 DEF MAX_BPS
  <2>8. MAX_BPS * credit <= MAX_BPS * (n * share.pool)
    BY <2>2, <2>3, <2>6, <2>7 DEF MAX_BPS
  <2> QED BY <2>7, <2>8 DEF MAX_BPS
<1>10. n * kept >= seed_draw_floor(n, inst, SEED_DRAW_BPS)
  <2>1. (inst * (MAX_BPS - SOLIDARITY_BPS)) * n <= (MAX_BPS * kept) * n
    BY <1>2, <1>6, <1>8, MulMonotone DEF MAX_BPS, SOLIDARITY_BPS
  <2>2. /\ (MAX_BPS * kept) * n = MAX_BPS * (n * kept) /\ n * kept \in Nat
        /\ (inst * (MAX_BPS - SOLIDARITY_BPS)) * n = exact * (MAX_BPS - SOLIDARITY_BPS)
    BY <1>5, <1>6 DEF MAX_BPS, SOLIDARITY_BPS
  <2>3. exact * SEED_DRAW_BPS <= exact * (MAX_BPS - SOLIDARITY_BPS)
    BY <1>6 DEF MAX_BPS, SOLIDARITY_BPS, SEED_DRAW_BPS
  <2>4. PICK floor : floor = seed_draw_floor(n, inst, SEED_DRAW_BPS)
    OBVIOUS
  <2>5. floor \in Nat /\ MAX_BPS * floor <= exact * SEED_DRAW_BPS
    BY <1>2, <1>5, <1>6, <2>4, DivBounds, exact * SEED_DRAW_BPS \in Nat
       DEF seed_draw_floor, apply_bps, SEED_DRAW_BPS
  <2>6. MAX_BPS * floor <= MAX_BPS * (n * kept)
    BY <1>6, <2>1, <2>2, <2>3, <2>5 DEF MAX_BPS, SOLIDARITY_BPS, SEED_DRAW_BPS
  <2> QED BY <2>2, <2>4, <2>5, <2>6 DEF MAX_BPS
<1> QED BY <1>1, <1>5, <1>9, <1>10 DEF retained_meets_seed_draw

----------------------------------------------------------------------------
(* Sums.  The folds of the community modules are a recursive function over *)
(* the subsets of a set; what they add up to is found by looking at a      *)
(* smallest subset on which it would be something else.                    *)

AnyOf(s) == CHOOSE x \in s : TRUE

\* g is the table of the partial sums of f that the folds compute.
IsSumTable(g, f, S) ==
  g = [s \in SUBSET S |-> IF s = {} THEN 0 ELSE f[AnyOf(s)] + g[s \ {AnyOf(s)}]]

SumTable(f, S) == CHOOSE g : IsSumTable(g, f, S)

\* The sum of f over S.
SumOver(f, S) == SumTable(f, S)[S]

LEMMA SumIsOver ==
  ASSUME NEW f, NEW S
  PROVE  SumFunctionOnSet(f, S) = SumOver(f, S)
BY DEF SumFunctionOnSet, FoldFunctionOnSet, MapThenFoldSet, SumOver, SumTable, IsSumTable, AnyOf

\* Induction over the subsets of a finite set: among those that are bad one is minimal.
LEMMA MinimalSubset ==
  ASSUME NEW D, IsFiniteSet(D), NEW Bad \in SUBSET (SUBSET D), Bad # {}
  PROVE  \E s \in Bad : \A t \in SUBSET s : t # s => t \notin Bad
<1>1. IsWellFoundedOn(StrictSubsetOrdering(D), SUBSET D)
  BY FS_StrictSubsetOrderingWellFounded, FS_FiniteSubsetsOfFinite
<1>2. PICK s \in Bad : \A t \in Bad : ~(<<t, s>> \in StrictSubsetOrdering(D))
  BY <1>1, WFMin
<1>3. ASSUME NEW t \in SUBSET s, t # s, t \in Bad PROVE FALSE
  <2>1. <<t, s>> \in (SUBSET D) \X (SUBSET D)
    BY <1>3
  <2>2. <<t, s>> \in StrictSubsetOrdering(D)
    BY <1>3, <2>1 DEF StrictSubsetOrdering
  <2> QED BY <1>2, <1>3, <2>2
<1> QED BY <1>3

LEMMA AnyOfIsIn == ASSUME NEW s, s # {} PROVE AnyOf(s) \in s /\ s \ {AnyOf(s)} # s
BY DEF AnyOf

\* Two tables agree where both are defined.
LEMMA TablesAgree ==
  ASSUME NEW f, NEW D, NEW E, IsFiniteSet(D), NEW g, NEW h, IsSumTable(g, f, D), IsSumTable(h, f, E)
  PROVE  \A s \in SUBSET (D \cap E) : g[s] = h[s]
<1> DEFINE Bad == {s \in SUBSET (D \cap E) : g[s] # h[s]}
<1>1. SUFFICES ASSUME Bad # {} PROVE FALSE
  OBVIOUS
<1>2. PICK s \in Bad : \A t \in SUBSET s : t # s => t \notin Bad
  <2>1. Bad \in SUBSET (SUBSET D)
    OBVIOUS
  <2> HIDE DEF Bad
  <2> QED BY <1>1, <2>1, MinimalSubset
<1>3. s # {}
  BY DEF IsSumTable
<1>4. PICK t : t = s \ {AnyOf(s)}
  OBVIOUS
<1>5. t \in SUBSET s /\ t # s
  BY <1>3, <1>4, AnyOfIsIn
<1>6. g[t] = h[t]
  BY <1>2, <1>5
<1>7. g[s] = f[AnyOf(s)] + g[t] /\ h[s] = f[AnyOf(s)] + h[t]
  BY <1>3, <1>4 DEF IsSumTable
<1> QED BY <1>6, <1>7

\* The recursion has a solution on every finite set.
LEMMA TableExists ==
  ASSUME NEW f, NEW D, IsFiniteSet(D)
  PROVE  IsSumTable(SumTable(f, D), f, D)
<1> DEFINE Bad == {s \in SUBSET D : ~IsSumTable(SumTable(f, s), f, s)}
<1>1. SUFFICES ASSUME Bad # {} PROVE FALSE
  OBVIOUS
<1>2. PICK T \in Bad : \A t \in SUBSET T : t # T => t \notin Bad
  <2>1. Bad \in SUBSET (SUBSET D)
    OBVIOUS
  <2> HIDE DEF Bad
  <2> QED BY <1>1, <2>1, MinimalSubset
<1>3. ASSUME NEW t \in SUBSET T, t # T PROVE IsSumTable(SumTable(f, t), f, t) /\ IsFiniteSet(t)
  BY <1>2, <1>3, FS_Subset
<1> DEFINE h == [s \in SUBSET T |-> IF s = {} THEN 0
                                   ELSE f[AnyOf(s)] + SumOver(f, s \ {AnyOf(s)})]
<1>4. ASSUME NEW s \in SUBSET T, s # T
      PROVE  h[s] = SumOver(f, s)
  <2>1. CASE s = {}
    BY <1>3, <1>4, <2>1 DEF SumOver, IsSumTable
  <2>2. CASE s # {}
    <3>1. PICK t : t = s \ {AnyOf(s)}
      OBVIOUS
    <3>2. t \in SUBSET s /\ t # s /\ t \in SUBSET T /\ t # T
      BY <1>4, <2>2, <3>1, AnyOfIsIn
    <3>3. SumOver(f, s) = f[AnyOf(s)] + SumTable(f, s)[t]
      BY <1>3, <1>4, <2>2, <3>1 DEF SumOver, IsSumTable
    <3>4. SumTable(f, s)[t] = SumTable(f, t)[t]
      BY <1>3, <1>4, <3>2, TablesAgree
    <3>5. h[s] = f[AnyOf(s)] + SumOver(f, t)
      BY <2>2, <3>1
    <3> QED BY <3>3, <3>4, <3>5 DEF SumOver
  <2> QED BY <2>1, <2>2
<1>5. IsSumTable(h, f, T)
  <2>1. ASSUME NEW s \in SUBSET T, s # {}
        PROVE  h[s] = f[AnyOf(s)] + h[s \ {AnyOf(s)}]
    <3>1. PICK t : t = s \ {AnyOf(s)}
      OBVIOUS
    <3>2. t \in SUBSET T /\ t # T
      BY <2>1, <3>1, AnyOfIsIn
    <3>3. h[s] = f[AnyOf(s)] + SumOver(f, t)
      BY <2>1, <3>1
    <3> QED BY <1>4, <3>1, <3>2, <3>3
  <2>2. h[{}] = 0
    OBVIOUS
  <2>3. h = [s \in SUBSET T |-> h[s]]
    OBVIOUS
  <2> HIDE DEF h
  <2> QED BY <2>1, <2>2, <2>3 DEF IsSumTable
<1> HIDE DEF h
<1>6. IsSumTable(SumTable(f, T), f, T)
  BY <1>5 DEF SumTable
<1> QED BY <1>2, <1>6

\* The sum of nothing, and of what a set is chosen to start with.
LEMMA SumUnfolds ==
  ASSUME NEW f, NEW D, IsFiniteSet(D)
  PROVE  /\ D = {} => SumOver(f, D) = 0
         /\ D # {} => SumOver(f, D) = f[AnyOf(D)] + SumOver(f, D \ {AnyOf(D)})
<1>1. IsSumTable(SumTable(f, D), f, D)
  BY TableExists
<1>2. CASE D = {}
  BY <1>1, <1>2 DEF SumOver, IsSumTable
<1>3. CASE D # {}
  <2>1. PICK t : t = D \ {AnyOf(D)}
    OBVIOUS
  <2>2. t \in SUBSET D /\ IsFiniteSet(t)
    BY <2>1, FS_Subset
  <2>3. SumOver(f, D) = f[AnyOf(D)] + SumTable(f, D)[t]
    BY <1>1, <1>3, <2>1 DEF SumOver, IsSumTable
  <2>4. SumTable(f, D)[t] = SumTable(f, t)[t]
    <3>1. IsSumTable(SumTable(f, t), f, t) /\ t \in SUBSET (D \cap t)
      BY <2>2, TableExists
    <3> QED BY <1>1, <3>1, TablesAgree
  <2> QED BY <1>3, <2>1, <2>3, <2>4 DEF SumOver
<1> QED BY <1>2, <1>3

\* A sum of integers is an integer, and one of naturals a natural.
LEMMA SumType ==
  ASSUME NEW T \in {Int, Nat}, NEW f, NEW D, IsFiniteSet(D), \A x \in D : f[x] \in T
  PROVE  SumOver(f, D) \in T
<1> DEFINE Bad == {s \in SUBSET D : SumOver(f, s) \notin T}
<1>1. SUFFICES ASSUME Bad # {} PROVE FALSE
  OBVIOUS
<1>2. PICK s \in Bad : \A t \in SUBSET s : t # s => t \notin Bad
  <2>1. Bad \in SUBSET (SUBSET D)
    OBVIOUS
  <2> HIDE DEF Bad
  <2> QED BY <1>1, <2>1, MinimalSubset
<1>3. s \in SUBSET D /\ IsFiniteSet(s)
  BY FS_Subset
<1>4. s # {}
  BY <1>3, SumUnfolds
<1>5. PICK x, t : x = AnyOf(s) /\ t = s \ {x}
  OBVIOUS
<1>6. x \in D /\ t \in SUBSET s /\ t # s
  BY <1>3, <1>4, <1>5, AnyOfIsIn
<1>7. SumOver(f, t) \in T
  BY <1>2, <1>3, <1>6
<1>8. SumOver(f, s) = f[x] + SumOver(f, t)
  BY <1>3, <1>4, <1>5, SumUnfolds
<1>9. \A a, b \in T : a + b \in T
  OBVIOUS
<1>10. SumOver(f, s) \in T
  BY <1>6, <1>7, <1>8, <1>9
<1> QED BY <1>10

\* The order of the elements does not matter.
LEMMA SumWithout ==
  ASSUME NEW f, NEW D, IsFiniteSet(D), \A x \in D : f[x] \in Int, NEW e \in D
  PROVE  SumOver(f, D) = f[e] + SumOver(f, D \ {e})
<1> DEFINE Bad == {s \in SUBSET D : \E x \in s : SumOver(f, s) # f[x] + SumOver(f, s \ {x})}
<1>1. SUFFICES ASSUME Bad # {} PROVE FALSE
  OBVIOUS
<1>2. PICK s \in Bad : \A t \in SUBSET s : t # s => t \notin Bad
  <2>1. Bad \in SUBSET (SUBSET D)
    OBVIOUS
  <2> HIDE DEF Bad
  <2> QED BY <1>1, <2>1, MinimalSubset
<1>3. s \in SUBSET D /\ IsFiniteSet(s)
  BY FS_Subset
<1>4. PICK x \in s : SumOver(f, s) # f[x] + SumOver(f, s \ {x})
  OBVIOUS
<1>5. PICK c, t, u, rest : /\ c = AnyOf(s) /\ t = s \ {c} /\ u = s \ {x}
                           /\ rest = t \ {x}
  OBVIOUS
<1>6. c \in s /\ SumOver(f, s) = f[c] + SumOver(f, t)
  BY <1>3, <1>5, AnyOfIsIn, SumUnfolds
<1>7. c # x
  BY <1>4, <1>5, <1>6
<1>8. SumOver(f, t) = f[x] + SumOver(f, rest)
  <2>1. t \in SUBSET s /\ t # s /\ x \in t
    BY <1>5, <1>6, <1>7
  <2>2. t \notin Bad /\ t \in SUBSET D
    BY <1>2, <1>3, <2>1
  <2> QED BY <1>5, <2>1, <2>2
<1>9. SumOver(f, u) = f[c] + SumOver(f, rest)
  <2>1. u \in SUBSET s /\ u # s /\ c \in u /\ u \ {c} = rest
    BY <1>5, <1>6, <1>7
  <2>2. u \notin Bad /\ u \in SUBSET D
    BY <1>2, <1>3, <2>1
  <2> QED BY <2>1, <2>2
<1>10. f[x] \in Int /\ f[c] \in Int /\ SumOver(f, rest) \in Int
  <2>1. rest \in SUBSET D /\ IsFiniteSet(rest) /\ \A y \in rest : f[y] \in Int
    BY <1>3, <1>5, FS_Subset
  <2> QED BY <1>3, <1>6, <2>1, SumType
<1> HIDE DEF Bad
<1> QED BY <1>4, <1>5, <1>6, <1>8, <1>9, <1>10

\* A sum depends on the values over its set only.
LEMMA SumSame ==
  ASSUME NEW f, NEW h, NEW D, IsFiniteSet(D), \A x \in D : f[x] = h[x]
  PROVE  SumOver(f, D) = SumOver(h, D)
<1> DEFINE Bad == {s \in SUBSET D : SumOver(f, s) # SumOver(h, s)}
<1>1. SUFFICES ASSUME Bad # {} PROVE FALSE
  OBVIOUS
<1>2. PICK s \in Bad : \A t \in SUBSET s : t # s => t \notin Bad
  <2>1. Bad \in SUBSET (SUBSET D)
    OBVIOUS
  <2> HIDE DEF Bad
  <2> QED BY <1>1, <2>1, MinimalSubset
<1>3. s \in SUBSET D /\ IsFiniteSet(s)
  BY FS_Subset
<1>4. s # {}
  BY <1>3, SumUnfolds
<1>5. PICK x, t : x = AnyOf(s) /\ t = s \ {x}
  OBVIOUS
<1>6. x \in s /\ t \in SUBSET s /\ t # s
  BY <1>4, <1>5, AnyOfIsIn
<1>7. SumOver(f, t) = SumOver(h, t)
  BY <1>2, <1>3, <1>6
<1>8. SumOver(f, s) = f[x] + SumOver(f, t) /\ SumOver(h, s) = h[x] + SumOver(h, t)
  BY <1>3, <1>4, <1>5, SumUnfolds
<1> QED BY <1>3, <1>6, <1>7, <1>8

\* One value changes.
LEMMA SumChange ==
  ASSUME NEW f, NEW h, NEW D, IsFiniteSet(D), NEW e \in D,
         \A x \in D : f[x] \in Int /\ h[x] \in Int,
         \A x \in D \ {e} : h[x] = f[x]
  PROVE  SumOver(h, D) = SumOver(f, D) - f[e] + h[e]
<1>1. PICK rest : rest = D \ {e}
  OBVIOUS
<1>2. IsFiniteSet(rest) /\ \A x \in rest : h[x] = f[x] /\ f[x] \in Int
  BY <1>1, FS_Subset
<1>3. SumOver(h, rest) = SumOver(f, rest) /\ SumOver(f, rest) \in Int
  BY <1>2, SumSame, SumType
<1>4. /\ SumOver(f, D) = f[e] + SumOver(f, rest)
      /\ SumOver(h, D) = h[e] + SumOver(h, rest)
  BY <1>1, SumWithout
<1> QED BY <1>3, <1>4

\* An element more.
LEMMA SumWith ==
  ASSUME NEW f, NEW D, IsFiniteSet(D), NEW e, e \notin D,
         \A x \in D \cup {e} : f[x] \in Int
  PROVE  SumOver(f, D \cup {e}) = SumOver(f, D) + f[e]
<1>1. PICK more : more = D \cup {e}
  OBVIOUS
<1>2. IsFiniteSet(more) /\ e \in more /\ more \ {e} = D /\ \A x \in more : f[x] \in Int
  BY <1>1, FS_AddElement
<1>3. SumOver(f, more) = f[e] + SumOver(f, D)
  BY <1>2, SumWithout
<1>4. SumOver(f, D) \in Int /\ f[e] \in Int
  BY <1>2, SumType
<1> QED BY <1>1, <1>3, <1>4

\* The value at one place grows by d, or comes in with d.
LEMMA SumMore ==
  ASSUME NEW D, IsFiniteSet(D), NEW e, NEW f, NEW h, NEW d \in Int,
         \A x \in D : f[x] \in Int, \A x \in D \ {e} : h[x] = f[x],
         e \in D => h[e] = f[e] + d, e \notin D => h[e] = d
  PROVE  /\ SumOver(f, D) \in Int
         /\ SumOver(h, D \cup {e}) = SumOver(f, D) + d
<1>1. SumOver(f, D) \in Int
  BY SumType
<1>2. CASE e \in D
  <2>1. D \cup {e} = D /\ \A x \in D : h[x] \in Int
    BY <1>2
  <2>2. SumOver(h, D) = SumOver(f, D) - f[e] + h[e]
    BY <1>2, <2>1, SumChange
  <2>3. SumOver(h, D) = SumOver(f, D) + d
    BY <1>1, <1>2, <2>2
  <2> QED BY <1>1, <2>1, <2>3
<1>3. CASE e \notin D
  <2>1. \A x \in D : h[x] = f[x]
    BY <1>3
  <2>2. \A x \in D \cup {e} : h[x] \in Int
    BY <1>3, <2>1
  <2>3. SumOver(h, D \cup {e}) = SumOver(h, D) + h[e]
    BY <1>3, <2>2, SumWith
  <2>4. SumOver(h, D) = SumOver(f, D)
    BY <2>1, SumSame
  <2> QED BY <1>1, <1>3, <2>3, <2>4
<1> QED BY <1>1, <1>2, <1>3

\* Induction over the numbers up to n.
LEMMA CountingUp ==
  ASSUME NEW n \in Nat, NEW Good, 0 \in Good,
         \A k \in 0 .. n - 1 : k \in Good => k + 1 \in Good
  PROVE  \A k \in 0 .. n : k \in Good
<1> DEFINE Bad == {0 .. k : k \in (0 .. n) \ Good}
<1>1. SUFFICES ASSUME Bad # {} PROVE FALSE
  OBVIOUS
<1>2. PICK s \in Bad : \A t \in SUBSET s : t # s => t \notin Bad
  <2>1. \A k \in (0 .. n) \ Good : (0 .. k) \in SUBSET (0 .. n)
    OBVIOUS
  <2>2. IsFiniteSet(0 .. n) /\ Bad \in SUBSET (SUBSET (0 .. n))
    <3>1. IsFiniteSet(0 .. n)
      BY FS_Interval
    <3>2. \A b \in Bad : b \in SUBSET (0 .. n)
      BY <2>1
    <3> HIDE DEF Bad
    <3> QED BY <3>1, <3>2
  <2> HIDE DEF Bad
  <2> QED BY <1>1, <2>2, MinimalSubset
<1>3. PICK k \in (0 .. n) \ Good : s = 0 .. k
  OBVIOUS
<1>4. k # 0 /\ k - 1 \in 0 .. n - 1 /\ k - 1 \in 0 .. n /\ (k - 1) + 1 = k
  BY <1>3
<1>5. PICK t : t = 0 .. k - 1
  OBVIOUS
<1>6. t \in SUBSET s /\ t # s
  BY <1>3, <1>4, <1>5
<1>7. k - 1 \in Good
  BY <1>2, <1>4, <1>5, <1>6
<1> QED BY <1>3, <1>4, <1>7

\* The sum of a sum.
LEMMA SumAdds ==
  ASSUME NEW f, NEW g, NEW h, NEW D, IsFiniteSet(D),
         \A x \in D : f[x] \in Int /\ g[x] \in Int /\ h[x] = f[x] + g[x]
  PROVE  SumOver(h, D) = SumOver(f, D) + SumOver(g, D)
<1> DEFINE Bad == {s \in SUBSET D : SumOver(h, s) # SumOver(f, s) + SumOver(g, s)}
<1>1. SUFFICES ASSUME Bad # {} PROVE FALSE
  OBVIOUS
<1>2. PICK s \in Bad : \A t \in SUBSET s : t # s => t \notin Bad
  <2>1. Bad \in SUBSET (SUBSET D)
    OBVIOUS
  <2> HIDE DEF Bad
  <2> QED BY <1>1, <2>1, MinimalSubset
<1>3. s \in SUBSET D /\ IsFiniteSet(s)
  BY FS_Subset
<1>4. s # {}
  <2>1. /\ SumOver(f, {}) = 0 /\ SumOver(g, {}) = 0 /\ SumOver(h, {}) = 0
    BY SumUnfolds, FS_EmptySet
  <2>2. SumOver(h, {}) = SumOver(f, {}) + SumOver(g, {})
    BY <2>1
  <2> QED BY <2>2
<1>5. PICK x, t : x = AnyOf(s) /\ t = s \ {x}
  OBVIOUS
<1>6. x \in s /\ t \in SUBSET s /\ t # s /\ IsFiniteSet(t)
  BY <1>3, <1>4, <1>5, AnyOfIsIn, FS_Subset
<1>7. SumOver(h, t) = SumOver(f, t) + SumOver(g, t)
  BY <1>2, <1>3, <1>6
<1>8. /\ SumOver(f, s) = f[x] + SumOver(f, t)
      /\ SumOver(g, s) = g[x] + SumOver(g, t)
      /\ SumOver(h, s) = h[x] + SumOver(h, t)
  BY <1>3, <1>4, <1>5, SumUnfolds
<1>9. /\ SumOver(f, t) \in Int /\ SumOver(g, t) \in Int
      /\ f[x] \in Int /\ g[x] \in Int /\ h[x] = f[x] + g[x]
  <2>1. \A y \in t : f[y] \in Int /\ g[y] \in Int
    BY <1>3, <1>6
  <2> QED BY <1>3, <1>6, <2>1, SumType
<1>10. SumOver(h, s) = SumOver(f, s) + SumOver(g, s)
  BY <1>7, <1>8, <1>9
<1> QED BY <1>10

\* The sum of n times the same.
LEMMA SumOfSame ==
  ASSUME NEW n \in Nat, NEW a \in Int, NEW f, \A x \in 1 .. n : f[x] = a
  PROVE  SumOver(f, 1 .. n) = n * a
<1> DEFINE Good == {k \in 0 .. n : SumOver(f, 1 .. k) = k * a}
<1>1. 0 \in Good
  <2>1. (1 .. 0) = {} /\ 0 * a = 0 /\ 0 \in 0 .. n
    OBVIOUS
  <2>2. SumOver(f, {}) = 0
    BY SumUnfolds, FS_EmptySet
  <2> QED BY <2>1, <2>2
<1>2. ASSUME NEW k \in 0 .. n - 1, k \in Good
      PROVE  k + 1 \in Good
  <2>1. PICK D : D = 1 .. k
    OBVIOUS
  <2>2. /\ IsFiniteSet(D) /\ k + 1 \notin D /\ (1 .. k + 1) = D \cup {k + 1}
        /\ \A x \in D \cup {k + 1} : f[x] = a
    <3>1. IsFiniteSet(D)
      BY <2>1, FS_Interval
    <3>2. k + 1 \notin D /\ (1 .. k + 1) = D \cup {k + 1}
      BY <2>1
    <3>3. (1 .. k + 1) \subseteq 1 .. n
      OBVIOUS
    <3> QED BY <3>1, <3>2, <3>3
  <2>3. SumOver(f, D \cup {k + 1}) = SumOver(f, D) + f[k + 1]
    BY <2>2, SumWith
  <2>4. SumOver(f, D) = k * a
    BY <1>2, <2>1
  <2>5. (k + 1) * a = k * a + a
    OBVIOUS
  <2>6. f[k + 1] = a
    BY <2>2
  <2>7. SumOver(f, 1 .. k + 1) = (k + 1) * a
    BY <2>2, <2>3, <2>4, <2>5, <2>6
  <2> QED BY <2>7, k + 1 \in 0 .. n
<1> HIDE DEF Good
<1>3. n \in Good
  BY <1>1, <1>2, CountingUp, n \in 0 .. n
<1> QED BY <1>3 DEF Good
=============================================================================
