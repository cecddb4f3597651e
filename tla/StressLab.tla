------------------------------ MODULE StressLab ------------------------------
(***************************************************************************)
(* The Stress Lab (sdk/src/stressLab.ts): the scenario matrix a user edits *)
(* click by click, and the simulation that turns a matrix into one frame   *)
(* per cycle.  Rows are members, columns cycles; a cell is P (pays), C (is *)
(* contemplated), X (in default) or E (sells the share).  Editing is locked*)
(* while a run is shown, so the state is the matrix alone and the frames   *)
(* are an operator of it.                                                  *)
(*                                                                         *)
(* Amounts are the simulator's floats rounded down to whole units; the     *)
(* constants of the instance divide evenly, except for the yield.          *)
(***************************************************************************)
EXTENDS Integers, Sequences, Functions

CONSTANTS
  Sizes,           \* the positions of the members slider
  CreditAmount,
  StakePct, UpfrontPct, EscrowPct,   \* LEVEL_PARAMS of the chosen level
  ReleaseMonths,   \* by level and maturity
  KaminoApy,
  YieldFeePct

ASSUME StressLabAssumption ==
  /\ CreditAmount \in Nat
  /\ \A n \in Sizes : n \in Nat \ {0, 1} /\ CreditAmount % n = 0
  /\ {StakePct, UpfrontPct, EscrowPct, KaminoApy, YieldFeePct} \subseteq Nat
  /\ UpfrontPct + EscrowPct = 100
  /\ ReleaseMonths \in Nat \ {0}

VARIABLE matrix

Pct(x, p) == (x * p) \div 100
AtLeastZero(x) == IF x > 0 THEN x ELSE 0
AtMost(x, y) == IF x < y THEN x ELSE y

Size(mx) == Len(mx)

defaultMatrix(n) == [r \in 1..n |-> [c \in 1..n |-> IF r = c THEN "C" ELSE "P"]]

resizeMatrix(old, n) ==
  [r \in 1..n |-> [c \in 1..n |->
     IF r <= Size(old) /\ c <= Size(old) THEN old[r][c] ELSE defaultMatrix(n)[r][c]]]

\* The cell at col and all after it become what.
FromHere(row, col, what) == [c \in DOMAIN row |-> IF c >= col THEN what ELSE row[c]]

\* The contemplation moves here: no other C in the column or in the row, and
\* what the row holds before it is paid.
Promoted(mx, row, col) ==
  [r \in DOMAIN mx |-> [c \in DOMAIN mx |->
     CASE r = row /\ c = col                         -> "C"
       [] r = row /\ c # col /\ (c < col \/ mx[r][c] = "C") -> "P"
       [] r # row /\ c = col /\ mx[r][c] = "C"       -> "P"
       [] OTHER                                      -> mx[r][c]]]

Contemplations(row) == {c \in DOMAIN row : row[c] = "C"}

toggleCell(mx, row, col) ==
  CASE mx[row][col] = "X" -> [mx EXCEPT ![row] = FromHere(@, col, "P")]
    [] mx[row][col] = "C" -> [mx EXCEPT ![row][col] = "P"]
    [] mx[row][col] \in {"P", "E"} ->
         IF \E c \in Contemplations(mx[row]) : c < col
         THEN [mx EXCEPT ![row] = FromHere(@, col, "X")]
         ELSE Promoted(mx, row, col)

toggleCellEscape(mx, row, col) ==
  IF mx[row][col] = "E" THEN [mx EXCEPT ![row] = FromHere(@, col, "P")]
                        ELSE [mx EXCEPT ![row][col] = "E"]

StressLabInit == \E n \in Sizes : matrix = defaultMatrix(n)

StressLabNext ==
  \/ \E row, col \in 1..Size(matrix) :
       matrix' \in {toggleCell(matrix, row, col), toggleCellEscape(matrix, row, col)}
  \/ \E n \in Sizes : matrix' = resizeMatrix(matrix, n)

StressLabSpec == StressLabInit /\ [][StressLabNext]_matrix

----------------------------------------------------------------------------
(* runSimulation: what a cycle does to one member, then to the buckets.    *)

Stake == Pct(CreditAmount, StakePct)
Installment(n) == CreditAmount \div n
NotContemplated == -1

\* The last C counts, wherever the cycle is.
MonthContemplated(row) ==
  IF Contemplations(row) = {} THEN NotContemplated
  ELSE CHOOSE c \in Contemplations(row) : \A d \in Contemplations(row) : d <= c

Upfront(n, month) == IF month = 1 THEN 2 * Installment(n) ELSE Pct(CreditAmount, UpfrontPct)
\* As it is for everyone else.
Escrow_mutant(n, month) == Pct(CreditAmount, EscrowPct)

Escrow(n, month) ==
  IF month = 1 THEN CreditAmount - Upfront(n, month) ELSE Pct(CreditAmount, EscrowPct)

RefundPerMonth(n, month) ==
  LET months == n - month - ReleaseMonths
  IN  IF months > 0 THEN Stake \div months ELSE 0

\* The drip counted from the contemplation itself, beside the upfront part.
DripDue_mutant(month, c) == c > month /\ c - month <= ReleaseMonths + 1

DripDue(month, c) == c > month /\ c - month <= ReleaseMonths

PayoutThisMonth(n, month, c) ==
  CASE c = month         -> Upfront(n, month)
    [] DripDue(month, c) -> Escrow(n, month) \div ReleaseMonths
    [] OTHER             -> 0

RefundThisMonth(n, month, c) ==
  IF c > month + ReleaseMonths THEN RefundPerMonth(n, month) ELSE 0

NewLedger == [installmentsPaid |-> 0, received |-> 0, stakeRefunded |-> 0,
              retained |-> 0, lossCaused |-> 0, status |-> "ok"]

\* The default itself: before the contemplation everything is kept, after it
\* the loss is written down and what is not yet dripped or refunded is seized.
Defaulted(l, n, month, c) ==
  LET paidSoFar == Stake + l.installmentsPaid
      diff      == l.received - paidSoFar
      dripped   == AtLeastZero(l.received - Upfront(n, month) - l.stakeRefunded)
      seized    == AtLeastZero(Escrow(n, month) - dripped)
                     + AtLeastZero(Stake - l.stakeRefunded)
  IN
  IF month = NotContemplated \/ c <= month
  THEN [l EXCEPT !.status = "calote_pre", !.retained = paidSoFar]
  ELSE [l EXCEPT !.status = "calote_pos",
                 !.lossCaused = AtLeastZero(diff),
                 !.retained = seized + AtLeastZero(-diff)]

\* One member in cycle c: its installment, its payout, then X or E.
LedgerAfter(l, row, c) ==
  LET n      == Len(row)
      month  == MonthContemplated(row)
      action == row[c]
      paid   == [l EXCEPT !.installmentsPaid =
                   IF action \in {"P", "C"} THEN @ + Installment(n) ELSE @]
      served == [paid EXCEPT
                   !.received = @ + PayoutThisMonth(n, month, c) + RefundThisMonth(n, month, c),
                   !.stakeRefunded = @ + RefundThisMonth(n, month, c)]
  IN
  CASE l.status # "ok" -> paid
    [] l.status = "ok" /\ action = "X" -> Defaulted(paid, n, month, c)
    [] l.status = "ok" /\ action = "E" -> [paid EXCEPT !.status = "exited"]
    [] l.status = "ok" /\ action \in {"P", "C"} ->
         IF month # NotContemplated /\ month <= c THEN served ELSE paid

TotalInstallments(ledger) == SumFunction([r \in DOMAIN ledger |-> ledger[r].installmentsPaid])
TotalPaidOut(ledger) == SumFunction([r \in DOMAIN ledger |-> ledger[r].received])

NewFrame(n) ==
  [ledger |-> [r \in 1..n |-> NewLedger], installments |-> 0, paidOut |-> 0,
   pool |-> Stake * n, solidarity |-> 0, guaranteeFund |-> 0, lp |-> 0,
   participants |-> 0, fees |-> 0, netYield |-> 0]

\* The waterfall: the guarantee fund up to 150% of the credit, the rest 65:35.
YieldAfter(f) ==
  LET gross == IF f.pool > 0 THEN (f.pool * KaminoApy) \div 1200 ELSE 0
      net   == gross - Pct(gross, YieldFeePct)
      toGF  == AtMost(net, AtLeastZero(Pct(CreditAmount, 150) - f.guaranteeFund))
      toLp  == Pct(net - toGF, 65)
  IN  [f EXCEPT !.fees = @ + gross - net, !.netYield = @ + net,
                !.guaranteeFund = @ + toGF, !.lp = @ + toLp,
                !.participants = @ + net - toGF - toLp]

CycleAfter(mx, f, c) ==
  LET ledger    == [r \in DOMAIN mx |-> LedgerAfter(f.ledger[r], mx[r], c)]
      collected == TotalInstallments(ledger) - f.installments
      out       == TotalPaidOut(ledger) - f.paidOut
  IN  YieldAfter([f EXCEPT !.ledger = ledger,
                           !.installments = @ + collected,
                           !.paidOut = @ + out,
                           !.solidarity = @ + Pct(collected, 1),
                           !.pool = @ + collected - Pct(collected, 1) - out])

\* The frames, by cycle; the one at 0 is what the simulation starts from.
runSimulation(mx) ==
  LET frame[c \in 0 .. Size(mx)] ==
        IF c = 0 THEN NewFrame(Size(mx)) ELSE CycleAfter(mx, frame[c - 1], c)
  IN  frame

StakeRefundDue(l) == IF l.status = "ok" THEN Stake - l.stakeRefunded ELSE 0

\* Members yet to be contemplated are owed their whole credit.
EscrowDue(l, row) ==
  IF l.status = "ok" /\ MonthContemplated(row) # NotContemplated
  THEN AtLeastZero(CreditAmount - (l.received - l.stakeRefunded))
  ELSE 0

OutstandingStakeRefund(f) ==
  SumFunction([r \in DOMAIN f.ledger |-> StakeRefundDue(f.ledger[r])])

OutstandingEscrow(mx, f) ==
  SumFunction([r \in DOMAIN mx |-> EscrowDue(f.ledger[r], mx[r])])

\* The verdict of the Lab: SOLVENT when it is not negative.
netSolvency(mx, f) ==
  f.pool + f.solidarity + f.guaranteeFund
    - OutstandingEscrow(mx, f) - OutstandingStakeRefund(f)

----------------------------------------------------------------------------

\* In no scenario, with exits, defaults and reverted defaults, does anyone get
\* more than its credit, or its stake back twice.
NobodyIsOverpaid ==
  LET last == runSimulation(matrix)[Size(matrix)] IN
  \A r \in DOMAIN matrix :
    LET l == last.ledger[r] IN
    /\ l.received - l.stakeRefunded <= CreditAmount
    /\ l.stakeRefunded <= Stake

Healthy ==
  \A r \in DOMAIN matrix :
    /\ Contemplations(matrix[r]) # {}
    /\ \A c \in DOMAIN matrix : matrix[r][c] \in {"P", "C"}

\* A group in which everyone pays and is contemplated in turn, in whatever order,
\* ends even: all its money is either paid out or owed, and the verdict shows
\* nothing but the guarantee fund.
HealthyGroupEndsEven ==
  LET last == runSimulation(matrix)[Size(matrix)] IN
  Healthy => /\ netSolvency(matrix, last) = last.guaranteeFund
             /\ last.paidOut + OutstandingEscrow(matrix, last) + OutstandingStakeRefund(last)
                  = (CreditAmount + Stake) * Size(matrix)
=============================================================================
