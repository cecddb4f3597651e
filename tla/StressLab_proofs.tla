-------------------------- MODULE StressLab_proofs --------------------------
(***************************************************************************)
(* The Stress Lab for a group of any size, a credit of any amount and every*)
(* matrix its editor can reach: the simulation counts every unit once.     *)
(***************************************************************************)
EXTENDS StressLab, RoundfiMath_proofs, SequenceTheorems

----------------------------------------------------------------------------
(* The loop over the cycles.                                               *)

IsFrames(g, mx, k) ==
  g = [c \in 0 .. k |->
         IF c = 0 THEN NewFrame(Size(mx)) ELSE CycleAfter(mx, g[c - 1], c)]

\* The loop has a result: its frames can be computed one after the other.
LEMMA FramesExist ==
  ASSUME NEW mx, NEW n \in Nat
  PROVE  \E g : IsFrames(g, mx, n)
<1> DEFINE Good == {k \in 0 .. n : \E g : IsFrames(g, mx, k)}
<1>1. 0 \in Good
  <2>1. PICK g : g = [c \in 0 .. 0 |-> NewFrame(Size(mx))]
    OBVIOUS
  <2>2. IsFrames(g, mx, 0)
    BY <2>1 DEF IsFrames
  <2> QED BY <2>2
<1>2. ASSUME NEW k \in 0 .. n - 1, k \in Good
      PROVE  k + 1 \in Good
  <2>1. PICK g : IsFrames(g, mx, k)
    BY <1>2
  <2>2. PICK h : h = [c \in 0 .. k + 1 |->
                        IF c = 0 THEN NewFrame(Size(mx)) ELSE CycleAfter(mx, g[c - 1], c)]
    OBVIOUS
  <2>3. ASSUME NEW c \in 0 .. k
        PROVE  h[c] = g[c]
    <3>1. c \in 0 .. k + 1
      OBVIOUS
    <3> QED BY <2>1, <2>2, <3>1 DEF IsFrames
  <2>4. \A c \in 0 .. k + 1 : c # 0 => c - 1 \in 0 .. k
    OBVIOUS
  <2>5. h = [c \in 0 .. k + 1 |->
               IF c = 0 THEN NewFrame(Size(mx)) ELSE CycleAfter(mx, h[c - 1], c)]
    <3>1. \A c \in 0 .. k + 1 : c # 0 => h[c - 1] = g[c - 1]
      BY <2>3, <2>4
    <3> QED BY <2>2, <3>1
  <2>6. k + 1 \in 0 .. n
    OBVIOUS
  <2> QED BY <2>5, <2>6 DEF IsFrames
<1> HIDE DEF Good
<1>3. n \in Good
  BY <1>1, <1>2, CountingUp, n \in 0 .. n
<1> QED BY <1>3 DEF Good

\* One frame from the one before.
LEMMA SimulationUnfolds ==
  ASSUME NEW mx, Size(mx) \in Nat
  PROVE  /\ runSimulation(mx)[0] = NewFrame(Size(mx))
         /\ \A c \in 1 .. Size(mx) :
              runSimulation(mx)[c] = CycleAfter(mx, runSimulation(mx)[c - 1], c)
<1>1. runSimulation(mx) = CHOOSE g : IsFrames(g, mx, Size(mx))
  BY DEF runSimulation, IsFrames
<1>2. IsFrames(runSimulation(mx), mx, Size(mx))
  BY <1>1, FramesExist
<1>3. PICK n \in Nat : n = Size(mx)
  OBVIOUS
<1>4. 0 \in 0 .. n /\ \A c \in 1 .. n : c \in 0 .. n /\ c # 0
  OBVIOUS
<1> QED BY <1>2, <1>3, <1>4 DEF IsFrames

----------------------------------------------------------------------------
(* The matrix and the month of a contemplation.                            *)

MatrixCell == {"P", "C", "X", "E"}
Matrices(n) == [1 .. n -> [1 .. n -> MatrixCell]]

\* What is indexed from 1 to n is a sequence of length n.
LEMMA LengthOf ==
  ASSUME NEW n \in Nat, NEW S, NEW seq \in [1 .. n -> S]
  PROVE  Len(seq) = n /\ DOMAIN seq = 1 .. n
<1>1. [i \in 1 .. n |-> seq[i]] \in Seq(S)
  OBVIOUS
<1>2. PICK k \in Nat : k = Len(seq) /\ 1 .. k = 1 .. n
  BY <1>1, LenProperties
<1>3. \A m \in Nat : m \in 1 .. m \/ m = 0
  OBVIOUS
<1>4. k \in 1 .. n \/ k = 0
  BY <1>2, <1>3
<1>5. n \in 1 .. k \/ n = 0
  BY <1>2, <1>3
<1>6. k <= n /\ n <= k
  BY <1>4, <1>5
<1> QED BY <1>2, <1>6

LEMMA SizeOfMatrix ==
  ASSUME NEW n \in Nat, NEW mx \in Matrices(n)
  PROVE  Size(mx) = n /\ DOMAIN mx = 1 .. n
BY LengthOf DEF Size, Matrices

\* A set of numbers up to n that is not empty has a greatest.
LEMMA GreatestExists ==
  ASSUME NEW n \in Nat, NEW S \in SUBSET (0 .. n), S # {}
  PROVE  \E m \in S : \A k \in S : k <= m
<1> DEFINE Good == {k \in 0 .. n : \A T \in SUBSET (0 .. k) :
                      T # {} => \E m \in T : \A j \in T : j <= m}
<1>1. 0 \in Good
  <2>1. ASSUME NEW T \in SUBSET (0 .. 0), T # {}
        PROVE  \E m \in T : \A j \in T : j <= m
    <3>1. PICK m \in T : TRUE
      BY <2>1
    <3>2. m = 0 /\ \A j \in T : j = 0
      OBVIOUS
    <3> QED BY <3>2
  <2> QED BY <2>1, 0 \in 0 .. n
<1>2. ASSUME NEW k \in 0 .. n - 1, k \in Good
      PROVE  k + 1 \in Good
  <2>1. k + 1 \in 0 .. n
    OBVIOUS
  <2>2. ASSUME NEW T \in SUBSET (0 .. k + 1), T # {}
        PROVE  \E m \in T : \A j \in T : j <= m
    <3>1. CASE k + 1 \in T
      BY <3>1
    <3>2. CASE k + 1 \notin T
      <4>1. T \in SUBSET (0 .. k)
        BY <3>2
      <4> QED BY <1>2, <2>2, <4>1
    <3> QED BY <3>1, <3>2
  <2> QED BY <2>1, <2>2
<1>3. n \in Good
  <2> HIDE DEF Good
  <2> QED BY <1>1, <1>2, CountingUp, n \in 0 .. n
<1> QED BY <1>3

LEMMA ContemplationMonth ==
  ASSUME NEW n \in Nat, NEW row \in [1 .. n -> MatrixCell]
  PROVE  /\ MonthContemplated(row) \in Contemplations(row) \cup {NotContemplated}
         /\ Contemplations(row) # {} => MonthContemplated(row) \in 1 .. n
         /\ Contemplations(row) = {} => MonthContemplated(row) = NotContemplated
<1>1. Contemplations(row) \in SUBSET (1 .. n) /\ Contemplations(row) \in SUBSET (0 .. n)
  BY DEF Contemplations
<1>2. CASE Contemplations(row) = {}
  BY <1>2 DEF MonthContemplated
<1>3. CASE Contemplations(row) # {}
  <2>1. PICK S : S = Contemplations(row)
    OBVIOUS
  <2>2. \E m \in S : \A k \in S : k <= m
    BY <1>1, <1>3, <2>1, GreatestExists
  <2>3. (CHOOSE m \in S : \A k \in S : k <= m) \in S
    BY <2>2
  <2>4. MonthContemplated(row) \in S
    BY <1>3, <2>1, <2>3 DEF MonthContemplated
  <2> QED BY <1>1, <1>3, <2>1, <2>4
<1> QED BY <1>2, <1>3

----------------------------------------------------------------------------
(* The editor.                                                             *)

MatrixOK == \E n \in Sizes : matrix \in Matrices(n)

LEMMA FromHereType ==
  ASSUME NEW n \in Nat, NEW row \in [1 .. n -> MatrixCell], NEW col, NEW what \in MatrixCell
  PROVE  FromHere(row, col, what) \in [1 .. n -> MatrixCell]
BY DEF FromHere

LEMMA RowReplaced ==
  ASSUME NEW n \in Nat, NEW mx \in Matrices(n), NEW row \in 1 .. n,
         NEW new \in [1 .. n -> MatrixCell]
  PROVE  [mx EXCEPT ![row] = new] \in Matrices(n)
BY DEF Matrices

LEMMA ClickKeepsMatrix ==
  ASSUME NEW n \in Nat, NEW mx \in Matrices(n), NEW row \in 1 .. n, NEW col \in 1 .. n
  PROVE  toggleCell(mx, row, col) \in Matrices(n) /\ toggleCellEscape(mx, row, col) \in Matrices(n)
<1>1. /\ DOMAIN mx = 1 .. n /\ \A r \in 1 .. n : mx[r] \in [1 .. n -> MatrixCell]
      /\ mx[row][col] \in MatrixCell /\ {"P", "C", "X", "E"} \subseteq MatrixCell
  BY DEF Matrices, MatrixCell
<1>2. Promoted(mx, row, col) \in Matrices(n)
  <2>1. \A r \in 1 .. n : DOMAIN mx[r] = 1 .. n
    BY <1>1
  <2>2. ASSUME NEW r \in 1 .. n, NEW c \in 1 .. n
        PROVE  (CASE r = row /\ c = col                         -> "C"
                  [] r = row /\ c # col /\ (c < col \/ mx[r][c] = "C") -> "P"
                  [] r # row /\ c = col /\ mx[r][c] = "C"       -> "P"
                  [] OTHER                                      -> mx[r][c]) \in MatrixCell
    <3>1. mx[r][c] \in MatrixCell
      BY <1>1
    <3> QED BY <1>1, <3>1
  <2> QED BY <1>1, <2>1, <2>2 DEF Promoted, Matrices
<1>3. \A what \in MatrixCell : [mx EXCEPT ![row] = FromHere(@, col, what)] \in Matrices(n)
  BY <1>1, FromHereType, RowReplaced
<1>4. \A what \in MatrixCell : [mx EXCEPT ![row][col] = what] \in Matrices(n)
  BY DEF Matrices
<1>5. toggleCell(mx, row, col) \in Matrices(n)
  <2>1. CASE mx[row][col] = "X"
    <3>1. toggleCell(mx, row, col) = [mx EXCEPT ![row] = FromHere(@, col, "P")]
      BY <2>1 DEF toggleCell
    <3> QED BY <1>1, <1>3, <3>1
  <2>2. CASE mx[row][col] = "C"
    <3>1. toggleCell(mx, row, col) = [mx EXCEPT ![row][col] = "P"]
      BY <2>2 DEF toggleCell
    <3> QED BY <1>1, <1>4, <3>1
  <2>3. CASE mx[row][col] \in {"P", "E"}
    <3>1. \/ toggleCell(mx, row, col) = [mx EXCEPT ![row] = FromHere(@, col, "X")]
          \/ toggleCell(mx, row, col) = Promoted(mx, row, col)
      BY <2>3 DEF toggleCell
    <3> QED BY <1>1, <1>2, <1>3, <3>1
  <2> QED BY <1>1, <2>1, <2>2, <2>3 DEF MatrixCell
<1>6. toggleCellEscape(mx, row, col) \in Matrices(n)
  <2>1. \/ toggleCellEscape(mx, row, col) = [mx EXCEPT ![row] = FromHere(@, col, "P")]
        \/ toggleCellEscape(mx, row, col) = [mx EXCEPT ![row][col] = "E"]
    BY DEF toggleCellEscape
  <2> QED BY <1>1, <1>3, <1>4, <2>1
<1> QED BY <1>5, <1>6

LEMMA DefaultType ==
  ASSUME NEW n \in Nat
  PROVE  defaultMatrix(n) \in Matrices(n)
BY DEF defaultMatrix, Matrices, MatrixCell

LEMMA ResizeType ==
  ASSUME NEW n \in Nat, NEW k \in Nat, NEW old \in Matrices(k)
  PROVE  resizeMatrix(old, n) \in Matrices(n)
<1>1. Size(old) = k
  BY SizeOfMatrix
<1>2. PICK fresh \in Matrices(n) : fresh = defaultMatrix(n)
  BY DefaultType
<1>3. ASSUME NEW r \in 1 .. n, NEW c \in 1 .. n
      PROVE  (IF r <= k /\ c <= k THEN old[r][c] ELSE fresh[r][c]) \in MatrixCell
  BY DEF Matrices
<1> QED BY <1>1, <1>2, <1>3 DEF resizeMatrix, Matrices

LEMMA SizesAreNumbers == \A n \in Sizes : n \in Nat /\ n \in Nat \ {0, 1}
BY StressLabAssumption

LEMMA EditingKeepsMatrix == StressLabSpec => []MatrixOK
<1>1. StressLabInit => MatrixOK
  BY SizesAreNumbers, DefaultType DEF StressLabInit, MatrixOK
<1>2. MatrixOK /\ [StressLabNext]_matrix => MatrixOK'
  <2>1. SUFFICES ASSUME MatrixOK, StressLabNext PROVE MatrixOK'
    BY DEF MatrixOK
  <2>2. PICK n \in Sizes : matrix \in Matrices(n)
    BY <2>1 DEF MatrixOK
  <2>3. n \in Nat /\ Size(matrix) = n
    BY <2>2, SizesAreNumbers, SizeOfMatrix
  <2>4. ASSUME NEW row \in 1 .. n, NEW col \in 1 .. n,
               matrix' \in {toggleCell(matrix, row, col), toggleCellEscape(matrix, row, col)}
        PROVE  MatrixOK'
    <3>1. matrix' \in Matrices(n)
      BY <2>2, <2>3, <2>4, ClickKeepsMatrix
    <3> QED BY <3>1 DEF MatrixOK
  <2>5. ASSUME NEW k \in Sizes, matrix' = resizeMatrix(matrix, k)
        PROVE  MatrixOK'
    <3>1. matrix' \in Matrices(k)
      BY <2>2, <2>3, <2>5, SizesAreNumbers, ResizeType
    <3> QED BY <3>1 DEF MatrixOK
  <2> QED BY <2>1, <2>3, <2>4, <2>5 DEF StressLabNext
<1> QED BY <1>1, <1>2, PTL DEF StressLabSpec

----------------------------------------------------------------------------
(* One member: what it may have received by a cycle.                       *)

Drip(n, month) == Escrow(n, month) \div ReleaseMonths

CreditSoFar(n, month, c) ==
  IF c < month THEN 0
  ELSE Upfront(n, month) + Lesser(c - month, ReleaseMonths) * Drip(n, month)

RefundSoFar(n, month, c) ==
  IF c <= month + ReleaseMonths THEN 0
  ELSE (c - month - ReleaseMonths) * RefundPerMonth(n, month)

\* A positive divisor's worth of the quotient is within what was divided.
LEMMA SharesFit ==
  ASSUME NEW a \in Nat, NEW d \in Nat \ {0}, NEW k \in Nat, k <= d
  PROVE  a \div d \in Nat /\ k * (a \div d) \in Nat /\ k * (a \div d) <= a
<1>1. PICK q \in Nat : q = a \div d
  BY DivBounds
<1>2. d * q <= a
  BY <1>1, DivBounds
<1>3. k * q \in Nat /\ k * q <= d * q /\ d * q \in Nat
  BY MulMonotone
<1> QED BY <1>1, <1>2, <1>3

LEMMA LabNumbers ==
  /\ Stake \in Nat /\ ReleaseMonths \in Nat \ {0} /\ CreditAmount \in Nat
  /\ \A n \in Sizes : Installment(n) \in Nat /\ n * Installment(n) = CreditAmount
                      /\ 2 * Installment(n) <= CreditAmount
<1>1. /\ StakePct \in Nat /\ ReleaseMonths \in Nat \ {0} /\ CreditAmount \in Nat
  BY StressLabAssumption
<1>2. Stake \in Nat
  <2>1. PICK x \in Nat : x = CreditAmount * StakePct
    BY <1>1
  <2>2. x \div 100 \in Nat
    BY DivBounds
  <2> QED BY <2>1, <2>2 DEF Stake, Pct
<1>3. ASSUME NEW n \in Sizes
      PROVE  Installment(n) \in Nat /\ n * Installment(n) = CreditAmount
             /\ 2 * Installment(n) <= CreditAmount
  <2>1. n \in Nat /\ n \in Nat \ {0} /\ n >= 2 /\ CreditAmount % n = 0
    BY StressLabAssumption
  <2>2. PICK q \in Nat : q = CreditAmount \div n
    BY <1>1, <2>1, DivBounds
  <2>4. n * q = CreditAmount
    <3>1. PICK a \in Nat : a = CreditAmount
      BY <1>1
    <3>2. a = n * (a \div n) + (a % n)
      BY <2>1
    <3> QED BY <2>1, <2>2, <3>1, <3>2
  <2>5. 2 * q <= n * q
    BY <2>1, MulMonotone, 2 \in Nat
  <2> QED BY <2>2, <2>4, <2>5 DEF Installment
<1> QED BY <1>1, <1>2, <1>3

\* The part up front and the part in escrow are within the credit.
LEMMA CreditParts ==
  ASSUME NEW n \in Sizes, NEW month \in Nat
  PROVE  /\ Upfront(n, month) \in Nat /\ Escrow(n, month) \in Nat
         /\ Upfront(n, month) + Escrow(n, month) <= CreditAmount
<1>1. CASE month = 1
  BY <1>1, LabNumbers DEF Upfront, Escrow
<1>2. CASE month # 1
  <2>1. /\ UpfrontPct \in Nat /\ EscrowPct \in Nat /\ UpfrontPct + EscrowPct = 100
        /\ CreditAmount \in Nat
    BY StressLabAssumption
  <2>2. PICK x \in Nat : x = CreditAmount * UpfrontPct
    BY <2>1
  <2>3. PICK y \in Nat : y = CreditAmount * EscrowPct
    BY <2>1
  <2>4. x + y = CreditAmount * 100
    <3>1. CreditAmount * UpfrontPct + CreditAmount * EscrowPct
            = CreditAmount * (UpfrontPct + EscrowPct)
      BY <2>1
    <3> QED BY <2>1, <2>2, <2>3, <3>1
  <2>5. /\ x \div 100 \in Nat /\ 100 * (x \div 100) <= x
        /\ y \div 100 \in Nat /\ 100 * (y \div 100) <= y
    BY DivBounds
  <2>6. x \div 100 + y \div 100 <= CreditAmount
    BY <2>1, <2>4, <2>5
  <2> QED BY <1>2, <2>2, <2>3, <2>5, <2>6 DEF Upfront, Escrow, Pct
<1> QED BY <1>1, <1>2

\* The drips never exceed the escrow, nor the refunds the stake.
LEMMA SoFarWithinCredit ==
  ASSUME NEW n \in Sizes, NEW month \in 1 .. n, NEW c \in 0 .. n
  PROVE  /\ CreditSoFar(n, month, c) \in Nat /\ CreditSoFar(n, month, c) <= CreditAmount
         /\ RefundSoFar(n, month, c) \in Nat /\ RefundSoFar(n, month, c) <= Stake
         /\ Drip(n, month) \in Nat /\ RefundPerMonth(n, month) \in Nat
<1>1. /\ n \in Nat /\ month \in Nat /\ c \in Nat /\ c <= n /\ Stake \in Nat
      /\ ReleaseMonths \in Nat \ {0} /\ CreditAmount \in Nat
  BY SizesAreNumbers, LabNumbers
<1>2. PICK up \in Nat, esc \in Nat : /\ up = Upfront(n, month) /\ esc = Escrow(n, month)
                                    /\ up + esc <= CreditAmount
  BY <1>1, CreditParts
<1>3. PICK drip \in Nat : drip = Drip(n, month)
  BY <1>1, <1>2, DivBounds DEF Drip
<1>4. CreditSoFar(n, month, c) \in Nat /\ CreditSoFar(n, month, c) <= CreditAmount
  <2>1. CASE c < month
    BY <1>1, <2>1 DEF CreditSoFar
  <2>2. CASE ~(c < month)
    <3>1. PICK k \in Nat : k = Lesser(c - month, ReleaseMonths) /\ k <= ReleaseMonths
      BY <1>1, <2>2 DEF Lesser
    <3>2. k * drip \in Nat /\ k * drip <= esc
      BY <1>1, <1>2, <1>3, <3>1, SharesFit DEF Drip
    <3> QED BY <1>1, <1>2, <1>3, <2>2, <3>1, <3>2 DEF CreditSoFar
  <2> QED BY <2>1, <2>2
<1>5. PICK months \in Int : months = n - month - ReleaseMonths
  BY <1>1
<1>6. CASE months <= 0
  <2>1. RefundPerMonth(n, month) = 0
    BY <1>5, <1>6 DEF RefundPerMonth
  <2>2. c <= month + ReleaseMonths
    BY <1>1, <1>5, <1>6
  <2>3. RefundSoFar(n, month, c) = 0
    BY <2>2 DEF RefundSoFar
  <2> QED BY <1>1, <1>3, <1>4, <2>1, <2>3
<1>7. CASE months > 0
  <2>1. months \in Nat \ {0} /\ RefundPerMonth(n, month) = Stake \div months
    BY <1>5, <1>7 DEF RefundPerMonth
  <2>2. CASE c <= month + ReleaseMonths
    BY <1>1, <1>3, <1>4, <2>1, <2>2, DivBounds DEF RefundSoFar
  <2>3. CASE ~(c <= month + ReleaseMonths)
    <3>1. PICK k \in Nat : k = c - month - ReleaseMonths /\ k <= months
      BY <1>1, <1>5, <2>3
    <3>2. Stake \div months \in Nat /\ k * (Stake \div months) \in Nat
          /\ k * (Stake \div months) <= Stake
      BY <1>1, <2>1, <3>1, SharesFit
    <3> QED BY <1>3, <1>4, <2>1, <2>3, <3>1, <3>2 DEF RefundSoFar
  <2> QED BY <2>2, <2>3
<1> QED BY <1>6, <1>7

LEMMA OneMoreTime ==
  ASSUME NEW k \in Int, NEW x \in Nat
  PROVE  (k - 1) * x + x = k * x /\ 0 * x = 0 /\ k * x \in Int
OBVIOUS

\* What a cycle pays is what the sums so far grow by, at most.
LEMMA SoFarGrows ==
  ASSUME NEW n \in Sizes, NEW month \in 1 .. n, NEW c \in 1 .. n
  PROVE  /\ PayoutThisMonth(n, month, c) \in Nat /\ RefundThisMonth(n, month, c) \in Nat
         /\ CreditSoFar(n, month, c - 1) <= CreditSoFar(n, month, c)
         /\ RefundSoFar(n, month, c - 1) <= RefundSoFar(n, month, c)
         /\ month <= c =>
              CreditSoFar(n, month, c - 1) + PayoutThisMonth(n, month, c)
                <= CreditSoFar(n, month, c)
         /\ RefundSoFar(n, month, c - 1) + RefundThisMonth(n, month, c)
              <= RefundSoFar(n, month, c)
<1>1. /\ n \in Nat /\ month \in Nat /\ c \in Nat /\ c - 1 \in 0 .. n /\ c \in 0 .. n
      /\ ReleaseMonths \in Nat \ {0}
  BY SizesAreNumbers, LabNumbers
<1>2. PICK up \in Nat : up = Upfront(n, month)
  BY <1>1, CreditParts
<1>3. PICK drip \in Nat, refund \in Nat : /\ drip = Drip(n, month)
                                         /\ refund = RefundPerMonth(n, month)
  BY <1>1, SoFarWithinCredit
<1>4. PICK rm \in Nat \ {0} : rm = ReleaseMonths
  BY <1>1
<1>5. PICK k \in Int : k = c - month
  BY <1>1
<1>6. PICK pay : pay = PayoutThisMonth(n, month, c)
  OBVIOUS
<1>7. CreditSoFar(n, month, c) = IF k < 0 THEN 0 ELSE up + Lesser(k, rm) * drip
  BY <1>1, <1>2, <1>3, <1>4, <1>5 DEF CreditSoFar
<1>8. CreditSoFar(n, month, c - 1) = IF k - 1 < 0 THEN 0 ELSE up + Lesser(k - 1, rm) * drip
  <2>1. (c - 1) - month = k - 1 /\ (c - 1 < month <=> k - 1 < 0)
    BY <1>1, <1>5
  <2> QED BY <1>2, <1>3, <1>4, <2>1 DEF CreditSoFar
<1>9. pay = IF k = 0 THEN up ELSE IF k > 0 /\ k <= rm THEN drip ELSE 0
  <2>1. (c = month <=> k = 0) /\ (DripDue(month, c) <=> k > 0 /\ k <= rm)
    BY <1>1, <1>4, <1>5 DEF DripDue
  <2>2. k = 0 => ~(k > 0 /\ k <= rm)
    OBVIOUS
  <2> QED BY <1>2, <1>3, <1>6, <2>1, <2>2 DEF PayoutThisMonth, Drip
<1>10. k > 0 => (k - 1) * drip + drip = k * drip
  BY OneMoreTime
<1>11. /\ pay \in Nat
       /\ CreditSoFar(n, month, c - 1) <= CreditSoFar(n, month, c)
       /\ month <= c => CreditSoFar(n, month, c - 1) + pay <= CreditSoFar(n, month, c)
  <2>1. CASE k < 0
    BY <1>1, <1>5, <1>7, <1>8, <1>9, <2>1
  <2>2. CASE k = 0
    <3>1. Lesser(k, rm) = 0 /\ 0 * drip = 0
      BY <2>2 DEF Lesser
    <3> QED BY <1>7, <1>8, <1>9, <2>2, <3>1
  <2>3. CASE k > 0 /\ k <= rm
    <3>1. Lesser(k, rm) = k /\ Lesser(k - 1, rm) = k - 1
      BY <2>3 DEF Lesser
    <3>2. PICK a \in Int, b \in Int : a = (k - 1) * drip /\ b = k * drip /\ a + drip = b
      BY <1>10, <2>3
    <3> QED BY <1>7, <1>8, <1>9, <2>3, <3>1, <3>2
  <2>4. CASE k > rm
    <3>1. Lesser(k, rm) = rm /\ Lesser(k - 1, rm) = rm
      BY <2>4 DEF Lesser
    <3>2. PICK a \in Nat : a = rm * drip
      OBVIOUS
    <3> QED BY <1>7, <1>8, <1>9, <2>4, <3>1, <3>2
  <2> QED BY <2>1, <2>2, <2>3, <2>4
<1>12. PICK j \in Int : j = c - month - ReleaseMonths
  BY <1>1
<1>13. /\ RefundSoFar(n, month, c) = IF j <= 0 THEN 0 ELSE j * refund
       /\ RefundSoFar(n, month, c - 1) = IF j - 1 <= 0 THEN 0 ELSE (j - 1) * refund
       /\ RefundThisMonth(n, month, c) = IF j > 0 THEN refund ELSE 0
  <2>1. /\ (c <= month + ReleaseMonths <=> j <= 0)
        /\ (c - 1 <= month + ReleaseMonths <=> j - 1 <= 0)
        /\ (c > month + ReleaseMonths <=> j > 0)
        /\ (c - 1) - month - ReleaseMonths = j - 1
    BY <1>1, <1>12
  <2> QED BY <1>3, <1>12, <2>1 DEF RefundSoFar, RefundThisMonth
<1>14. PICK a \in Int, b \in Int : /\ a = (j - 1) * refund /\ b = j * refund
                                  /\ a + refund = b
  BY OneMoreTime
<1>15. j = 1 => a = 0
  BY <1>14
<1>16. /\ RefundThisMonth(n, month, c) \in Nat
       /\ RefundSoFar(n, month, c - 1) <= RefundSoFar(n, month, c)
       /\ RefundSoFar(n, month, c - 1) + RefundThisMonth(n, month, c)
            <= RefundSoFar(n, month, c)
  BY <1>13, <1>14, <1>15
<1> QED BY <1>6, <1>11, <1>16

Ledgers == [installmentsPaid : Nat, received : Nat, stakeRefunded : Nat,
            retained : Int, lossCaused : Int,
            status : {"ok", "calote_pre", "calote_pos", "exited"}]

\* A member received no more than the sums so far of its contemplation, and
\* nothing without one.
WithinCredit(l, n, month, c) ==
  IF month = NotContemplated
  THEN l.received = 0 /\ l.stakeRefunded = 0
  ELSE /\ l.received - l.stakeRefunded <= CreditSoFar(n, month, c)
       /\ l.stakeRefunded <= RefundSoFar(n, month, c)

LEMMA DefaultedType ==
  ASSUME NEW l \in Ledgers, NEW n \in Sizes, NEW month \in (1 .. n) \cup {NotContemplated}, NEW c
  PROVE  LET d == Defaulted(l, n, month, c)
         IN  /\ d \in Ledgers
             /\ d.received = l.received /\ d.stakeRefunded = l.stakeRefunded
<1>1. /\ l.installmentsPaid \in Nat /\ l.received \in Nat /\ l.stakeRefunded \in Nat
      /\ Stake \in Nat
  BY LabNumbers DEF Ledgers
<1>2. PICK paidSoFar \in Int : paidSoFar = Stake + l.installmentsPaid
  BY <1>1
<1>3. CASE month = NotContemplated \/ c <= month
  BY <1>2, <1>3 DEF Defaulted, Ledgers
<1>4. CASE ~(month = NotContemplated \/ c <= month)
  <2>1. month \in Nat
    BY <1>4, SizesAreNumbers
  <2>2. PICK up \in Int, esc \in Int : up = Upfront(n, month) /\ esc = Escrow(n, month)
    BY <2>1, CreditParts
  <2>3. PICK dripped \in Int : dripped = AtLeastZero(l.received - up - l.stakeRefunded)
    BY <1>1 DEF AtLeastZero
  <2>4. PICK seized \in Int : seized = AtLeastZero(esc - dripped)
                                        + AtLeastZero(Stake - l.stakeRefunded)
    BY <1>1 DEF AtLeastZero
  <2>5. PICK lost \in Int : lost = AtLeastZero(l.received - paidSoFar)
    BY <1>1 DEF AtLeastZero
  <2>6. PICK kept \in Int : kept = seized + AtLeastZero(-(l.received - paidSoFar))
    BY <1>1 DEF AtLeastZero
  <2>7. Defaulted(l, n, month, c)
          = [l EXCEPT !.status = "calote_pos", !.lossCaused = lost, !.retained = kept]
    BY <1>2, <1>4, <2>2, <2>3, <2>4, <2>5, <2>6 DEF Defaulted
  <2> QED BY <2>7 DEF Ledgers
<1> QED BY <1>3, <1>4

\* One cycle of one member.
LEMMA CycleOfMember ==
  ASSUME NEW n \in Sizes, NEW row \in [1 .. n -> MatrixCell], NEW c \in 1 .. n,
         NEW l \in Ledgers, WithinCredit(l, n, MonthContemplated(row), c - 1)
  PROVE  LET new == LedgerAfter(l, row, c)
         IN  /\ new \in Ledgers
             /\ WithinCredit(new, n, MonthContemplated(row), c)
             /\ l.status = "ok" /\ row[c] \in {"P", "C"} =>
                  /\ new.status = "ok"
                  /\ new.installmentsPaid = l.installmentsPaid + Installment(n)
<1>1. n \in Nat /\ c \in Nat /\ Len(row) = n /\ row[c] \in MatrixCell
  BY SizesAreNumbers, LengthOf
<1>2. PICK month : month = MonthContemplated(row)
  OBVIOUS
<1>3. month \in (1 .. n) \cup {NotContemplated}
  BY <1>1, <1>2, ContemplationMonth
<1>4. PICK inst \in Nat : inst = Installment(n)
  BY LabNumbers
<1>5. PICK paid : paid = [l EXCEPT !.installmentsPaid =
                            IF row[c] \in {"P", "C"} THEN @ + inst ELSE @]
  OBVIOUS
<1>6. /\ paid \in Ledgers /\ paid.received = l.received
      /\ paid.stakeRefunded = l.stakeRefunded /\ paid.status = l.status
      /\ row[c] \in {"P", "C"} => paid.installmentsPaid = l.installmentsPaid + inst
  BY <1>5 DEF Ledgers
<1>7. /\ l.received \in Nat /\ l.stakeRefunded \in Nat
      /\ paid.received \in Nat /\ paid.stakeRefunded \in Nat
  BY <1>6 DEF Ledgers
<1>8. month \in 1 .. n =>
        /\ CreditSoFar(n, month, c - 1) \in Nat /\ RefundSoFar(n, month, c - 1) \in Nat
        /\ CreditSoFar(n, month, c) \in Nat /\ RefundSoFar(n, month, c) \in Nat
        /\ CreditSoFar(n, month, c - 1) <= CreditSoFar(n, month, c)
        /\ RefundSoFar(n, month, c - 1) <= RefundSoFar(n, month, c)
  BY <1>1, c - 1 \in 0 .. n, c \in 0 .. n, SoFarWithinCredit, SoFarGrows
<1>9. ASSUME NEW new \in Ledgers, new.received = l.received, new.stakeRefunded = l.stakeRefunded
      PROVE  WithinCredit(new, n, month, c)
  <2>1. CASE month = NotContemplated
    BY <1>2, <1>9, <2>1 DEF WithinCredit
  <2>2. CASE month # NotContemplated
    <3>1. /\ l.received - l.stakeRefunded <= CreditSoFar(n, month, c - 1)
          /\ l.stakeRefunded <= RefundSoFar(n, month, c - 1)
      BY <1>2, <2>2 DEF WithinCredit
    <3> QED BY <1>3, <1>7, <1>8, <1>9, <2>2, <3>1 DEF WithinCredit
  <2> QED BY <2>1, <2>2
<1>10. PICK new : new = LedgerAfter(l, row, c)
  OBVIOUS
<1>11. CASE l.status # "ok"
  <2>1. new = paid
    BY <1>1, <1>4, <1>5, <1>10, <1>11 DEF LedgerAfter
  <2> QED BY <1>2, <1>6, <1>9, <1>10, <1>11, <2>1
<1>12. CASE l.status = "ok" /\ row[c] = "X"
  <2>1. new = Defaulted(paid, n, month, c)
    BY <1>1, <1>2, <1>4, <1>5, <1>10, <1>12 DEF LedgerAfter
  <2>2. /\ new \in Ledgers /\ new.received = l.received
        /\ new.stakeRefunded = l.stakeRefunded
    BY <1>3, <1>6, <2>1, DefaultedType
  <2> QED BY <1>2, <1>9, <1>10, <1>12, <2>2
<1>13. CASE l.status = "ok" /\ row[c] = "E"
  <2>1. new = [paid EXCEPT !.status = "exited"]
    BY <1>1, <1>4, <1>5, <1>10, <1>13 DEF LedgerAfter
  <2>2. /\ new \in Ledgers /\ new.received = l.received
        /\ new.stakeRefunded = l.stakeRefunded
    BY <1>6, <2>1 DEF Ledgers
  <2> QED BY <1>2, <1>9, <1>10, <1>13, <2>2
<1>14. CASE /\ l.status = "ok" /\ row[c] \in {"P", "C"}
            /\ ~(month # NotContemplated /\ month <= c)
  <2>1. new = paid
    BY <1>1, <1>2, <1>4, <1>5, <1>10, <1>14 DEF LedgerAfter
  <2> QED BY <1>2, <1>4, <1>6, <1>9, <1>10, <1>14, <2>1
<1>15. CASE /\ l.status = "ok" /\ row[c] \in {"P", "C"}
            /\ month # NotContemplated /\ month <= c
  <2>1. month \in 1 .. n
    BY <1>3, <1>15
  <2>2. PICK pay \in Nat, refund \in Nat : /\ pay = PayoutThisMonth(n, month, c)
                                           /\ refund = RefundThisMonth(n, month, c)
    BY <2>1, SoFarGrows
  <2>3. PICK received \in Nat, refunded \in Nat : /\ received = paid.received + (pay + refund)
                                                  /\ refunded = paid.stakeRefunded + refund
    BY <1>7
  <2>4. new = [paid EXCEPT !.received = received, !.stakeRefunded = refunded]
    <3>1. new = [paid EXCEPT
                   !.received = @ + PayoutThisMonth(n, month, c) + RefundThisMonth(n, month, c),
                   !.stakeRefunded = @ + RefundThisMonth(n, month, c)]
      BY <1>1, <1>2, <1>4, <1>5, <1>10, <1>15 DEF LedgerAfter
    <3>2. paid.received + pay + refund = received
      BY <1>7, <2>3
    <3> QED BY <2>2, <2>3, <3>1, <3>2
  <2>5. /\ new \in Ledgers /\ new.received = received /\ new.stakeRefunded = refunded
        /\ new.status = "ok" /\ new.installmentsPaid = paid.installmentsPaid
    BY <1>6, <1>15, <2>4 DEF Ledgers
  <2>6. /\ l.received - l.stakeRefunded <= CreditSoFar(n, month, c - 1)
        /\ l.stakeRefunded <= RefundSoFar(n, month, c - 1)
    BY <1>2, <1>15 DEF WithinCredit
  <2>7. /\ CreditSoFar(n, month, c - 1) + pay <= CreditSoFar(n, month, c)
        /\ RefundSoFar(n, month, c - 1) + refund <= RefundSoFar(n, month, c)
    BY <1>15, <2>1, <2>2, SoFarGrows
  <2>8. received - refunded <= CreditSoFar(n, month, c) /\ refunded <= RefundSoFar(n, month, c)
    <3>1. PICK a \in Nat, b \in Nat, x \in Nat, y \in Nat :
            /\ a = CreditSoFar(n, month, c - 1) /\ b = CreditSoFar(n, month, c)
            /\ x = RefundSoFar(n, month, c - 1) /\ y = RefundSoFar(n, month, c)
      BY <1>8, <2>1
    <3>2. received = l.received + (pay + refund) /\ refunded = l.stakeRefunded + refund
      BY <1>6, <2>3
    <3>3. /\ l.received - l.stakeRefunded <= a /\ l.stakeRefunded <= x
          /\ a + pay <= b /\ x + refund <= y
      BY <2>6, <2>7, <3>1
    <3>4. PICK p \in Nat, q \in Nat : p = l.received /\ q = l.stakeRefunded
      BY <1>7
    <3>5. /\ p - q <= a /\ q <= x /\ a + pay <= b /\ x + refund <= y
          /\ received = p + (pay + refund) /\ refunded = q + refund
      BY <3>2, <3>3, <3>4
    <3>6. received - refunded <= b
      BY <3>5
    <3>7. refunded <= y
      BY <3>5
    <3> QED BY <3>1, <3>6, <3>7
  <2>9. WithinCredit(new, n, month, c)
    BY <1>15, <2>5, <2>8 DEF WithinCredit
  <2> QED BY <1>2, <1>4, <1>6, <1>10, <1>15, <2>5, <2>9
<1> QED BY <1>1, <1>11, <1>12, <1>13, <1>14, <1>15 DEF MatrixCell

----------------------------------------------------------------------------
(* A frame: the ledgers of the members, the buckets and the yield.         *)

Frames(n) == [ledger : [1 .. n -> Ledgers], installments : Int, paidOut : Int, pool : Int,
              solidarity : Int, guaranteeFund : Int, lp : Int, participants : Int,
              fees : Int, netYield : Int]

\* What came in, as stake or installment, is in the pool, in the solidarity vault
\* or with the members.
BooksBalance(f, n) == f.pool + f.solidarity + f.paidOut = Stake * n + f.installments

YieldSplit(f) ==
  /\ f.netYield = f.guaranteeFund + f.lp + f.participants
  /\ f.guaranteeFund <= Pct(CreditAmount, 150)

PaysThrough(row, n) == \A c \in 1 .. n : row[c] \in {"P", "C"}

FrameOK(mx, f, n, c) ==
  /\ f \in Frames(n)
  /\ \A r \in 1 .. n : WithinCredit(f.ledger[r], n, MonthContemplated(mx[r]), c)
  /\ \A r \in 1 .. n : PaysThrough(mx[r], n) =>
       /\ f.ledger[r].status = "ok"
       /\ f.ledger[r].installmentsPaid = c * Installment(n)
  /\ f.installments = TotalInstallments(f.ledger)
  /\ f.paidOut = TotalPaidOut(f.ledger)
  /\ BooksBalance(f, n)
  /\ YieldSplit(f)

\* The yield touches neither the members nor the pool, and its split is complete.
LEMMA YieldKeepsBooks ==
  ASSUME NEW n \in Nat, NEW f \in Frames(n), YieldSplit(f)
  PROVE  LET y == YieldAfter(f)
         IN  /\ y \in Frames(n) /\ YieldSplit(y)
             /\ y.ledger = f.ledger /\ y.installments = f.installments
             /\ y.paidOut = f.paidOut /\ y.pool = f.pool /\ y.solidarity = f.solidarity
<1>1. /\ f.pool \in Int /\ f.guaranteeFund \in Int /\ f.lp \in Int /\ f.participants \in Int
      /\ f.fees \in Int /\ f.netYield \in Int
      /\ KaminoApy \in Nat /\ YieldFeePct \in Nat /\ CreditAmount \in Nat
  BY StressLabAssumption DEF Frames
<1>2. PICK cap \in Int : cap = Pct(CreditAmount, 150)
  BY <1>1 DEF Pct
<1>3. PICK gross \in Int : gross = IF f.pool > 0 THEN (f.pool * KaminoApy) \div 1200 ELSE 0
  <2>1. PICK x \in Int : x = f.pool * KaminoApy
    BY <1>1
  <2> QED BY <2>1
<1>4. PICK net \in Int : net = gross - Pct(gross, YieldFeePct)
  <2>1. PICK x \in Int : x = gross * YieldFeePct
    BY <1>1
  <2> QED BY <2>1 DEF Pct
<1>5. PICK toGF \in Int : /\ toGF = AtMost(net, AtLeastZero(cap - f.guaranteeFund))
                          /\ f.guaranteeFund <= cap => f.guaranteeFund + toGF <= cap
  BY <1>1 DEF AtMost, AtLeastZero
<1>6. PICK toLp \in Int : toLp = Pct(net - toGF, 65)
  BY DEF Pct
<1>7. YieldAfter(f)
        = [f EXCEPT !.fees = @ + gross - net, !.netYield = @ + net,
                    !.guaranteeFund = @ + toGF, !.lp = @ + toLp,
                    !.participants = @ + net - toGF - toLp]
  BY <1>2, <1>3, <1>4, <1>5, <1>6 DEF YieldAfter
<1>8. PICK y : y = YieldAfter(f)
  OBVIOUS
<1>9. /\ y \in Frames(n)
      /\ y.ledger = f.ledger /\ y.installments = f.installments
      /\ y.paidOut = f.paidOut /\ y.pool = f.pool /\ y.solidarity = f.solidarity
      /\ y.netYield = f.netYield + net /\ y.guaranteeFund = f.guaranteeFund + toGF
      /\ y.lp = f.lp + toLp /\ y.participants = f.participants + net - toGF - toLp
  <2>0. PICK e \in Int : e = f.participants + net - toGF - toLp
    BY <1>1
  <2>1. PICK a \in Int, b \in Int, x \in Int, d \in Int :
          /\ a = f.fees + gross - net /\ b = f.netYield + net
          /\ x = f.guaranteeFund + toGF /\ d = f.lp + toLp
    BY <1>1
  <2>2. y = [f EXCEPT !.fees = a, !.netYield = b, !.guaranteeFund = x, !.lp = d,
                      !.participants = e]
    BY <1>7, <1>8, <2>0, <2>1
  <2>3. /\ y \in Frames(n)
        /\ y.ledger = f.ledger /\ y.installments = f.installments
        /\ y.paidOut = f.paidOut /\ y.pool = f.pool /\ y.solidarity = f.solidarity
        /\ y.netYield = b /\ y.guaranteeFund = x /\ y.lp = d /\ y.participants = e
    BY <2>2 DEF Frames
  <2> QED BY <2>0, <2>1, <2>3
<1>10. YieldSplit(y)
  BY <1>1, <1>2, <1>5, <1>9 DEF YieldSplit
<1> QED BY <1>8, <1>9, <1>10

\* What the sums of a ledger are.
LEMMA LedgerSums ==
  ASSUME NEW n \in Nat, NEW ledger \in [1 .. n -> Ledgers]
  PROVE  /\ TotalInstallments(ledger) \in Int /\ TotalPaidOut(ledger) \in Int
         /\ TotalInstallments(ledger)
              = SumOver([r \in 1 .. n |-> ledger[r].installmentsPaid], 1 .. n)
         /\ TotalPaidOut(ledger) = SumOver([r \in 1 .. n |-> ledger[r].received], 1 .. n)
<1>1. PICK f, g : /\ f = [r \in 1 .. n |-> ledger[r].installmentsPaid]
                  /\ g = [r \in 1 .. n |-> ledger[r].received]
  OBVIOUS
<1>2. DOMAIN ledger = 1 .. n /\ DOMAIN f = 1 .. n /\ DOMAIN g = 1 .. n
  BY <1>1
<1>3. \A r \in 1 .. n : f[r] \in Int /\ g[r] \in Int
  BY <1>1 DEF Ledgers
<1>4. IsFiniteSet(1 .. n)
  BY FS_Interval
<1>5. SumOver(f, 1 .. n) \in Int /\ SumOver(g, 1 .. n) \in Int
  BY <1>3, <1>4, SumType
<1>6. /\ TotalInstallments(ledger) = SumFunctionOnSet(f, 1 .. n)
      /\ TotalPaidOut(ledger) = SumFunctionOnSet(g, 1 .. n)
  BY <1>1, <1>2 DEF TotalInstallments, TotalPaidOut, SumFunction
<1> QED BY <1>1, <1>5, <1>6, SumIsOver

\* What the simulation starts from.
LEMMA NewFrameOK ==
  ASSUME NEW n \in Sizes, NEW mx \in Matrices(n)
  PROVE  FrameOK(mx, NewFrame(n), n, 0)
<1>1. n \in Nat /\ Stake \in Nat /\ Installment(n) \in Nat
  BY SizesAreNumbers, LabNumbers
<1>2. PICK ledger : ledger = [r \in 1 .. n |-> NewLedger]
  OBVIOUS
<1>3. /\ NewLedger \in Ledgers /\ NewLedger.received = 0 /\ NewLedger.stakeRefunded = 0
      /\ NewLedger.installmentsPaid = 0 /\ NewLedger.status = "ok"
  BY DEF NewLedger, Ledgers
<1>4. ledger \in [1 .. n -> Ledgers]
  BY <1>2, <1>3
<1>5. PICK stakes \in Int : stakes = Stake * n
  BY <1>1
<1>6. PICK f : f = NewFrame(n)
  OBVIOUS
<1>7. /\ f \in Frames(n) /\ f.ledger = ledger /\ f.installments = 0 /\ f.paidOut = 0
      /\ f.pool = stakes /\ f.solidarity = 0 /\ f.guaranteeFund = 0 /\ f.lp = 0
      /\ f.participants = 0 /\ f.netYield = 0
  BY <1>2, <1>4, <1>5, <1>6 DEF NewFrame, Frames
<1>8. TotalInstallments(ledger) = 0 /\ TotalPaidOut(ledger) = 0
  <2>1. PICK g : g = [r \in 1 .. n |-> 0]
    OBVIOUS
  <2>2. /\ g = [r \in 1 .. n |-> ledger[r].installmentsPaid]
        /\ g = [r \in 1 .. n |-> ledger[r].received]
    BY <1>2, <1>3, <2>1
  <2>3. SumOver(g, 1 .. n) = n * 0
    BY <1>1, <2>1, SumOfSame
  <2>4. n * 0 = 0
    BY <1>1
  <2>5. /\ TotalInstallments(ledger)
             = SumOver([r \in 1 .. n |-> ledger[r].installmentsPaid], 1 .. n)
        /\ TotalPaidOut(ledger) = SumOver([r \in 1 .. n |-> ledger[r].received], 1 .. n)
    BY <1>1, <1>4, LedgerSums
  <2> QED BY <2>2, <2>3, <2>4, <2>5
<1>9. ASSUME NEW r \in 1 .. n
      PROVE  /\ WithinCredit(ledger[r], n, MonthContemplated(mx[r]), 0)
             /\ ledger[r].status = "ok"
             /\ ledger[r].installmentsPaid = 0 * Installment(n)
  <2>1. mx[r] \in [1 .. n -> MatrixCell]
    BY DEF Matrices
  <2>2. PICK month \in (1 .. n) \cup {NotContemplated} : month = MonthContemplated(mx[r])
    BY <1>1, <2>1, ContemplationMonth
  <2>3. ledger[r] = NewLedger
    BY <1>2
  <2>4. month \in 1 .. n => /\ CreditSoFar(n, month, 0) \in Nat
                            /\ RefundSoFar(n, month, 0) \in Nat
    BY <1>1, 0 \in 0 .. n, SoFarWithinCredit
  <2>5. WithinCredit(ledger[r], n, month, 0)
    BY <1>3, <2>2, <2>3, <2>4 DEF WithinCredit
  <2> QED BY <1>1, <1>3, <2>2, <2>3, <2>5
<1>10. YieldSplit(f)
  <2>1. PICK x \in Nat : x = CreditAmount * 150
    BY LabNumbers
  <2>2. Pct(CreditAmount, 150) \in Nat
    BY <2>1, DivBounds DEF Pct
  <2> QED BY <1>7, <2>2 DEF YieldSplit
<1> QED BY <1>1, <1>5, <1>6, <1>7, <1>8, <1>9, <1>10 DEF FrameOK, BooksBalance

\* One cycle of the group.
LEMMA CycleKeepsFrame ==
  ASSUME NEW n \in Sizes, NEW mx \in Matrices(n), NEW c \in 1 .. n,
         NEW f, FrameOK(mx, f, n, c - 1)
  PROVE  FrameOK(mx, CycleAfter(mx, f, c), n, c)
<1>1. n \in Nat /\ c \in Nat /\ Stake \in Nat /\ f \in Frames(n) /\ DOMAIN mx = 1 .. n
  BY SizesAreNumbers, LabNumbers, SizeOfMatrix DEF FrameOK
<1>2. PICK inst \in Nat : inst = Installment(n)
  BY LabNumbers
<1>3. PICK ledger : ledger = [r \in 1 .. n |-> LedgerAfter(f.ledger[r], mx[r], c)]
  OBVIOUS
<1>4. ASSUME NEW r \in 1 .. n
      PROVE  /\ ledger[r] \in Ledgers
             /\ WithinCredit(ledger[r], n, MonthContemplated(mx[r]), c)
             /\ PaysThrough(mx[r], n) => /\ ledger[r].status = "ok"
                                         /\ ledger[r].installmentsPaid = c * inst
  <2>1. PICK row \in [1 .. n -> MatrixCell] : row = mx[r]
    BY DEF Matrices
  <2>2. PICK l \in Ledgers : l = f.ledger[r]
    BY <1>1 DEF Frames
  <2>3. WithinCredit(l, n, MonthContemplated(row), c - 1)
    BY <2>1, <2>2 DEF FrameOK
  <2>4. PaysThrough(row, n) => l.status = "ok" /\ l.installmentsPaid = (c - 1) * inst
    BY <1>2, <2>1, <2>2 DEF FrameOK
  <2>5. PICK new : new = LedgerAfter(l, row, c)
    OBVIOUS
  <2>6. /\ new \in Ledgers /\ WithinCredit(new, n, MonthContemplated(row), c)
        /\ l.status = "ok" /\ row[c] \in {"P", "C"} =>
             /\ new.status = "ok" /\ new.installmentsPaid = l.installmentsPaid + inst
    BY <1>2, <2>3, <2>5, CycleOfMember
  <2>7. (c - 1) * inst + inst = c * inst
    BY <1>1, OneMoreTime
  <2>8. PaysThrough(row, n) => new.status = "ok" /\ new.installmentsPaid = c * inst
    BY <2>4, <2>6, <2>7 DEF PaysThrough
  <2>9. ledger[r] = new
    BY <1>3, <2>1, <2>2, <2>5
  <2> QED BY <2>1, <2>6, <2>8, <2>9
<1>5. ledger \in [1 .. n -> Ledgers]
  BY <1>3, <1>4
<1>6. PICK installments \in Int, paidOut \in Int : /\ installments = TotalInstallments(ledger)
                                                   /\ paidOut = TotalPaidOut(ledger)
  BY <1>1, <1>5, LedgerSums
<1>7. /\ f.installments \in Int /\ f.paidOut \in Int /\ f.pool \in Int /\ f.solidarity \in Int
      /\ BooksBalance(f, n) /\ YieldSplit(f)
  BY <1>1 DEF Frames, FrameOK
<1>8. PICK collected \in Int, out \in Int : /\ collected = installments - f.installments
                                           /\ out = paidOut - f.paidOut
  BY <1>7
<1>9. PICK saved \in Int : saved = Pct(collected, 1)
  BY DEF Pct
<1>10. PICK g : g = [f EXCEPT !.ledger = ledger,
                              !.installments = @ + collected,
                              !.paidOut = @ + out,
                              !.solidarity = @ + saved,
                              !.pool = @ + collected - saved - out]
  OBVIOUS
<1>11. CycleAfter(mx, f, c) = YieldAfter(g)
  BY <1>1, <1>3, <1>6, <1>8, <1>9, <1>10 DEF CycleAfter
<1>12. /\ g \in Frames(n) /\ g.ledger = ledger
       /\ g.installments = f.installments + collected /\ g.paidOut = f.paidOut + out
       /\ g.solidarity = f.solidarity + saved /\ g.pool = f.pool + collected - saved - out
       /\ g.netYield = f.netYield /\ g.guaranteeFund = f.guaranteeFund /\ g.lp = f.lp
       /\ g.participants = f.participants
  <2>1. PICK a \in Int, b \in Int, x \in Int, d \in Int :
          /\ a = f.installments + collected /\ b = f.paidOut + out
          /\ x = f.solidarity + saved /\ d = f.pool + collected - saved - out
    BY <1>7
  <2>2. g = [f EXCEPT !.ledger = ledger, !.installments = a, !.paidOut = b,
                      !.solidarity = x, !.pool = d]
    BY <1>10, <2>1
  <2>3. /\ g \in Frames(n) /\ g.ledger = ledger
        /\ g.installments = a /\ g.paidOut = b /\ g.solidarity = x /\ g.pool = d
        /\ g.netYield = f.netYield /\ g.guaranteeFund = f.guaranteeFund /\ g.lp = f.lp
        /\ g.participants = f.participants
    BY <1>1, <1>5, <2>2 DEF Frames
  <2> QED BY <2>1, <2>3
<1>13. g.installments = installments /\ g.paidOut = paidOut
  BY <1>7, <1>8, <1>12
<1>14. BooksBalance(g, n)
  <2>1. PICK stakes \in Int : stakes = Stake * n
    BY <1>1
  <2>2. f.pool + f.solidarity + f.paidOut = stakes + f.installments
    BY <1>7, <2>1 DEF BooksBalance
  <2>3. PICK a \in Int, b \in Int, x \in Int, d \in Int :
          /\ a = f.installments /\ b = f.paidOut /\ x = f.solidarity /\ d = f.pool
    BY <1>7
  <2>4. (d + collected - saved - out) + (x + saved) + (b + out) = stakes + (a + collected)
    BY <2>2, <2>3
  <2> QED BY <1>12, <2>1, <2>3, <2>4 DEF BooksBalance
<1>15. YieldSplit(g)
  BY <1>7, <1>12 DEF YieldSplit
<1>16. PICK y : y = YieldAfter(g)
  OBVIOUS
<1>17. /\ y \in Frames(n) /\ YieldSplit(y)
       /\ y.ledger = ledger /\ y.installments = installments /\ y.paidOut = paidOut
       /\ y.pool = g.pool /\ y.solidarity = g.solidarity
  BY <1>1, <1>12, <1>13, <1>15, <1>16, YieldKeepsBooks
<1>18. BooksBalance(y, n)
  BY <1>13, <1>14, <1>17 DEF BooksBalance
<1> QED BY <1>2, <1>4, <1>6, <1>11, <1>16, <1>17, <1>18 DEF FrameOK

\* Every frame of the simulation.
LEMMA EveryFrame ==
  ASSUME NEW n \in Sizes, NEW mx \in Matrices(n)
  PROVE  \A c \in 0 .. n : FrameOK(mx, runSimulation(mx)[c], n, c)
<1>1. n \in Nat /\ Size(mx) = n
  BY SizesAreNumbers, SizeOfMatrix
<1>2. PICK frames : frames = runSimulation(mx)
  OBVIOUS
<1>3. /\ frames[0] = NewFrame(n)
      /\ \A c \in 1 .. n : frames[c] = CycleAfter(mx, frames[c - 1], c)
  BY <1>1, <1>2, SimulationUnfolds
<1> DEFINE Good == {c \in 0 .. n : FrameOK(mx, frames[c], n, c)}
<1>4. 0 \in Good
  BY <1>1, <1>3, NewFrameOK, 0 \in 0 .. n
<1>5. ASSUME NEW k \in 0 .. n - 1, k \in Good
      PROVE  k + 1 \in Good
  <2>1. k + 1 \in 1 .. n /\ k + 1 \in 0 .. n /\ (k + 1) - 1 = k
    BY <1>1
  <2>2. PICK c : c = k + 1
    OBVIOUS
  <2>3. c \in 1 .. n /\ c - 1 = k /\ FrameOK(mx, frames[k], n, k)
    BY <1>5, <2>1, <2>2
  <2>4. FrameOK(mx, CycleAfter(mx, frames[k], c), n, c)
    BY <2>3, CycleKeepsFrame
  <2>5. FrameOK(mx, frames[c], n, c)
    BY <1>3, <2>3, <2>4
  <2> QED BY <2>1, <2>2, <2>5
<1> HIDE DEF Good
<1>6. \A c \in 0 .. n : c \in Good
  BY <1>1, <1>4, <1>5, CountingUp
<1> QED BY <1>2, <1>6 DEF Good

----------------------------------------------------------------------------
(* The verdict.                                                            *)

LEMMA OverpaidNobody == ASSUME MatrixOK PROVE NobodyIsOverpaid
<1>1. PICK n \in Sizes : matrix \in Matrices(n)
  BY DEF MatrixOK
<1>2. PICK mx \in Matrices(n) : mx = matrix
  BY <1>1
<1>3. n \in Nat /\ Size(mx) = n /\ DOMAIN mx = 1 .. n /\ n \in 0 .. n
  BY SizesAreNumbers, SizeOfMatrix
<1>4. PICK f : f = runSimulation(mx)[n]
  OBVIOUS
<1>5. FrameOK(mx, f, n, n)
  BY <1>3, <1>4, EveryFrame
<1>6. CreditAmount \in Nat /\ Stake \in Nat
  BY LabNumbers
<1>7. ASSUME NEW r \in 1 .. n
      PROVE  /\ f.ledger[r].received - f.ledger[r].stakeRefunded <= CreditAmount
             /\ f.ledger[r].stakeRefunded <= Stake
  <2>1. PICK l \in Ledgers : l = f.ledger[r]
    BY <1>5 DEF FrameOK, Frames
  <2>2. mx[r] \in [1 .. n -> MatrixCell]
    BY DEF Matrices
  <2>3. PICK month \in (1 .. n) \cup {NotContemplated} : month = MonthContemplated(mx[r])
    BY <1>3, <2>2, ContemplationMonth
  <2>4. WithinCredit(l, n, month, n)
    BY <1>5, <2>1, <2>3 DEF FrameOK
  <2>5. PICK p \in Nat, q \in Nat : p = l.received /\ q = l.stakeRefunded
    BY DEF Ledgers
  <2>6. CASE month = NotContemplated
    BY <1>6, <2>1, <2>4, <2>6 DEF WithinCredit
  <2>7. CASE month # NotContemplated
    <3>1. /\ CreditSoFar(n, month, n) \in Nat /\ CreditSoFar(n, month, n) <= CreditAmount
          /\ RefundSoFar(n, month, n) \in Nat /\ RefundSoFar(n, month, n) <= Stake
      BY <1>3, <2>3, <2>7, SoFarWithinCredit
    <3>2. p - q <= CreditSoFar(n, month, n) /\ q <= RefundSoFar(n, month, n)
      BY <2>4, <2>5, <2>7 DEF WithinCredit
    <3>3. p - q <= CreditAmount /\ q <= Stake
      BY <1>6, <3>1, <3>2
    <3> QED BY <2>1, <2>5, <3>3
  <2> QED BY <2>6, <2>7
<1> QED BY <1>2, <1>3, <1>4, <1>7 DEF NobodyIsOverpaid

\* In no scenario does anyone get more than its credit, or its stake back twice.
THEOREM NobodyOverpaid == StressLabSpec => []NobodyIsOverpaid
BY EditingKeepsMatrix, OverpaidNobody, PTL

\* Every frame of every scenario balances: what came in is in the pool, in the
\* solidarity vault or paid out, and the net yield is all shared out, the guarantee
\* fund never above its cap.
FramesBalance ==
  \A c \in 0 .. Size(matrix) :
    LET f == runSimulation(matrix)[c] IN BooksBalance(f, Size(matrix)) /\ YieldSplit(f)

\* The frames the Lab shows, exits and defaults included, lose and make no unit.
THEOREM EveryFrameBalances == StressLabSpec => []FramesBalance
<1>1. ASSUME MatrixOK PROVE FramesBalance
  <2>1. PICK n \in Sizes : matrix \in Matrices(n)
    BY <1>1 DEF MatrixOK
  <2>2. PICK mx \in Matrices(n) : mx = matrix
    BY <2>1
  <2>3. n \in Nat /\ Size(mx) = n
    BY SizesAreNumbers, SizeOfMatrix
  <2>4. \A c \in 0 .. n : FrameOK(mx, runSimulation(mx)[c], n, c)
    BY EveryFrame
  <2> QED BY <2>2, <2>3, <2>4 DEF FramesBalance, FrameOK
<1> QED BY <1>1, EditingKeepsMatrix, PTL

\* A healthy member has paid its credit, and its receipts and claims add up to its
\* credit and its stake.
LEMMA HealthyMember ==
  ASSUME NEW n \in Sizes, NEW row \in [1 .. n -> MatrixCell],
         PaysThrough(row, n), Contemplations(row) # {},
         NEW l \in Ledgers, l.status = "ok", WithinCredit(l, n, MonthContemplated(row), n)
  PROVE  /\ StakeRefundDue(l) \in Int /\ EscrowDue(l, row) \in Int
         /\ l.received + (EscrowDue(l, row) + StakeRefundDue(l)) = CreditAmount + Stake
<1>1. n \in Nat /\ n \in 0 .. n /\ CreditAmount \in Nat /\ Stake \in Nat
  BY SizesAreNumbers, LabNumbers
<1>2. PICK month : month = MonthContemplated(row)
  OBVIOUS
<1>3. month \in 1 .. n /\ month # NotContemplated
  BY <1>1, <1>2, ContemplationMonth DEF NotContemplated
<1>4. /\ CreditSoFar(n, month, n) \in Nat /\ CreditSoFar(n, month, n) <= CreditAmount
      /\ RefundSoFar(n, month, n) \in Nat /\ RefundSoFar(n, month, n) <= Stake
  BY <1>1, <1>3, SoFarWithinCredit
<1>5. PICK p \in Nat, q \in Nat : p = l.received /\ q = l.stakeRefunded
  BY DEF Ledgers
<1>6. p - q <= CreditAmount /\ q <= Stake
  <2>1. p - q <= CreditSoFar(n, month, n) /\ q <= RefundSoFar(n, month, n)
    BY <1>2, <1>3, <1>5 DEF WithinCredit
  <2> QED BY <1>1, <1>4, <2>1
<1>7. StakeRefundDue(l) = Stake - q
  BY <1>5 DEF StakeRefundDue
<1>8. EscrowDue(l, row) = AtLeastZero(CreditAmount - (p - q))
  BY <1>2, <1>3, <1>5 DEF EscrowDue
<1>9. AtLeastZero(CreditAmount - (p - q)) = CreditAmount - (p - q)
  BY <1>1, <1>6 DEF AtLeastZero
<1>10. PICK credit \in Nat, stake \in Nat : credit = CreditAmount /\ stake = Stake
  BY <1>1
<1>11. p + ((credit - (p - q)) + (stake - q)) = credit + stake
  OBVIOUS
<1>12. StakeRefundDue(l) = stake - q /\ EscrowDue(l, row) = credit - (p - q)
  BY <1>7, <1>8, <1>9, <1>10
<1>13. PICK due \in Int, back \in Int : due = EscrowDue(l, row) /\ back = StakeRefundDue(l)
  BY <1>12
<1>14. p + (due + back) = credit + stake
  BY <1>11, <1>12, <1>13
<1> QED BY <1>5, <1>10, <1>13, <1>14

LEMMA HealthyEven == ASSUME MatrixOK PROVE HealthyGroupEndsEven
<1>1. PICK n \in Sizes : matrix \in Matrices(n)
  BY DEF MatrixOK
<1>2. PICK mx \in Matrices(n) : mx = matrix
  BY <1>1
<1>3. n \in Nat /\ Size(mx) = n /\ DOMAIN mx = 1 .. n /\ n \in 0 .. n
  BY SizesAreNumbers, SizeOfMatrix
<1>4. PICK f : f = runSimulation(mx)[n]
  OBVIOUS
<1>5. FrameOK(mx, f, n, n)
  BY <1>3, <1>4, EveryFrame
<1>6. SUFFICES ASSUME Healthy
      PROVE  /\ netSolvency(mx, f) = f.guaranteeFund
             /\ f.paidOut + OutstandingEscrow(mx, f) + OutstandingStakeRefund(f)
                  = (CreditAmount + Stake) * n
  BY <1>2, <1>3, <1>4 DEF HealthyGroupEndsEven
<1>7. PICK credit \in Nat, stake \in Nat : credit = CreditAmount /\ stake = Stake
  BY LabNumbers
<1>8. PICK ledger \in [1 .. n -> Ledgers] : ledger = f.ledger
  BY <1>5 DEF FrameOK, Frames
<1>9. PICK paid, received, refunds, escrows, dues :
        /\ paid = [r \in 1 .. n |-> ledger[r].installmentsPaid]
        /\ received = [r \in 1 .. n |-> ledger[r].received]
        /\ refunds = [r \in 1 .. n |-> StakeRefundDue(ledger[r])]
        /\ escrows = [r \in 1 .. n |-> EscrowDue(ledger[r], mx[r])]
        /\ dues = [r \in 1 .. n |-> EscrowDue(ledger[r], mx[r]) + StakeRefundDue(ledger[r])]
  OBVIOUS
<1>10. ASSUME NEW r \in 1 .. n
       PROVE  /\ paid[r] = credit /\ received[r] \in Int
              /\ refunds[r] \in Int /\ escrows[r] \in Int /\ dues[r] = escrows[r] + refunds[r]
              /\ received[r] + dues[r] = credit + stake
  <2>1. PICK row \in [1 .. n -> MatrixCell] : row = mx[r]
    BY DEF Matrices
  <2>2. PaysThrough(row, n) /\ Contemplations(row) # {}
    BY <1>2, <1>3, <1>6, <2>1 DEF Healthy, PaysThrough
  <2>3. PICK l \in Ledgers : l = ledger[r]
    OBVIOUS
  <2>4. /\ l.status = "ok" /\ l.installmentsPaid = n * Installment(n)
        /\ WithinCredit(l, n, MonthContemplated(row), n)
    BY <1>5, <1>8, <2>1, <2>2, <2>3 DEF FrameOK
  <2>5. l.installmentsPaid = credit
    BY <1>7, <2>4, LabNumbers
  <2>6. /\ StakeRefundDue(l) \in Int /\ EscrowDue(l, row) \in Int
        /\ l.received + (EscrowDue(l, row) + StakeRefundDue(l)) = credit + stake
    BY <1>7, <2>2, <2>4, HealthyMember
  <2>7. l.received \in Int
    BY DEF Ledgers
  <2>8. /\ paid[r] = l.installmentsPaid /\ received[r] = l.received
        /\ refunds[r] = StakeRefundDue(l) /\ escrows[r] = EscrowDue(l, row)
        /\ dues[r] = EscrowDue(l, row) + StakeRefundDue(l)
    BY <1>9, <2>1, <2>3
  <2> QED BY <2>5, <2>6, <2>7, <2>8
<1>11. IsFiniteSet(1 .. n)
  BY <1>3, FS_Interval
<1>12. PICK all : all = [r \in 1 .. n |-> received[r] + dues[r]]
  OBVIOUS
<1>13. \A r \in 1 .. n : dues[r] \in Int
  BY <1>10
<1>14. /\ SumOver(received, 1 .. n) \in Int /\ SumOver(dues, 1 .. n) \in Int
       /\ SumOver(refunds, 1 .. n) \in Int /\ SumOver(escrows, 1 .. n) \in Int
  BY <1>10, <1>11, <1>13, SumType
<1>15. SumOver(all, 1 .. n) = SumOver(received, 1 .. n) + SumOver(dues, 1 .. n)
  <2>1. \A r \in 1 .. n : /\ received[r] \in Int /\ dues[r] \in Int
                          /\ all[r] = received[r] + dues[r]
    BY <1>10, <1>12, <1>13
  <2>2. PICK D : D = 1 .. n
    OBVIOUS
  <2>3. IsFiniteSet(D) /\ \A x \in D : /\ received[x] \in Int /\ dues[x] \in Int
                                      /\ all[x] = received[x] + dues[x]
    BY <1>11, <2>1, <2>2
  <2>4. SumOver(all, D) = SumOver(received, D) + SumOver(dues, D)
    BY <2>3, SumAdds
  <2> QED BY <2>2, <2>4
<1>16. SumOver(dues, 1 .. n) = SumOver(escrows, 1 .. n) + SumOver(refunds, 1 .. n)
  <2>1. \A r \in 1 .. n : /\ escrows[r] \in Int /\ refunds[r] \in Int
                          /\ dues[r] = escrows[r] + refunds[r]
    BY <1>10
  <2>2. PICK D : D = 1 .. n
    OBVIOUS
  <2>3. IsFiniteSet(D) /\ \A x \in D : /\ escrows[x] \in Int /\ refunds[x] \in Int
                                      /\ dues[x] = escrows[x] + refunds[x]
    BY <1>11, <2>1, <2>2
  <2>4. SumOver(dues, D) = SumOver(escrows, D) + SumOver(refunds, D)
    BY <2>3, SumAdds
  <2> QED BY <2>2, <2>4
<1>17. SumOver(all, 1 .. n) = n * (credit + stake)
  <2>1. \A r \in 1 .. n : all[r] = credit + stake
    BY <1>10, <1>12
  <2>2. PICK each \in Int : each = credit + stake
    OBVIOUS
  <2> QED BY <1>3, <2>1, <2>2, SumOfSame
<1>18. SumOver(paid, 1 .. n) = n * credit
  BY <1>3, <1>10, SumOfSame
<1>19. /\ f.installments = SumOver(paid, 1 .. n)
       /\ f.paidOut = SumOver(received, 1 .. n)
  <2>1. /\ TotalInstallments(ledger) = SumOver(paid, 1 .. n)
        /\ TotalPaidOut(ledger) = SumOver(received, 1 .. n)
    BY <1>3, <1>9, LedgerSums
  <2> QED BY <1>5, <1>8, <2>1 DEF FrameOK
<1>20. /\ OutstandingEscrow(mx, f) = SumOver(escrows, 1 .. n)
       /\ OutstandingStakeRefund(f) = SumOver(refunds, 1 .. n)
  <2>1. DOMAIN ledger = 1 .. n /\ DOMAIN escrows = 1 .. n /\ DOMAIN refunds = 1 .. n
    BY <1>9
  <2>2. OutstandingEscrow(mx, f) = SumFunctionOnSet(escrows, 1 .. n)
    BY <1>3, <1>8, <1>9, <2>1 DEF OutstandingEscrow, SumFunction
  <2>3. OutstandingStakeRefund(f) = SumFunctionOnSet(refunds, 1 .. n)
    BY <1>8, <1>9, <2>1 DEF OutstandingStakeRefund, SumFunction
  <2> QED BY <2>2, <2>3, SumIsOver
<1>21. PICK out \in Int, escrow \in Int, refund \in Int :
         /\ out = f.paidOut /\ escrow = OutstandingEscrow(mx, f)
         /\ refund = OutstandingStakeRefund(f)
  BY <1>14, <1>19, <1>20
<1>22. out + (escrow + refund) = n * (credit + stake)
  BY <1>15, <1>16, <1>17, <1>19, <1>20, <1>21
<1>23. f.pool + f.solidarity + out = stake * n + n * credit
  BY <1>5, <1>7, <1>18, <1>19, <1>21 DEF FrameOK, BooksBalance
<1>24. f.pool \in Int /\ f.solidarity \in Int /\ f.guaranteeFund \in Int
  BY <1>5 DEF FrameOK, Frames
<1>25. n * (credit + stake) = stake * n + n * credit /\ n * (credit + stake) = (credit + stake) * n
  BY <1>3
<1>26. PICK total \in Int : total = n * (credit + stake)
  BY <1>3
<1>27. PICK pool \in Int, solidarity \in Int, gf \in Int :
         pool = f.pool /\ solidarity = f.solidarity /\ gf = f.guaranteeFund
  BY <1>24
<1>28. /\ out + (escrow + refund) = total /\ pool + solidarity + out = total
  BY <1>22, <1>23, <1>25, <1>26, <1>27
<1>29. /\ pool + solidarity + gf - escrow - refund = gf
       /\ out + escrow + refund = total
  BY <1>28
<1>30. netSolvency(mx, f) = f.guaranteeFund
  BY <1>21, <1>27, <1>29 DEF netSolvency
<1> QED BY <1>7, <1>21, <1>25, <1>26, <1>29, <1>30

\* A group in which everyone pays and is contemplated ends even, whatever its size,
\* its order and its credit.
THEOREM HealthyEndsEven == StressLabSpec => []HealthyGroupEndsEven
BY EditingKeepsMatrix, HealthyEven, PTL
=============================================================================
