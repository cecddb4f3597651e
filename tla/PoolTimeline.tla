---------------------------- MODULE PoolTimeline ----------------------------
(***************************************************************************)
(* What is left of a pool when the money is forgotten: its clock, its      *)
(* cycles, and for each seat how many installments it has paid, whether it *)
(* was paid out and whether it defaulted.  RoscaPool implements it         *)
(* (RoscaRefinement), with bids and sales beside it as well, and the       *)
(* services that only read these fields are composed with it rather than   *)
(* with the whole pool.                                                    *)
(***************************************************************************)
EXTENDS Integers

CONSTANTS
  MembersTarget,   \* seats, and as many cycles
  CycleDuration,
  GracePeriod,
  MaxLag           \* bound: the clock stops MaxLag past next_cycle_at

Seats == 0 .. MembersTarget - 1

ASSUME TimelineAssumption ==
  /\ MembersTarget \in Nat \ {0}
  /\ CycleDuration \in Nat \ {0}
  /\ GracePeriod \in Nat \ {0}
  /\ MaxLag \in Nat

VARIABLES
  status,              \* "Forming", "Active", or "Over" for all later ones
  current_cycle,
  next_cycle_at,
  contributions_paid,  \* [Seats -> Nat]
  paid_out,            \* the seats that received their credit
  defaulted,           \* the seats that were settled
  drawn,               \* whether the order of the turns is known
  now

seatVars == <<contributions_paid, paid_out, defaulted>>
tvars == <<status, current_cycle, next_cycle_at, drawn, seatVars, now>>

GraceDeadline == next_cycle_at + GracePeriod
LaterOf(a, b) == IF a >= b THEN a ELSE b

TimelineInit ==
  /\ status = "Forming"
  /\ current_cycle = 0
  /\ next_cycle_at = 0
  /\ contributions_paid = [s \in Seats |-> 0]
  /\ paid_out = {}
  /\ defaulted = {}
  /\ drawn \in BOOLEAN
  /\ now = 0

\* The join that fills the pool; it may draw the order too.
Activate ==
  /\ status = "Forming"
  /\ status' = "Active"
  /\ drawn' \in {drawn, TRUE}
  /\ next_cycle_at' = now + CycleDuration
  /\ UNCHANGED <<current_cycle, seatVars, now>>

\* A late draw gives cycle 0 its full window.
DrawLate ==
  /\ status = "Active"
  /\ ~drawn
  /\ drawn' = TRUE
  /\ next_cycle_at' = LaterOf(next_cycle_at, now + CycleDuration)
  /\ UNCHANGED <<status, current_cycle, seatVars, now>>

\* An installment of the current cycle or a later one, or an overdue one while
\* the grace window is open.
CanPay(s) ==
  /\ status = "Active"
  /\ s \notin defaulted
  /\ contributions_paid[s] < MembersTarget
  /\ contributions_paid[s] >= current_cycle \/ now < GraceDeadline

PayInstallment(s) ==
  /\ CanPay(s)
  /\ contributions_paid' = [contributions_paid EXCEPT ![s] = @ + 1]
  /\ UNCHANGED <<status, current_cycle, next_cycle_at, drawn, paid_out, defaulted, now>>

\* An opened bid pays k installments at once, all of them ahead of time.
PrepayInBid(s, k) ==
  /\ status = "Active"
  /\ drawn
  /\ s \notin defaulted \cup paid_out
  /\ next_cycle_at <= now /\ now < GraceDeadline
  /\ contributions_paid[s] > current_cycle
  /\ contributions_paid[s] + k <= MembersTarget
  /\ contributions_paid' = [contributions_paid EXCEPT ![s] = @ + k]
  /\ UNCHANGED <<status, current_cycle, next_cycle_at, drawn, paid_out, defaulted, now>>

\* The end of a turn: the next cycle opens, or the pool is over.
Advance ==
  IF current_cycle + 1 >= MembersTarget
  THEN status' = "Over" /\ UNCHANGED <<current_cycle, next_cycle_at>>
  ELSE /\ current_cycle' = current_cycle + 1
       /\ next_cycle_at' = LaterOf(next_cycle_at, now) + CycleDuration
       /\ UNCHANGED status

\* A live seat receives its credit, by its own claim or by anybody's crank.
ReceiveCredit(s) ==
  /\ status = "Active"
  /\ drawn
  /\ s \notin defaulted \cup paid_out
  /\ paid_out' = paid_out \cup {s}
  /\ Advance
  /\ UNCHANGED <<drawn, contributions_paid, defaulted, now>>

\* The turn of a defaulted seat is passed over.
PassOver(s) ==
  /\ status = "Active"
  /\ drawn
  /\ s \in defaulted \ paid_out
  /\ Advance
  /\ UNCHANGED <<drawn, seatVars, now>>

\* The seat is behind and the grace window is over.
Overdue(s) ==
  /\ status = "Active"
  /\ s \notin defaulted
  /\ contributions_paid[s] < current_cycle
  /\ now >= GraceDeadline

Settle(s) ==
  /\ Overdue(s)
  /\ defaulted' = defaulted \cup {s}
  /\ UNCHANGED <<status, current_cycle, next_cycle_at, drawn, contributions_paid, paid_out, now>>

TimePasses ==
  /\ status = "Active"
  /\ now < next_cycle_at + MaxLag
  /\ now' = now + 1
  /\ UNCHANGED <<status, current_cycle, next_cycle_at, drawn, seatVars>>

TimelineNext ==
  \/ Activate \/ DrawLate \/ TimePasses
  \/ \E s \in Seats :
       PayInstallment(s) \/ ReceiveCredit(s) \/ PassOver(s) \/ Settle(s)
  \/ \E s \in Seats, k \in 1 .. MembersTarget : PrepayInBid(s, k)

TimelineSpec == TimelineInit /\ [][TimelineNext]_tvars
=============================================================================
