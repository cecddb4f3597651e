---------------------------- MODULE RoscaHistory ----------------------------
(***************************************************************************)
(* RoscaPool with two history variables that no handler keeps: when the    *)
(* window of the current cycle opened, and which deadline was announced for*)
(* each cycle while it was the current one.  The code derives the deadline *)
(* of a past installment from next_cycle_at instead                        *)
(* (Pool::installment_deadline) and next_cycle_at is re-anchored by every  *)
(* advance (SEV-053), so what the members were told and what the handlers  *)
(* compute may differ.                                                     *)
(***************************************************************************)
EXTENDS RoscaPool

VARIABLES
  opened,          \* when the current cycle became current
  announced        \* [Cycles -> Nat]: the deadline announced for each cycle

hvars == <<vars, opened, announced>>

HistoryInit ==
  /\ Init
  /\ opened = 0
  /\ announced = [c \in Cycles |-> 0]

\* A new cycle starts with the activation of the pool and with every advance.
CycleStarts ==
  /\ pool'.status = "Active"
  /\ pool.status = "Forming" \/ pool'.current_cycle # pool.current_cycle

Record ==
  /\ opened' = IF CycleStarts THEN now' ELSE opened
  /\ announced' =
       IF pool'.status = "Active"
       THEN [announced EXCEPT ![pool'.current_cycle] = pool'.next_cycle_at]
       ELSE announced

HistoryNext == Next /\ Record

HistorySpec == HistoryInit /\ [][HistoryNext]_hvars

----------------------------------------------------------------------------

\* LATE is permanent and priced in collateral: a contribution for the current
\* or an earlier cycle is never counted late unless the clock is past the
\* deadline the members were shown while that cycle was the current one.
NoWrongfulLate ==
  [][\A s \in Seats :
       LET cycle == member[s].contributions_paid
       IN  /\ member'[s].late_count > member[s].late_count
           /\ cycle <= pool.current_cycle
           => now > announced[cycle]]_hvars

\* LEAD-001, SEV-053: settle_default never takes a member by surprise.  The
\* cycle in which it is settled has been open for a whole window and the grace
\* period after it, however late the previous advance came, and all this time
\* its arrears were payable (unless the protocol was paused).
DefaultNeedsAFullWindow ==
  [][\A s \in Seats :
       member'[s].defaulted /\ ~member[s].defaulted =>
         /\ now >= opened + CycleDuration + GracePeriod
         /\ ~CatchUpOpen(member[s].contributions_paid)]_hvars
=============================================================================
