-------------------------- MODULE RoscaRefinement --------------------------
(***************************************************************************)
(* The handlers of RoscaPool implement the rotation of RotatingCredit.     *)
(***************************************************************************)
EXTENDS RoscaPool

Outcome ==
  [s \in Seats |-> IF member[s].paid_out THEN "received"
                   ELSE IF member[s].defaulted THEN "forfeited" ELSE "due"]

Rotation == INSTANCE RotatingCredit
  WITH Members <- MembersTarget, roster <- pool.slots, plan <- order,
       turn <- Served, outcome <- Outcome

\* Every behaviour of the pool is a rotation: one turn per seat, in the order
\* fixed by arrival or by the draw, each ending in a payout or a forfeit.
ImplementsRotation == Rotation!Promise

StatusOf == IF pool.status \in {"Forming", "Active"} THEN pool.status ELSE "Over"

Timeline == INSTANCE PoolTimeline
  WITH status <- StatusOf,
       current_cycle <- pool.current_cycle,
       next_cycle_at <- pool.next_cycle_at,
       contributions_paid <- [s \in Seats |-> member[s].contributions_paid],
       paid_out <- {s \in Seats : member[s].paid_out},
       defaulted <- {s \in Seats : member[s].defaulted},
       drawn <- order # Undrawn

\* The handlers keep the timeline the services rely on: what the crank service
\* is composed with is what the programs do, whatever the money does.
ImplementsTimeline == Timeline!TimelineSpec
=============================================================================
