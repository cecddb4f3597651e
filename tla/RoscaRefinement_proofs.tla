----------------------- MODULE RoscaRefinement_proofs -----------------------
(***************************************************************************)
(* The handlers of RoscaPool implement RotatingCredit and PoolTimeline in  *)
(* every pool, the payout order of a pool is drawn once, and its           *)
(* attestations say what happened in it.                                   *)
(***************************************************************************)
EXTENDS RoscaRefinement, RoscaSafety_proofs, FiniteSetTheorems

\* members_joined counts the seats while the pool fills, and it leaves Forming
\* with all of them taken; a sorteio pool is not drawn before.
RosterInv ==
  /\ pool.status = "Forming" =>
       /\ Cardinality(pool.slots) = pool.members_joined
       /\ OrderingPolicy = "Sorteio" => order = Undrawn
  /\ pool.status # "Forming" => pool.slots = Seats

\* Everything the refinement rests on.
RotationInv == TurnInv /\ SeatsTaken /\ RosterInv

LEMMA SeatsFinite == IsFiniteSet(Seats) /\ Cardinality(Seats) = MembersTarget
BY Constants, FS_Interval DEF Seats

LEMMA JoinRoster ==
  ASSUME RotationInv, NEW s \in Seats, NEW level \in Levels, JoinPool(s, level)
  PROVE  /\ RosterInv'
         /\ pool'.slots = pool.slots \cup {s}
         /\ order' = order \/ (order = Undrawn /\ pool'.slots = Seats /\ order' \in DrawOrders)
<1> DEFINE joined == pool.slots \cup {s}
<1>1. /\ pool \in PoolRecord /\ pool.slots \subseteq Seats /\ s \notin pool.slots
      /\ pool.status = "Forming" /\ Cardinality(pool.slots) = pool.members_joined
      /\ pool.members_joined \in Nat
  BY DEF RotationInv, TurnInv, TypeOK, PoolRecord, RosterInv, JoinPool
<1>2. /\ pool'.slots = joined /\ pool'.members_joined = pool.members_joined + 1
      /\ pool'.status = IF pool.members_joined + 1 = MembersTarget THEN "Active" ELSE "Forming"
  BY <1>1 DEF JoinPool, PoolRecord
<1>3. Cardinality(joined) = pool.members_joined + 1
  <2>1. IsFiniteSet(pool.slots)
    BY <1>1, SeatsFinite, FS_Subset
  <2> QED BY <1>1, <2>1, FS_AddElement
<1>4. pool.members_joined + 1 = MembersTarget => joined = Seats
  <2>1. joined \in SUBSET Seats
    BY <1>1
  <2> QED BY <1>3, <2>1, SeatsFinite, FS_Subset
<1>5. AutoDraw(pool.members_joined + 1 = MembersTarget)
  BY DEF JoinPool
<1>6. order' = order \/ (order = Undrawn /\ joined = Seats /\ order' \in DrawOrders)
  BY <1>1, <1>4, <1>5 DEF AutoDraw, RotationInv, RosterInv
<1>7. pool'.status = "Forming" => order' = order
  BY <1>2, <1>5 DEF AutoDraw
<1>8. RosterInv'
  BY <1>1, <1>2, <1>3, <1>4, <1>7 DEF RosterInv, RotationInv, Undrawn
<1> QED BY <1>2, <1>6, <1>8

LEMMA NextRoster == RotationInv /\ [Next]_vars => RotationInv'
<1> SUFFICES ASSUME RotationInv, [Next]_vars PROVE RosterInv'
  BY NextTurn, NextSeats DEF RotationInv, TurnInv
<1>0. pool \in PoolRecord
  BY DEF RotationInv, TurnInv, TypeOK
<1>1. ASSUME NEW s \in Seats, NEW level \in Levels, JoinPool(s, level) PROVE RosterInv'
  BY <1>1, JoinRoster
<1>2. ASSUME pool.status # "Forming", pool'.slots = pool.slots,
             pool'.status # "Forming"
      PROVE  RosterInv'
  BY <1>2 DEF RotationInv, RosterInv
<1>3. CASE FinalizeDraw
  BY <1>0, <1>2, <1>3 DEF FinalizeDraw, PoolRecord
<1>4. ASSUME NEW s \in Seats, Contribute(s) PROVE RosterInv'
  BY <1>0, <1>2, <1>4 DEF Contribute, PoolRecord
<1>5. ASSUME NEW s \in Seats, pool.status = "Active", PayOut(s) PROVE RosterInv'
  <2>1. pool'.slots = pool.slots /\ pool'.status \in {"Active", "Completed"}
    BY <1>0, <1>5 DEF PayOut, AdvancedCycle, PoolRecord
  <2> QED BY <1>2, <1>5, <2>1
<1>6. ASSUME NEW s \in Seats, SkipDefaultedPayout(s) PROVE RosterInv'
  <2>1. /\ pool.status = "Active" /\ pool'.slots = pool.slots
        /\ pool'.status \in {"Active", "Completed"}
    BY <1>0, <1>6 DEF SkipDefaultedPayout, AdvancedCycle, PoolRecord
  <2> QED BY <1>2, <2>1
<1>7. ASSUME NEW s \in Seats, SettleDefault(s) PROVE RosterInv'
  BY <1>0, <1>2, <1>7 DEF SettleDefault, SeizureBooked, PoolRecord
<1>8. ASSUME NEW s \in Seats, NEW checkpoint \in 1 .. CyclesTotal,
             ReleaseEscrow(s, checkpoint)
      PROVE  RosterInv'
  <2>1. /\ pool'.slots = pool.slots /\ pool'.status = pool.status
        /\ pool'.members_joined = pool.members_joined /\ order' = order
    BY <1>0, <1>8 DEF ReleaseEscrow, PoolRecord
  <2> QED BY <2>1 DEF RotationInv, RosterInv, Undrawn
<1>9. CASE Pause \/ Tick \/ UNCHANGED vars
  BY <1>9 DEF Pause, Tick, vars, RotationInv, RosterInv, Undrawn
<1>10. CASE ClosePool \/ ClosePoolVaults \/ \E s \in Seats : CloseMember(s)
  BY <1>0, <1>2, <1>10 DEF ClosePool, ClosePoolVaults, CloseMember, PoolRecord
<1> QED BY <1>1, <1>3, <1>4, <1>5, <1>6, <1>7, <1>8, <1>9, <1>10
        DEF Next, ClaimPayout, CrankPayout, Payable

LEMMA InitRotation == Init => RotationInv /\ Rotation!Start
<1> SUFFICES ASSUME Init PROVE RotationInv /\ Rotation!Start
  OBVIOUS
<1>1. RosterInv
  BY FS_EmptySet DEF Init, RosterInv
<1>2. SeatsTaken
  BY DEF Init, SeatsTaken, BlankMember
<1>3. TurnInv
  BY InitTurn
<1>4. Rotation!Start
  BY DEF Init, Rotation!Start, Rotation!NoPlan, Rotation!SeatSet, Undrawn, Served, Outcome,
         BlankMember, Seats, CyclesTotal
<1> QED BY <1>1, <1>2, <1>3, <1>4 DEF RotationInv

----------------------------------------------------------------------------
(* Each handler is a step of the rotation, or a stutter.                   *)

\* The sets of plans are the same.
LEMMA SamePlans ==
  /\ Rotation!SeatSet = Seats /\ Rotation!NoPlan = Undrawn
  /\ DrawOrders \subseteq Rotation!Plans
<1>1. Rotation!SeatSet = Seats /\ Seats = Cycles /\ Rotation!NoPlan = Undrawn
  BY DEF Rotation!SeatSet, Rotation!NoPlan, Seats, Cycles, CyclesTotal, Undrawn
<1>2. ASSUME NEW f \in DrawOrders PROVE f \in Rotation!Plans
  BY <1>1, <1>2, DrawOrderFacts DEF Rotation!Plans
<1> QED BY <1>1, <1>2

LEMMA OutcomeKept ==
  ASSUME \A t \in Seats : /\ member'[t].paid_out = member[t].paid_out
                          /\ member'[t].defaulted = member[t].defaulted
  PROVE  Outcome' = Outcome
BY DEF Outcome

LEMMA NobodyPaid ==
  ASSUME TurnInv, Served = 0
  PROVE  \A t \in Seats : ~member[t].paid_out
BY Constants DEF TurnInv, TypeOK, ServedInOrder

LEMMA StepJoin ==
  ASSUME RotationInv, NEW s \in Seats, NEW level \in Levels, JoinPool(s, level)
  PROVE  Rotation!Step
<1>0. /\ member \in [Seats -> MemberRecord] /\ pool \in PoolRecord
  BY DEF RotationInv, TurnInv, TypeOK
<1>1. /\ pool.status = "Forming" /\ pool.current_cycle = 0
      /\ pool'.status \in {"Forming", "Active"} /\ pool'.current_cycle = 0
  BY <1>0 DEF JoinPool, RotationInv, TurnInv, OrderDrawn, PoolRecord
<1>2. Served = 0 /\ Served' = 0
  BY <1>1 DEF Served
<1>3. ~member[s].paid_out /\ ~member[s].defaulted /\ s \notin pool.slots
  BY <1>2, NobodyPaid DEF RotationInv, SeatsTaken, JoinPool
<1>4. Outcome' = Outcome
  <2>1. ~member'[s].paid_out /\ ~member'[s].defaulted
    BY <1>0 DEF JoinPool, BlankMember
  <2>2. \A t \in Seats \ {s} : member'[t] = member[t]
    BY <1>0 DEF JoinPool
  <2> QED BY <1>3, <2>1, <2>2 DEF Outcome
<1>5. Rotation!Enrol(s)
  BY <1>2, <1>3, <1>4, JoinRoster, SamePlans DEF Rotation!Enrol
<1> QED BY <1>5, SamePlans DEF Rotation!Step

LEMMA StepDraw == ASSUME RotationInv, FinalizeDraw PROVE Rotation!Step
<1>0. pool \in PoolRecord
  BY DEF RotationInv, TurnInv, TypeOK
<1>1. /\ pool.slots = Seats /\ pool'.slots = pool.slots
      /\ order = Undrawn /\ order' \in DrawOrders
      /\ Served' = Served /\ member' = member
  BY <1>0 DEF FinalizeDraw, NotDrawn, RotationInv, RosterInv, PoolRecord, Served
<1>2. Outcome' = Outcome
  BY <1>1, OutcomeKept
<1>3. Rotation!FixPlan
  BY <1>1, <1>2, SamePlans DEF Rotation!FixPlan
<1> QED BY <1>3 DEF Rotation!Step

LEMMA StepPayOut ==
  ASSUME RotationInv, NEW s \in Seats, Payable(s), PayOut(s)
  PROVE  Rotation!Step
<1>0. /\ member \in [Seats -> MemberRecord] /\ pool \in PoolRecord
  BY DEF RotationInv, TurnInv, TypeOK
<1>1. pool.status = "Active" /\ pool.slots = Seats /\ order' = order
      /\ order[s] = pool.current_cycle /\ ~member[s].paid_out /\ ~member[s].defaulted
  BY DEF Payable, PayOut, Live, Contemplated, RotationInv, RosterInv
<1>2. /\ pool'.status = AdvancedCycle(pool).status
      /\ pool'.current_cycle = AdvancedCycle(pool).current_cycle
      /\ pool'.slots = pool.slots
  BY <1>0 DEF PayOut, AdvancedCycle, PoolRecord
<1>3. Served = pool.current_cycle /\ Served' = Served + 1
  BY <1>1, <1>2, TurnOver DEF RotationInv, TurnInv, Served
<1>4. Outcome[s] = "due" /\ Outcome' = [Outcome EXCEPT ![s] = "received"]
  <2>1. /\ member'[s].paid_out
        /\ \A t \in Seats \ {s} : member'[t] = member[t]
    BY <1>0 DEF PayOut, MemberRecord
  <2> QED BY <1>1, <2>1 DEF Outcome
<1>5. Rotation!Receive(s)
  BY <1>1, <1>2, <1>3, <1>4, SamePlans DEF Rotation!Receive, Rotation!Ready
<1> QED BY <1>5, SamePlans DEF Rotation!Step

LEMMA StepSkip ==
  ASSUME RotationInv, NEW s \in Seats, SkipDefaultedPayout(s)
  PROVE  Rotation!Step
<1>0. pool \in PoolRecord
  BY DEF RotationInv, TurnInv, TypeOK
<1>1. /\ pool.status = "Active" /\ pool.slots = Seats /\ order' = order
      /\ order[s] = pool.current_cycle /\ member' = member
      /\ ~member[s].paid_out /\ member[s].defaulted /\ pool' = AdvancedCycle(pool)
  BY DEF SkipDefaultedPayout, Skippable, Contemplated, RotationInv, RosterInv
<1>2. pool'.slots = pool.slots
  BY <1>0, <1>1 DEF AdvancedCycle, PoolRecord
<1>3. Served = pool.current_cycle /\ Served' = Served + 1
  BY <1>1, TurnOver DEF RotationInv, TurnInv, Served
<1>4. Outcome[s] = "forfeited" /\ Outcome' = Outcome
  BY <1>1, OutcomeKept DEF Outcome
<1>5. Rotation!Pass(s)
  BY <1>1, <1>2, <1>3, <1>4, SamePlans DEF Rotation!Pass, Rotation!Ready
<1> QED BY <1>5, SamePlans DEF Rotation!Step

\* A member settled before its payout is expelled; one settled after it keeps
\* what it received, and the rotation does not notice.
LEMMA StepSettle ==
  ASSUME RotationInv, NEW s \in Seats, SettleDefault(s)
  PROVE  [Rotation!Step]_(Rotation!avars)
<1>0. /\ member \in [Seats -> MemberRecord] /\ pool \in PoolRecord
  BY DEF RotationInv, TurnInv, TypeOK
<1>1. /\ pool.status = "Active" /\ pool.slots = Seats /\ order' = order
      /\ ~member[s].defaulted
  BY DEF SettleDefault, Live, RotationInv, RosterInv
<1>2. pool'.slots = pool.slots /\ Served' = Served /\ Served < MembersTarget
  BY <1>0, <1>1, Constants
     DEF SettleDefault, SeizureBooked, PoolRecord, Served, Cycles, CyclesTotal
<1>3. /\ member'[s].defaulted /\ member'[s].paid_out = member[s].paid_out
      /\ \A t \in Seats \ {s} : member'[t] = member[t]
  BY <1>0 DEF SettleDefault, Seized, MemberRecord
<1>4. CASE member[s].paid_out
  <2>1. Outcome' = Outcome
    BY <1>3, <1>4 DEF Outcome
  <2> QED BY <1>1, <1>2, <2>1 DEF Rotation!avars
<1>5. CASE ~member[s].paid_out
  <2>1. Outcome[s] = "due" /\ Outcome' = [Outcome EXCEPT ![s] = "forfeited"]
    BY <1>1, <1>3, <1>5 DEF Outcome
  <2>2. Rotation!Expel(s)
    BY <1>1, <1>2, <2>1, SamePlans DEF Rotation!Expel
  <2> QED BY <2>2, SamePlans DEF Rotation!Step
<1> QED BY <1>4, <1>5

LEMMA StepRotation == RotationInv /\ [Next]_vars => [Rotation!Step]_(Rotation!avars)
<1> SUFFICES ASSUME RotationInv, [Next]_vars PROVE [Rotation!Step]_(Rotation!avars)
  OBVIOUS
<1>0. /\ member \in [Seats -> MemberRecord] /\ pool \in PoolRecord
  BY DEF RotationInv, TurnInv, TypeOK
<1>1. ASSUME NEW s \in Seats, NEW level \in Levels, JoinPool(s, level)
      PROVE  Rotation!Step
  BY <1>1, StepJoin
<1>2. CASE FinalizeDraw
  BY <1>2, StepDraw
<1>3. ASSUME NEW s \in Seats, Payable(s), PayOut(s) PROVE Rotation!Step
  BY <1>3, StepPayOut
<1>4. ASSUME NEW s \in Seats, SkipDefaultedPayout(s) PROVE Rotation!Step
  BY <1>4, StepSkip
<1>5. ASSUME NEW s \in Seats, SettleDefault(s) PROVE [Rotation!Step]_(Rotation!avars)
  BY <1>5, StepSettle
<1>6. ASSUME pool'.slots = pool.slots, order' = order, Served' = Served,
             Outcome' = Outcome
      PROVE  UNCHANGED Rotation!avars
  BY <1>6 DEF Rotation!avars
<1>7. ASSUME NEW s \in Seats, Contribute(s) PROVE UNCHANGED Rotation!avars
  <2>1. pool'.slots = pool.slots /\ order' = order /\ Served' = Served
    BY <1>0, <1>7 DEF Contribute, PoolRecord, Served
  <2>2. Outcome' = Outcome
    BY <1>0, <1>7, OutcomeKept DEF Contribute, MemberRecord
  <2> QED BY <1>6, <2>1, <2>2
<1>8. ASSUME NEW s \in Seats, NEW checkpoint \in 1 .. CyclesTotal,
             ReleaseEscrow(s, checkpoint)
      PROVE  UNCHANGED Rotation!avars
  <2>1. pool'.slots = pool.slots /\ order' = order /\ Served' = Served
    BY <1>0, <1>8 DEF ReleaseEscrow, PoolRecord, Served
  <2>2. Outcome' = Outcome
    BY <1>0, <1>8, OutcomeKept DEF ReleaseEscrow, MemberRecord
  <2> QED BY <1>6, <2>1, <2>2
<1>9. CASE \/ Pause \/ ClosePool \/ ClosePoolVaults \/ Tick \/ UNCHANGED vars
           \/ \E s \in Seats : CloseMember(s)
  <2>1. /\ pool'.slots = pool.slots /\ order' = order /\ Served' = Served
        /\ member' = member
    BY <1>0, <1>9 DEF Pause, ClosePool, ClosePoolVaults, Tick, CloseMember, vars, Served,
                      PoolRecord
  <2>2. Outcome' = Outcome
    BY <2>1, OutcomeKept
  <2> QED BY <1>6, <2>1, <2>2
<1> QED BY <1>1, <1>2, <1>3, <1>4, <1>5, <1>7, <1>8, <1>9
        DEF Next, ClaimPayout, CrankPayout

\* Every pool, with any number of members and any drawn order, is a rotation.
THEOREM PoolIsRotation == Spec => ImplementsRotation
<1>1. Spec => []RotationInv
  BY InitRotation, NextRoster, PTL DEF Spec
<1> QED BY <1>1, InitRotation, StepRotation, PTL
        DEF Spec, ImplementsRotation, Rotation!Promise

----------------------------------------------------------------------------
(* The plan is fixed once, by the join that fills the pool or later.       *)

LEMMA OrderChanges ==
  ASSUME [Next]_vars, order' # order
  PROVE  \/ \E s \in Seats, level \in Levels : JoinPool(s, level)
         \/ FinalizeDraw
BY DEF Next, Contribute, ClaimPayout, CrankPayout, PayOut, SkipDefaultedPayout,
       SettleDefault, ReleaseEscrow, Pause, ClosePool, CloseMember, ClosePoolVaults,
       Tick, vars

\* No later call re-rolls the order, and the order drawn gives every cycle to
\* exactly one seat.
THEOREM OrderIsDrawnOnce == Spec => DrawnOnce
<1>1. Spec => []RotationInv
  BY InitRotation, NextRoster, PTL DEF Spec
<1>2. RotationInv /\ [Next]_vars
        => [order' # order => order = Undrawn /\ order' \in DrawOrders]_vars
  <2> SUFFICES ASSUME RotationInv, [Next]_vars, order' # order
               PROVE  order = Undrawn /\ order' \in DrawOrders
    OBVIOUS
  <2>1. CASE FinalizeDraw
    BY <2>1 DEF FinalizeDraw, NotDrawn
  <2>2. ASSUME NEW s \in Seats, NEW level \in Levels, JoinPool(s, level)
        PROVE  order = Undrawn /\ order' \in DrawOrders
    BY <2>2, JoinRoster
  <2> QED BY <2>1, <2>2, OrderChanges
<1> QED BY <1>1, <1>2, PTL DEF Spec, DrawnOnce

\* However late the draw comes, cycle 0 has a full window from it.
THEOREM DrawLeavesAWindow == Spec => FullWindowAfterDraw
<1>1. TypeOK /\ [Next]_vars
        => [order = Undrawn /\ order' # order
             => pool'.next_cycle_at >= now' + CycleDuration]_vars
  <2> SUFFICES ASSUME TypeOK, [Next]_vars, order' # order
               PROVE  pool'.next_cycle_at >= now' + CycleDuration
    OBVIOUS
  <2>0. /\ pool \in PoolRecord /\ now + CycleDuration \in Nat
        /\ pool.next_cycle_at \in Nat
    BY Constants DEF TypeOK, PoolRecord
  <2>1. CASE FinalizeDraw
    <3>1. pool'.next_cycle_at = DrawDeadline(pool.next_cycle_at) /\ now' = now
      BY <2>0, <2>1 DEF FinalizeDraw, PoolRecord
    <3> QED BY <2>0, <3>1 DEF DrawDeadline, Greater
  <2>2. ASSUME NEW s \in Seats, NEW level \in Levels, JoinPool(s, level)
        PROVE  pool'.next_cycle_at >= now' + CycleDuration
    <3>1. pool.members_joined + 1 = MembersTarget
      BY <2>2 DEF JoinPool, AutoDraw
    <3>2. pool'.next_cycle_at = now + CycleDuration /\ now' = now
      BY <2>0, <2>2, <3>1 DEF JoinPool, PoolRecord
    <3> QED BY <2>0, <3>2
  <2> QED BY <2>1, <2>2, OrderChanges
<1> QED BY <1>1, TypeCorrect, PTL DEF Spec, FullWindowAfterDraw

----------------------------------------------------------------------------
(* The handlers implement PoolTimeline: what the crank service, the mails  *)
(* and the web client are composed with is what the programs do, whatever  *)
(* the money does.                                                         *)

\* A seat that nobody took has paid nothing, so the join that blanks its
\* Member account is invisible.
EmptySeats == \A s \in Seats : s \notin pool.slots => member[s].contributions_paid = 0

\* Everything the timeline rests on.
TimelineInv == RotationInv /\ EmptySeats

\* What the timeline sees of the members.
Paid == [s \in Seats |-> member[s].contributions_paid]
Received == {s \in Seats : member[s].paid_out}
Settled == {s \in Seats : member[s].defaulted}

LEMMA TimelineTypes ==
  ASSUME TimelineInv
  PROVE  /\ pool \in PoolRecord /\ member \in [Seats -> MemberRecord]
         /\ pool.current_cycle \in Nat /\ pool.next_cycle_at \in Nat /\ now \in Nat
         /\ Timeline!Seats = Seats
<1>1. /\ pool \in PoolRecord /\ member \in [Seats -> MemberRecord] /\ now \in Nat
  BY DEF TimelineInv, RotationInv, TurnInv, TypeOK
<1>2. pool.current_cycle \in Nat /\ pool.next_cycle_at \in Nat
  BY <1>1, Constants DEF PoolRecord, Cycles
<1>3. Timeline!Seats = Seats
  BY DEF Timeline!Seats, Seats
<1> QED BY <1>1, <1>2, <1>3

LEMMA SameMembers ==
  ASSUME \A t \in Seats : /\ member'[t].contributions_paid = member[t].contributions_paid
                          /\ member'[t].paid_out = member[t].paid_out
                          /\ member'[t].defaulted = member[t].defaulted
  PROVE  Paid' = Paid /\ Received' = Received /\ Settled' = Settled
BY DEF Paid, Received, Settled

LEMMA TimelineStutters ==
  ASSUME StatusOf' = StatusOf, pool'.current_cycle = pool.current_cycle,
         pool'.next_cycle_at = pool.next_cycle_at, order' = order, now' = now,
         Paid' = Paid, Received' = Received, Settled' = Settled
  PROVE  UNCHANGED Timeline!tvars
BY DEF Timeline!tvars, Timeline!seatVars, Paid, Received, Settled, Undrawn

----------------------------------------------------------------------------
(* The invariant.                                                          *)

LEMMA SlotsStay ==
  ASSUME TimelineInv, pool'.slots = pool.slots,
         \A t \in Seats : member'[t].contributions_paid = member[t].contributions_paid
  PROVE  EmptySeats'
BY DEF TimelineInv, EmptySeats

LEMMA NextTimelineInv == TimelineInv /\ [Next]_vars => TimelineInv'
<1> SUFFICES ASSUME TimelineInv, [Next]_vars PROVE EmptySeats'
  BY NextRoster DEF TimelineInv
<1>0. /\ pool \in PoolRecord /\ member \in [Seats -> MemberRecord]
  BY TimelineTypes
<1>1. ASSUME NEW s \in Seats, NEW level \in Levels, JoinPool(s, level) PROVE EmptySeats'
  <2>1. pool'.slots = pool.slots \cup {s}
    BY <1>1, JoinRoster DEF TimelineInv
  <2>2. \A t \in Seats \ {s} : member'[t] = member[t]
    BY <1>0, <1>1 DEF JoinPool
  <2> QED BY <2>1, <2>2 DEF TimelineInv, EmptySeats
<1>2. ASSUME NEW s \in Seats, Contribute(s) PROVE EmptySeats'
  <2>1. s \in pool.slots /\ pool'.slots = pool.slots
    BY <1>0, <1>2 DEF Contribute, Live, PoolRecord, TimelineInv, RotationInv, SeatsTaken
  <2>2. \A t \in Seats \ {s} : member'[t] = member[t]
    BY <1>0, <1>2 DEF Contribute
  <2> QED BY <2>1, <2>2 DEF TimelineInv, EmptySeats
<1>3. ASSUME NEW s \in Seats, PayOut(s) PROVE EmptySeats'
  <2>1. pool'.slots = pool.slots
    BY <1>0, <1>3 DEF PayOut, AdvancedCycle, PoolRecord
  <2>2. \A t \in Seats : member'[t].contributions_paid = member[t].contributions_paid
    BY <1>0, <1>3 DEF PayOut, MemberRecord
  <2> QED BY <2>1, <2>2, SlotsStay
<1>4. ASSUME NEW s \in Seats, SettleDefault(s) PROVE EmptySeats'
  <2>1. pool'.slots = pool.slots
    BY <1>0, <1>4 DEF SettleDefault, SeizureBooked, PoolRecord
  <2>2. \A t \in Seats : member'[t].contributions_paid = member[t].contributions_paid
    BY <1>0, <1>4 DEF SettleDefault, Seized, MemberRecord
  <2> QED BY <2>1, <2>2, SlotsStay
<1>5. ASSUME NEW s \in Seats, NEW checkpoint \in 1 .. CyclesTotal,
             ReleaseEscrow(s, checkpoint)
      PROVE  EmptySeats'
  <2>1. pool'.slots = pool.slots
    BY <1>0, <1>5 DEF ReleaseEscrow, PoolRecord
  <2>2. \A t \in Seats : member'[t].contributions_paid = member[t].contributions_paid
    BY <1>0, <1>5 DEF ReleaseEscrow, MemberRecord
  <2> QED BY <2>1, <2>2, SlotsStay
<1>6. CASE \/ FinalizeDraw \/ Pause \/ ClosePool \/ ClosePoolVaults \/ Tick
           \/ UNCHANGED vars \/ \E s \in Seats : CloseMember(s) \/ SkipDefaultedPayout(s)
  <2>1. pool'.slots = pool.slots /\ member' = member
    BY <1>0, <1>6 DEF FinalizeDraw, Pause, ClosePool, ClosePoolVaults, Tick, vars,
                      CloseMember, SkipDefaultedPayout, AdvancedCycle, PoolRecord
  <2> QED BY <2>1, SlotsStay
<1> QED BY <1>1, <1>2, <1>3, <1>4, <1>5, <1>6 DEF Next, ClaimPayout, CrankPayout

LEMMA InitTimeline == Init => TimelineInv /\ Timeline!TimelineInit
<1> SUFFICES ASSUME Init PROVE TimelineInv /\ Timeline!TimelineInit
  OBVIOUS
<1>1. EmptySeats
  BY DEF Init, EmptySeats, BlankMember
<1>2. Timeline!TimelineInit
  BY DEF Init, Timeline!TimelineInit, StatusOf, BlankMember, Timeline!Seats, Seats
<1> QED BY <1>1, <1>2, InitRotation DEF TimelineInv

----------------------------------------------------------------------------
(* Each handler is a step of the timeline, or a stutter.                   *)

\* The tail of a turn, seen by the timeline.
LEMMA AdvanceMaps ==
  ASSUME TimelineInv, pool.status = "Active",
         pool'.status = AdvancedCycle(pool).status,
         pool'.current_cycle = AdvancedCycle(pool).current_cycle,
         pool'.next_cycle_at = AdvancedCycle(pool).next_cycle_at
  PROVE  Timeline!Advance
<1>0. pool \in PoolRecord /\ CyclesTotal = MembersTarget
  BY TimelineTypes, Constants
<1>1. CASE pool.current_cycle + 1 >= CyclesTotal
  <2>1. /\ pool'.status = "Completed" /\ pool'.current_cycle = pool.current_cycle
        /\ pool'.next_cycle_at = pool.next_cycle_at
    BY <1>0, <1>1 DEF AdvancedCycle, PoolRecord
  <2> QED BY <1>0, <1>1, <2>1 DEF Timeline!Advance, StatusOf
<1>2. CASE ~(pool.current_cycle + 1 >= CyclesTotal)
  <2>1. /\ pool'.status = "Active" /\ pool'.current_cycle = pool.current_cycle + 1
        /\ pool'.next_cycle_at = Reanchored(pool.next_cycle_at)
    BY <1>0, <1>2 DEF AdvancedCycle, PoolRecord
  <2>2. Reanchored(pool.next_cycle_at)
          = Timeline!LaterOf(pool.next_cycle_at, now) + CycleDuration
    BY DEF Reanchored, Greater, Timeline!LaterOf
  <2> QED BY <1>0, <1>2, <2>1, <2>2 DEF Timeline!Advance, StatusOf
<1> QED BY <1>1, <1>2

\* The order of a pool whose turn has come is drawn.
LEMMA TurnIsDrawn ==
  ASSUME TimelineInv, NEW s \in Seats, Contemplated(s, pool.current_cycle)
  PROVE  order # Undrawn
<1>1. pool.current_cycle \in Cycles /\ CyclesTotal \in Nat
  BY TimelineTypes, Constants DEF PoolRecord
<1> QED BY <1>1 DEF Contemplated, Undrawn, Cycles

LEMMA MapJoin ==
  ASSUME TimelineInv, NEW s \in Seats, NEW level \in Levels, JoinPool(s, level)
  PROVE  Timeline!Activate \/ UNCHANGED Timeline!tvars
<1>0. /\ pool \in PoolRecord /\ member \in [Seats -> MemberRecord]
      /\ pool.current_cycle \in Nat /\ pool.members_joined \in Nat
  BY TimelineTypes DEF PoolRecord
<1> DEFINE full == pool.members_joined + 1 = MembersTarget
<1>1. /\ pool.status = "Forming" /\ now' = now /\ AutoDraw(full)
      /\ pool'.current_cycle = pool.current_cycle
      /\ pool'.status = IF full THEN "Active" ELSE "Forming"
      /\ pool'.next_cycle_at = IF full THEN now + CycleDuration ELSE pool.next_cycle_at
  BY <1>0 DEF JoinPool, PoolRecord
<1>2. Paid' = Paid /\ Received' = Received /\ Settled' = Settled
  <2>1. s \notin pool.slots /\ Served = 0
    BY <1>1 DEF JoinPool, TimelineInv, RotationInv, TurnInv, OrderDrawn, Served
  <2>2. /\ member[s].contributions_paid = 0 /\ ~member[s].paid_out /\ ~member[s].defaulted
    BY <2>1, NobodyPaid DEF TimelineInv, EmptySeats, RotationInv, SeatsTaken
  <2>3. /\ member'[s].contributions_paid = 0 /\ ~member'[s].paid_out
        /\ ~member'[s].defaulted
    BY <1>0 DEF JoinPool, BlankMember
  <2>4. \A t \in Seats \ {s} : member'[t] = member[t]
    BY <1>0 DEF JoinPool
  <2>5. \A t \in Seats : member'[t].contributions_paid = member[t].contributions_paid
    BY <2>2, <2>3, <2>4
  <2>6. Received' = Received /\ Settled' = Settled
    BY <2>2, <2>3, <2>4 DEF Received, Settled
  <2> QED BY <2>5, <2>6 DEF Paid
<1>3. CASE full
  <2>1. order' = order \/ order' # Undrawn
    BY <1>1, DrawOrderFacts DEF AutoDraw
  <2>2. StatusOf = "Forming" /\ StatusOf' = "Active"
    BY <1>1, <1>3 DEF StatusOf
  <2>3. Undrawn' = Undrawn
    BY DEF Undrawn
  <2>4. (order' # Undrawn') \in {order # Undrawn, TRUE}
    BY <2>1, <2>3
  <2>5. Timeline!Activate
    BY <1>1, <1>2, <1>3, <2>2, <2>4
       DEF Timeline!Activate, Timeline!seatVars, Paid, Received, Settled
  <2> QED BY <2>5
<1>4. CASE ~full
  <2>1. order' = order /\ StatusOf' = StatusOf
    BY <1>1, <1>4 DEF AutoDraw, StatusOf
  <2>2. pool'.next_cycle_at = pool.next_cycle_at
    BY <1>1, <1>4
  <2> QED BY <1>1, <1>2, <2>1, <2>2, TimelineStutters
<1> QED BY <1>3, <1>4

LEMMA MapDraw == ASSUME TimelineInv, FinalizeDraw PROVE Timeline!DrawLate
<1>0. pool \in PoolRecord
  BY TimelineTypes
<1>1. /\ pool.status = "Active" /\ pool'.status = "Active" /\ now' = now
      /\ pool'.current_cycle = pool.current_cycle /\ member' = member
      /\ pool'.next_cycle_at = DrawDeadline(pool.next_cycle_at)
  BY <1>0 DEF FinalizeDraw, PoolRecord
<1>2. order = Undrawn /\ order' # Undrawn /\ Undrawn' = Undrawn
  BY DrawOrderFacts DEF FinalizeDraw, NotDrawn, Undrawn
<1>3. Paid' = Paid /\ Received' = Received /\ Settled' = Settled
  BY <1>1, SameMembers
<1>4. DrawDeadline(pool.next_cycle_at)
        = Timeline!LaterOf(pool.next_cycle_at, now + CycleDuration)
  BY DEF DrawDeadline, Greater, Timeline!LaterOf
<1>5. StatusOf = "Active" /\ StatusOf' = "Active"
  BY <1>1 DEF StatusOf
<1> QED BY <1>1, <1>2, <1>3, <1>4, <1>5
        DEF Timeline!DrawLate, Timeline!seatVars, Paid, Received, Settled

LEMMA MapContribute ==
  ASSUME TimelineInv, NEW s \in Seats, Contribute(s)
  PROVE  Timeline!PayInstallment(s)
<1>0. /\ pool \in PoolRecord /\ member \in [Seats -> MemberRecord]
      /\ CyclesTotal = MembersTarget
  BY TimelineTypes, Constants
<1>1. /\ pool.status = "Active" /\ pool'.status = "Active" /\ now' = now
      /\ pool'.current_cycle = pool.current_cycle
      /\ pool'.next_cycle_at = pool.next_cycle_at /\ order' = order
  BY <1>0 DEF Contribute, PoolRecord
<1>2. /\ ~member[s].defaulted /\ member[s].contributions_paid < MembersTarget
      /\ \/ member[s].contributions_paid >= pool.current_cycle
         \/ now < Timeline!GraceDeadline
  BY <1>0 DEF Contribute, Live, CatchUpOpen, GraceDeadline, Timeline!GraceDeadline
<1>3. /\ member'[s].contributions_paid = member[s].contributions_paid + 1
      /\ \A t \in Seats \ {s} : member'[t] = member[t]
  BY <1>0 DEF Contribute, MemberRecord
<1>4. \A t \in Seats : /\ member'[t].paid_out = member[t].paid_out
                       /\ member'[t].defaulted = member[t].defaulted
  BY <1>0 DEF Contribute, MemberRecord
<1>5. Paid' = [Paid EXCEPT ![s] = @ + 1]
  BY <1>3 DEF Paid
<1>6. Received' = Received /\ Settled' = Settled
  BY <1>4 DEF Received, Settled
<1>7. StatusOf = "Active" /\ StatusOf' = "Active" /\ Undrawn' = Undrawn
  BY <1>1 DEF StatusOf, Undrawn
<1>8. Timeline!CanPay(s)
  BY <1>2, <1>7 DEF Timeline!CanPay
<1> QED BY <1>1, <1>5, <1>6, <1>7, <1>8
        DEF Timeline!PayInstallment, Paid, Received, Settled

LEMMA MapPayOut ==
  ASSUME TimelineInv, NEW s \in Seats, Payable(s), PayOut(s)
  PROVE  Timeline!ReceiveCredit(s)
<1>0. /\ pool \in PoolRecord /\ member \in [Seats -> MemberRecord]
  BY TimelineTypes
<1>1. /\ pool.status = "Active" /\ order' = order /\ now' = now /\ order # Undrawn
      /\ ~member[s].paid_out /\ ~member[s].defaulted
  BY TurnIsDrawn DEF Payable, PayOut, Live
<1>2. /\ pool'.status = AdvancedCycle(pool).status
      /\ pool'.current_cycle = AdvancedCycle(pool).current_cycle
      /\ pool'.next_cycle_at = AdvancedCycle(pool).next_cycle_at
  BY <1>0 DEF PayOut, AdvancedCycle, PoolRecord
<1>3. Timeline!Advance
  BY <1>1, <1>2, AdvanceMaps
<1>4. /\ member'[s].paid_out /\ \A t \in Seats \ {s} : member'[t] = member[t]
      /\ member'[s].contributions_paid = member[s].contributions_paid
      /\ member'[s].defaulted = member[s].defaulted
  BY <1>0 DEF PayOut, MemberRecord
<1>5. Received' = Received \cup {s}
  BY <1>4 DEF Received
<1>6. Paid' = Paid
  BY <1>4 DEF Paid
<1>7. Settled' = Settled
  BY <1>4 DEF Settled
<1>8. StatusOf = "Active" /\ Undrawn' = Undrawn
  BY <1>1 DEF StatusOf, Undrawn
<1> QED BY <1>1, <1>3, <1>5, <1>6, <1>7, <1>8
        DEF Timeline!ReceiveCredit, Paid, Received, Settled

LEMMA MapSkip ==
  ASSUME TimelineInv, NEW s \in Seats, SkipDefaultedPayout(s)
  PROVE  Timeline!PassOver(s)
<1>1. /\ pool.status = "Active" /\ order' = order /\ now' = now /\ order # Undrawn
      /\ ~member[s].paid_out /\ member[s].defaulted
      /\ member' = member /\ pool' = AdvancedCycle(pool)
  BY TurnIsDrawn DEF SkipDefaultedPayout, Skippable
<1>2. Timeline!Advance
  BY <1>1, AdvanceMaps
<1>3. Paid' = Paid /\ Received' = Received /\ Settled' = Settled
  BY <1>1, SameMembers
<1>4. StatusOf = "Active" /\ Undrawn' = Undrawn
  BY <1>1 DEF StatusOf, Undrawn
<1> QED BY <1>1, <1>2, <1>3, <1>4
        DEF Timeline!PassOver, Timeline!seatVars, Paid, Received, Settled

LEMMA MapSettle ==
  ASSUME TimelineInv, NEW s \in Seats, SettleDefault(s)
  PROVE  Timeline!Settle(s)
<1>0. /\ pool \in PoolRecord /\ member \in [Seats -> MemberRecord]
  BY TimelineTypes
<1>1. /\ pool.status = "Active" /\ pool'.status = "Active" /\ now' = now
      /\ pool'.current_cycle = pool.current_cycle
      /\ pool'.next_cycle_at = pool.next_cycle_at /\ order' = order
  BY <1>0 DEF SettleDefault, SeizureBooked, PoolRecord
<1>2. /\ ~member[s].defaulted /\ member[s].contributions_paid < pool.current_cycle
      /\ now >= Timeline!GraceDeadline
  BY DEF SettleDefault, Live, Delinquent, GraceDeadline, Timeline!GraceDeadline
<1>3. /\ member'[s].defaulted /\ \A t \in Seats \ {s} : member'[t] = member[t]
      /\ member'[s].contributions_paid = member[s].contributions_paid
      /\ member'[s].paid_out = member[s].paid_out
  BY <1>0 DEF SettleDefault, Seized, MemberRecord
<1>4. Settled' = Settled \cup {s}
  BY <1>3 DEF Settled
<1>5. Paid' = Paid
  BY <1>3 DEF Paid
<1>6. Received' = Received
  BY <1>3 DEF Received
<1>7. StatusOf = "Active" /\ StatusOf' = "Active" /\ Undrawn' = Undrawn
  BY <1>1 DEF StatusOf, Undrawn
<1>8. Timeline!Overdue(s)
  BY <1>2, <1>7 DEF Timeline!Overdue
<1> QED BY <1>1, <1>4, <1>5, <1>6, <1>7, <1>8
        DEF Timeline!Settle, Paid, Received, Settled

LEMMA StepTimeline == TimelineInv /\ [Next]_vars => [Timeline!TimelineNext]_(Timeline!tvars)
<1> SUFFICES ASSUME TimelineInv, [Next]_vars
             PROVE  [Timeline!TimelineNext]_(Timeline!tvars)
  OBVIOUS
<1> USE DEF Timeline!TimelineNext
<1>0. /\ pool \in PoolRecord /\ member \in [Seats -> MemberRecord]
      /\ Timeline!Seats = Seats
  BY TimelineTypes
<1>1. ASSUME NEW s \in Seats, NEW level \in Levels, JoinPool(s, level)
      PROVE  [Timeline!TimelineNext]_(Timeline!tvars)
  BY <1>1, MapJoin
<1>2. CASE FinalizeDraw
  BY <1>2, MapDraw
<1>3. ASSUME NEW s \in Seats, Contribute(s) PROVE Timeline!TimelineNext
  BY <1>0, <1>3, MapContribute
<1>4. ASSUME NEW s \in Seats, Payable(s), PayOut(s) PROVE Timeline!TimelineNext
  BY <1>0, <1>4, MapPayOut
<1>5. ASSUME NEW s \in Seats, SkipDefaultedPayout(s) PROVE Timeline!TimelineNext
  BY <1>0, <1>5, MapSkip
<1>6. ASSUME NEW s \in Seats, SettleDefault(s) PROVE Timeline!TimelineNext
  BY <1>0, <1>6, MapSettle
<1>7. ASSUME NEW s \in Seats, NEW checkpoint \in 1 .. CyclesTotal,
             ReleaseEscrow(s, checkpoint)
      PROVE  UNCHANGED Timeline!tvars
  <2>1. /\ pool'.status = pool.status /\ pool'.current_cycle = pool.current_cycle
        /\ pool'.next_cycle_at = pool.next_cycle_at /\ order' = order /\ now' = now
    BY <1>0, <1>7 DEF ReleaseEscrow, PoolRecord
  <2>2. \A t \in Seats : /\ member'[t].contributions_paid = member[t].contributions_paid
                         /\ member'[t].paid_out = member[t].paid_out
                         /\ member'[t].defaulted = member[t].defaulted
    BY <1>0, <1>7 DEF ReleaseEscrow, MemberRecord
  <2>3. StatusOf' = StatusOf
    BY <2>1 DEF StatusOf
  <2> QED BY <2>1, <2>2, <2>3, SameMembers, TimelineStutters
<1>8. CASE Tick
  <2>1. /\ pool.status = "Active" /\ pool' = pool /\ member' = member /\ order' = order
        /\ now < pool.next_cycle_at + MaxLag /\ now' = now + 1
    BY <1>8 DEF Tick
  <2>2. Paid' = Paid /\ Received' = Received /\ Settled' = Settled
    BY <2>1, SameMembers
  <2>3. StatusOf = "Active" /\ StatusOf' = StatusOf /\ Undrawn' = Undrawn
    BY <2>1 DEF StatusOf, Undrawn
  <2>4. Timeline!TimePasses
    BY <2>1, <2>2, <2>3
       DEF Timeline!TimePasses, Timeline!seatVars, Paid, Received, Settled
  <2> QED BY <2>4
<1>9. CASE \/ Pause \/ ClosePool \/ ClosePoolVaults \/ UNCHANGED vars
           \/ \E s \in Seats : CloseMember(s)
  <2>1. /\ pool'.current_cycle = pool.current_cycle /\ member' = member
        /\ pool'.next_cycle_at = pool.next_cycle_at /\ order' = order /\ now' = now
    BY <1>0, <1>9 DEF Pause, ClosePool, ClosePoolVaults, CloseMember, vars, PoolRecord
  <2>2. StatusOf' = StatusOf
    BY <1>0, <1>9 DEF Pause, ClosePool, ClosePoolVaults, CloseMember, vars, PoolRecord,
                      StatusOf
  <2> QED BY <2>1, <2>2, SameMembers, TimelineStutters
<1> QED BY <1>1, <1>2, <1>3, <1>4, <1>5, <1>6, <1>7, <1>8, <1>9
        DEF Next, ClaimPayout, CrankPayout

\* Whatever the money does, every pool keeps the timeline that the services
\* are composed with.
THEOREM PoolKeepsTimeline == Spec => ImplementsTimeline
<1>1. Spec => []TimelineInv
  BY InitTimeline, NextTimelineInv, PTL DEF Spec
<1> QED BY <1>1, InitTimeline, StepTimeline, PTL
        DEF Spec, ImplementsTimeline, Timeline!TimelineSpec

----------------------------------------------------------------------------
(* The attestations tell what happened to every seat.                      *)

InstallmentSchemas == {"PAYMENT", "LATE", "POOL_COMPLETE"}

\* What the attestations say of the installments, the payout and the default
\* of seat s.
PaymentsTold(s) ==
  /\ IssuedFor(s, InstallmentSchemas) = 0 .. member[s].contributions_paid - 1
  /\ Cardinality(Issued(s, InstallmentSchemas)) = member[s].contributions_paid
  /\ IssuedFor(s, {"POOL_COMPLETE"}) =
       {c \in {CyclesTotal - 1} : member[s].contributions_paid = CyclesTotal}

PayoutTold(s) ==
  /\ IssuedFor(s, {"PAYOUT_CLAIMED"}) = {c \in {order[s]} : member[s].paid_out}
  /\ IssuedFor(s, {"CLAIM_NEGLECT"}) \subseteq IssuedFor(s, {"PAYOUT_CLAIMED"})

DefaultTold(s) ==
  /\ member[s].defaulted <=> Issued(s, {"DEFAULT"}) # {}
  /\ member[s].defaulted => member[s].contributions_paid < CyclesTotal

SeatStory(s) == PaymentsTold(s) /\ PayoutTold(s) /\ DefaultTold(s)

\* An installment is counted once because every attestation is a PDA of its
\* own: the set of them is finite and grows by one.
StoryInv ==
  /\ TimelineInv
  /\ IsFiniteSet(attestations)
  /\ \A s \in Seats : SeatStory(s)

LEMMA StoriesAdd == (\A s \in Seats : SeatStory(s)) => AttestationsTellTheStory
BY DEF SeatStory, PaymentsTold, PayoutTold, DefaultTold, AttestationsTellTheStory,
       InstallmentSchemas

\* A kind that is not issued to the seat stays as it was.
LEMMA IssuedStays ==
  ASSUME NEW s, NEW kinds, NEW new, attestations' = attestations \cup new,
         \A a \in new : a.seat = s => a.schema \notin kinds
  PROVE  /\ Issued(s, kinds)' = Issued(s, kinds)
         /\ IssuedFor(s, kinds)' = IssuedFor(s, kinds)
<1>1. Issued(s, kinds)' = Issued(s, kinds)
  BY DEF Issued
<1> QED BY <1>1 DEF IssuedFor

\* One attestation more of a kind.
LEMMA OneMoreIssued ==
  ASSUME NEW s, NEW kinds, NEW new, NEW a \in new, attestations' = attestations \cup new,
         a.seat = s, a.schema \in kinds,
         \A b \in new : b.schema \in kinds => b = a
  PROVE  /\ Issued(s, kinds)' = Issued(s, kinds) \cup {a}
         /\ IssuedFor(s, kinds)' = IssuedFor(s, kinds) \cup {a.cycle}
<1>1. Issued(s, kinds)' = Issued(s, kinds) \cup {a}
  BY DEF Issued
<1> QED BY <1>1 DEF IssuedFor

\* The story of a seat that a handler leaves alone.
LEMMA SameStory ==
  ASSUME NEW s \in Seats, SeatStory(s), NEW new, attestations' = attestations \cup new,
         \A a \in new : a.seat # s,
         member'[s].contributions_paid = member[s].contributions_paid,
         member'[s].paid_out = member[s].paid_out,
         member'[s].defaulted = member[s].defaulted,
         order'[s] = order[s] \/ ~member[s].paid_out
  PROVE  SeatStory(s)'
<1>1. \A kinds : /\ Issued(s, kinds)' = Issued(s, kinds)
                 /\ IssuedFor(s, kinds)' = IssuedFor(s, kinds)
  BY IssuedStays
<1>2. PaymentsTold(s)'
  BY <1>1 DEF SeatStory, PaymentsTold, InstallmentSchemas
<1>3. PayoutTold(s)'
  BY <1>1 DEF SeatStory, PayoutTold
<1>4. DefaultTold(s)'
  BY <1>1 DEF SeatStory, DefaultTold
<1> QED BY <1>2, <1>3, <1>4 DEF SeatStory

\* Issuing is creating: the new attestations did not exist.
LEMMA FreshAttestations ==
  ASSUME IsFiniteSet(attestations), NEW new, IsFiniteSet(new), Attest(new)
  PROVE  /\ attestations' = attestations \cup new
         /\ new \cap attestations = {}
         /\ IsFiniteSet(attestations')
BY FS_Union DEF Attest

\* contribute: the installment is attested once, as what it is.
LEMMA ContributionTold ==
  ASSUME StoryInv, NEW s \in Seats, Contribute(s)
  PROVE  IsFiniteSet(attestations') /\ \A t \in Seats : SeatStory(t)'
<1>0. /\ member \in [Seats -> MemberRecord] /\ CyclesTotal \in Nat
      /\ member[s].contributions_paid \in 0 .. CyclesTotal
  BY Constants, TimelineTypes DEF StoryInv, MemberRecord
<1>1. PICK paid : paid = member[s].contributions_paid
  OBVIOUS
<1>2. PICK schema : schema = contribution_schema(paid, now <= installment_deadline(paid))
  OBVIOUS
<1>3. PICK a : a = Attestation(schema, paid, s)
  OBVIOUS
<1>4. /\ schema \in InstallmentSchemas
      /\ schema = "POOL_COMPLETE" <=> paid + 1 = CyclesTotal
  BY <1>2 DEF contribution_schema, InstallmentSchemas
<1>5. a.seat = s /\ a.cycle = paid /\ a.schema = schema
  BY <1>3 DEF Attestation
<1>6. PICK new :
        /\ a \in new /\ \A b \in new : b = a
        /\ attestations' = attestations \cup new /\ new \cap attestations = {}
        /\ IsFiniteSet(attestations')
  <2>1. PICK new : new = {a}
    OBVIOUS
  <2>2. Attest(new)
    BY <1>1, <1>2, <1>3, <2>1 DEF Contribute
  <2>3. IsFiniteSet(new)
    BY <2>1, FS_Singleton
  <2> QED BY <2>1, <2>2, <2>3, FreshAttestations DEF StoryInv
<1>7. /\ paid \in Nat /\ paid < CyclesTotal
      /\ member'[s].contributions_paid = paid + 1
      /\ member'[s].paid_out = member[s].paid_out
      /\ member'[s].defaulted = member[s].defaulted /\ ~member[s].defaulted
      /\ order' = order
  BY <1>0, <1>1 DEF Contribute, Live, MemberRecord
<1>8. SeatStory(s)
  BY DEF StoryInv
<1>9. PaymentsTold(s)'
  <2>1. /\ Issued(s, InstallmentSchemas)' = Issued(s, InstallmentSchemas) \cup {a}
        /\ IssuedFor(s, InstallmentSchemas)' = IssuedFor(s, InstallmentSchemas) \cup {paid}
    BY <1>4, <1>5, <1>6, OneMoreIssued
  <2>2. IssuedFor(s, InstallmentSchemas)' = 0 .. (paid + 1) - 1
    BY <1>1, <1>7, <1>8, <2>1 DEF SeatStory, PaymentsTold
  <2>3. Cardinality(Issued(s, InstallmentSchemas)') = paid + 1
    <3>1. a \notin Issued(s, InstallmentSchemas) /\ Issued(s, InstallmentSchemas) \subseteq attestations
      BY <1>6 DEF Issued
    <3>2. IsFiniteSet(Issued(s, InstallmentSchemas))
      BY <3>1, FS_Subset DEF StoryInv
    <3>3. Cardinality(Issued(s, InstallmentSchemas)) = paid
      BY <1>1, <1>8 DEF SeatStory, PaymentsTold
    <3> QED BY <2>1, <3>1, <3>2, <3>3, FS_AddElement
  <2>4. IssuedFor(s, {"POOL_COMPLETE"}) = {}
    BY <1>0, <1>1, <1>7, <1>8 DEF SeatStory, PaymentsTold
  <2>5. IssuedFor(s, {"POOL_COMPLETE"})'
          = {c \in {CyclesTotal - 1} : paid + 1 = CyclesTotal}
    <3>1. CASE paid + 1 = CyclesTotal
      <4>1. schema = "POOL_COMPLETE"
        BY <1>4, <3>1
      <4>2. IssuedFor(s, {"POOL_COMPLETE"})' = IssuedFor(s, {"POOL_COMPLETE"}) \cup {paid}
        BY <1>5, <1>6, <4>1, OneMoreIssued
      <4>3. paid = CyclesTotal - 1
        BY <1>0, <1>7, <3>1
      <4> QED BY <2>4, <3>1, <4>2, <4>3
    <3>2. CASE paid + 1 # CyclesTotal
      <4>1. schema # "POOL_COMPLETE"
        BY <1>4, <3>2
      <4>2. IssuedFor(s, {"POOL_COMPLETE"})' = IssuedFor(s, {"POOL_COMPLETE"})
        BY <1>5, <1>6, <4>1, IssuedStays
      <4> QED BY <2>4, <3>2, <4>2
    <3> QED BY <3>1, <3>2
  <2> QED BY <1>7, <2>2, <2>3, <2>5 DEF PaymentsTold, InstallmentSchemas, CyclesTotal
<1>10. PayoutTold(s)' /\ DefaultTold(s)'
  <2>1. \A kinds \in {{"PAYOUT_CLAIMED"}, {"CLAIM_NEGLECT"}, {"DEFAULT"}} :
          /\ Issued(s, kinds)' = Issued(s, kinds)
          /\ IssuedFor(s, kinds)' = IssuedFor(s, kinds)
    BY <1>4, <1>5, <1>6, IssuedStays DEF InstallmentSchemas
  <2>2. PayoutTold(s)'
    BY <1>7, <1>8, <2>1 DEF SeatStory, PayoutTold
  <2>3. DefaultTold(s)'
    BY <1>7, <1>8, <2>1 DEF SeatStory, DefaultTold
  <2> QED BY <2>2, <2>3
<1>11. ASSUME NEW t \in Seats \ {s} PROVE SeatStory(t)'
  <2>1. member'[t] = member[t]
    BY <1>0 DEF Contribute
  <2> QED BY <1>5, <1>6, <1>7, <2>1, SameStory DEF StoryInv
<1>12. \A t \in Seats : SeatStory(t)'
  BY <1>9, <1>10, <1>11 DEF SeatStory
<1> QED BY <1>6, <1>12

\* claim_payout and crank_payout: a payout is attested in its own turn, and
\* neglect only beside it.
LEMMA PayoutIsTold ==
  ASSUME StoryInv, NEW s \in Seats, Payable(s), PayOut(s),
         NEW new, Attest(new), IsFiniteSet(new),
         Attestation("PAYOUT_CLAIMED", pool.current_cycle, s) \in new,
         new \subseteq {Attestation("PAYOUT_CLAIMED", pool.current_cycle, s),
                       Attestation("CLAIM_NEGLECT", pool.current_cycle, s)}
  PROVE  IsFiniteSet(attestations') /\ \A t \in Seats : SeatStory(t)'
<1>0. member \in [Seats -> MemberRecord]
  BY TimelineTypes DEF StoryInv
<1>1. /\ attestations' = attestations \cup new
      /\ IsFiniteSet(attestations')
  BY FreshAttestations DEF StoryInv
<1>2. PICK cycle : cycle = pool.current_cycle
  OBVIOUS
<1>3. PICK a : a = Attestation("PAYOUT_CLAIMED", cycle, s)
  OBVIOUS
<1>4. /\ a \in new /\ a.schema = "PAYOUT_CLAIMED" /\ a.cycle = cycle /\ a.seat = s
      /\ \A b \in new : /\ b.seat = s /\ b.cycle = cycle
                        /\ b.schema \in {"PAYOUT_CLAIMED", "CLAIM_NEGLECT"}
                        /\ b.schema = "PAYOUT_CLAIMED" => b = a
  BY <1>2, <1>3 DEF Attestation
<1>5. /\ order' = order /\ order[s] = cycle
      /\ member'[s].contributions_paid = member[s].contributions_paid
      /\ member'[s].paid_out /\ ~member[s].paid_out
      /\ member'[s].defaulted = member[s].defaulted
  BY <1>0, <1>2 DEF Payable, PayOut, Contemplated, MemberRecord
<1>6. SeatStory(s)
  BY DEF StoryInv
<1>7. \A kinds \in {InstallmentSchemas, {"POOL_COMPLETE"}, {"DEFAULT"}} :
        /\ Issued(s, kinds)' = Issued(s, kinds)
        /\ IssuedFor(s, kinds)' = IssuedFor(s, kinds)
  BY <1>1, <1>4, IssuedStays DEF InstallmentSchemas
<1>8. PaymentsTold(s)' /\ DefaultTold(s)'
  <2>1. PaymentsTold(s)'
    BY <1>5, <1>6, <1>7 DEF SeatStory, PaymentsTold, InstallmentSchemas
  <2>2. DefaultTold(s)'
    BY <1>5, <1>6, <1>7 DEF SeatStory, DefaultTold
  <2> QED BY <2>1, <2>2
<1>9. PayoutTold(s)'
  <2>1. IssuedFor(s, {"PAYOUT_CLAIMED"})' = IssuedFor(s, {"PAYOUT_CLAIMED"}) \cup {cycle}
    BY <1>1, <1>4, OneMoreIssued
  <2>2. IssuedFor(s, {"PAYOUT_CLAIMED"}) = {} /\ IssuedFor(s, {"CLAIM_NEGLECT"}) = {}
    BY <1>5, <1>6 DEF SeatStory, PayoutTold
  <2>3. IssuedFor(s, {"CLAIM_NEGLECT"})' \subseteq {cycle}
    <3>1. ASSUME NEW c \in IssuedFor(s, {"CLAIM_NEGLECT"})' PROVE c = cycle
      <4>1. PICK b \in attestations' : b.seat = s /\ b.schema = "CLAIM_NEGLECT" /\ b.cycle = c
        BY <3>1 DEF IssuedFor, Issued
      <4>2. b \notin attestations
        BY <2>2, <4>1 DEF IssuedFor, Issued
      <4> QED BY <1>1, <1>4, <4>1, <4>2
    <3> QED BY <3>1
  <2>4. IssuedFor(s, {"PAYOUT_CLAIMED"})' = {cycle}
    BY <2>1, <2>2
  <2> QED BY <1>5, <2>3, <2>4 DEF PayoutTold
<1>10. ASSUME NEW t \in Seats \ {s} PROVE SeatStory(t)'
  <2>1. member'[t] = member[t]
    BY <1>0 DEF PayOut
  <2> QED BY <1>1, <1>4, <1>5, <2>1, SameStory DEF StoryInv
<1>11. \A t \in Seats : SeatStory(t)'
  BY <1>8, <1>9, <1>10 DEF SeatStory
<1> QED BY <1>1, <1>11

\* settle_default: a member that is behind has not paid the last installment.
LEMMA DefaultIsTold ==
  ASSUME StoryInv, NEW s \in Seats, SettleDefault(s)
  PROVE  IsFiniteSet(attestations') /\ \A t \in Seats : SeatStory(t)'
<1>0. /\ member \in [Seats -> MemberRecord] /\ pool \in PoolRecord
      /\ CyclesTotal \in Nat /\ pool.current_cycle \in 0 .. CyclesTotal - 1
      /\ member[s].contributions_paid \in 0 .. CyclesTotal
  BY Constants, TimelineTypes DEF StoryInv, MemberRecord, PoolRecord, Cycles
<1>1. PICK a : a = Attestation("DEFAULT", pool.current_cycle, s)
  OBVIOUS
<1>2. a.seat = s /\ a.schema = "DEFAULT"
  BY <1>1 DEF Attestation
<1>3. PICK new :
        /\ a \in new /\ \A b \in new : b = a
        /\ attestations' = attestations \cup new
        /\ IsFiniteSet(attestations')
  <2>1. PICK new : new = {a}
    OBVIOUS
  <2>2. Attest(new)
    BY <1>1, <2>1 DEF SettleDefault
  <2>3. IsFiniteSet(new)
    BY <2>1, FS_Singleton
  <2> QED BY <2>1, <2>2, <2>3, FreshAttestations DEF StoryInv
<1>4. /\ member'[s].contributions_paid = member[s].contributions_paid
      /\ member'[s].paid_out = member[s].paid_out
      /\ member'[s].defaulted /\ ~member[s].defaulted
      /\ order' = order
  BY <1>0 DEF SettleDefault, Seized, Live, MemberRecord
<1>5. member[s].contributions_paid < CyclesTotal
  BY <1>0 DEF SettleDefault, Delinquent
<1>6. SeatStory(s)
  BY DEF StoryInv
<1>7. \A kinds \in {InstallmentSchemas, {"POOL_COMPLETE"}, {"PAYOUT_CLAIMED"}, {"CLAIM_NEGLECT"}} :
        /\ Issued(s, kinds)' = Issued(s, kinds)
        /\ IssuedFor(s, kinds)' = IssuedFor(s, kinds)
  BY <1>2, <1>3, IssuedStays DEF InstallmentSchemas
<1>8. PaymentsTold(s)'
  BY <1>4, <1>6, <1>7 DEF SeatStory, PaymentsTold, InstallmentSchemas
<1>9. PayoutTold(s)'
  BY <1>4, <1>6, <1>7 DEF SeatStory, PayoutTold
<1>10. DefaultTold(s)'
  <2>1. Issued(s, {"DEFAULT"})' = Issued(s, {"DEFAULT"}) \cup {a}
    BY <1>2, <1>3, OneMoreIssued
  <2> QED BY <1>4, <1>5, <2>1 DEF DefaultTold, CyclesTotal
<1>11. ASSUME NEW t \in Seats \ {s} PROVE SeatStory(t)'
  <2>1. member'[t] = member[t]
    BY <1>0 DEF SettleDefault
  <2> QED BY <1>2, <1>3, <1>4, <2>1, SameStory DEF StoryInv
<1>12. \A t \in Seats : SeatStory(t)'
  BY <1>8, <1>9, <1>10, <1>11 DEF SeatStory
<1> QED BY <1>3, <1>12

\* A handler that issues nothing leaves the installments, payouts and defaults.
LEMMA NothingToTell ==
  ASSUME StoryInv, attestations' = attestations,
         \A t \in Seats : /\ member'[t].contributions_paid = member[t].contributions_paid
                          /\ member'[t].paid_out = member[t].paid_out
                          /\ member'[t].defaulted = member[t].defaulted
                          /\ order' = order \/ ~member[t].paid_out
  PROVE  IsFiniteSet(attestations') /\ \A t \in Seats : SeatStory(t)'
<1>1. PICK new : new = {}
  OBVIOUS
<1>2. attestations' = attestations \cup new /\ \A a \in new : FALSE
  BY <1>1
<1>3. ASSUME NEW t \in Seats PROVE SeatStory(t)'
  <2>1. order'[t] = order[t] \/ ~member[t].paid_out
    OBVIOUS
  <2>2. SeatStory(t)
    BY DEF StoryInv
  <2> QED BY <1>2, <2>1, <2>2, SameStory
<1> QED BY <1>3 DEF StoryInv

\* Joining and drawing happen before anybody is paid.
LEMMA JoiningTellsNothing ==
  ASSUME StoryInv, NEW s \in Seats, NEW level \in Levels, JoinPool(s, level)
  PROVE  IsFiniteSet(attestations') /\ \A t \in Seats : SeatStory(t)'
<1>0. member \in [Seats -> MemberRecord] /\ pool \in PoolRecord
  BY TimelineTypes DEF StoryInv
<1>1. /\ pool.status = "Forming" /\ s \notin pool.slots /\ Served = 0
      /\ attestations' = attestations
  BY <1>0 DEF JoinPool, StoryInv, TimelineInv, RotationInv, TurnInv, OrderDrawn, Served
<1>2. /\ member[s].contributions_paid = 0 /\ ~member[s].defaulted
      /\ \A t \in Seats : ~member[t].paid_out
  BY <1>1, NobodyPaid
     DEF StoryInv, TimelineInv, EmptySeats, RotationInv, SeatsTaken
<1>3. /\ member'[s].contributions_paid = 0 /\ ~member'[s].defaulted /\ ~member'[s].paid_out
      /\ member'[s].defaulted \in BOOLEAN /\ member'[s].paid_out \in BOOLEAN
  BY <1>0 DEF JoinPool, BlankMember
<1>4. \A t \in Seats \ {s} : member'[t] = member[t]
  BY <1>0 DEF JoinPool
<1>5. member[s].defaulted \in BOOLEAN /\ member[s].paid_out \in BOOLEAN
  BY <1>0 DEF MemberRecord
<1>6. member'[s].defaulted = member[s].defaulted /\ member'[s].paid_out = member[s].paid_out
  BY <1>2, <1>3, <1>5
<1> QED BY <1>1, <1>2, <1>3, <1>4, <1>6, NothingToTell

LEMMA DrawingTellsNothing ==
  ASSUME StoryInv, FinalizeDraw
  PROVE  IsFiniteSet(attestations') /\ \A t \in Seats : SeatStory(t)'
<1>1. Served = 0 /\ attestations' = attestations /\ member' = member
  BY DEF FinalizeDraw, NotDrawn, StoryInv, TimelineInv, RotationInv, TurnInv, OrderDrawn
<1>2. \A t \in Seats : ~member[t].paid_out
  BY <1>1, NobodyPaid DEF StoryInv, TimelineInv, RotationInv
<1> QED BY <1>1, <1>2, NothingToTell

LEMMA NextStory == StoryInv /\ [Next]_vars => StoryInv'
<1> SUFFICES ASSUME StoryInv, [Next]_vars
             PROVE  IsFiniteSet(attestations') /\ \A t \in Seats : SeatStory(t)'
  BY NextTimelineInv DEF StoryInv
<1>0. member \in [Seats -> MemberRecord]
  BY TimelineTypes DEF StoryInv
<1> DEFINE Told == IsFiniteSet(attestations') /\ \A t \in Seats : SeatStory(t)'
<1> HIDE DEF Told
<1>1. ASSUME NEW s \in Seats, NEW level \in Levels, JoinPool(s, level) PROVE Told
  BY <1>1, JoiningTellsNothing DEF Told
<1>2. ASSUME FinalizeDraw PROVE Told
  BY <1>2, DrawingTellsNothing DEF Told
<1>3. ASSUME NEW s \in Seats, Contribute(s) PROVE Told
  BY <1>3, ContributionTold DEF Told
<1>4. ASSUME NEW s \in Seats, ClaimPayout(s) PROVE Told
  <2>1. PICK new : new = {Attestation("PAYOUT_CLAIMED", pool.current_cycle, s)}
    OBVIOUS
  <2>2. Payable(s) /\ PayOut(s) /\ Attest(new)
    BY <1>4, <2>1 DEF ClaimPayout
  <2>3. IsFiniteSet(new)
    BY <2>1, FS_Singleton
  <2> QED BY <2>1, <2>2, <2>3, PayoutIsTold DEF Told
<1>5. ASSUME NEW s \in Seats, CrankPayout(s) PROVE Told
  <2>1. PICK claimed, neglect, new :
          /\ claimed = Attestation("PAYOUT_CLAIMED", pool.current_cycle, s)
          /\ neglect = Attestation("CLAIM_NEGLECT", pool.current_cycle, s)
          /\ new = {claimed, neglect}
    OBVIOUS
  <2>2. Payable(s) /\ PayOut(s) /\ Attest(new)
    BY <1>5, <2>1 DEF CrankPayout
  <2>3. IsFiniteSet(new)
    <3>1. IsFiniteSet({claimed}) /\ new = {claimed} \cup {neglect}
      BY <2>1, FS_Singleton
    <3> QED BY <3>1, FS_AddElement
  <2> QED BY <2>1, <2>2, <2>3, PayoutIsTold DEF Told
<1>6. ASSUME NEW s \in Seats, SettleDefault(s) PROVE Told
  BY <1>6, DefaultIsTold DEF Told
<1>7. ASSUME NEW s \in Seats, NEW checkpoint \in 1 .. CyclesTotal,
             ReleaseEscrow(s, checkpoint)
      PROVE  Told
  <2>1. attestations' = attestations /\ order' = order
    BY <1>7 DEF ReleaseEscrow
  <2>2. \A t \in Seats : /\ member'[t].contributions_paid = member[t].contributions_paid
                         /\ member'[t].paid_out = member[t].paid_out
                         /\ member'[t].defaulted = member[t].defaulted
    BY <1>0, <1>7 DEF ReleaseEscrow, MemberRecord
  <2> QED BY <2>1, <2>2, NothingToTell DEF Told
<1>8. ASSUME NEW s \in Seats, CloseMember(s) \/ SkipDefaultedPayout(s) PROVE Told
  <2>1. attestations' = attestations /\ order' = order /\ member' = member
    BY <1>8 DEF CloseMember, SkipDefaultedPayout
  <2> QED BY <2>1, NothingToTell DEF Told
<1>9. ASSUME Pause \/ ClosePool \/ ClosePoolVaults \/ Tick \/ UNCHANGED vars PROVE Told
  <2>1. attestations' = attestations /\ order' = order /\ member' = member
    BY <1>9 DEF Pause, ClosePool, ClosePoolVaults, Tick, vars
  <2> QED BY <2>1, NothingToTell DEF Told
<1>10. Told
  <2>1. CASE UNCHANGED vars
    BY <1>9, <2>1
  <2>2. CASE Next
    BY <1>1, <1>2, <1>3, <1>4, <1>5, <1>6, <1>7, <1>8, <1>9, <2>2, Zenon DEF Next
  <2> QED BY <2>1, <2>2
<1> QED BY <1>10 DEF Told

LEMMA InitStory == Init => StoryInv
<1> SUFFICES ASSUME Init PROVE StoryInv
  OBVIOUS
<1>1. TimelineInv
  BY InitTimeline
<1>2. attestations = {} /\ IsFiniteSet(attestations)
  BY FS_EmptySet DEF Init
<1>3. ASSUME NEW s \in Seats PROVE SeatStory(s)
  <2>1. /\ member[s].contributions_paid = 0 /\ ~member[s].paid_out /\ ~member[s].defaulted
    BY DEF Init, BlankMember
  <2>2. \A kinds : Issued(s, kinds) = {} /\ IssuedFor(s, kinds) = {}
    BY <1>2 DEF Issued, IssuedFor
  <2>3. PaymentsTold(s)
    BY <2>1, <2>2, Constants, FS_EmptySet DEF PaymentsTold
  <2>4. PayoutTold(s)
    BY <2>1, <2>2 DEF PayoutTold
  <2>5. DefaultTold(s)
    BY <2>1, <2>2 DEF DefaultTold
  <2> QED BY <2>3, <2>4, <2>5 DEF SeatStory
<1> QED BY <1>1, <1>2, <1>3 DEF StoryInv

\* Under every order of the handlers the attestations of a pool say what
\* happened in it: every installment, payout and default once, and as what it was.
THEOREM AttestationsAreFaithful == Spec => []AttestationsTellTheStory
<1>1. StoryInv => AttestationsTellTheStory
  BY StoriesAdd DEF StoryInv
<1> QED BY <1>1, InitStory, NextStory, PTL DEF Spec
=============================================================================
