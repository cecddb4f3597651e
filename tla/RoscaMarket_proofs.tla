------------------------- MODULE RoscaMarket_proofs -------------------------
(***************************************************************************)
(* What bids and sales leave intact, in every pool: with bids the turns are*)
(* still served in order, they are exchanged and nothing else, the depth to*)
(* beat is real, and no bid answers an opened envelope; with sales a       *)
(* listing is always the owner's.  With either no USDC is made or lost, and*)
(* the pool keeps the promises it makes about its accounts.                *)
(***************************************************************************)
EXTENDS Lance, EscapeValve, RoscaRefinement_proofs

----------------------------------------------------------------------------
(* Bids: exchanging two turns.                                             *)

BidRecord ==
  [cycle : Cycles, bidder : Seats, parcels : Nat, state : {"Committed", "Revealed"}]

\* A depth stands only in a drawn pool that still pays.
DepthAtRest == pool.current_bid_depth > 0 => pool.status = "Active" /\ order # Undrawn

\* An envelope is of a cycle that has begun; once it is open the order is drawn,
\* and in its cycle the deadline is over.
EnvelopesInTime ==
  \A b \in bids :
    /\ b.cycle <= pool.current_cycle
    /\ pool.status # "Forming"
    /\ b.state = "Revealed" =>
         /\ order # Undrawn
         /\ b.cycle = pool.current_cycle /\ pool.status = "Active"
              => now >= pool.next_cycle_at

\* Everything the properties of the bids rest on.
BidInv ==
  /\ RotationInv
  /\ bids \in SUBSET BidRecord
  /\ DepthAtRest /\ StandingDepthIsReal /\ EnvelopesInTime

\* In an active pool that is drawn somebody holds the cycle, and one seat only.
LEMMA HolderFacts ==
  ASSUME RotationInv, pool.status = "Active", order # Undrawn
  PROVE  /\ Holder \in Seats /\ order[Holder] = pool.current_cycle
         /\ \A t \in Seats : order[t] = pool.current_cycle => t = Holder
         /\ order \in [Seats -> Cycles] /\ order \in DrawOrders
         /\ pool.current_cycle \in Cycles /\ Served = pool.current_cycle
<1>1. order \in DrawOrders /\ pool.current_cycle \in Cycles
  BY DEF RotationInv, TurnInv, OrderDrawn, TypeOK, PoolRecord
<1>2. order \in [Seats -> Cycles] /\ \A s, t \in Seats : order[s] = order[t] => s = t
  BY <1>1, DrawOrderFacts
<1>3. \E h \in Seats : order[h] = pool.current_cycle
  BY <1>1 DEF DrawOrders, Bijection, Surjection
<1>4. Holder \in Seats /\ order[Holder] = pool.current_cycle
  BY <1>3 DEF Holder
<1> QED BY <1>1, <1>2, <1>4 DEF Served

\* A bid that wins exchanges the turns of two seats nobody has paid.
LEMMA SwapFacts ==
  ASSUME RotationInv, NEW s \in Seats, Bidder(s), NEW depth \in Nat, WinsCycle(s, depth)
  PROVE  /\ Holder # s /\ Swapped(s) \in DrawOrders
         /\ Swapped(s) = [order EXCEPT ![s] = order[Holder], ![Holder] = order[s]]
         /\ Swapped(s)[s] = pool.current_cycle
         /\ Swapped(s)[Holder] = order[s] /\ order[s] > pool.current_cycle
         /\ \A t \in Seats \ {s, Holder} : Swapped(s)[t] = order[t]
         /\ ~member[s].paid_out /\ ~member[Holder].paid_out
<1> DEFINE h == Holder
<1>1. /\ pool.status = "Active" /\ order # Undrawn /\ order[s] > pool.current_cycle
      /\ ~member[s].paid_out
  BY DEF Bidder, WinsCycle
<1>2. /\ h \in Seats /\ order[h] = pool.current_cycle
      /\ order \in [Seats -> Cycles] /\ order \in DrawOrders
      /\ pool.current_cycle \in Nat /\ Served = pool.current_cycle
  BY <1>1, HolderFacts, Constants DEF Cycles
<1>3. h # s
  BY <1>1, <1>2
<1> HIDE DEF h
<1>4. /\ Swapped(s) = [order EXCEPT ![s] = pool.current_cycle, ![h] = order[s]]
      /\ Swapped(s) = [order EXCEPT ![s] = order[h], ![h] = order[s]]
  BY <1>2 DEF Swapped, h
<1>5. /\ Swapped(s)[s] = pool.current_cycle /\ Swapped(s)[h] = order[s]
      /\ \A t \in Seats \ {s, h} : Swapped(s)[t] = order[t]
      /\ Swapped(s) \in [Seats -> Cycles]
  BY <1>2, <1>3, <1>4
<1>6. Swapped(s) \in DrawOrders
  <2>1. \A t, u \in Seats : order[t] = order[u] => t = u
    BY <1>2, DrawOrderFacts
  <2>2. \A t, u \in Seats : Swapped(s)[t] = Swapped(s)[u] => t = u
    BY <1>2, <1>5, <2>1
  <2>3. ASSUME NEW c \in Cycles PROVE \E t \in Seats : Swapped(s)[t] = c
    <3>1. PICK t \in Seats : order[t] = c
      BY <1>2 DEF DrawOrders, Bijection, Surjection
    <3>2. CASE t = s
      BY <1>2, <1>5, <3>1, <3>2
    <3>3. CASE t = h
      BY <1>2, <1>5, <3>1, <3>3
    <3>4. CASE t \notin {s, h}
      BY <1>5, <3>1, <3>4
    <3> QED BY <3>2, <3>3, <3>4
  <2> QED BY <1>5, <2>2, <2>3 DEF DrawOrders, Bijection, Injection, Surjection, IsInjective
<1>7. ~member[h].paid_out
  BY <1>2 DEF RotationInv, TurnInv, ServedInOrder
<1> QED BY <1>1, <1>3, <1>4, <1>5, <1>6, <1>7 DEF h

\* So the turns stay served in order, and the roster is as it was.
LEMMA SwapTurns ==
  ASSUME RotationInv, NEW s \in Seats, Bidder(s), NEW depth \in Nat, WinsCycle(s, depth),
         order' = Swapped(s), TypeOK', memberPdas' = memberPdas,
         pool'.status = pool.status, pool'.current_cycle = pool.current_cycle,
         pool'.slots = pool.slots,
         \A t \in Seats : /\ member'[t].paid_out = member[t].paid_out
                          /\ member'[t].defaulted = member[t].defaulted
  PROVE  RotationInv'
<1> DEFINE h == Holder
<1>0. /\ pool.status = "Active" /\ order # Undrawn
      /\ ~member[s].paid_out /\ ~member[h].paid_out
      /\ order' \in DrawOrders
      /\ order'[s] = pool.current_cycle /\ order'[h] = order[s]
      /\ order[s] > pool.current_cycle /\ h # s
      /\ \A t \in Seats \ {s, h} : order'[t] = order[t]
  BY SwapFacts DEF Bidder, WinsCycle
<1>1. /\ h \in Seats /\ order[h] = pool.current_cycle /\ pool.current_cycle \in Nat
      /\ order \in [Seats -> Cycles] /\ Served = pool.current_cycle /\ Served' = Served
  BY <1>0, HolderFacts, Constants DEF Cycles, Served
<1> HIDE DEF h
<1>2. OrderDrawn'
  <2>1. order' # Undrawn /\ Undrawn' = Undrawn /\ DrawOrders' = DrawOrders
    BY <1>0, DrawOrderFacts DEF Undrawn, DrawOrders
  <2> QED BY <1>0, <2>1 DEF OrderDrawn
<1>3. ServedInOrder'
  <2> SUFFICES ASSUME NEW t \in Seats
               PROVE  /\ member[t].paid_out => order'[t] < Served
                      /\ order'[t] < Served => member[t].paid_out \/ member[t].defaulted
    BY <1>1 DEF ServedInOrder
  <2>1. /\ member[t].paid_out => order[t] < Served
        /\ order[t] < Served => member[t].paid_out \/ member[t].defaulted
    BY DEF RotationInv, TurnInv, ServedInOrder
  <2>2. CASE t \in {s, h}
    <3>1. order[s] \in Nat
      BY <1>1, Constants DEF Cycles
    <3> QED BY <1>0, <1>1, <2>2, <3>1
  <2>3. CASE t \notin {s, h}
    BY <1>0, <2>1, <2>3
  <2> QED BY <2>2, <2>3
<1>4. SeatsTaken' /\ RosterInv'
  BY <1>0 DEF RotationInv, SeatsTaken, RosterInv
<1> QED BY <1>2, <1>3, <1>4 DEF RotationInv, TurnInv

----------------------------------------------------------------------------
(* Bids: the handlers of the pool.                                         *)

LEMMA BidTypes ==
  ASSUME BidInv
  PROVE  /\ pool \in PoolRecord /\ member \in [Seats -> MemberRecord]
         /\ pool.current_cycle \in Nat /\ pool.next_cycle_at \in Nat /\ now \in Nat
         /\ pool.current_bid_depth \in Nat
<1>1. /\ pool \in PoolRecord /\ member \in [Seats -> MemberRecord] /\ now \in Nat
  BY DEF BidInv, RotationInv, TurnInv, TypeOK
<1> QED BY <1>1, Constants DEF PoolRecord, Cycles

LEMMA NoDepth ==
  ASSUME pool'.current_bid_depth = 0 PROVE DepthAtRest' /\ StandingDepthIsReal'
BY DEF DepthAtRest, StandingDepthIsReal

\* A handler that leaves the cycle and its holder alone.
LEMMA DepthKept ==
  ASSUME BidInv, order' = order, pool'.status = pool.status,
         pool'.current_cycle = pool.current_cycle,
         pool'.current_bid_depth = pool.current_bid_depth,
         memberPdas' = memberPdas,
         \A t \in Seats : /\ member'[t].paid_out = member[t].paid_out
                          /\ member'[t].contributions_paid \in Nat
                          /\ member'[t].contributions_paid >= member[t].contributions_paid,
         \A t \in Seats : /\ member[t].contributions_paid >= pool.current_cycle
                          => member'[t].defaulted = member[t].defaulted
  PROVE  DepthAtRest' /\ StandingDepthIsReal'
<1>1. DepthAtRest'
  BY DEF BidInv, DepthAtRest, Undrawn
<1>2. StandingDepthIsReal'
  <2> SUFFICES ASSUME pool.status = "Active", pool.current_bid_depth > 0
               PROVE  /\ Depth(member'[Holder].contributions_paid) >= pool.current_bid_depth
                      /\ Holder \in memberPdas /\ ~member'[Holder].defaulted
                      /\ ~member'[Holder].paid_out
    BY DEF StandingDepthIsReal, Depth, Holder, Live
  <2>1. Holder \in Seats
    BY HolderFacts DEF BidInv, DepthAtRest
  <2>2. /\ Depth(member[Holder].contributions_paid) >= pool.current_bid_depth
        /\ Live(Holder) /\ ~member[Holder].paid_out
    BY DEF BidInv, StandingDepthIsReal
  <2>3. /\ member[Holder].contributions_paid \in Nat
        /\ pool.current_cycle \in Nat /\ pool.current_bid_depth \in Nat
    BY <2>1, BidTypes, Constants DEF MemberRecord
  <2>4. member[Holder].contributions_paid >= pool.current_cycle
    BY <2>2, <2>3 DEF Depth, SaturatingSub
  <2>5. Depth(member'[Holder].contributions_paid) >= Depth(member[Holder].contributions_paid)
    <3>1. /\ member'[Holder].contributions_paid \in Nat
          /\ member'[Holder].contributions_paid >= member[Holder].contributions_paid
      BY <2>1
    <3> QED BY <2>3, <3>1 DEF Depth, SaturatingSub
  <2>6. Depth(member'[Holder].contributions_paid) \in Nat
        /\ Depth(member[Holder].contributions_paid) \in Nat
    BY <2>1, <2>3 DEF Depth, SaturatingSub
  <2> QED BY <2>1, <2>2, <2>3, <2>4, <2>5, <2>6 DEF Live
<1> QED BY <1>1, <1>2

\* A handler under which no envelope of the cycle sees its deadline move.
LEMMA EnvelopesKept ==
  ASSUME BidInv, bids' = bids, pool'.status # "Forming", now' \in Nat, now' >= now,
         pool'.current_cycle \in Nat, pool'.current_cycle >= pool.current_cycle,
         order # Undrawn => order' # Undrawn,
         order # Undrawn /\ pool'.status = "Active" /\ pool'.current_cycle = pool.current_cycle
           => pool.status = "Active" /\ pool'.next_cycle_at = pool.next_cycle_at
  PROVE  EnvelopesInTime'
<1> SUFFICES ASSUME NEW b \in bids
             PROVE  /\ b.cycle <= pool'.current_cycle
                    /\ b.state = "Revealed" =>
                         /\ order' # Undrawn
                         /\ b.cycle = pool'.current_cycle /\ pool'.status = "Active"
                              => now' >= pool'.next_cycle_at
  BY DEF EnvelopesInTime, Undrawn
<1>1. /\ b.cycle <= pool.current_cycle
      /\ b.state = "Revealed" =>
           /\ order # Undrawn
           /\ b.cycle = pool.current_cycle /\ pool.status = "Active"
                => now >= pool.next_cycle_at
  BY DEF BidInv, EnvelopesInTime
<1>2. b.cycle \in Nat /\ pool.current_cycle \in Nat /\ pool.next_cycle_at \in Nat /\ now \in Nat
  BY BidTypes, Constants DEF BidInv, BidRecord, Cycles
<1> QED BY <1>1, <1>2

\* While the pool forms there is neither a bid nor a depth.
LEMMA NoBidsYet ==
  ASSUME BidInv, pool.status = "Forming" PROVE bids = {} /\ pool.current_bid_depth = 0
<1>1. bids = {}
  BY DEF BidInv, EnvelopesInTime
<1>2. pool.current_bid_depth = 0
  BY BidTypes DEF BidInv, DepthAtRest
<1> QED BY <1>1, <1>2

LEMMA TurnEnds ==
  ASSUME BidInv, bids' = bids, pool.status = "Active", now' = now, order' = order,
         pool'.status = AdvancedCycle(pool).status,
         pool'.current_cycle = AdvancedCycle(pool).current_cycle,
         pool'.current_bid_depth = AdvancedCycle(pool).current_bid_depth
  PROVE  DepthAtRest' /\ StandingDepthIsReal' /\ EnvelopesInTime'
<1>0. /\ pool \in PoolRecord /\ pool.current_cycle \in Nat /\ now \in Nat
  BY BidTypes
<1>1. /\ pool'.current_bid_depth = 0 /\ pool'.status # "Forming"
      /\ \/ pool'.status = "Completed" /\ pool'.current_cycle = pool.current_cycle
         \/ pool'.current_cycle = pool.current_cycle + 1
  BY <1>0 DEF AdvancedCycle, PoolRecord
<1>2. EnvelopesInTime'
  BY <1>0, <1>1, EnvelopesKept
<1> QED BY <1>1, <1>2, NoDepth

LEMMA NextBids ==
  ASSUME BidInv, [Next]_vars, bids' = bids
  PROVE  DepthAtRest' /\ StandingDepthIsReal' /\ EnvelopesInTime'
<1> DEFINE Goal == DepthAtRest' /\ StandingDepthIsReal' /\ EnvelopesInTime'
<1> SUFFICES Goal
  OBVIOUS
<1> HIDE DEF Goal
<1>0. /\ pool \in PoolRecord /\ member \in [Seats -> MemberRecord]
      /\ pool.current_cycle \in Nat /\ now \in Nat
  BY BidTypes
<1>q. ASSUME pool.status # "Forming", order' = order, pool'.status = pool.status,
             pool'.current_cycle = pool.current_cycle,
             pool'.next_cycle_at = pool.next_cycle_at,
             pool'.current_bid_depth = pool.current_bid_depth,
             memberPdas' = memberPdas, now' = now,
             \A t \in Seats : /\ member'[t].paid_out = member[t].paid_out
                              /\ member'[t].contributions_paid \in Nat
                              /\ member'[t].contributions_paid
                                   >= member[t].contributions_paid,
             \A t \in Seats : /\ member[t].contributions_paid >= pool.current_cycle
                              => member'[t].defaulted = member[t].defaulted
      PROVE  Goal
  <2>1. EnvelopesInTime'
    BY <1>0, <1>q, EnvelopesKept
  <2> QED BY <1>q, <2>1, DepthKept DEF Goal
<1>1. ASSUME NEW s \in Seats, NEW level \in Levels, JoinPool(s, level) PROVE Goal
  <2>1. bids' = {} /\ pool'.current_bid_depth = 0
    BY <1>0, <1>1, NoBidsYet DEF JoinPool, PoolRecord
  <2> QED BY <2>1, NoDepth DEF Goal, EnvelopesInTime
<1>2. CASE FinalizeDraw
  <2>1. /\ order = Undrawn /\ pool'.status = "Active" /\ now' = now
        /\ pool'.current_cycle = pool.current_cycle
        /\ pool'.current_bid_depth = pool.current_bid_depth
    BY <1>0, <1>2 DEF FinalizeDraw, NotDrawn, PoolRecord
  <2>2. pool'.current_bid_depth = 0
    BY <2>1, BidTypes DEF BidInv, DepthAtRest
  <2> QED BY <1>0, <2>1, <2>2, NoDepth, EnvelopesKept DEF Goal
<1>3. ASSUME NEW s \in Seats, Contribute(s) PROVE Goal
  <2>1. /\ pool.status = "Active" /\ pool'.status = pool.status /\ order' = order
        /\ pool'.current_cycle = pool.current_cycle
        /\ pool'.next_cycle_at = pool.next_cycle_at
        /\ pool'.current_bid_depth = pool.current_bid_depth
        /\ memberPdas' = memberPdas /\ now' = now
    BY <1>0, <1>3 DEF Contribute, PoolRecord
  <2>2. /\ member'[s].paid_out = member[s].paid_out
        /\ member'[s].contributions_paid = member[s].contributions_paid + 1
        /\ member'[s].defaulted = member[s].defaulted
        /\ \A t \in Seats \ {s} : member'[t] = member[t]
    BY <1>0, <1>3 DEF Contribute, MemberRecord
  <2>3. \A t \in Seats : member[t].contributions_paid \in Nat
    BY <1>0, Constants DEF MemberRecord
  <2>4. ASSUME NEW t \in Seats
        PROVE  /\ member'[t].paid_out = member[t].paid_out
               /\ member'[t].contributions_paid \in Nat
               /\ member'[t].contributions_paid >= member[t].contributions_paid
               /\ member'[t].defaulted = member[t].defaulted
    <3>1. CASE t = s
      BY <2>2, <2>3, <3>1
    <3>2. CASE t # s
      BY <2>2, <2>3, <3>2
    <3> QED BY <3>1, <3>2
  <2> QED BY <1>q, <2>1, <2>4
<1>4. ASSUME NEW s \in Seats, Payable(s), PayOut(s) PROVE Goal
  <2>1. /\ pool.status = "Active" /\ now' = now /\ order' = order
        /\ pool'.status = AdvancedCycle(pool).status
        /\ pool'.current_cycle = AdvancedCycle(pool).current_cycle
        /\ pool'.current_bid_depth = AdvancedCycle(pool).current_bid_depth
    BY <1>0, <1>4 DEF Payable, PayOut, AdvancedCycle, PoolRecord
  <2> QED BY <2>1, TurnEnds DEF Goal
<1>5. ASSUME NEW s \in Seats, SkipDefaultedPayout(s) PROVE Goal
  BY <1>5, TurnEnds DEF SkipDefaultedPayout, Goal
<1>6. ASSUME NEW s \in Seats, SettleDefault(s) PROVE Goal
  <2>1. /\ pool.status = "Active" /\ pool'.status = pool.status /\ order' = order
        /\ pool'.current_cycle = pool.current_cycle
        /\ pool'.next_cycle_at = pool.next_cycle_at
        /\ pool'.current_bid_depth = pool.current_bid_depth
        /\ memberPdas' = memberPdas /\ now' = now
    BY <1>0, <1>6 DEF SettleDefault, SeizureBooked, PoolRecord
  <2>2. /\ member'[s].paid_out = member[s].paid_out
        /\ member'[s].contributions_paid = member[s].contributions_paid
        /\ \A t \in Seats \ {s} : member'[t] = member[t]
        /\ member[s].contributions_paid < pool.current_cycle
    BY <1>0, <1>6 DEF SettleDefault, Seized, Delinquent, MemberRecord
  <2>3. \A t \in Seats : member[t].contributions_paid \in Nat
    BY <1>0, Constants DEF MemberRecord
  <2>4. ASSUME NEW t \in Seats
        PROVE  /\ member'[t].paid_out = member[t].paid_out
               /\ member'[t].contributions_paid \in Nat
               /\ member'[t].contributions_paid >= member[t].contributions_paid
               /\ member[t].contributions_paid >= pool.current_cycle
                    => member'[t].defaulted = member[t].defaulted
    <3>1. CASE t = s
      BY <1>0, <2>2, <2>3, <3>1
    <3>2. CASE t # s
      BY <2>2, <2>3, <3>2
    <3> QED BY <3>1, <3>2
  <2> QED BY <1>q, <2>1, <2>4
<1>7. ASSUME NEW s \in Seats, NEW checkpoint \in 1 .. CyclesTotal,
             ReleaseEscrow(s, checkpoint)
      PROVE  Goal
  <2>1. /\ pool'.status = pool.status /\ order' = order
        /\ pool'.current_cycle = pool.current_cycle
        /\ pool'.next_cycle_at = pool.next_cycle_at
        /\ pool'.current_bid_depth = pool.current_bid_depth
        /\ memberPdas' = memberPdas /\ now' = now
    BY <1>0, <1>7 DEF ReleaseEscrow, PoolRecord
  <2>2. \A t \in Seats : /\ member'[t].paid_out = member[t].paid_out
                         /\ member'[t].contributions_paid = member[t].contributions_paid
                         /\ member'[t].defaulted = member[t].defaulted
    BY <1>0, <1>7 DEF ReleaseEscrow, MemberRecord
  <2>3. \A t \in Seats : member[t].contributions_paid \in Nat
    BY <1>0, Constants DEF MemberRecord
  <2>4. CASE pool.status = "Forming"
    <3>1. bids' = {} /\ pool'.current_bid_depth = 0
      BY <2>1, <2>4, NoBidsYet
    <3> QED BY <3>1, NoDepth DEF Goal, EnvelopesInTime
  <2>5. CASE pool.status # "Forming"
    <3>1. \A t \in Seats : /\ member'[t].paid_out = member[t].paid_out
                           /\ member'[t].contributions_paid \in Nat
                           /\ member'[t].contributions_paid
                                >= member[t].contributions_paid
      BY <2>2, <2>3
    <3> QED BY <1>q, <2>1, <2>2, <2>5, <3>1
  <2> QED BY <2>4, <2>5
<1>8. CASE Pause \/ Tick \/ UNCHANGED vars
  <2>1. /\ pool' = pool /\ order' = order /\ memberPdas' = memberPdas /\ member' = member
        /\ now' \in {now, now + 1}
    BY <1>8 DEF Pause, Tick, vars
  <2>2. \A t \in Seats : member[t].contributions_paid \in Nat
    BY <1>0, Constants DEF MemberRecord
  <2>3. DepthAtRest' /\ StandingDepthIsReal'
    BY <2>1, <2>2, DepthKept
  <2>4. CASE pool.status = "Forming"
    <3>1. bids' = {}
      BY <2>4, NoBidsYet
    <3> QED BY <2>3, <3>1 DEF Goal, EnvelopesInTime
  <2>5. CASE pool.status # "Forming"
    BY <1>0, <2>1, <2>3, <2>5, EnvelopesKept DEF Goal
  <2> QED BY <2>4, <2>5
<1>9. CASE ClosePool \/ ClosePoolVaults \/ \E s \in Seats : CloseMember(s)
  <2>1. /\ pool.status \in {"Completed", "Closed"} /\ order' = order /\ now' = now
        /\ pool'.status \in {"Closed", "Gone"}
        /\ pool'.current_cycle = pool.current_cycle
        /\ pool'.current_bid_depth = pool.current_bid_depth
    BY <1>0, <1>9 DEF ClosePool, ClosePoolVaults, CloseMember, PoolRecord
  <2>2. pool'.current_bid_depth = 0
    BY <2>1, BidTypes DEF BidInv, DepthAtRest
  <2> QED BY <1>0, <2>1, <2>2, NoDepth, EnvelopesKept DEF Goal
<1> QED BY <1>1, <1>2, <1>3, <1>4, <1>5, <1>6, <1>7, <1>8, <1>9
        DEF Next, ClaimPayout, CrankPayout

----------------------------------------------------------------------------
(* Bids: the three ways to place one.                                      *)

LEMMA BidPlace ==
  ASSUME NEW s \in Seats, NEW o, o[s] = pool'.current_cycle, order' = o,
         \A t \in Seats : o[t] = pool'.current_cycle => t = s
  PROVE  Holder' = s
BY DEF Holder, Seats

\* A bid that wins leaves its own depth to beat.
LEMMA WinnerStands ==
  ASSUME BidInv, NEW s \in Seats, Bidder(s), NEW depth \in Nat, WinsCycle(s, depth),
         order' = Swapped(s), pool'.current_bid_depth = depth,
         pool'.status = pool.status, pool'.current_cycle = pool.current_cycle,
         memberPdas' = memberPdas, depth = Depth(member'[s].contributions_paid),
         member'[s].defaulted = member[s].defaulted, member'[s].paid_out = member[s].paid_out
  PROVE  DepthAtRest' /\ StandingDepthIsReal'
<1>1. /\ pool.status = "Active" /\ order # Undrawn /\ Live(s) /\ ~member[s].paid_out
  BY DEF Bidder, WinsCycle
<1>2. RotationInv
  BY DEF BidInv
<1>3. order' \in DrawOrders /\ order'[s] = pool.current_cycle
  BY <1>2, SwapFacts
<1>4. \A t \in Seats : order'[t] = pool.current_cycle => t = s
  BY <1>3, DrawOrderFacts
<1>5. Holder' = s
  BY <1>3, <1>4, BidPlace
<1>6. DepthAtRest'
  BY <1>1, <1>3, DrawOrderFacts DEF DepthAtRest, Undrawn
<1>7. StandingDepthIsReal'
  BY <1>1, <1>5 DEF StandingDepthIsReal, Live, Depth
<1> QED BY <1>6, <1>7

LEMMA SwapType ==
  ASSUME RotationInv, NEW s \in Seats, Bidder(s), NEW depth \in Nat, WinsCycle(s, depth),
         order' = Swapped(s)
  PROVE  order' \in [Seats -> 0 .. CyclesTotal]
<1>1. order' \in [Seats -> Cycles]
  BY SwapFacts, DrawOrderFacts
<1> QED BY <1>1, Constants DEF Cycles

LEMMA EmbeddedBid ==
  ASSUME BidInv, NEW s \in Seats, PlaceEmbeddedBid(s)
  PROVE  BidInv' /\ order' = Swapped(s) /\ BiddingOpen
<1> DEFINE depth == Depth(member[s].contributions_paid)
<1>0. /\ pool \in PoolRecord /\ member \in [Seats -> MemberRecord]
      /\ pool.current_cycle \in Nat /\ now \in Nat
  BY BidTypes
<1>1. depth \in Nat
  <2>1. member[s].contributions_paid \in Nat
    BY <1>0, Constants DEF MemberRecord
  <2> QED BY <1>0, <2>1 DEF Depth, SaturatingSub
<1>2. /\ RotationInv /\ Bidder(s) /\ WinsCycle(s, depth) /\ BiddingOpen
      /\ order' = Swapped(s) /\ pool' = [pool EXCEPT !.current_bid_depth = depth]
      /\ UNCHANGED <<config, member, memberPdas, vault, wallet, treasury, attestations,
                     now, bids>>
  BY DEF PlaceEmbeddedBid, MayPlaceBid, BidInv, money
<1> HIDE DEF depth
<1>3. TypeOK'
  <2>1. pool' \in PoolRecord
    BY <1>0, <1>1, <1>2 DEF PoolRecord
  <2> QED BY <1>1, <1>2, <2>1, SwapType DEF RotationInv, TurnInv, TypeOK
<1>4. /\ pool'.status = pool.status /\ pool'.current_cycle = pool.current_cycle
      /\ pool'.slots = pool.slots /\ pool'.current_bid_depth = depth
      /\ pool'.next_cycle_at = pool.next_cycle_at
  BY <1>0, <1>2 DEF PoolRecord
<1>5. RotationInv'
  BY <1>1, <1>2, <1>3, <1>4, SwapTurns
<1>6. DepthAtRest' /\ StandingDepthIsReal'
  <2>1. depth = Depth(member'[s].contributions_paid)
    BY <1>2 DEF depth
  <2> QED BY <1>1, <1>2, <1>4, <2>1, WinnerStands
<1>7. EnvelopesInTime'
  <2>1. pool.status = "Active" /\ order' # Undrawn
    BY <1>1, <1>2, SwapFacts, DrawOrderFacts DEF Bidder
  <2> QED BY <1>0, <1>2, <1>4, <2>1, EnvelopesKept
<1>8. bids' \in SUBSET BidRecord'
  BY <1>2 DEF BidInv, BidRecord
<1> QED BY <1>2, <1>5, <1>6, <1>7, <1>8 DEF BidInv

LEMMA CommitBid ==
  ASSUME BidInv, NEW s \in Seats, NEW parcels \in Nat, PlaceBidCommit(s, parcels)
  PROVE  BidInv' /\ order' = order
<1>1. /\ UNCHANGED vars /\ pool.status = "Active"
      /\ bids' = bids \cup {Envelope(pool.current_cycle, s, parcels)}
  BY DEF PlaceBidCommit, MayCommit, Bidder
<1>2. Envelope(pool.current_cycle, s, parcels) \in BidRecord
  BY DEF BidInv, RotationInv, TurnInv, TypeOK, PoolRecord, Envelope, BidRecord
<1>3. RotationInv' /\ DepthAtRest' /\ StandingDepthIsReal'
  BY <1>1 DEF BidInv, vars, RotationInv, TurnInv, TypeOK, OrderDrawn, Served, ServedInOrder,
              SeatsTaken, RosterInv, DepthAtRest, StandingDepthIsReal, Holder, Live, Depth
<1>4. EnvelopesInTime'
  <2>1. \A b \in bids' : b \in bids \/ b = Envelope(pool.current_cycle, s, parcels)
    BY <1>1
  <2>2. pool.current_cycle <= pool.current_cycle
    BY BidTypes
  <2>3. \A b \in bids' :
          /\ b.cycle <= pool.current_cycle
          /\ b.state = "Revealed" =>
               /\ order # Undrawn
               /\ b.cycle = pool.current_cycle /\ pool.status = "Active"
                    => now >= pool.next_cycle_at
    BY <2>1, <2>2 DEF BidInv, EnvelopesInTime, Envelope
  <2> QED BY <1>1, <2>3 DEF EnvelopesInTime, vars, Undrawn
<1>5. bids' \in SUBSET BidRecord'
  BY <1>1, <1>2 DEF BidInv, BidRecord
<1> QED BY <1>1, <1>3, <1>4, <1>5 DEF BidInv, vars

LEMMA ParcelsNat ==
  ASSUME NEW k \in Nat
  PROVE  /\ k * Split.solidarity \in Nat /\ k * Split.escrow \in Nat /\ k * Split.pool \in Nat
         /\ k * (Split.solidarity + Split.escrow + Split.pool) = k * InstallmentAmount
         /\ k * InstallmentAmount \in Nat
<1>1. /\ Split.solidarity \in Nat /\ Split.escrow \in Nat /\ Split.pool \in Nat
      /\ Split.solidarity + Split.escrow + Split.pool = InstallmentAmount
  BY SplitType
<1>2. ASSUME NEW x \in Nat PROVE k * x \in Nat
  OBVIOUS
<1> QED BY <1>1, <1>2, Constants

LEMMA RevealType ==
  ASSUME BidInv, NEW b \in bids, PlaceBidReveal(b)
  PROVE  /\ TypeOK' /\ b.bidder \in Seats
         /\ Depth(member[b.bidder].contributions_paid + b.parcels) \in Nat
         /\ pool.current_cycle + 1 <= member[b.bidder].contributions_paid + b.parcels
<1> DEFINE s == b.bidder
           k == b.parcels
           m == member[s]
           paid == m.contributions_paid + k
           sol == k * Split.solidarity
           esc == k * Split.escrow
           flt == k * Split.pool
<1>0. /\ TypeOK /\ pool \in PoolRecord /\ member \in [Seats -> MemberRecord]
      /\ pool.current_cycle \in Nat /\ s \in Seats /\ k \in Nat /\ m \in MemberRecord
  BY BidTypes DEF BidInv, RotationInv, TurnInv, BidRecord
<1>1. /\ m.contributions_paid \in Nat /\ paid \in Nat /\ paid <= CyclesTotal
      /\ pool.current_cycle + 1 <= paid /\ Depth(paid) \in Nat
  <2>1. /\ m.contributions_paid \in Nat /\ m.contributions_paid >= pool.current_cycle + 1
        /\ paid <= CyclesTotal
    BY <1>0, Constants DEF PlaceBidReveal, MayReveal, MemberRecord
  <2> QED BY <1>0, <2>1 DEF Depth, SaturatingSub
<1>2. /\ sol \in Nat /\ esc \in Nat /\ flt \in Nat
      /\ k * (Split.solidarity + Split.escrow + Split.pool) = k * InstallmentAmount
      /\ k * InstallmentAmount \in Nat
  BY <1>0, ParcelsNat
<1>3. wallet' \in [Seats -> Nat]
  <2>1. wallet' = [wallet EXCEPT ![s] = wallet[s] - k * InstallmentAmount]
    BY <1>2 DEF PlaceBidReveal, MayReveal
  <2>2. wallet[s] \in Nat /\ wallet[s] >= k * InstallmentAmount
    BY <1>0 DEF PlaceBidReveal, MayReveal, TypeOK
  <2> HIDE DEF k
  <2>3. wallet[s] - k * InstallmentAmount \in Nat
    BY <1>2, <2>2
  <2> QED BY <1>0, <2>1, <2>3 DEF TypeOK
<1>4. vault' \in [pool_usdc : Nat, escrow : Nat, solidarity : Nat]
  <2>1. vault' = [vault EXCEPT !.solidarity = vault.solidarity + sol,
                               !.escrow = vault.escrow + esc,
                               !.pool_usdc = vault.pool_usdc + flt]
    BY DEF PlaceBidReveal, MayReveal
  <2> HIDE DEF sol, esc, flt
  <2>2. /\ vault.solidarity + sol \in Nat /\ vault.escrow + esc \in Nat
        /\ vault.pool_usdc + flt \in Nat
        /\ vault \in [pool_usdc : Nat, escrow : Nat, solidarity : Nat]
    BY <1>0, <1>2 DEF TypeOK
  <2> QED BY <2>1, <2>2
<1>5. member' \in [Seats -> MemberRecord]
  <2>1. member' = [member EXCEPT ![s] =
          [m EXCEPT !.contributions_paid = paid, !.on_time_count = m.on_time_count + k,
                    !.escrow_balance = m.escrow_balance + esc,
                    !.total_escrow_deposited = m.total_escrow_deposited + esc]]
    BY DEF PlaceBidReveal, MayReveal, Prepaid
  <2>2. /\ paid \in 0 .. CyclesTotal /\ m.on_time_count + k \in Nat
        /\ m.escrow_balance + esc \in Nat /\ m.total_escrow_deposited + esc \in Nat
    <3> HIDE DEF esc, paid
    <3> QED BY <1>0, <1>1, <1>2, Constants DEF MemberRecord
  <2> HIDE DEF m, paid, esc, s, k
  <2>3. [m EXCEPT !.contributions_paid = paid, !.on_time_count = m.on_time_count + k,
                  !.escrow_balance = m.escrow_balance + esc,
                  !.total_escrow_deposited = m.total_escrow_deposited + esc]
          \in MemberRecord
    BY <1>0, <2>2 DEF MemberRecord
  <2> QED BY <1>0, <2>1, <2>3
<1>6. pool' \in PoolRecord
  <2>1. pool' = [pool EXCEPT !.current_bid_depth = Depth(paid),
                   !.total_contributed = pool.total_contributed + k * InstallmentAmount,
                   !.solidarity_balance = pool.solidarity_balance + sol,
                   !.escrow_balance = pool.escrow_balance + esc]
    BY DEF PlaceBidReveal, MayReveal
  <2> HIDE DEF paid, sol, esc, k
  <2>2. /\ pool.total_contributed + k * InstallmentAmount \in Nat
        /\ pool.solidarity_balance + sol \in Nat /\ pool.escrow_balance + esc \in Nat
    BY <1>0, <1>2 DEF PoolRecord
  <2> QED BY <1>0, <1>1, <2>1, <2>2 DEF PoolRecord
<1>7. attestations' \in SUBSET AttestationRecord
  <2>1. attestations' = attestations \cup
          {Attestation(IF paid = CyclesTotal THEN "POOL_COMPLETE" ELSE "PAYMENT", paid - 1, s)}
    BY DEF PlaceBidReveal, MayReveal, Attest
  <2>2. paid - 1 \in Cycles
    <3> HIDE DEF paid
    <3> QED BY <1>0, <1>1, Constants DEF Cycles
  <2> HIDE DEF paid, s
  <2> QED BY <1>0, <2>1, <2>2 DEF TypeOK, Attestation, AttestationRecord, Schema
<1>8. order' \in [Seats -> 0 .. CyclesTotal]
  BY <1>0, <1>1, SwapType DEF PlaceBidReveal, MayReveal, BidInv
<1>9. TypeOK'
  BY <1>0, <1>3, <1>4, <1>5, <1>6, <1>7, <1>8 DEF PlaceBidReveal, MayReveal, TypeOK
<1> QED BY <1>0, <1>1, <1>9

LEMMA RevealBid ==
  ASSUME BidInv, NEW b \in bids, PlaceBidReveal(b)
  PROVE  BidInv' /\ order' = Swapped(b.bidder)
<1> DEFINE s == b.bidder
           paid == member[s].contributions_paid + b.parcels
           depth == Depth(paid)
<1>0. /\ pool \in PoolRecord /\ member \in [Seats -> MemberRecord]
      /\ pool.current_cycle \in Nat /\ now \in Nat /\ RotationInv
  BY BidTypes DEF BidInv
<1>1. /\ TypeOK' /\ s \in Seats /\ depth \in Nat
  BY RevealType
<1>2. /\ Bidder(s) /\ WinsCycle(s, depth) /\ RevealOpen /\ order' = Swapped(s)
      /\ memberPdas' = memberPdas /\ now' = now
      /\ b.state = "Committed" /\ b.cycle = pool.current_cycle
      /\ bids' = (bids \ {b}) \cup {Opened(b)}
  BY DEF PlaceBidReveal, MayReveal
<1>3. /\ pool'.status = pool.status /\ pool'.current_cycle = pool.current_cycle
      /\ pool'.slots = pool.slots /\ pool'.current_bid_depth = depth
      /\ pool'.next_cycle_at = pool.next_cycle_at
  BY <1>0 DEF PlaceBidReveal, MayReveal, PoolRecord
<1>4. /\ member'[s].paid_out = member[s].paid_out
      /\ member'[s].defaulted = member[s].defaulted
      /\ member'[s].contributions_paid = paid
      /\ \A t \in Seats \ {s} : member'[t] = member[t]
  BY <1>0, <1>1 DEF PlaceBidReveal, MayReveal, Prepaid, MemberRecord
<1> HIDE DEF s, paid, depth
<1>5. RotationInv'
  <2>1. \A t \in Seats : /\ member'[t].paid_out = member[t].paid_out
                         /\ member'[t].defaulted = member[t].defaulted
    BY <1>4
  <2> QED BY <1>0, <1>1, <1>2, <1>3, <2>1, SwapTurns
<1>6. DepthAtRest' /\ StandingDepthIsReal'
  <2>1. depth = Depth(member'[s].contributions_paid)
    BY <1>4 DEF depth
  <2> QED BY <1>1, <1>2, <1>3, <1>4, <2>1, WinnerStands
<1>7. EnvelopesInTime'
  <2>1. pool.status = "Active" /\ order' # Undrawn /\ now >= pool.next_cycle_at
    BY <1>0, <1>1, <1>2, SwapFacts, DrawOrderFacts DEF Bidder, RevealOpen
  <2>2. \A c \in bids' : c \in bids \/ (c.cycle = pool.current_cycle)
    BY <1>2 DEF Opened, BidInv, BidRecord
  <2>3. \A c \in bids' :
          /\ c.cycle <= pool.current_cycle
          /\ c.cycle = pool.current_cycle /\ pool.status = "Active" =>
               now >= pool.next_cycle_at
    BY <1>0, <2>1, <2>2 DEF BidInv, EnvelopesInTime
  <2> QED BY <1>2, <1>3, <2>1, <2>3 DEF EnvelopesInTime, Undrawn
<1>8. bids' \in SUBSET BidRecord'
  BY <1>2 DEF BidInv, BidRecord, Opened
<1> QED BY <1>2, <1>5, <1>6, <1>7, <1>8 DEF BidInv, s

LEMMA NextBidInv == BidInv /\ [BidsNext]_bidVars => BidInv'
<1> SUFFICES ASSUME BidInv, [BidsNext]_bidVars PROVE BidInv'
  OBVIOUS
<1>1. ASSUME [Next]_vars, bids' = bids PROVE BidInv'
  <2>1. RotationInv'
    BY <1>1, NextRoster DEF BidInv
  <2>2. bids' \in SUBSET BidRecord'
    BY <1>1 DEF BidInv, BidRecord
  <2> QED BY <1>1, <2>1, <2>2, NextBids DEF BidInv
<1>2. ASSUME NEW s \in Seats, PlaceEmbeddedBid(s) PROVE BidInv'
  BY <1>2, EmbeddedBid
<1>3. ASSUME NEW s \in Seats, NEW parcels \in 1 .. CyclesTotal - 1, PlaceBidCommit(s, parcels)
      PROVE  BidInv'
  BY <1>3, CommitBid, Constants
<1>4. ASSUME NEW b \in bids, PlaceBidReveal(b) PROVE BidInv'
  BY <1>4, RevealBid
<1> QED BY <1>1, <1>2, <1>3, <1>4 DEF BidsNext, BidStep, bidVars

LEMMA InitBids == BidsInit => BidInv
<1> SUFFICES ASSUME BidsInit PROVE BidInv
  OBVIOUS
<1>1. RotationInv
  BY InitRotation DEF BidsInit
<1> QED BY <1>1 DEF BidsInit, Init, BidInv, DepthAtRest, StandingDepthIsReal, EnvelopesInTime

\* Whoever holds a cycle has prepaid as deep as the depth to beat, in every pool
\* and whatever is paid, settled or bid in between.
THEOREM DepthIsReal == BidsSpec => []StandingDepthIsReal
<1>1. BidsSpec => []BidInv
  BY InitBids, NextBidInv, PTL DEF BidsSpec
<1>2. BidInv => StandingDepthIsReal
  BY DEF BidInv
<1> QED BY <1>1, <1>2, PTL

\* With bids, too, every seat is served once and in the turn it has by then.
THEOREM BidTurnsAreServed == BidsSpec => []ServedInOrder
<1>1. BidsSpec => []BidInv
  BY InitBids, NextBidInv, PTL DEF BidsSpec
<1>2. BidInv => ServedInOrder
  BY DEF BidInv, RotationInv, TurnInv
<1> QED BY <1>1, <1>2, PTL

\* The handlers of the pool leave a drawn order alone.
LEMMA OrderIsStill ==
  ASSUME RotationInv, [Next]_vars, order # Undrawn PROVE order' = order
<1> SUFFICES ASSUME order' # order PROVE FALSE
  OBVIOUS
<1>1. CASE FinalizeDraw
  BY <1>1 DEF FinalizeDraw, NotDrawn
<1>2. ASSUME NEW s \in Seats, NEW level \in Levels, JoinPool(s, level) PROVE FALSE
  BY <1>2, JoinRoster
<1> QED BY <1>1, <1>2, OrderChanges

LEMMA Exchange ==
  ASSUME RotationInv, NEW s \in Seats, Bidder(s), NEW depth \in Nat, WinsCycle(s, depth),
         order' = Swapped(s)
  PROVE  \E t, h \in Seats :
           /\ order[h] = pool.current_cycle /\ order[t] > pool.current_cycle
           /\ ~member[h].paid_out /\ ~member[t].paid_out
           /\ order' = [order EXCEPT ![t] = order[h], ![h] = order[t]]
<1>1. pool.status = "Active" /\ order # Undrawn
  BY DEF Bidder, WinsCycle
<1> QED BY <1>1, HolderFacts, SwapFacts

\* In every pool a drawn order only ever changes by an exchange of the current
\* turn and a later one, both unpaid.
THEOREM TurnsAreExchanged == BidsSpec => TurnsOnlyExchanged
<1>1. BidsSpec => []BidInv
  BY InitBids, NextBidInv, PTL DEF BidsSpec
<1> DEFINE Exchanged ==
      \E s, h \in Seats :
        /\ order[h] = pool.current_cycle /\ order[s] > pool.current_cycle
        /\ ~member[h].paid_out /\ ~member[s].paid_out
        /\ order' = [order EXCEPT ![s] = order[h], ![h] = order[s]]
<1>2. BidInv /\ [BidsNext]_bidVars
        => [order # Undrawn /\ order' # order => Exchanged]_bidVars
  <2> SUFFICES ASSUME BidInv, [BidsNext]_bidVars, order # Undrawn, order' # order
               PROVE  Exchanged
    OBVIOUS
  <2>0. RotationInv
    BY DEF BidInv
  <2>1. CASE Next \/ UNCHANGED bidVars
    BY <2>0, <2>1, OrderIsStill DEF bidVars, vars
  <2>2. ASSUME NEW s \in Seats, PlaceEmbeddedBid(s) PROVE Exchanged
    <3>1. Depth(member[s].contributions_paid) \in Nat
      BY BidTypes, Constants DEF MemberRecord, Depth, SaturatingSub
    <3> QED BY <2>0, <2>2, <3>1, Exchange DEF PlaceEmbeddedBid, MayPlaceBid
  <2>3. ASSUME NEW s \in Seats, NEW parcels \in 1 .. CyclesTotal - 1,
               PlaceBidCommit(s, parcels)
        PROVE  FALSE
    BY <2>3 DEF PlaceBidCommit, vars
  <2>4. ASSUME NEW b \in bids, PlaceBidReveal(b) PROVE Exchanged
    BY <2>0, <2>4, RevealType, Exchange DEF PlaceBidReveal, MayReveal
  <2> QED BY <2>1, <2>2, <2>3, <2>4 DEF BidsNext, BidStep
<1> QED BY <1>1, <1>2, PTL DEF BidsSpec, TurnsOnlyExchanged

\* Once an envelope is open the bids of its cycle are over, and the order moves
\* only for another that was sealed in time.
THEOREM RevealsAreFinal == BidsSpec => NobodyAnswersAReveal
<1>1. BidsSpec => []BidInv
  BY InitBids, NextBidInv, PTL DEF BidsSpec
<1> DEFINE Sealed == \E c \in bids : c.state = "Committed" /\ Opened(c) \in bids'
<1>2. BidInv /\ [BidsNext]_bidVars
        => [\A b \in bids : /\ b.state = "Revealed" /\ b.cycle = pool.current_cycle
                            /\ order' # order
                            => Sealed]_bidVars
  <2> SUFFICES ASSUME BidInv, [BidsNext]_bidVars, NEW b \in bids, b.state = "Revealed",
                      b.cycle = pool.current_cycle, order' # order
               PROVE  Sealed
    OBVIOUS
  <2>0. /\ RotationInv /\ order # Undrawn
        /\ pool.status = "Active" => now >= pool.next_cycle_at
    BY DEF BidInv, EnvelopesInTime
  <2>1. CASE Next \/ UNCHANGED bidVars
    BY <2>0, <2>1, OrderIsStill DEF bidVars, vars
  <2>2. ASSUME NEW s \in Seats, PlaceEmbeddedBid(s) PROVE FALSE
    BY <2>0, <2>2, BidTypes DEF PlaceEmbeddedBid, MayPlaceBid, Bidder, BiddingOpen
  <2>3. ASSUME NEW s \in Seats, NEW parcels \in 1 .. CyclesTotal - 1,
               PlaceBidCommit(s, parcels)
        PROVE  FALSE
    BY <2>3 DEF PlaceBidCommit, vars
  <2>4. ASSUME NEW c \in bids, PlaceBidReveal(c) PROVE Sealed
    BY <2>4 DEF PlaceBidReveal, MayReveal
  <2> QED BY <2>1, <2>2, <2>3, <2>4 DEF BidsNext, BidStep
<1> QED BY <1>1, <1>2, PTL DEF BidsSpec, NobodyAnswersAReveal

----------------------------------------------------------------------------
(* What the app says of bids.                                              *)

\* The rule of both programs: what is prepaid beyond the present installment, the
\* most it can be, and how many installments more make it win.
LEMMA BidNumbers ==
  ASSUME NEW total \in Nat, NEW paid \in 0 .. total, NEW cycle \in Nat, NEW standing \in Nat,
         NEW k \in 0 .. total - paid
  PROVE  /\ SaturatingSub(SaturatingSub(paid + k, cycle), 1) \in Nat
         /\ SaturatingSub(SaturatingSub(paid + k, cycle), 1) <= SaturatingSub(total, cycle + 1)
         /\ SaturatingSub(SaturatingSub(paid + k, cycle), 1) >= standing + 1
              <=> k >= SaturatingSub(cycle + 1, paid)
                         + SaturatingSub(standing + 1,
                             SaturatingSub(SaturatingSub(paid, cycle), 1))
<1>0. paid + k \in Nat /\ paid \in Nat /\ k \in Nat
  OBVIOUS
<1>1. PICK depth \in Nat : depth = SaturatingSub(SaturatingSub(paid + k, cycle), 1)
  BY <1>0, SaturatingSubNat
<1>2. depth = IF paid + k >= cycle + 1 THEN paid + k - cycle - 1 ELSE 0
  BY <1>1 DEF SaturatingSub
<1>3. SaturatingSub(SaturatingSub(paid, cycle), 1)
        = IF paid >= cycle + 1 THEN paid - cycle - 1 ELSE 0
  BY DEF SaturatingSub
<1>4. depth <= SaturatingSub(total, cycle + 1)
  BY <1>2 DEF SaturatingSub
<1>5. depth >= standing + 1
        <=> k >= SaturatingSub(cycle + 1, paid)
                   + SaturatingSub(standing + 1, SaturatingSub(SaturatingSub(paid, cycle), 1))
  <2>1. CASE paid >= cycle + 1
    BY <1>2, <1>3, <2>1 DEF SaturatingSub
  <2>2. CASE ~(paid >= cycle + 1)
    BY <1>2, <1>3, <2>2 DEF SaturatingSub
  <2> QED BY <2>1, <2>2
<1> QED BY <1>1, <1>4, <1>5

\* Anchor's init keeps one envelope for each cycle and bidder, and none is empty.
EnvelopesAreUnique ==
  /\ \A b \in bids : b.parcels >= 1
  /\ \A b, c \in bids : b.cycle = c.cycle /\ b.bidder = c.bidder => b = c

LanceInv == BidInv /\ EnvelopesAreUnique

LEMMA NextLance == LanceInv /\ [BidsNext]_bidVars => LanceInv'
<1> SUFFICES ASSUME LanceInv, [BidsNext]_bidVars PROVE EnvelopesAreUnique'
  BY NextBidInv DEF LanceInv
<1>1. CASE bids' = bids
  BY <1>1 DEF LanceInv, EnvelopesAreUnique
<1>2. ASSUME NEW s \in Seats, NEW parcels \in 1 .. CyclesTotal - 1, PlaceBidCommit(s, parcels)
      PROVE  EnvelopesAreUnique'
  <2>1. PICK new : new = Envelope(pool.current_cycle, s, parcels)
    OBVIOUS
  <2>2. /\ new.cycle = pool.current_cycle /\ new.bidder = s /\ new.parcels >= 1
    BY <2>1, Constants DEF Envelope
  <2>3. bids' = bids \cup {new} /\ \A b \in bids : ~(b.cycle = new.cycle /\ b.bidder = new.bidder)
    BY <1>2, <2>1, <2>2 DEF PlaceBidCommit, MayCommit
  <2> QED BY <2>2, <2>3 DEF LanceInv, EnvelopesAreUnique
<1>3. ASSUME NEW b \in bids, PlaceBidReveal(b)
      PROVE  EnvelopesAreUnique'
  <2>1. PICK new : new = Opened(b)
    OBVIOUS
  <2>2. b \in BidRecord
    BY DEF LanceInv, BidInv
  <2>3. new.cycle = b.cycle /\ new.bidder = b.bidder /\ new.parcels = b.parcels
    BY <2>1, <2>2 DEF Opened, BidRecord
  <2>4. bids' = (bids \ {b}) \cup {new}
    BY <1>3, <2>1 DEF PlaceBidReveal
  <2> QED BY <2>3, <2>4 DEF LanceInv, EnvelopesAreUnique
<1>4. ASSUME NEW s \in Seats, PlaceEmbeddedBid(s)
      PROVE  bids' = bids
  BY <1>4 DEF PlaceEmbeddedBid
<1> QED BY <1>1, <1>2, <1>3, <1>4 DEF BidsNext, BidStep, bidVars

\* What the proofs below need of a seat.
LEMMA SeatNumbers ==
  ASSUME BidInv, NEW s \in Seats
  PROVE  /\ CyclesTotal \in Nat /\ member[s].contributions_paid \in 0 .. CyclesTotal
         /\ pool.current_cycle \in Nat /\ pool.current_bid_depth \in Nat
         /\ pool.next_cycle_at \in Nat /\ now \in Nat
         /\ order[s] \in Nat /\ GraceDeadline \in Nat
<1>1. /\ pool \in PoolRecord /\ member \in [Seats -> MemberRecord]
      /\ pool.current_cycle \in Nat /\ pool.next_cycle_at \in Nat /\ now \in Nat
      /\ pool.current_bid_depth \in Nat
  BY BidTypes
<1>2. order \in [Seats -> 0 .. CyclesTotal]
  BY DEF BidInv, RotationInv, TurnInv, TypeOK
<1> QED BY <1>1, <1>2, Constants DEF MemberRecord, GraceDeadline

\* The depth of a seat that pays k installments more.
LEMMA DepthAfter ==
  ASSUME BidInv, NEW s \in Seats, NEW k \in 0 .. CyclesTotal - member[s].contributions_paid
  PROVE  /\ Depth(member[s].contributions_paid + k) \in Nat
         /\ Depth(member[s].contributions_paid + k) <= MaxDepth
         /\ Depth(member[s].contributions_paid + k) >= RequiredDepth
              <=> k >= Due(s) + PrepaysNeeded(s)
<1>1. PICK total \in Nat, paid \in Nat, cycle \in Nat, standing \in Nat :
        /\ paid \in 0 .. total /\ total = CyclesTotal /\ paid = member[s].contributions_paid
        /\ cycle = pool.current_cycle /\ standing = pool.current_bid_depth
  BY SeatNumbers
<1> QED BY <1>1, BidNumbers DEF Depth, MaxDepth, RequiredDepth, Due, PrepaysNeeded

\* What a winning bid is.
LEMMA WinsIs ==
  ASSUME BidInv, NEW s \in Seats, NEW depth \in Nat
  PROVE  WinsCycle(s, depth)
           <=> order # Undrawn /\ depth >= RequiredDepth /\ order[s] > pool.current_cycle
BY SeatNumbers DEF WinsCycle, RequiredDepth

\* A seat for which lance.ts gets past the checks that do not depend on the depth.
InTheAuction(s) ==
  /\ MayBid(s) /\ ~member[s].paid_out /\ order # Undrawn /\ order[s] > pool.current_cycle

LEMMA BidderIs ==
  ASSUME ~config.paused, NEW s
  PROVE  /\ Bidder(s) <=> MayBid(s) /\ ~member[s].paid_out
         /\ InTheAuction(s) <=> LanceStatus(s) \in {"windowClosed", "outOfRunway", "needsPrepay",
                                                    "ready"}
         /\ LanceStatus(s) \in {"notApplicable", "awaitingDraw", "contemplated"}
              <=> ~InTheAuction(s)
BY DEF Bidder, MayBid, InTheAuction, LanceStatus, HasTurnAhead

LEMMA StatusIsSound ==
  ASSUME BidInv, ~config.paused, NEW s \in Seats
  PROVE  /\ LanceStatus(s) = "ready" <=> MayPlaceBid(s)
         /\ LanceStatus(s) = "needsPrepay" =>
              \A k \in 0 .. CyclesTotal - member[s].contributions_paid :
                LandsAfter(s, k) <=> k >= Due(s) + PrepaysNeeded(s)
         /\ LanceStatus(s) = "outOfRunway" =>
              \A k \in 0 .. CyclesTotal - member[s].contributions_paid : ~LandsAfter(s, k)
<1>1. /\ CyclesTotal \in Nat /\ member[s].contributions_paid \in 0 .. CyclesTotal
      /\ pool.next_cycle_at \in Nat /\ now \in Nat
      /\ 0 \in 0 .. CyclesTotal - member[s].contributions_paid
      /\ member[s].contributions_paid + 0 = member[s].contributions_paid
  BY SeatNumbers
<1>2. PICK required \in Nat, max \in Nat, due \in Nat, needed \in Nat :
        /\ required = RequiredDepth /\ max = MaxDepth
        /\ due = Due(s) /\ needed = PrepaysNeeded(s)
  <2>1. /\ pool.current_bid_depth + 1 \in Nat /\ pool.current_cycle + 1 \in Nat
        /\ pool.current_cycle \in Nat /\ CyclesTotal \in Nat
        /\ member[s].contributions_paid \in Nat
    BY SeatNumbers
  <2>2. Depth(member[s].contributions_paid) \in Nat
    BY <2>1, SaturatingSubNat DEF Depth
  <2> QED BY <2>1, <2>2, SaturatingSubNat DEF RequiredDepth, MaxDepth, Due, PrepaysNeeded
<1>3. ASSUME NEW k \in 0 .. CyclesTotal - member[s].contributions_paid
      PROVE  LandsAfter(s, k) <=>
               /\ InTheAuction(s) /\ now < pool.next_cycle_at
               /\ required <= max /\ k >= due + needed
  <2>1. PICK depth \in Nat : /\ depth = Depth(member[s].contributions_paid + k)
                             /\ depth <= max
                             /\ depth >= required <=> k >= due + needed
    BY <1>2, DepthAfter
  <2>2. WinsCycle(s, depth)
          <=> order # Undrawn /\ depth >= required /\ order[s] > pool.current_cycle
    BY <1>2, WinsIs
  <2>3. depth >= required => required <= max
    BY <2>1
  <2> QED BY <2>1, <2>2, <2>3, BidderIs DEF LandsAfter, BiddingOpen, InTheAuction
<1>4. MayPlaceBid(s) <=> LandsAfter(s, 0)
  BY <1>1 DEF MayPlaceBid, LandsAfter
<1>5. /\ LanceStatus(s) = "ready" <=>
           InTheAuction(s) /\ now < pool.next_cycle_at /\ required <= max /\ needed <= 0
      /\ LanceStatus(s) = "needsPrepay" =>
           InTheAuction(s) /\ now < pool.next_cycle_at /\ required <= max
      /\ LanceStatus(s) = "outOfRunway" => ~(required <= max)
  BY <1>1, <1>2 DEF LanceStatus, InTheAuction, HasTurnAhead
<1>6. needed <= 0 => due = 0
  BY <1>2, SeatNumbers DEF Due, PrepaysNeeded, RequiredDepth, Depth, SaturatingSub
<1>7. LanceStatus(s) = "ready" <=> MayPlaceBid(s)
  <2>1. 0 >= due + needed <=> needed <= 0
    BY <1>6
  <2> QED BY <1>1, <1>3, <1>4, <1>5, <2>1
<1>8. ASSUME LanceStatus(s) = "needsPrepay",
             NEW k \in 0 .. CyclesTotal - member[s].contributions_paid
      PROVE  LandsAfter(s, k) <=> k >= Due(s) + PrepaysNeeded(s)
  BY <1>2, <1>3, <1>5, <1>8
<1>9. ASSUME LanceStatus(s) = "outOfRunway",
             NEW k \in 0 .. CyclesTotal - member[s].contributions_paid
      PROVE  ~LandsAfter(s, k)
  BY <1>3, <1>5, <1>9
<1> QED BY <1>7, <1>8, <1>9

LEMMA SealIsSound ==
  ASSUME BidInv, ~config.paused, NEW s \in Seats,
         FreeBidStatus(s) = "canSeal", Cardinality(bids) < MaxEnvelopes
  PROVE  MayCommit(s)
<1>1. /\ InTheAuction(s) /\ FreeBidPhase = "bidding" /\ EnvelopesOf(s) = {} /\ ~(MaxParcels(s) < 1)
  BY BidderIs DEF FreeBidStatus, FreeBidPhase
<1>2. Bidder(s) /\ BiddingOpen
  BY <1>1, BidderIs DEF FreeBidPhase, BiddingOpen, InTheAuction
<1>3. member[s].contributions_paid < CyclesTotal
  BY <1>1, SeatNumbers DEF MaxParcels, MaxDepth, Lesser, SaturatingSub
<1>4. \A b \in bids : b.cycle = pool.current_cycle => b.bidder # s
  BY <1>1 DEF EnvelopesOf
<1> QED BY <1>2, <1>3, <1>4 DEF MayCommit

LEMMA OpenIsSound ==
  ASSUME LanceInv, ~config.paused, NEW b \in bids, MayReveal(b)
  PROVE  FreeBidStatus(b.bidder) = "canReveal" /\ RecoverBidParcels(b) = b.parcels
<1>1. PICK s \in Seats : s = b.bidder
  BY DEF LanceInv, BidInv, BidRecord
<1>2. BidInv /\ b \in EnvelopesOf(s) /\ b.parcels \in Nat /\ b.parcels >= 1
  BY <1>1 DEF LanceInv, EnvelopesAreUnique, BidInv, BidRecord, MayReveal, EnvelopesOf
<1>3. InTheAuction(s)
  BY <1>1, BidderIs DEF MayReveal, WinsCycle, InTheAuction
<1>4. ~(\E c \in EnvelopesOf(s) : c.state = "Revealed")
  <2>1. \A c \in EnvelopesOf(s) : c = b
    BY <1>2 DEF EnvelopesOf, LanceInv, EnvelopesAreUnique
  <2>2. b.state = "Committed"
    BY DEF MayReveal
  <2> QED BY <2>1, <2>2
<1>5. FreeBidPhase = "revealing"
  BY <1>2, SeatNumbers DEF MayReveal, RevealOpen, FreeBidPhase
<1>6. FreeBidStatus(s) = "canReveal"
  <2>1. ~(LanceStatus(s) \in {"notApplicable", "awaitingDraw", "contemplated"})
    BY <1>3, BidderIs
  <2>2. EnvelopesOf(s) # {}
    BY <1>2
  <2> QED BY <1>4, <1>5, <2>1, <2>2 DEF FreeBidStatus
<1>7. b.parcels <= MaxParcels(s) /\ MaxParcels(s) \in Nat
  <2>1. PICK total \in Nat, paid \in Nat, cycle \in Nat, k \in Nat :
          /\ total = CyclesTotal /\ paid = member[s].contributions_paid
          /\ cycle = pool.current_cycle /\ k = b.parcels
    BY <1>2, SeatNumbers
  <2>2. paid >= cycle + 1 /\ paid + k <= total
    BY <1>1, <2>1 DEF MayReveal
  <2>3. k <= SaturatingSub(total, cycle + 1) /\ k <= SaturatingSub(total, paid)
        /\ SaturatingSub(total, cycle + 1) \in Nat /\ SaturatingSub(total, paid) \in Nat
    BY <2>2 DEF SaturatingSub
  <2> QED BY <2>1, <2>3 DEF MaxParcels, MaxDepth, Lesser
<1>8. RecoverBidParcels(b) = b.parcels
  <2>1. b.parcels \in 1 .. Greater(1, MaxParcels(s))
    BY <1>2, <1>7 DEF Greater
  <2> QED BY <1>1, <2>1 DEF RecoverBidParcels
<1> QED BY <1>1, <1>6, <1>8

\* In every pool the app promises no bid that reverts, hides none that lands, asks
\* for the least that wins, and offers to open every envelope the program would.
THEOREM AdviceIsSound == BidsSpec => []LanceAdviceIsSound
<1>1. BidsInit => LanceInv
  BY InitBids DEF LanceInv, EnvelopesAreUnique, BidsInit
<1>2. LanceInv => LanceAdviceIsSound
  <2>1. SUFFICES ASSUME LanceInv, ~config.paused
                 PROVE  LanceAdviceIsSound
    BY DEF LanceAdviceIsSound
  <2>2. BidInv
    BY <2>1 DEF LanceInv
  <2> QED BY <2>1, <2>2, StatusIsSound, SealIsSound, OpenIsSound DEF LanceAdviceIsSound
<1> QED BY <1>1, <1>2, NextLance, PTL DEF BidsSpec

----------------------------------------------------------------------------
(* Sales.                                                                  *)

OpenListing ==
  [seller : Wallets, price : Nat, status : {"Active", "Pending"}, buyable_after : Nat]

\* Seats change hands only in an active pool, and only then may the second owner
\* of a seat meet the first one of another.
ValveInv ==
  /\ TypeOK
  /\ owner \in [Seats -> Wallets]
  /\ outside \in [Wallets -> Nat]
  /\ listings \in [Seats -> {NoListing} \cup OpenListing]
  /\ pool.status = "Forming" => owner = FirstOwner
  /\ ListingsAreTheOwners

\* Member accounts are created while the pool forms.
LEMMA NoNewMembers ==
  ASSUME TypeOK, [Next]_vars
  PROVE  /\ pool.status # "Forming" => memberPdas' \subseteq memberPdas
         /\ pool'.status = "Forming" => pool.status = "Forming"
<1>0. pool \in PoolRecord
  BY DEF TypeOK
<1>1. ASSUME NEW s \in Seats, NEW level \in Levels, JoinPool(s, level)
      PROVE  pool.status = "Forming"
  BY <1>1 DEF JoinPool
<1>2. ASSUME NEW s \in Seats, Contribute(s)
      PROVE  memberPdas' = memberPdas /\ pool'.status = pool.status
  BY <1>0, <1>2 DEF Contribute, PoolRecord
<1>3. ASSUME NEW s \in Seats, Payable(s), PayOut(s)
      PROVE  memberPdas' = memberPdas /\ pool.status = "Active" /\ pool'.status # "Forming"
  BY <1>0, <1>3 DEF Payable, PayOut, AdvancedCycle, PoolRecord
<1>4. ASSUME NEW s \in Seats, SkipDefaultedPayout(s)
      PROVE  memberPdas' = memberPdas /\ pool.status = "Active" /\ pool'.status # "Forming"
  BY <1>0, <1>4 DEF SkipDefaultedPayout, AdvancedCycle, PoolRecord
<1>5. ASSUME NEW s \in Seats, SettleDefault(s)
      PROVE  memberPdas' = memberPdas /\ pool'.status = pool.status
  BY <1>0, <1>5 DEF SettleDefault, SeizureBooked, PoolRecord
<1>6. ASSUME NEW s \in Seats, NEW checkpoint \in 1 .. CyclesTotal,
             ReleaseEscrow(s, checkpoint)
      PROVE  memberPdas' = memberPdas /\ pool'.status = pool.status
  BY <1>0, <1>6 DEF ReleaseEscrow, PoolRecord
<1>7. CASE FinalizeDraw \/ Pause \/ Tick \/ UNCHANGED vars
  BY <1>0, <1>7 DEF FinalizeDraw, Pause, Tick, vars, PoolRecord
<1>8. CASE ClosePool \/ ClosePoolVaults \/ \E s \in Seats : CloseMember(s)
  BY <1>0, <1>8 DEF ClosePool, ClosePoolVaults, CloseMember, PoolRecord
<1> QED BY <1>1, <1>2, <1>3, <1>4, <1>5, <1>6, <1>7, <1>8
        DEF Next, ClaimPayout, CrankPayout

\* A listing is opened, opened to buyers or withdrawn.
LEMMA ListingMoves ==
  ASSUME ValveInv, NEW s \in Seats, UNCHANGED <<vars, owner, outside>>,
         NEW l \in {NoListing} \cup OpenListing, l # NoListing => l.seller = owner[s],
         listings' = [listings EXCEPT ![s] = l]
  PROVE  ValveInv'
<1>1. \A t \in Seats \ {s} : listings'[t] = listings[t]
  BY DEF ValveInv
<1>2. listings' \in [Seats -> {NoListing} \cup OpenListing] /\ listings'[s] = l
  BY DEF ValveInv
<1>3. ListingsAreTheOwners'
  BY <1>1, <1>2 DEF ValveInv, ListingsAreTheOwners, vars, NoListing
<1> QED BY <1>2, <1>3 DEF ValveInv, TypeOK, vars, NoListing, OpenListing

LEMMA SaleKeeps ==
  ASSUME ValveInv, NEW s \in Seats, NEW w \in Wallets, EscapeValveBuy(s, w)
  PROVE  ValveInv'
<1>0. /\ TypeOK /\ owner \in [Seats -> Wallets] /\ outside \in [Wallets -> Nat]
      /\ listings \in [Seats -> {NoListing} \cup OpenListing]
      /\ wallet \in [Seats -> Nat] /\ memberPdas \subseteq Seats
  BY DEF ValveInv, TypeOK
<1>1. listings[s] \in OpenListing /\ listings[s].price \in Nat
  <2>1. listings[s].status = "Active"
    BY DEF EscapeValveBuy
  <2>2. listings[s] # NoListing
    BY <2>1 DEF NoListing
  <2> QED BY <1>0, <2>2 DEF OpenListing
<1>2. /\ UNCHANGED <<config, pool, member, memberPdas, order, vault, treasury,
                     attestations, now>>
      /\ pool.status = "Active" /\ s \in memberPdas /\ ~HasSeat(w)
      /\ outside[w] >= listings[s].price
      /\ owner' = [owner EXCEPT ![s] = w]
      /\ listings' = [listings EXCEPT ![s] = NoListing]
      /\ wallet' = [wallet EXCEPT ![s] = outside[w] - listings[s].price]
      /\ outside' = [outside EXCEPT ![owner[s]] = SellerKeeps(s, listings[s].price), ![w] = 0]
  BY DEF EscapeValveBuy, Live, ListingsAfterSale
<1>3. TypeOK'
  <2>1. outside[w] - listings[s].price \in Nat
    BY <1>0, <1>1, <1>2
  <2>2. wallet' \in [Seats -> Nat]
    BY <1>0, <1>2, <2>1
  <2> QED BY <1>0, <1>2, <2>2 DEF TypeOK
<1>4. outside' \in [Wallets -> Nat]
  <2>1. SellerKeeps(s, listings[s].price) \in Nat
    BY <1>0, <1>1 DEF SellerKeeps
  <2> QED BY <1>0, <1>2, <2>1
<1>5. /\ owner' \in [Seats -> Wallets] /\ owner'[s] = w
      /\ \A t \in Seats \ {s} : owner'[t] = owner[t]
      /\ listings' \in [Seats -> {NoListing} \cup OpenListing] /\ listings'[s] = NoListing
      /\ \A t \in Seats \ {s} : listings'[t] = listings[t]
  BY <1>0, <1>2
<1>6. ListingsAreTheOwners'
  <2>1. \A t \in memberPdas : owner[t] # w
    BY <1>2 DEF HasSeat
  <2>2. /\ \A t \in Seats : listings[t] # NoListing => listings[t].seller = owner[t]
        /\ \A t, u \in memberPdas : owner[t] = owner[u] => t = u
    BY DEF ValveInv, ListingsAreTheOwners
  <2>3. \A t \in Seats : listings'[t] # NoListing => listings'[t].seller = owner'[t]
    BY <1>5, <2>2
  <2>4. \A t, u \in memberPdas : owner'[t] = owner'[u] => t = u
    BY <1>0, <1>5, <2>1, <2>2
  <2> QED BY <1>2, <2>3, <2>4 DEF ListingsAreTheOwners, NoListing
<1> QED BY <1>2, <1>3, <1>4, <1>5, <1>6 DEF ValveInv, NoListing, OpenListing

LEMMA NextValve == ValveInv /\ [ValveNext]_valveVars => ValveInv'
<1> SUFFICES ASSUME ValveInv, [ValveNext]_valveVars PROVE ValveInv'
  OBVIOUS
<1>1. ASSUME [Next]_vars, UNCHANGED <<owner, outside, listings>> PROVE ValveInv'
  <2>1. TypeOK' /\ memberPdas \subseteq Seats /\ memberPdas' \subseteq Seats
    BY <1>1, NextType DEF ValveInv, TypeOK
  <2>2. /\ pool.status # "Forming" => memberPdas' \subseteq memberPdas
        /\ pool'.status = "Forming" => pool.status = "Forming"
    BY <1>1, NoNewMembers DEF ValveInv
  <2>3. \A t, u \in memberPdas' : owner[t] = owner[u] => t = u
    <3>1. CASE pool.status = "Forming"
      BY <2>1, <3>1, ValveAssumption DEF ValveInv
    <3>2. CASE pool.status # "Forming"
      BY <2>2, <3>2 DEF ValveInv, ListingsAreTheOwners
    <3> QED BY <3>1, <3>2
  <2>4. ListingsAreTheOwners'
    BY <1>1, <2>3 DEF ValveInv, ListingsAreTheOwners, NoListing
  <2> QED BY <1>1, <2>1, <2>2, <2>4 DEF ValveInv, NoListing, OpenListing
<1>2. ASSUME NEW s \in Seats, NEW price \in Prices, EscapeValveList(s, price) PROVE ValveInv'
  <2>1. Listing(s, price, "Active", now) \in OpenListing
    BY ValveAssumption DEF ValveInv, TypeOK, Listing, OpenListing
  <2> QED BY <1>2, <2>1, ListingMoves DEF EscapeValveList, Listing
<1>3. ASSUME NEW s \in Seats, NEW price \in Prices, EscapeValveListCommit(s, price)
      PROVE  ValveInv'
  <2>1. Listing(s, price, "Pending", 0) \in OpenListing
    BY ValveAssumption DEF ValveInv, Listing, OpenListing
  <2> QED BY <1>3, <2>1, ListingMoves DEF EscapeValveListCommit, Listing
<1>4. ASSUME NEW s \in Seats, EscapeValveListReveal(s) PROVE ValveInv'
  <2> DEFINE l == [listings[s] EXCEPT !.status = "Active",
                                      !.buyable_after = now + RevealCooldown]
  <2>1. listings[s] \in OpenListing
    <3>1. listings[s] # NoListing
      BY <1>4 DEF EscapeValveListReveal, NoListing
    <3> QED BY <3>1 DEF ValveInv
  <2>2. l \in OpenListing /\ l.seller = listings[s].seller
    <3>1. now + RevealCooldown \in Nat
      BY ValveAssumption DEF ValveInv, TypeOK
    <3> QED BY <2>1, <3>1 DEF OpenListing
  <2>3. listings[s].seller = owner[s]
    BY <2>1 DEF ValveInv, ListingsAreTheOwners, OpenListing, NoListing
  <2>4. listings' = [listings EXCEPT ![s] = l]
    BY <1>4 DEF EscapeValveListReveal, ValveInv
  <2> HIDE DEF l
  <2> QED BY <1>4, <2>2, <2>3, <2>4, ListingMoves DEF EscapeValveListReveal
<1>5. ASSUME NEW s \in Seats, CancelPendingListing(s) PROVE ValveInv'
  BY <1>5, ListingMoves DEF CancelPendingListing
<1>6. ASSUME NEW s \in Seats, NEW w \in Wallets, EscapeValveBuy(s, w) PROVE ValveInv'
  BY <1>6, SaleKeeps
<1> QED BY <1>1, <1>2, <1>3, <1>4, <1>5, <1>6 DEF ValveNext, Trade, valveVars

\* Whatever the seats, wallets and prices: a listing is the owner's of its seat,
\* however it was made and whatever happened since, and nobody has two seats.
THEOREM NobodySellsForAnother == ValveSpec => []ListingsAreTheOwners
<1>1. ValveInit => ValveInv
  BY InitType, ValveAssumption DEF ValveInit, ValveInv, ListingsAreTheOwners, Init
<1>2. ValveInv => ListingsAreTheOwners
  BY DEF ValveInv
<1> QED BY <1>1, <1>2, NextValve, PTL DEF ValveSpec

----------------------------------------------------------------------------
(* USDC.                                                                   *)

\* What lies in the seats' wallets, the vaults and the treasury.
PoolMoney ==
  SumOver(wallet, Seats) + (vault.pool_usdc + vault.escrow + vault.solidarity) + treasury

\* The balances of the seats' wallets add up, before and after.
LEMMA WalletMoves ==
  ASSUME TypeOK, TypeOK'
  PROVE  /\ SumOver(wallet, Seats) \in Nat /\ SumOver(wallet', Seats) \in Nat
         /\ \A s \in Seats, x \in Nat :
              wallet' = [wallet EXCEPT ![s] = x] =>
                SumOver(wallet', Seats) = SumOver(wallet, Seats) - wallet[s] + x
<1>1. /\ \A s \in Seats : wallet[s] \in Nat
      /\ \A s \in Seats : wallet'[s] \in Nat
      /\ IsFiniteSet(Seats)
  BY SeatsFinite DEF TypeOK, Seats
<1>2. SumOver(wallet, Seats) \in Nat /\ SumOver(wallet', Seats) \in Nat
  BY <1>1, SumType
<1>3. ASSUME NEW s \in Seats, NEW x \in Nat, wallet' = [wallet EXCEPT ![s] = x]
      PROVE  SumOver(wallet', Seats) = SumOver(wallet, Seats) - wallet[s] + x
  <2>1. wallet'[s] = x /\ \A t \in Seats \ {s} : wallet'[t] = wallet[t]
    BY <1>3 DEF TypeOK
  <2>2. \A t \in Seats : wallet[t] \in Int /\ wallet'[t] \in Int
    BY <1>1
  <2> QED BY <1>1, <2>1, <2>2, SumChange
<1> QED BY <1>2, <1>3

\* A step that moves in + float between a wallet, the vaults and the treasury.
LEMMA Moves ==
  ASSUME TypeOK, TypeOK', NEW s \in Seats, NEW x \in Nat,
         wallet' = [wallet EXCEPT ![s] = x],
         vault'.pool_usdc + vault'.escrow + vault'.solidarity + x
           = vault.pool_usdc + vault.escrow + vault.solidarity + wallet[s],
         treasury' = treasury
  PROVE  PoolMoney' = PoolMoney
<1>1. SumOver(wallet', Seats) = SumOver(wallet, Seats) - wallet[s] + x
      /\ SumOver(wallet, Seats) \in Nat
  BY WalletMoves
<1>2. /\ wallet[s] \in Nat /\ treasury \in Nat
      /\ vault.pool_usdc \in Nat /\ vault.escrow \in Nat /\ vault.solidarity \in Nat
      /\ vault'.pool_usdc \in Nat /\ vault'.escrow \in Nat /\ vault'.solidarity \in Nat
  BY DEF TypeOK
<1>3. PoolMoney' = SumOver(wallet', Seats)
                   + (vault'.pool_usdc + vault'.escrow + vault'.solidarity) + treasury'
  BY DEF PoolMoney, Seats
<1> QED BY <1>1, <1>2, <1>3 DEF PoolMoney

LEMMA PoolConserves == ASSUME TypeOK, [Next]_vars PROVE PoolMoney' = PoolMoney
<1>0. /\ TypeOK' /\ wallet \in [Seats -> Nat] /\ treasury \in Nat
      /\ vault \in [pool_usdc : Nat, escrow : Nat, solidarity : Nat]
  BY NextType DEF TypeOK
<1>q. ASSUME wallet' = wallet, treasury' = treasury,
             vault'.pool_usdc + vault'.escrow + vault'.solidarity
               = vault.pool_usdc + vault.escrow + vault.solidarity
      PROVE  PoolMoney' = PoolMoney
  BY <1>q DEF PoolMoney, Seats
<1>1. ASSUME NEW s \in Seats, NEW level \in Levels, JoinPool(s, level)
      PROVE  PoolMoney' = PoolMoney
  <2>1. PICK stake : stake = StakeAmount(level)
    OBVIOUS
  <2>2. /\ stake \in Nat /\ wallet[s] >= stake
        /\ wallet' = [wallet EXCEPT ![s] = wallet[s] - stake]
        /\ vault' = [vault EXCEPT !.escrow = vault.escrow + stake]
        /\ treasury' = treasury
    BY <1>1, <2>1, StakeNat DEF JoinPool
  <2>3. wallet[s] - stake \in Nat
    BY <1>0, <2>2
  <2>4. vault'.pool_usdc + vault'.escrow + vault'.solidarity + (wallet[s] - stake)
          = vault.pool_usdc + vault.escrow + vault.solidarity + wallet[s]
    BY <1>0, <2>2
  <2> QED BY <1>0, <2>2, <2>3, <2>4, Moves
<1>2. ASSUME NEW s \in Seats, Contribute(s) PROVE PoolMoney' = PoolMoney
  <2>1. PICK sol, esc, flt : sol = Split.solidarity /\ esc = Split.escrow /\ flt = Split.pool
    OBVIOUS
  <2>2. /\ sol \in Nat /\ esc \in Nat /\ flt \in Nat /\ wallet[s] >= sol + esc + flt
        /\ wallet' = [wallet EXCEPT ![s] = wallet[s] - (sol + esc + flt)]
        /\ vault' = [vault EXCEPT !.solidarity = vault.solidarity + sol,
                                  !.escrow = vault.escrow + esc,
                                  !.pool_usdc = vault.pool_usdc + flt]
        /\ treasury' = treasury
    BY <1>2, <2>1, SplitType DEF Contribute
  <2>3. wallet[s] - (sol + esc + flt) \in Nat
    BY <1>0, <2>2
  <2>4. vault'.pool_usdc + vault'.escrow + vault'.solidarity
            + (wallet[s] - (sol + esc + flt))
          = vault.pool_usdc + vault.escrow + vault.solidarity + wallet[s]
    BY <1>0, <2>2
  <2> QED BY <1>0, <2>2, <2>3, <2>4, Moves
<1>3. ASSUME NEW s \in Seats, Payable(s), PayOut(s) PROVE PoolMoney' = PoolMoney
  <2>1. /\ wallet' = [wallet EXCEPT ![s] = wallet[s] + CreditAmount]
        /\ vault' = [vault EXCEPT !.pool_usdc = vault.pool_usdc - CreditAmount]
        /\ treasury' = treasury
    BY <1>3 DEF PayOut
  <2>2. wallet[s] + CreditAmount \in Nat
    BY <1>0, Constants
  <2>3. vault'.pool_usdc + vault'.escrow + vault'.solidarity + (wallet[s] + CreditAmount)
          = vault.pool_usdc + vault.escrow + vault.solidarity + wallet[s]
    BY <1>0, <2>1, Constants
  <2> QED BY <1>0, <2>1, <2>2, <2>3, Moves
<1>4. ASSUME NEW s \in Seats, SettleDefault(s) PROVE PoolMoney' = PoolMoney
  <2>1. PICK z : z = Seizure(member[s])
    OBVIOUS
  <2>2. z.from_solidarity \in Nat /\ z.from_escrow \in Nat /\ z.from_stake \in Nat
    BY <2>1, SeizureBounds DEF SettleDefault
  <2>3. /\ wallet' = wallet /\ treasury' = treasury
        /\ vault' = [vault EXCEPT
             !.solidarity = vault.solidarity - z.from_solidarity,
             !.escrow = vault.escrow - (z.from_escrow + z.from_stake),
             !.pool_usdc = vault.pool_usdc +
                             (z.from_solidarity + z.from_escrow + z.from_stake)]
    BY <1>4, <2>1 DEF SettleDefault
  <2>4. vault'.pool_usdc + vault'.escrow + vault'.solidarity
          = vault.pool_usdc + vault.escrow + vault.solidarity
    BY <1>0, <2>2, <2>3
  <2> QED BY <1>q, <2>3, <2>4
<1>5. ASSUME NEW s \in Seats, NEW checkpoint \in 1 .. CyclesTotal,
             ReleaseEscrow(s, checkpoint)
      PROVE  PoolMoney' = PoolMoney
  <2>1. PICK delta : delta = Lesser(ReleaseTarget(member[s], checkpoint), vault.escrow)
    OBVIOUS
  <2>2. /\ delta > 0 /\ treasury' = treasury
        /\ wallet' = [wallet EXCEPT ![s] = wallet[s] + delta]
        /\ vault' = [vault EXCEPT !.escrow = vault.escrow - delta]
    BY <1>5, <2>1 DEF ReleaseEscrow
  <2>3. delta \in Int
    BY <1>0, <1>5, <2>1, ReleaseNat
  <2>4. wallet[s] + delta \in Nat
    BY <1>0, <2>2, <2>3
  <2>5. vault'.pool_usdc + vault'.escrow + vault'.solidarity + (wallet[s] + delta)
          = vault.pool_usdc + vault.escrow + vault.solidarity + wallet[s]
    BY <1>0, <2>2, <2>3
  <2> QED BY <1>0, <2>2, <2>4, <2>5, Moves
<1>6. CASE FinalizeDraw \/ Pause \/ Tick \/ ClosePool \/ UNCHANGED vars
  BY <1>q, <1>6 DEF FinalizeDraw, Pause, Tick, ClosePool, vars, money
<1>7. ASSUME NEW s \in Seats, SkipDefaultedPayout(s) \/ CloseMember(s)
      PROVE  PoolMoney' = PoolMoney
  BY <1>q, <1>7 DEF SkipDefaultedPayout, CloseMember, money
<1>8. CASE ClosePoolVaults
  <2>1. /\ treasury' = treasury + (vault.pool_usdc + vault.escrow + vault.solidarity)
        /\ vault' = [pool_usdc |-> 0, escrow |-> 0, solidarity |-> 0] /\ wallet' = wallet
    BY <1>8 DEF ClosePoolVaults
  <2>2. SumOver(wallet, Seats) \in Nat
    BY <1>0, WalletMoves
  <2>3. PoolMoney' = SumOver(wallet', Seats)
                     + (vault'.pool_usdc + vault'.escrow + vault'.solidarity) + treasury'
    BY DEF PoolMoney, Seats
  <2> QED BY <1>0, <2>1, <2>2, <2>3 DEF PoolMoney
<1> QED BY <1>1, <1>2, <1>3, <1>4, <1>5, <1>6, <1>7, <1>8
        DEF Next, ClaimPayout, CrankPayout

\* All there is, as one sum over the seats and one over the wallets without a seat.
LEMMA USDCIs ==
  ASSUME ValveInv
  PROVE  /\ USDC = PoolMoney + SumOver(outside, Wallets)
         /\ PoolMoney \in Nat /\ SumOver(outside, Wallets) \in Nat
<1>1. /\ DOMAIN wallet = Seats /\ DOMAIN outside = Wallets
      /\ vault.pool_usdc \in Nat /\ vault.escrow \in Nat /\ vault.solidarity \in Nat
      /\ treasury \in Nat
  BY DEF ValveInv, TypeOK
<1>2. /\ SumFunction(wallet) = SumOver(wallet, Seats)
      /\ SumFunction(outside) = SumOver(outside, Wallets)
  BY <1>1, SumIsOver DEF SumFunction
<1>3. SumOver(wallet, Seats) \in Nat
  BY SumType, SeatsFinite DEF ValveInv, TypeOK
<1>4. SumOver(outside, Wallets) \in Nat
  BY SumType, ValveAssumption DEF ValveInv
<1> QED BY <1>1, <1>2, <1>3, <1>4 DEF USDC, PoolMoney

\* The buyer's balance becomes that of the seat, less the price; the seller leaves
\* with the price and what its seat had.
LEMMA SaleConserves ==
  ASSUME ValveInv, NEW s \in Seats, NEW w \in Wallets, EscapeValveBuy(s, w)
  PROVE  USDC' = USDC
<1>1. PICK o, price, kept : /\ o = owner[s] /\ price = listings[s].price
                            /\ kept = outside[o] + wallet[s] + price
  OBVIOUS
<1>2. /\ TypeOK /\ ValveInv' /\ TypeOK' /\ o \in Wallets /\ o # w
      /\ outside \in [Wallets -> Nat] /\ wallet \in [Seats -> Nat]
  <2>1. ValveInv'
    BY SaleKeeps
  <2>2. TypeOK /\ owner \in [Seats -> Wallets] /\ outside \in [Wallets -> Nat]
    BY DEF ValveInv
  <2>3. wallet \in [Seats -> Nat]
    BY <2>2 DEF TypeOK
  <2>4. s \in memberPdas /\ ~HasSeat(w)
    BY DEF EscapeValveBuy, Live
  <2>5. o # w
    BY <1>1, <2>4 DEF HasSeat
  <2>6. TypeOK'
    BY <2>1 DEF ValveInv
  <2> QED BY <1>1, <2>1, <2>2, <2>3, <2>5, <2>6
<1>3. price \in Nat
  <2>1. listings[s].status = "Active"
    BY DEF EscapeValveBuy
  <2>2. listings[s] # NoListing
    BY <2>1 DEF NoListing
  <2> QED BY <1>1, <2>2 DEF ValveInv, OpenListing
<1>4. /\ outside[w] >= price /\ vault' = vault /\ treasury' = treasury
      /\ wallet' = [wallet EXCEPT ![s] = outside[w] - price]
      /\ outside' = [outside EXCEPT ![o] = kept, ![w] = 0]
  BY <1>1 DEF EscapeValveBuy, SellerKeeps
<1>5. outside[w] - price \in Nat /\ kept \in Nat
  BY <1>1, <1>2, <1>3, <1>4
<1>6. SumOver(wallet', Seats) = SumOver(wallet, Seats) - wallet[s] + (outside[w] - price)
      /\ SumOver(wallet, Seats) \in Nat
  BY <1>2, <1>4, <1>5, WalletMoves
<1>7. SumOver(outside', Wallets)
        = SumOver(outside, Wallets) - outside[o] + kept - outside[w]
  <2>1. PICK half : half = [outside EXCEPT ![o] = kept]
    OBVIOUS
  <2>2. /\ half \in [Wallets -> Nat] /\ half[o] = kept /\ half[w] = outside[w]
        /\ \A x \in Wallets \ {o} : half[x] = outside[x]
        /\ outside' \in [Wallets -> Nat] /\ outside'[w] = 0
        /\ \A x \in Wallets \ {w} : outside'[x] = half[x]
    BY <1>2, <1>4, <1>5, <2>1
  <2>3. SumOver(half, Wallets) = SumOver(outside, Wallets) - outside[o] + kept
    <3>1. \A x \in Wallets : outside[x] \in Int /\ half[x] \in Int
      BY <1>2, <2>2
    <3> QED BY <1>2, <2>2, <3>1, SumChange, ValveAssumption
  <2>4. SumOver(outside', Wallets) = SumOver(half, Wallets) - half[w] + outside'[w]
    <3>1. \A x \in Wallets : outside'[x] \in Int /\ half[x] \in Int
      BY <2>2
    <3> QED BY <1>2, <2>2, <3>1, SumChange, ValveAssumption
  <2>5. SumOver(outside, Wallets) \in Nat /\ SumOver(half, Wallets) \in Nat
    BY <1>2, <2>2, SumType, ValveAssumption
  <2> QED BY <1>2, <1>5, <2>2, <2>3, <2>4, <2>5
<1>8. /\ USDC = PoolMoney + SumOver(outside, Wallets)
      /\ USDC' = PoolMoney' + SumOver(outside', Wallets)
      /\ SumOver(outside, Wallets) \in Nat
  <2>1. Wallets' = Wallets
    OBVIOUS
  <2>2. USDC' = PoolMoney' + SumOver(outside', Wallets)
    <3>1. /\ DOMAIN wallet' = Seats /\ DOMAIN outside' = Wallets
          /\ vault'.pool_usdc \in Nat /\ vault'.escrow \in Nat /\ vault'.solidarity \in Nat
          /\ treasury' \in Nat
      BY <1>2 DEF ValveInv, TypeOK, Seats
    <3>2. /\ SumFunction(wallet') = SumOver(wallet', Seats)
          /\ SumFunction(outside') = SumOver(outside', Wallets)
      BY <3>1, SumIsOver DEF SumFunction
    <3>3. SumOver(wallet', Seats) \in Nat
      BY <1>2, WalletMoves
    <3>4. SumOver(outside', Wallets) \in Nat
      BY <1>2, SumType, ValveAssumption DEF ValveInv
    <3>5. /\ USDC' = SumFunction(wallet') + SumFunction(outside')
                     + vault'.pool_usdc + vault'.escrow + vault'.solidarity + treasury'
          /\ PoolMoney' = SumOver(wallet', Seats)
                     + (vault'.pool_usdc + vault'.escrow + vault'.solidarity) + treasury'
      BY DEF USDC, PoolMoney, Seats
    <3> QED BY <3>1, <3>2, <3>3, <3>4, <3>5
  <2> QED BY <2>2, USDCIs
<1>9. PoolMoney' = PoolMoney - wallet[s] + (outside[w] - price)
  <2>1. PoolMoney' = SumOver(wallet', Seats)
          + (vault'.pool_usdc + vault'.escrow + vault'.solidarity) + treasury'
    BY DEF PoolMoney, Seats
  <2>2. /\ vault.pool_usdc \in Nat /\ vault.escrow \in Nat /\ vault.solidarity \in Nat
        /\ treasury \in Nat /\ wallet[s] \in Nat
    BY <1>2 DEF TypeOK
  <2> QED BY <1>4, <1>5, <1>6, <2>1, <2>2 DEF PoolMoney
<1>10. PoolMoney \in Nat /\ wallet[s] \in Nat /\ outside[o] \in Nat /\ outside[w] \in Nat
  BY <1>2, USDCIs
<1> QED BY <1>1, <1>3, <1>5, <1>7, <1>8, <1>9, <1>10

LEMMA NextConserves ==
  ASSUME ValveInv, [ValveNext]_valveVars
  PROVE  USDC' = USDC
<1>1. ASSUME [Next]_vars, outside' = outside PROVE USDC' = USDC
  <2>1. PoolMoney' = PoolMoney /\ TypeOK /\ TypeOK'
    BY <1>1, PoolConserves, NextType DEF ValveInv
  <2>2. DOMAIN wallet = Seats /\ DOMAIN wallet' = Seats
    BY <2>1 DEF TypeOK, Seats
  <2>3. /\ SumFunction(wallet) = SumOver(wallet, Seats)
        /\ SumFunction(wallet') = SumOver(wallet', Seats)
    BY <2>2, SumIsOver DEF SumFunction
  <2>4. SumFunction(outside) \in Nat
    <3>1. DOMAIN outside = Wallets
      BY DEF ValveInv
    <3> QED BY <3>1, USDCIs, SumIsOver DEF SumFunction
  <2>5. /\ USDC' = SumFunction(wallet') + SumFunction(outside')
                   + vault'.pool_usdc + vault'.escrow + vault'.solidarity + treasury'
        /\ PoolMoney' = SumOver(wallet', Seats)
                   + (vault'.pool_usdc + vault'.escrow + vault'.solidarity) + treasury'
        /\ USDC = SumFunction(wallet) + SumFunction(outside)
                   + vault.pool_usdc + vault.escrow + vault.solidarity + treasury
        /\ PoolMoney = SumOver(wallet, Seats)
                   + (vault.pool_usdc + vault.escrow + vault.solidarity) + treasury
    BY DEF USDC, PoolMoney, Seats
  <2>6. /\ SumOver(wallet, Seats) \in Nat /\ SumOver(wallet', Seats) \in Nat
        /\ vault.pool_usdc \in Nat /\ vault.escrow \in Nat /\ vault.solidarity \in Nat
        /\ vault'.pool_usdc \in Nat /\ vault'.escrow \in Nat /\ vault'.solidarity \in Nat
        /\ treasury \in Nat /\ treasury' \in Nat
    BY <2>1, WalletMoves DEF TypeOK
  <2>7. SumFunction(outside') = SumFunction(outside)
    BY <1>1
  <2>8. USDC = PoolMoney + SumFunction(outside)
    BY <2>3, <2>4, <2>5, <2>6
  <2>9. USDC' = PoolMoney' + SumFunction(outside)
    BY <2>3, <2>4, <2>5, <2>6, <2>7
  <2> QED BY <2>1, <2>8, <2>9
<1>2. ASSUME NEW s \in Seats, NEW w \in Wallets, EscapeValveBuy(s, w) PROVE USDC' = USDC
  BY <1>2, SaleConserves
<1>3. ASSUME NEW s \in Seats, NEW price \in Prices,
             EscapeValveList(s, price) \/ EscapeValveListCommit(s, price)
      PROVE  [Next]_vars /\ outside' = outside
  BY <1>3 DEF EscapeValveList, EscapeValveListCommit
<1>4. ASSUME NEW s \in Seats, EscapeValveListReveal(s) \/ CancelPendingListing(s)
      PROVE  [Next]_vars /\ outside' = outside
  BY <1>4 DEF EscapeValveListReveal, CancelPendingListing
<1> QED BY <1>1, <1>2, <1>3, <1>4 DEF ValveNext, Trade, valveVars

\* In every pool, whoever buys and sells its seats and however it ends: what the
\* wallets, the vaults and the treasury hold is what the wallets started with.
THEOREM NoUSDCIsMade == ValveSpec => []USDCConserved
<1> DEFINE Inv == ValveInv /\ USDCConserved
<1>1. ValveInit => Inv
  <2> SUFFICES ASSUME ValveInit PROVE ValveInv /\ USDCConserved
    OBVIOUS
  <2>1. ValveInv
    BY InitType, ValveAssumption DEF ValveInit, ValveInv, ListingsAreTheOwners, Init
  <2>2. /\ wallet = Funds /\ outside = OutsideFunds /\ treasury = 0
        /\ vault.pool_usdc = 0 /\ vault.escrow = 0 /\ vault.solidarity = 0
    BY DEF ValveInit, Init
  <2>3. SumFunction(Funds) \in Nat /\ SumFunction(OutsideFunds) \in Nat
    <3>1. DOMAIN Funds = Seats /\ DOMAIN OutsideFunds = Wallets
      BY Constants, ValveAssumption
    <3>2. SumOver(Funds, Seats) \in Nat /\ SumOver(OutsideFunds, Wallets) \in Nat
      BY SumType, SeatsFinite, Constants, ValveAssumption
    <3> QED BY <3>1, <3>2, SumIsOver DEF SumFunction
  <2> QED BY <2>1, <2>2, <2>3 DEF USDCConserved, USDC
<1>2. Inv /\ [ValveNext]_valveVars => Inv'
  BY NextValve, NextConserves DEF USDCConserved
<1>3. Inv => USDCConserved
  OBVIOUS
<1> HIDE DEF Inv
<1> QED BY <1>1, <1>2, <1>3, PTL DEF ValveSpec

\* An opened envelope prepays its parcels, split as installments are.
LEMMA RevealConserves ==
  ASSUME BidInv, NEW b \in bids, PlaceBidReveal(b)
  PROVE  PoolMoney' = PoolMoney
<1>1. PICK s, k, sol, esc, flt :
        /\ s = b.bidder /\ k = b.parcels
        /\ sol = k * Split.solidarity /\ esc = k * Split.escrow /\ flt = k * Split.pool
  OBVIOUS
<1>2. TypeOK /\ TypeOK' /\ s \in Seats /\ k \in Nat
  BY <1>1, RevealType DEF BidInv, RotationInv, TurnInv, BidRecord
<1>3. sol \in Nat /\ esc \in Nat /\ flt \in Nat /\ sol + esc + flt = k * InstallmentAmount
  <2>1. k * (Split.solidarity + Split.escrow + Split.pool) = sol + esc + flt
    BY <1>1, <1>2, SplitType
  <2> QED BY <1>1, <1>2, <2>1, ParcelsNat
<1>4. /\ wallet[s] >= k * InstallmentAmount
      /\ wallet' = [wallet EXCEPT ![s] = wallet[s] - k * InstallmentAmount]
      /\ vault' = [vault EXCEPT !.solidarity = vault.solidarity + sol,
                                !.escrow = vault.escrow + esc,
                                !.pool_usdc = vault.pool_usdc + flt]
      /\ treasury' = treasury
  BY <1>1, <1>2, ParcelsNat DEF PlaceBidReveal, MayReveal
<1>5. /\ wallet[s] \in Nat
      /\ vault \in [pool_usdc : Nat, escrow : Nat, solidarity : Nat]
  BY <1>2 DEF TypeOK
<1>6. PICK paid : paid = k * InstallmentAmount
  OBVIOUS
<1>7. /\ wallet' = [wallet EXCEPT ![s] = wallet[s] - paid]
      /\ wallet[s] - paid \in Nat
  <2>1. paid \in Nat /\ wallet[s] >= paid
    BY <1>3, <1>4, <1>6
  <2> QED BY <1>4, <1>5, <1>6, <2>1
<1>8. vault'.pool_usdc + vault'.escrow + vault'.solidarity + (wallet[s] - paid)
        = vault.pool_usdc + vault.escrow + vault.solidarity + wallet[s]
  BY <1>3, <1>4, <1>5, <1>6
<1> QED BY <1>2, <1>4, <1>7, <1>8, Moves

\* In every pool with bids, too: wallets, vaults and treasury together hold what the
\* seats' wallets started with, however many parcels are prepaid.
THEOREM BidsMakeNoUSDC == BidsSpec => [](PoolMoney = SumFunction(Funds))
<1> DEFINE Inv == BidInv /\ PoolMoney = SumFunction(Funds)
<1>1. BidsInit => Inv
  <2> SUFFICES ASSUME BidsInit PROVE BidInv /\ PoolMoney = SumFunction(Funds)
    OBVIOUS
  <2>1. /\ wallet = Funds /\ treasury = 0
        /\ vault.pool_usdc = 0 /\ vault.escrow = 0 /\ vault.solidarity = 0
    BY DEF BidsInit, Init
  <2>2. SumOver(Funds, Seats) \in Nat
    BY SumType, SeatsFinite, Constants
  <2>3. SumFunction(Funds) = SumOver(Funds, Seats)
    BY SumIsOver, Constants DEF SumFunction
  <2> QED BY InitBids, <2>1, <2>2, <2>3 DEF PoolMoney
<1>2. Inv /\ [BidsNext]_bidVars => Inv'
  <2> SUFFICES ASSUME BidInv, [BidsNext]_bidVars, PoolMoney = SumFunction(Funds)
               PROVE  BidInv' /\ PoolMoney' = PoolMoney
    OBVIOUS
  <2>1. BidInv'
    BY NextBidInv
  <2>2. CASE [Next]_vars
    BY <2>1, <2>2, PoolConserves DEF BidInv, RotationInv, TurnInv
  <2>3. ASSUME NEW s \in Seats, PlaceEmbeddedBid(s) PROVE PoolMoney' = PoolMoney
    BY <2>3 DEF PlaceEmbeddedBid, money, PoolMoney, Seats
  <2>4. ASSUME NEW s \in Seats, NEW parcels \in 1 .. CyclesTotal - 1,
               PlaceBidCommit(s, parcels)
        PROVE  [Next]_vars
    BY <2>4 DEF PlaceBidCommit
  <2>5. ASSUME NEW b \in bids, PlaceBidReveal(b) PROVE PoolMoney' = PoolMoney
    BY <2>5, RevealConserves
  <2> QED BY <2>1, <2>2, <2>3, <2>4, <2>5 DEF BidsNext, BidStep, bidVars
<1>3. Inv => PoolMoney = SumFunction(Funds)
  OBVIOUS
<1> HIDE DEF Inv
<1> QED BY <1>1, <1>2, <1>3, PTL DEF BidsSpec

----------------------------------------------------------------------------
(* The accounts of the pool, with bids and with sales beside its handlers. *)

\* What the promises about the accounts of a pool rest on.
AccountsInv ==
  /\ TypeOK
  /\ TalliesMatchVaults
  /\ SeatsTaken
  /\ StakeKept
  /\ StakeNeverOverReleased

LEMMA InitAccounts == Init => AccountsInv
<1>1. CyclesTotal \in Nat \ {0} /\ (0 * 0) \div CyclesTotal = 0
  BY Constants
<1> QED BY <1>1, InitType
        DEF Init, AccountsInv, TalliesMatchVaults, SeatsTaken, StakeKept,
            StakeNeverOverReleased, BlankMember, cumulative_vested

LEMMA NextAccounts == AccountsInv /\ [Next]_vars => AccountsInv'
BY NextType, NextTallies, NextSeats, NextStake, NextReleased DEF AccountsInv

LEMMA AccountsSettle == AccountsInv => SettlementNeverBlocked
BY SettlementHolds DEF AccountsInv, SettlementNeverBlocked

\* The installments of a bid raise each tally with its vault, and what was ever put
\* into a member's escrow with what lies in it.
LEMMA RevealAccounts ==
  ASSUME BidInv, AccountsInv, NEW b \in bids, PlaceBidReveal(b)
  PROVE  AccountsInv'
<1>1. PICK s, k, sol, esc, flt :
        /\ s = b.bidder /\ k = b.parcels
        /\ sol = k * Split.solidarity /\ esc = k * Split.escrow /\ flt = k * Split.pool
  OBVIOUS
<1>2. /\ TypeOK /\ TypeOK' /\ s \in Seats /\ k \in Nat /\ ~member[s].defaulted
      /\ memberPdas' = memberPdas
  BY <1>1, RevealType
     DEF BidInv, RotationInv, TurnInv, BidRecord, PlaceBidReveal, MayReveal, Bidder, Live
<1>3. sol \in Nat /\ esc \in Nat
  BY <1>1, <1>2, ParcelsNat
<1>4. /\ pool \in PoolRecord /\ member \in [Seats -> MemberRecord]
      /\ vault \in [pool_usdc : Nat, escrow : Nat, solidarity : Nat]
  BY <1>2 DEF TypeOK
<1>5. /\ vault'.escrow = vault.escrow + esc
      /\ vault'.solidarity = vault.solidarity + sol
      /\ pool'.escrow_balance = pool.escrow_balance + esc
      /\ pool'.solidarity_balance = pool.solidarity_balance + sol
      /\ pool'.status = pool.status /\ pool'.slots = pool.slots
  BY <1>1, <1>4 DEF PlaceBidReveal, PoolRecord
<1>6. PICK m : m = member[s]
  OBVIOUS
<1>7. PICK record : record = Prepaid(m, k)
  OBVIOUS
<1>8. /\ m \in MemberRecord /\ member' = [member EXCEPT ![s] = record]
      /\ member'[s] = record /\ \A t \in Seats \ {s} : member'[t] = member[t]
  BY <1>1, <1>2, <1>4, <1>6, <1>7 DEF PlaceBidReveal
<1>9. /\ record.stake_deposited_initial = m.stake_deposited_initial
      /\ record.stake_deposited = m.stake_deposited
      /\ record.last_released_checkpoint = m.last_released_checkpoint
      /\ record.defaulted = m.defaulted
      /\ record.escrow_balance = m.escrow_balance + esc
      /\ record.total_escrow_deposited = m.total_escrow_deposited + esc
  BY <1>1, <1>7, <1>8 DEF Prepaid, MemberRecord
<1>10. TalliesMatchVaults'
  BY <1>5 DEF AccountsInv, TalliesMatchVaults
<1>11. SeatsTaken'
  BY <1>2, <1>5, <1>6, <1>8, <1>9 DEF AccountsInv, SeatsTaken
<1>12. StakeKept'
  BY <1>2, <1>6, <1>8, <1>9 DEF AccountsInv, StakeKept
<1>13. StakeNeverOverReleased'
  <2>1. \A t \in Seats : ReleasedWithinVested(member[t])
    BY DEF AccountsInv, StakeNeverOverReleased, ReleasedWithinVested, Released
  <2>2. /\ m.stake_deposited_initial \in Nat /\ m.total_escrow_deposited \in Nat
        /\ m.escrow_balance \in Nat
    BY <1>8 DEF MemberRecord
  <2>3. Released(record) = Released(m)
    BY <1>3, <1>9, <2>2 DEF Released
  <2>4. ReleasedWithinVested(record)
    BY <1>2, <1>6, <1>9, <2>1, <2>3 DEF ReleasedWithinVested
  <2>5. \A t \in Seats : ReleasedWithinVested(member'[t])
    BY <1>8, <2>1, <2>4
  <2> QED BY <2>5 DEF StakeNeverOverReleased, ReleasedWithinVested, Released
<1> QED BY <1>2, <1>10, <1>11, <1>12, <1>13 DEF AccountsInv

LEMMA NextBidAccounts == BidInv /\ AccountsInv /\ [BidsNext]_bidVars => AccountsInv'
<1> SUFFICES ASSUME BidInv, AccountsInv, [BidsNext]_bidVars PROVE AccountsInv'
  OBVIOUS
<1>1. CASE [Next]_vars
  BY <1>1, NextAccounts
<1>2. ASSUME NEW s \in Seats, PlaceEmbeddedBid(s) PROVE AccountsInv'
  <2>1. TypeOK'
    BY <1>2, EmbeddedBid DEF BidInv, RotationInv, TurnInv
  <2>2. /\ pool \in PoolRecord /\ UNCHANGED <<member, memberPdas, vault>>
        /\ pool' = [pool EXCEPT !.current_bid_depth = Depth(member[s].contributions_paid)]
    BY <1>2 DEF PlaceEmbeddedBid, money, AccountsInv, TypeOK
  <2>3. /\ pool'.status = pool.status /\ pool'.slots = pool.slots
        /\ pool'.escrow_balance = pool.escrow_balance
        /\ pool'.solidarity_balance = pool.solidarity_balance
    BY <2>2 DEF PoolRecord
  <2> QED BY <2>1, <2>2, <2>3
          DEF AccountsInv, TalliesMatchVaults, SeatsTaken, StakeKept, StakeNeverOverReleased
<1>3. ASSUME NEW s \in Seats, NEW parcels \in 1 .. CyclesTotal - 1,
             PlaceBidCommit(s, parcels)
      PROVE  [Next]_vars
  BY <1>3 DEF PlaceBidCommit
<1>4. ASSUME NEW b \in bids, PlaceBidReveal(b) PROVE AccountsInv'
  BY <1>4, RevealAccounts
<1> QED BY <1>1, <1>2, <1>3, <1>4 DEF BidsNext, BidStep, bidVars

\* Prepaying in a bid, by any number of parcels, disturbs neither the tallies nor
\* the vesting of a stake, and a default stays one that can be settled.
THEOREM BidsKeepAccounts ==
  BidsSpec => [](TalliesMatchVaults /\ StakeNeverOverReleased /\ SettlementNeverBlocked)
<1>1. BidsSpec => [](BidInv /\ AccountsInv)
  BY InitBids, InitAccounts, NextBidInv, NextBidAccounts, PTL DEF BidsSpec, BidsInit
<1>2. AccountsInv => TalliesMatchVaults /\ StakeNeverOverReleased /\ SettlementNeverBlocked
  BY AccountsSettle DEF AccountsInv
<1> QED BY <1>1, <1>2, PTL

\* A settled member bids no more, and no bid touches its account.
THEOREM BidsLeaveDefaults == BidsSpec => DefaultIsFinal
<1>1. BidsSpec => [](BidInv /\ AccountsInv)
  BY InitBids, InitAccounts, NextBidInv, NextBidAccounts, PTL DEF BidsSpec, BidsInit
<1>2. BidInv /\ AccountsInv /\ [BidsNext]_bidVars
        => [\A s \in Seats : member[s].defaulted => member'[s] = member[s]]_vars
  <2> SUFFICES ASSUME BidInv, AccountsInv, [BidsNext]_bidVars,
                      NEW s \in Seats, member[s].defaulted
               PROVE  member'[s] = member[s]
    OBVIOUS
  <2>1. CASE [Next]_vars
    BY <2>1, SettledUntouched DEF AccountsInv
  <2>2. ASSUME NEW t \in Seats, PlaceEmbeddedBid(t) PROVE member' = member
    BY <2>2 DEF PlaceEmbeddedBid
  <2>3. ASSUME NEW t \in Seats, NEW parcels \in 1 .. CyclesTotal - 1,
               PlaceBidCommit(t, parcels)
        PROVE  member' = member
    BY <2>3 DEF PlaceBidCommit, vars
  <2>4. ASSUME NEW b \in bids, PlaceBidReveal(b) PROVE member'[s] = member[s]
    <3>1. b.bidder # s /\ member \in [Seats -> MemberRecord]
      BY <2>4 DEF PlaceBidReveal, MayReveal, Bidder, Live, AccountsInv, TypeOK
    <3> QED BY <2>4, <3>1 DEF PlaceBidReveal
  <2> QED BY <2>1, <2>2, <2>3, <2>4 DEF BidsNext, BidStep, bidVars
<1> QED BY <1>1, <1>2, PTL DEF BidsSpec, DefaultIsFinal

\* Everything of the pool but who owns the wallets of its seats.
unsold == <<config, pool, member, memberPdas, order, vault, treasury, attestations, now>>

LEMMA TradeKeeps ==
  ASSUME [ValveNext]_valveVars
  PROVE  [Next]_vars \/ UNCHANGED unsold
<1>1. ASSUME NEW s \in Seats, Trade(s) PROVE UNCHANGED unsold
  BY <1>1 DEF Trade, EscapeValveList, EscapeValveListCommit, EscapeValveListReveal,
              CancelPendingListing, EscapeValveBuy, vars, unsold
<1> QED BY <1>1 DEF ValveNext, valveVars

LEMMA NextSold ==
  ASSUME [ValveNext]_valveVars, ValveInv, AccountsInv, StoryInv
  PROVE  AccountsInv' /\ StoryInv'
<1>1. TypeOK'
  BY NextValve DEF ValveInv
<1>2. CASE [Next]_vars
  BY <1>2, NextAccounts, NextStory
<1>3. CASE UNCHANGED unsold
  <2>1. AccountsInv'
    BY <1>1, <1>3
       DEF unsold, AccountsInv, TalliesMatchVaults, SeatsTaken, StakeKept,
           StakeNeverOverReleased
  <2>2. RotationInv'
    BY <1>1, <1>3
       DEF unsold, StoryInv, TimelineInv, RotationInv, TurnInv, OrderDrawn, Served,
           ServedInOrder, SeatsTaken, RosterInv, Undrawn
  <2>3. TimelineInv'
    BY <1>3, <2>2 DEF unsold, StoryInv, TimelineInv, EmptySeats
  <2>4. ASSUME NEW s \in Seats PROVE SeatStory(s)'
    <3>1. SeatStory(s) /\ \A kinds : /\ Issued(s, kinds)' = Issued(s, kinds)
                                     /\ IssuedFor(s, kinds)' = IssuedFor(s, kinds)
      BY <1>3 DEF unsold, StoryInv, Issued, IssuedFor
    <3> QED BY <1>3, <3>1 DEF unsold, SeatStory, PaymentsTold, PayoutTold, DefaultTold
  <2> QED BY <1>3, <2>1, <2>3, <2>4 DEF unsold, StoryInv
<1> QED BY <1>2, <1>3, TradeKeeps

LEMMA Sold == ValveSpec => [](AccountsInv /\ StoryInv)
<1> DEFINE Inv == ValveInv /\ AccountsInv /\ StoryInv
<1>1. ValveInit => Inv
  BY InitType, InitAccounts, InitStory, ValveAssumption
     DEF ValveInit, ValveInv, ListingsAreTheOwners, Init
<1>2. Inv /\ [ValveNext]_valveVars => Inv'
  BY NextValve, NextSold
<1> QED BY <1>1, <1>2, PTL DEF ValveSpec

\* A seat may be sold as often as its owners like: its debts, its collateral and
\* its record go with it, and the pool keeps every promise it made to the first one.
THEOREM SalesKeepAccounts ==
  ValveSpec => []( /\ TalliesMatchVaults /\ StakeNeverOverReleased
                   /\ SettlementNeverBlocked /\ AttestationsTellTheStory )
<1>1. AccountsInv => TalliesMatchVaults /\ StakeNeverOverReleased /\ SettlementNeverBlocked
  BY AccountsSettle DEF AccountsInv
<1>2. StoryInv => AttestationsTellTheStory
  BY StoriesAdd DEF StoryInv
<1> QED BY <1>1, <1>2, Sold, PTL

\* With sales, too, every step of the pool is one of the rotation or none: no sale
\* moves a turn.
THEOREM SalesKeepRotation == ValveSpec => ImplementsRotation
<1>1. ValveInit => Rotation!Start
  BY InitRotation DEF ValveInit
<1>2. StoryInv /\ [ValveNext]_valveVars => [Rotation!Step]_(Rotation!avars)
  <2> SUFFICES ASSUME StoryInv, [ValveNext]_valveVars
               PROVE  [Rotation!Step]_(Rotation!avars)
    OBVIOUS
  <2>1. CASE [Next]_vars
    BY <2>1, StepRotation DEF StoryInv, TimelineInv
  <2>2. CASE UNCHANGED unsold
    BY <2>2 DEF unsold, Rotation!avars, Served, Outcome
  <2> QED BY <2>1, <2>2, TradeKeeps
<1> QED BY <1>1, <1>2, Sold, PTL DEF ValveSpec, ImplementsRotation, Rotation!Promise

\* And the services see no sale in the timeline they follow.
THEOREM SalesKeepTimeline == ValveSpec => ImplementsTimeline
<1>1. ValveInit => Timeline!TimelineInit
  BY InitTimeline DEF ValveInit
<1>2. StoryInv /\ [ValveNext]_valveVars => [Timeline!TimelineNext]_(Timeline!tvars)
  <2> SUFFICES ASSUME StoryInv, [ValveNext]_valveVars
               PROVE  [Timeline!TimelineNext]_(Timeline!tvars)
    OBVIOUS
  <2>1. CASE [Next]_vars
    BY <2>1, StepTimeline DEF StoryInv
  <2>2. CASE UNCHANGED unsold
    BY <2>2, TimelineStutters DEF unsold, StatusOf, Paid, Received, Settled
  <2> QED BY <2>1, <2>2, TradeKeeps
<1> QED BY <1>1, <1>2, Sold, PTL DEF ValveSpec, ImplementsTimeline, Timeline!TimelineSpec

----------------------------------------------------------------------------
(* Bids in the timeline.                                                   *)

\* Only seats that are taken prepay.
LEMMA BidsFillNoSeat ==
  ASSUME LanceInv, EmptySeats, [BidsNext]_bidVars
  PROVE  EmptySeats'
<1>0. /\ TimelineInv /\ pool \in PoolRecord /\ member \in [Seats -> MemberRecord]
  BY DEF LanceInv, BidInv, TimelineInv, RotationInv, TurnInv, TypeOK
<1>1. CASE [Next]_vars
  BY <1>0, <1>1, NextTimelineInv DEF TimelineInv
<1>2. ASSUME NEW s \in Seats, PlaceEmbeddedBid(s) PROVE EmptySeats'
  BY <1>0, <1>2 DEF PlaceEmbeddedBid, PoolRecord, EmptySeats
<1>3. ASSUME NEW s \in Seats, NEW parcels \in 1 .. CyclesTotal - 1,
             PlaceBidCommit(s, parcels)
      PROVE  [Next]_vars
  BY <1>3 DEF PlaceBidCommit
<1>4. ASSUME NEW b \in bids, PlaceBidReveal(b) PROVE EmptySeats'
  <2>1. b.bidder \in pool.slots
    BY <1>0, <1>4
       DEF PlaceBidReveal, MayReveal, Bidder, Live, TimelineInv, RotationInv, SeatsTaken
  <2>2. pool'.slots = pool.slots
    BY <1>0, <1>4 DEF PlaceBidReveal, PoolRecord
  <2>3. \A t \in Seats \ {b.bidder} : member'[t] = member[t]
    BY <1>0, <1>4 DEF PlaceBidReveal
  <2> QED BY <2>1, <2>2, <2>3 DEF EmptySeats
<1> QED BY <1>1, <1>2, <1>3, <1>4 DEF BidsNext, BidStep, bidVars

\* A handed-over turn does not show in the timeline, and a prepayment does.
LEMMA MapReveal ==
  ASSUME LanceInv, EmptySeats, NEW b \in bids, PlaceBidReveal(b)
  PROVE  \E s \in Seats, k \in 1 .. MembersTarget : Timeline!PrepayInBid(s, k)
<1>1. PICK s, k, paid :
        s = b.bidder /\ k = b.parcels /\ paid = member[b.bidder].contributions_paid
  OBVIOUS
<1>2. /\ BidInv /\ RotationInv /\ pool \in PoolRecord /\ pool.current_cycle \in Nat
      /\ member \in [Seats -> MemberRecord] /\ s \in Seats /\ k \in Nat /\ k >= 1
  BY <1>1, BidTypes
     DEF LanceInv, EnvelopesAreUnique, BidInv, RotationInv, TurnInv, TypeOK, BidRecord
<1>3. paid \in Nat /\ MembersTarget \in Nat /\ CyclesTotal = MembersTarget
  BY <1>1, <1>2, Constants DEF MemberRecord, CyclesTotal
<1>4. /\ pool.status = "Active" /\ order # Undrawn /\ RevealOpen
      /\ ~member[s].defaulted /\ ~member[s].paid_out
      /\ paid >= pool.current_cycle + 1 /\ paid + k <= CyclesTotal /\ now' = now
  BY <1>1 DEF PlaceBidReveal, MayReveal, Bidder, Live, WinsCycle
<1>5. k \in 1 .. MembersTarget /\ paid > pool.current_cycle
  BY <1>2, <1>3, <1>4
<1>6. order' # Undrawn' /\ Undrawn' = Undrawn
  <2>1. RotationInv' /\ order' = Swapped(s)
    BY <1>1, RevealBid, <1>2 DEF BidInv
  <2>2. PICK depth \in Nat : WinsCycle(s, depth)
    BY <1>1, <1>2, RevealType DEF PlaceBidReveal, MayReveal
  <2>3. Swapped(s) \in DrawOrders
    BY <1>1, <1>2, <2>2, SwapFacts DEF PlaceBidReveal, MayReveal
  <2> QED BY <2>1, <2>3, DrawOrderFacts DEF Undrawn
<1>7. /\ pool'.status = pool.status /\ pool'.current_cycle = pool.current_cycle
      /\ pool'.next_cycle_at = pool.next_cycle_at
  BY <1>2 DEF PlaceBidReveal, PoolRecord
<1>8. PICK record : record = Prepaid(member[s], k)
  OBVIOUS
<1>9. /\ record.contributions_paid = paid + k
      /\ record.paid_out = member[s].paid_out
      /\ record.defaulted = member[s].defaulted
      /\ member'[s] = record /\ \A t \in Seats \ {s} : member'[t] = member[t]
  BY <1>1, <1>2, <1>8 DEF PlaceBidReveal, Prepaid, MemberRecord
<1>10. Received' = Received /\ Settled' = Settled
  BY <1>9 DEF Received, Settled
<1>11. Paid' = [Paid EXCEPT ![s] = @ + k]
  BY <1>1, <1>2, <1>9 DEF Paid
<1>12. StatusOf = "Active" /\ StatusOf' = "Active"
  BY <1>4, <1>7 DEF StatusOf
<1>13. pool.next_cycle_at <= now /\ now < Timeline!GraceDeadline
  BY <1>4 DEF RevealOpen, GraceDeadline, Timeline!GraceDeadline
<1>14. Timeline!PrepayInBid(s, k)
  BY <1>1, <1>2, <1>3, <1>4, <1>5, <1>6, <1>7, <1>10, <1>11, <1>12, <1>13
     DEF Timeline!PrepayInBid, Paid, Received, Settled
<1> QED BY <1>2, <1>5, <1>14

\* A pool with bids keeps the timeline, too: a handed-over turn does not show in it,
\* and a reveal is one prepayment of several installments.
THEOREM BidsKeepTimeline == BidsSpec => ImplementsTimeline
<1> DEFINE Inv == LanceInv /\ EmptySeats
<1>1. BidsInit => Inv /\ Timeline!TimelineInit
  BY InitBids, InitTimeline DEF BidsInit, LanceInv, EnvelopesAreUnique, TimelineInv
<1>2. Inv /\ [BidsNext]_bidVars => Inv'
  BY NextLance, BidsFillNoSeat
<1>3. Inv /\ [BidsNext]_bidVars => [Timeline!TimelineNext]_(Timeline!tvars)
  <2> SUFFICES ASSUME LanceInv, EmptySeats, [BidsNext]_bidVars
               PROVE  [Timeline!TimelineNext]_(Timeline!tvars)
    OBVIOUS
  <2>0. TimelineInv /\ BidInv /\ pool \in PoolRecord
    BY DEF LanceInv, BidInv, TimelineInv, RotationInv, TurnInv, TypeOK
  <2>1. CASE [Next]_vars
    BY <2>0, <2>1, StepTimeline
  <2>2. ASSUME NEW s \in Seats, PlaceEmbeddedBid(s) PROVE UNCHANGED Timeline!tvars
    <3>1. /\ pool'.status = pool.status /\ pool'.current_cycle = pool.current_cycle
          /\ pool'.next_cycle_at = pool.next_cycle_at
          /\ UNCHANGED <<member, now>> /\ order # Undrawn
      BY <2>0, <2>2 DEF PlaceEmbeddedBid, MayPlaceBid, WinsCycle, PoolRecord
    <3>2. order' # Undrawn /\ Undrawn' = Undrawn
      <4>1. order' = Swapped(s) /\ RotationInv
        BY <2>0, <2>2, EmbeddedBid DEF BidInv
      <4>2. PICK depth : depth = Depth(member[s].contributions_paid)
        OBVIOUS
      <4>3. depth \in Nat /\ Bidder(s) /\ WinsCycle(s, depth)
        <5>1. member[s].contributions_paid \in Nat /\ pool.current_cycle \in Nat
          BY <2>0, BidTypes, Constants DEF MemberRecord
        <5> QED BY <2>2, <4>2, <5>1 DEF PlaceEmbeddedBid, MayPlaceBid, Depth, SaturatingSub
      <4> QED BY <4>1, <4>3, SwapFacts, DrawOrderFacts DEF Undrawn
    <3>3. StatusOf' = StatusOf
      BY <3>1 DEF StatusOf
    <3> QED BY <3>1, <3>2, <3>3 DEF Timeline!tvars, Timeline!seatVars
  <2>3. ASSUME NEW s \in Seats, NEW parcels \in 1 .. CyclesTotal - 1,
               PlaceBidCommit(s, parcels)
        PROVE  [Next]_vars
    BY <2>3 DEF PlaceBidCommit
  <2>4. ASSUME NEW b \in bids, PlaceBidReveal(b) PROVE Timeline!TimelineNext
    <3>1. Timeline!Seats = Seats
      BY DEF Timeline!Seats, Seats
    <3> QED BY <2>4, <3>1, MapReveal DEF Timeline!TimelineNext
  <2> QED BY <2>1, <2>2, <2>3, <2>4 DEF BidsNext, BidStep, bidVars
<1> HIDE DEF Inv
<1> QED BY <1>1, <1>2, <1>3, PTL
        DEF BidsSpec, ImplementsTimeline, Timeline!TimelineSpec
=============================================================================
