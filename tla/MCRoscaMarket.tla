---------------------------- MODULE MCRoscaMarket ----------------------------
(***************************************************************************)
(* A sorteio pool of three for TLC, with its auctions and its market.  All *)
(* of it at once is too much, so each behaviour has one subject: how the   *)
(* order is drawn, who defaults and is settled, the bids of the first two  *)
(* cycles, or seat 0 on sale in them.                                      *)
(***************************************************************************)
EXTENDS Lance, EscapeValve

VARIABLE subject

\* The stake, and one, three and two installments.
Purses == [s \in 0 .. 2 |-> 100 + (IF s = 0 THEN 1 ELSE 4 - s) * 100]

Founders == [s \in 0 .. 2 |-> CASE s = 0 -> "ana" [] s = 1 -> "bia" [] s = 2 -> "caio"]

\* A fourth wallet, which can buy a seat and pay what is left of it.
Savings == [w \in Wallets |-> IF w = "davi" THEN 250 ELSE 0]

market == <<owner, outside, listings>>
allVars == <<subject, vars, bids, market>>

\* Seats are alike until they are drawn: they fill, and are drawn, in order.
Forms(levels) == \E s \in Seats, level \in levels :
  /\ s = pool.members_joined
  /\ JoinPool(s, level)
  /\ order' = IF s = MembersTarget - 1 THEN [t \in Seats |-> t] ELSE Undrawn

Turns == \E s \in Seats :
  \/ Contribute(s) \/ ClaimPayout(s) \/ CrankPayout(s)
  \/ SkipDefaultedPayout(s) \/ SettleDefault(s)

\* The first cycle, with the emergency stop.
Draw ==
  /\ pool.current_cycle = 0
  /\ \/ \E s \in Seats : JoinPool(s, 1)
     \/ FinalizeDraw \/ Pause \/ Tick
     \/ \E s \in Seats : Contribute(s) \/ ClaimPayout(s)
  /\ UNCHANGED <<bids, market>>

\* The whole life of the pool up to its closing ceremony, with stakes of two levels.
Settling ==
  /\ Forms(Levels) \/ Turns \/ Tick
  /\ UNCHANGED <<bids, market>>

\* Until the last cycle begins.
Auction ==
  /\ pool.current_cycle < 2
  /\ \/ (Forms({1}) \/ Turns \/ Tick) /\ UNCHANGED bids
     \/ BidStep
  /\ UNCHANGED market

\* Until the last cycle begins.
Sale ==
  /\ pool.current_cycle < 2
  /\ \/ (Forms({1}) \/ Turns \/ Tick) /\ UNCHANGED market
     \/ Trade(0)
  /\ UNCHANGED bids

Subjects == {"draw", "settling", "auction", "sale"}

MarketNext ==
  /\ UNCHANGED subject
  /\ \/ subject = "draw" /\ Draw
     \/ subject = "settling" /\ Settling
     \/ subject = "auction" /\ Auction
     \/ subject = "sale" /\ Sale
=============================================================================
