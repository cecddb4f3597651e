-------------------------------- MODULE Lance --------------------------------
(***************************************************************************)
(* What the app tells a member about bidding (lib/lance.ts), from the      *)
(* accounts as it reads them: whether a bid would land now, how many       *)
(* installments it lacks, whether an envelope can be sealed or opened.  It *)
(* repeats the program's rules in its own words, so that nobody signs a    *)
(* bid that is going to fail.  The emergency stop is not among them.       *)
(*                                                                         *)
(* A lost envelope is no lost bid: its salt comes back with the wallet's   *)
(* signature, and its amount by trying the few that there are.             *)
(***************************************************************************)
EXTENDS ContemplationBids

\* Forgets that a tie loses.
RequiredDepth_mutant == pool.current_bid_depth

RequiredDepth == pool.current_bid_depth + 1

\* The depth of whoever has paid everything.
MaxDepth == SaturatingSub(CyclesTotal, pool.current_cycle + 1)

PrepaysNeeded(s) ==
  SaturatingSub(RequiredDepth, Depth(member[s].contributions_paid))

MayBid(s) == /\ OrderingPolicy = "Sorteio"
             /\ pool.status = "Active"
             /\ Live(s)

HasTurnAhead(s) == ~member[s].paid_out /\ order[s] > pool.current_cycle

LanceStatus(s) ==
  IF ~MayBid(s) THEN "notApplicable"
  ELSE IF member[s].paid_out THEN "contemplated"
  ELSE IF order = Undrawn THEN "awaitingDraw"
  ELSE IF ~HasTurnAhead(s) THEN "contemplated"
  ELSE IF now >= pool.next_cycle_at THEN "windowClosed"
  ELSE IF RequiredDepth > MaxDepth THEN "outOfRunway"
  ELSE IF PrepaysNeeded(s) > 0 THEN "needsPrepay"
  ELSE "ready"

FreeBidPhase == IF now < pool.next_cycle_at THEN "bidding"
                ELSE IF now < GraceDeadline THEN "revealing"
                ELSE "closed"

MaxParcels(s) ==
  Lesser(MaxDepth, SaturatingSub(CyclesTotal, member[s].contributions_paid))

\* useBid: the Bid account of this cycle and wallet, if there is one.
EnvelopesOf(s) == {b \in bids : b.cycle = pool.current_cycle /\ b.bidder = s}

FreeBidStatus(s) ==
  LET base == LanceStatus(s)
  IN
  IF base \in {"notApplicable", "awaitingDraw", "contemplated"} THEN base
  ELSE IF \E b \in EnvelopesOf(s) : b.state = "Revealed" THEN "revealed"
  ELSE IF FreeBidPhase = "closed" THEN "closed"
  ELSE IF FreeBidPhase = "revealing"
    THEN IF EnvelopesOf(s) # {} THEN "canReveal" ELSE "missedBidding"
  ELSE IF EnvelopesOf(s) # {} THEN "sealed"
  ELSE IF MaxParcels(s) < 1 THEN "notApplicable"
  ELSE "canSeal"

\* The number of installments whose hash is the one on chain; 0 for none.
RecoverBidParcels(b) ==
  IF b.parcels \in 1 .. Greater(1, MaxParcels(b.bidder)) THEN b.parcels ELSE 0

----------------------------------------------------------------------------

\* A bid of the present cycle wins once k more installments are prepaid.
LandsAfter(s, k) ==
  /\ Bidder(s)
  /\ BiddingOpen
  /\ WinsCycle(s, Depth(member[s].contributions_paid + k))

Due(s) == SaturatingSub(pool.current_cycle + 1, member[s].contributions_paid)

\* useGroupChainState.ts:203-204: "a panel never promises a bid that will
\* revert".  Two programs in two languages agree in every state, but for the
\* emergency stop: a bid that is said to be ready lands, what is asked to be paid
\* beyond what is due is the least that makes it land, it is called hopeless only
\* when nothing does, an envelope can be sealed whenever that is offered, and one
\* that the program would open is offered for opening with its amount recovered.
LanceAdviceIsSound ==
  ~config.paused =>
    /\ \A s \in Seats :
         LET status == LanceStatus(s)
             unpaid == 0 .. CyclesTotal - member[s].contributions_paid
         IN  /\ status = "ready" <=> MayPlaceBid(s)
             /\ status = "needsPrepay" =>
                  \A k \in unpaid : LandsAfter(s, k) <=> k >= Due(s) + PrepaysNeeded(s)
             /\ status = "outOfRunway" => \A k \in unpaid : ~LandsAfter(s, k)
             /\ FreeBidStatus(s) = "canSeal" /\ Cardinality(bids) < MaxEnvelopes
                  => MayCommit(s)
    /\ \A b \in bids : MayReveal(b) =>
         FreeBidStatus(b.bidder) = "canReveal" /\ RecoverBidParcels(b) = b.parcels
=============================================================================
