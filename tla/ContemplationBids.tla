-------------------------- MODULE ContemplationBids --------------------------
(***************************************************************************)
(* Lances (ADR 0012): members of a sorteio pool bid for the current cycle  *)
(* by prepaying.  A bid exchanges two entries of DrawResult.order, so it   *)
(* runs beside every handler of RoscaPool and only moves turns.  An        *)
(* embedded bid stakes what is prepaid already; a free bid is sealed before*)
(* the deadline, in a Bid account, and opened after it, when it pays the   *)
(* installments it names.                                                  *)
(*                                                                         *)
(* The hash of an envelope stands for what it seals, the number of         *)
(* installments: nobody can open it with another amount or wallet.  An     *)
(* amount that is no multiple of the installment can be sealed and never   *)
(* opened, as can any envelope here.                                       *)
(***************************************************************************)
EXTENDS RoscaPool

CONSTANT MaxEnvelopes   \* bound: Bid accounts ever created

VARIABLE bids           \* the Bid PDAs, one per cycle and bidder

bidVars == <<vars, bids>>

Envelope(cycle, s, parcels) ==
  [cycle |-> cycle, bidder |-> s, parcels |-> parcels, state |-> "Committed"]

Opened(b) == [b EXCEPT !.state = "Revealed"]

\* Both kinds of bid close at the deadline; before the M-2 fix an embedded bid
\* could land later, and here it still can at the deadline itself.
BiddingOpen_mutant == now <= pool.next_cycle_at

BiddingOpen == now < pool.next_cycle_at

RevealOpen == now >= pool.next_cycle_at /\ now < GraceDeadline

\* A live member of the sorteio pool whose turn has not been paid yet.
Bidder(s) ==
  /\ ~config.paused
  /\ pool.status = "Active"
  /\ OrderingPolicy = "Sorteio"
  /\ Live(s)
  /\ ~member[s].paid_out

\* Installments prepaid beyond the one due in this cycle.
Depth(paid) == SaturatingSub(SaturatingSub(paid, pool.current_cycle), 1)

\* Ties lose, and the turn brought forward is still ahead.
WinsCycle(s, depth) ==
  /\ order # Undrawn
  /\ depth >= 1
  /\ depth > pool.current_bid_depth
  /\ order[s] > pool.current_cycle

Holder == CHOOSE h \in Seats : order[h] = pool.current_cycle

\* The displaced seat keeps no turn of its own.
Swapped_mutant(s) == [order EXCEPT ![s] = pool.current_cycle]

\* The winner and the holder of the cycle exchange their turns.
Swapped(s) == [order EXCEPT ![s] = pool.current_cycle, ![Holder] = order[s]]

\* What a member has prepaid wins the cycle.
MayPlaceBid(s) ==
  /\ Bidder(s)
  /\ BiddingOpen
  /\ WinsCycle(s, Depth(member[s].contributions_paid))

PlaceEmbeddedBid(s) ==
  /\ MayPlaceBid(s)
  /\ order' = Swapped(s)
  /\ pool' = [pool EXCEPT !.current_bid_depth = Depth(member[s].contributions_paid)]
  /\ UNCHANGED <<config, member, memberPdas, money, attestations, now, bids>>

\* One envelope per cycle and bidder: Anchor's init fails on a second one.
MayCommit(s) ==
  /\ Bidder(s)
  /\ BiddingOpen
  /\ member[s].contributions_paid < CyclesTotal
  /\ \A b \in bids : b.cycle = pool.current_cycle => b.bidder # s
  /\ Cardinality(bids) < MaxEnvelopes

PlaceBidCommit(s, parcels) ==
  /\ MayCommit(s)
  /\ bids' = bids \cup {Envelope(pool.current_cycle, s, parcels)}
  /\ UNCHANGED vars

\* A bid pays its installments at once, all of them ahead of time.
Prepaid(m, k) ==
  [m EXCEPT !.contributions_paid = @ + k,
            !.on_time_count = @ + k,
            !.escrow_balance = @ + k * Split.escrow,
            !.total_escrow_deposited = @ + k * Split.escrow]

\* The envelope is of this cycle, and what it seals wins it.
MayReveal(b) ==
  LET s    == b.bidder
      paid == member[s].contributions_paid + b.parcels
  IN
  /\ Bidder(s)
  /\ RevealOpen
  /\ b.state = "Committed"
  /\ b.cycle = pool.current_cycle
  /\ member[s].contributions_paid >= pool.current_cycle + 1
  /\ paid <= CyclesTotal
  /\ WinsCycle(s, Depth(paid))
  /\ wallet[s] >= b.parcels * InstallmentAmount

PlaceBidReveal(b) ==
  LET s     == b.bidder
      k     == b.parcels
      paid  == member[s].contributions_paid + k
      depth == Depth(paid)
  IN
  /\ MayReveal(b)
  /\ wallet' = [wallet EXCEPT ![s] =
       @ - k * (Split.solidarity + Split.escrow + Split.pool)]
  /\ vault' = [vault EXCEPT !.solidarity = @ + k * Split.solidarity,
                            !.escrow = @ + k * Split.escrow,
                            !.pool_usdc = @ + k * Split.pool]
  /\ member' = [member EXCEPT ![s] = Prepaid(@, k)]
  /\ order' = Swapped(s)
  /\ pool' = [pool EXCEPT !.current_bid_depth = depth,
                          !.total_contributed = @ + k * InstallmentAmount,
                          !.solidarity_balance = @ + k * Split.solidarity,
                          !.escrow_balance = @ + k * Split.escrow]
  /\ bids' = (bids \ {b}) \cup {Opened(b)}
  /\ Attest({Attestation(IF paid = CyclesTotal THEN "POOL_COMPLETE" ELSE "PAYMENT",
                         paid - 1, s)})
  /\ UNCHANGED <<config, memberPdas, treasury, now>>

----------------------------------------------------------------------------

BidsInit == Init /\ bids = {}

BidStep ==
  \/ \E s \in Seats : PlaceEmbeddedBid(s)
  \/ \E s \in Seats, parcels \in 1 .. CyclesTotal - 1 : PlaceBidCommit(s, parcels)
  \/ \E b \in bids : PlaceBidReveal(b)

BidsNext ==
  \/ Next /\ UNCHANGED bids
  \/ BidStep

BidsSpec == BidsInit /\ [][BidsNext]_bidVars

----------------------------------------------------------------------------
\* current_bid_depth is a byte of the Pool account, the turns are in the
\* DrawResult, the payments in the Member accounts, and three payout handlers
\* reset the first: whoever holds the cycle has always prepaid as deep as the
\* depth the next bid has to beat.
StandingDepthIsReal ==
  pool.status = "Active" /\ pool.current_bid_depth > 0 =>
    LET h == Holder
    IN  /\ Depth(member[h].contributions_paid) >= pool.current_bid_depth
        /\ Live(h) /\ ~member[h].paid_out

\* Handing over a cycle is the one thing that may move a drawn order, from the
\* draw on: two seats exchange the current cycle and a later one, both are still
\* unpaid, and nobody is left without a turn or with somebody else's.
TurnsOnlyExchanged ==
  [][order # Undrawn /\ order' # order =>
       \E s, h \in Seats :
         /\ order[h] = pool.current_cycle /\ order[s] > pool.current_cycle
         /\ ~member[h].paid_out /\ ~member[s].paid_out
         /\ order' = [order EXCEPT ![s] = order[h], ![h] = order[s]]]_bidVars

\* docs/security/lance-contemplation.md, 5.3: once an envelope of the cycle is
\* open, and its depth public, the cycle changes hands only to an envelope that
\* was sealed before; no bid can answer it.
NobodyAnswersAReveal ==
  [][\A b \in bids :
       /\ b.state = "Revealed" /\ b.cycle = pool.current_cycle
       /\ order' # order
       => \E c \in bids : c.state = "Committed" /\ Opened(c) \in bids']_bidVars
=============================================================================
