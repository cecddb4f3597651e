----------------------------- MODULE EscapeValve -----------------------------
(***************************************************************************)
(* The secondary market (#232): a member lists its seat, at once or in a   *)
(* sealed price opened later, and another wallet buys it.  The sale closes *)
(* the seller's Member account and opens one of the buyer with the same    *)
(* record, so seats go on as in RoscaPool and only change hands: member    *)
(* and wallet are still indexed by seat, and owner says whose they are.    *)
(* The pool's own accounts are not touched.                                *)
(*                                                                         *)
(* The hash of a sealed price stands for the price.  The position NFT      *)
(* moves with the seat in the same transaction and is left out.            *)
(***************************************************************************)
EXTENDS RoscaPool

CONSTANTS
  Wallets,               \* who may own a seat
  FirstOwner,            \* [Seats -> Wallets]: who joins for each seat
  OutsideFunds,          \* [Wallets -> Nat]: USDC of the wallets without a seat
  Prices,                \* prices a seller may ask
  CommitRevealRequired,  \* config.commit_reveal_required
  RevealCooldown         \* REVEAL_COOLDOWN_SECS

ASSUME ValveAssumption ==
  /\ IsFiniteSet(Wallets)
  /\ FirstOwner \in [Seats -> Wallets]
  /\ \A s, t \in Seats : FirstOwner[s] = FirstOwner[t] => s = t
  /\ OutsideFunds \in [Wallets -> Nat]
  /\ \A s \in Seats : OutsideFunds[FirstOwner[s]] = 0
  /\ Prices \subseteq Nat \ {0}
  /\ CommitRevealRequired \in BOOLEAN
  /\ RevealCooldown \in Nat

VARIABLES
  owner,     \* [Seats -> Wallets]: Member.wallet
  outside,   \* [Wallets -> Nat]: USDC held apart from any seat
  listings   \* the EscapeValveListing PDAs, one per slot

valveVars == <<vars, owner, outside, listings>>

NoListing == [status |-> "None"]

\* A seat up to date may be listed, in either way, unless it is already.
Listable(s) ==
  /\ ~config.paused
  /\ pool.status = "Active"
  /\ Live(s)
  /\ listings[s] = NoListing
  /\ member[s].contributions_paid >= pool.current_cycle

Listing(s, price, status, buyable_after) ==
  [seller |-> owner[s], price |-> price, status |-> status,
   buyable_after |-> buyable_after]

EscapeValveList(s, price) ==
  /\ ~CommitRevealRequired
  /\ Listable(s)
  /\ listings' = [listings EXCEPT ![s] = Listing(s, price, "Active", now)]
  /\ UNCHANGED <<vars, owner, outside>>

EscapeValveListCommit(s, price) ==
  /\ Listable(s)
  /\ listings' = [listings EXCEPT ![s] = Listing(s, price, "Pending", 0)]
  /\ UNCHANGED <<vars, owner, outside>>

\* The seller opens its price; the member behind the listing is not looked at.
EscapeValveListReveal(s) ==
  /\ ~config.paused
  /\ pool.status = "Active"
  /\ listings[s].status = "Pending"
  /\ listings' = [listings EXCEPT ![s].status = "Active",
                                  ![s].buyable_after = now + RevealCooldown]
  /\ UNCHANGED <<vars, owner, outside>>

CancelPendingListing(s) ==
  /\ ~config.paused
  /\ pool.status # "Gone"
  /\ listings[s].status = "Pending"
  /\ listings' = [listings EXCEPT ![s] = NoListing]
  /\ UNCHANGED <<vars, owner, outside>>

\* new_member is created by init: a wallet holds one seat of the pool at most.
HasSeat(w) == \E s \in memberPdas : owner[s] = w

\* The listing of a seat that was sold stays.
ListingsAfterSale_mutant(s) == listings

ListingsAfterSale(s) == [listings EXCEPT ![s] = NoListing]

\* What the seller takes away from its seat: its wallet is its own.
SellerKeeps_mutant(s, price) == outside[owner[s]] + price

SellerKeeps(s, price) == outside[owner[s]] + wallet[s] + price

EscapeValveBuy(s, w) ==
  LET l == listings[s]
  IN
  /\ ~config.paused
  /\ pool.status = "Active"
  /\ l.status = "Active"
  /\ Live(s)
  /\ l.seller = owner[s]
  /\ ~HasSeat(w)
  /\ outside[w] >= l.price
  /\ now >= l.buyable_after
  /\ outside' = [outside EXCEPT ![owner[s]] = SellerKeeps(s, l.price), ![w] = 0]
  /\ wallet' = [wallet EXCEPT ![s] = outside[w] - l.price]
  /\ owner' = [owner EXCEPT ![s] = w]
  /\ listings' = ListingsAfterSale(s)
  /\ UNCHANGED <<config, pool, member, memberPdas, order, vault, treasury,
                 attestations, now>>

----------------------------------------------------------------------------

ValveInit ==
  /\ Init
  /\ owner = FirstOwner
  /\ outside = OutsideFunds
  /\ listings = [s \in Seats |-> NoListing]

\* What may be done about the listing of seat s.
Trade(s) ==
  \/ \E price \in Prices : EscapeValveList(s, price) \/ EscapeValveListCommit(s, price)
  \/ EscapeValveListReveal(s)
  \/ CancelPendingListing(s)
  \/ \E w \in Wallets : EscapeValveBuy(s, w)

ValveNext ==
  \/ Next /\ UNCHANGED <<owner, outside, listings>>
  \/ \E s \in Seats : Trade(s)

ValveSpec == ValveInit /\ [][ValveNext]_valveVars

----------------------------------------------------------------------------
\* A listing outlives payments, payouts, a default and a change of its own
\* status; it is always the owner's of its seat, and no two seats of the pool
\* have one owner, so a sale is never made in the name of a former member.
ListingsAreTheOwners ==
  /\ \A s \in Seats : listings[s] # NoListing => listings[s].seller = owner[s]
  /\ \A s, t \in memberPdas : owner[s] = owner[t] => s = t

USDC == SumFunction(wallet) + SumFunction(outside)
          + vault.pool_usdc + vault.escrow + vault.solidarity + treasury

\* No handler of the pool or of the market makes or loses USDC: installments,
\* payouts, seizures, releases, sales and the final sweep only move it.
USDCConserved == USDC = SumFunction(Funds) + SumFunction(OutsideFunds)
=============================================================================
