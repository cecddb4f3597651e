----------------------------- MODULE WebClient -----------------------------
(***************************************************************************)
(* The web app (app/) of one member, Me, beside the pool: the shared store *)
(* that polls the chain, the dialogs that offer what the last view allows, *)
(* and the senders that simulate, ask the wallet to sign, and wait for the *)
(* confirmation.  Every await ends a step, so a view is as old as its two  *)
(* reads, and a transaction lands on a pool that has moved on.             *)
(*                                                                         *)
(* Failures covered: reads that fail, simulations and signatures refused,  *)
(* transactions dropped, confirmations lost although the transaction may   *)
(* still land, a reload of the page.  The node answers consistently and    *)
(* the clock of the browser is the chain's.  Money is left out: the        *)
(* program may turn a call down for want of it.  Me pays with this app     *)
(* only; the others use theirs.                                            *)
(***************************************************************************)
EXTENDS PoolTimeline, SequencesExt

CONSTANTS
  Me,           \* the seat of the connected wallet
  SeatOf,       \* the seat each cycle pays: the identity, or the drawn order
  MaxAdrift     \* bound on the calls sent and given up on

ASSUME WebClientAssumption ==
  /\ Me \in Seats
  /\ SeatOf \in [Seats -> Seats]
  /\ \A s \in Seats : \E c \in Seats : SeatOf[c] = s
  /\ MaxAdrift \in Nat

VARIABLES
  view,      \* poolStore.state and the DrawResult: what the page shows
  sync,      \* what the sync in flight has read
  modal,     \* the dialog: the call it awaits, and what is known of it
  adrift,    \* the calls sent of which nobody knows, which may still land
  payments   \* history: how often Me paid the installment of each cycle

webVars == <<view, sync, modal, adrift, payments>>
calls == <<modal, adrift, payments>>
wvars == <<tvars, webVars>>

Unread == [read |-> FALSE, failed |-> FALSE]
Failed == [Unread EXCEPT !.failed = TRUE]
NoSync == [pool |-> Unread, members |-> Unread]
Idle == [fate |-> "none"]
NoView == [status |-> "loading", pool |-> Unread, members |-> Unread, drawn |-> FALSE]

WebInit ==
  /\ TimelineInit
  /\ view = NoView
  /\ sync = NoSync
  /\ modal = Idle
  /\ adrift = <<>>
  /\ payments = [c \in Seats |-> 0]

----------------------------------------------------------------------------
(* The store.                                                              *)

PoolAccount == [read |-> TRUE, status |-> status, cycle |-> current_cycle,
                window |-> next_cycle_at]
MemberAccounts == [read |-> TRUE, paid |-> contributions_paid,
                   defaulted |-> defaulted, paid_out |-> paid_out]

\* One sync at a time: the timer, a first subscriber and a refresh all join the
\* one in flight, if there is one.  Its two reads (Promise.all) end in any order;
\* the second one shows both.
Received(pool, members) ==
  IF pool.read /\ members.read
  THEN /\ view' = [view EXCEPT !.status = "ok", !.pool = pool, !.members = members]
       /\ sync' = NoSync
  ELSE /\ sync' = [sync EXCEPT !.pool = pool, !.members = members]
       /\ UNCHANGED view

FetchPoolsRaw ==
  /\ sync.pool = Unread
  /\ Received(PoolAccount, sync.members)
  /\ UNCHANGED <<tvars, calls>>

FetchAllPoolMembers ==
  /\ sync.members = Unread
  /\ Received(sync.pool, MemberAccounts)
  /\ UNCHANGED <<tvars, calls>>

\* A sync that fails is not in flight any more.
AfterFailure_mutant == [pool |-> Failed, members |-> Failed]

AfterFailure == NoSync

\* The view is kept; one that never loaded falls back.
SyncFails ==
  /\ Failed \notin {sync.pool, sync.members}
  /\ view' = [view EXCEPT !.status = IF view.pool.read THEN @ ELSE "fallback"]
  /\ sync' = AfterFailure
  /\ UNCHANGED <<tvars, calls>>

\* useDraw polls on its own.
UseDraw ==
  /\ view.drawn # drawn
  /\ view' = [view EXCEPT !.drawn = drawn]
  /\ UNCHANGED <<tvars, sync, calls>>

\* The dialog is gone; what it had sent may still land.  Only a payment and a
\* claim are kept: the other calls anybody may make at any time (PoolStep).
Leave ==
  /\ modal' = Idle
  /\ IF modal.fate = "sent" /\ modal.call.op \in {"contribute", "claim_payout"}
     THEN Len(adrift) < MaxAdrift /\ adrift' = Append(adrift, modal.call)
     ELSE UNCHANGED adrift

\* The page is opened anew: the store is seeded from the cache, which holds
\* the view shown last unless it has expired; the dialog and the sync are gone.
Reload ==
  /\ view' \in {view, NoView}
  /\ sync' = NoSync
  /\ Leave
  /\ UNCHANGED <<tvars, payments>>

----------------------------------------------------------------------------
(* What the dialogs offer on a view.                                       *)

onChainReady(v) ==
  /\ v.status = "ok"
  /\ v.pool.status = "Active"
  /\ Me \notin v.members.defaulted

\* Null on an undrawn pool.
Contemplates(v, s) == v.drawn /\ SeatOf[v.pool.cycle] = s

GraceOpen_mutant(v) == now <= v.pool.window + GracePeriod

GraceOpen(v) == now < v.pool.window + GracePeriod

\* effectiveMonth is contributions_paid on a real wallet (useMyDevnetPositions.ts:77).
cycleDone(v) == v.members.paid[Me] >= MembersTarget

\* The installment due, one in arrears while the grace window is open, or one
\* ahead unless it is the member's turn to claim.
PaymentOffered(v) ==
  LET paid == v.members.paid[Me] IN
  /\ onChainReady(v)
  /\ ~cycleDone(v)
  /\ \/ paid = v.pool.cycle
     \/ paid < v.pool.cycle /\ GraceOpen(v)
     \/ /\ paid > v.pool.cycle
        /\ ~Contemplates(v, Me)
        /\ paid < MembersTarget

claimReadyChain(v) ==
  /\ onChainReady(v)
  /\ Me \notin v.members.paid_out
  /\ Contemplates(v, Me)

\* The contemplated seat of CrankPayoutModal, past its grace window.
CrankOffered(v, s) ==
  /\ v.status = "ok"
  /\ v.pool.status = "Active"
  /\ Contemplates(v, s)
  /\ s \notin v.members.defaulted \cup v.members.paid_out
  /\ ~GraceOpen(v)

\* A candidate of SettleDefaultCrankModal; the status of the pool is not asked.
SettleOffered(v, s) ==
  /\ v.status = "ok"
  /\ v.pool.cycle > 0
  /\ v.members.paid[s] < v.pool.cycle
  /\ s \notin v.members.defaulted
  /\ ~GraceOpen(v)

drawPending(v) == v.status = "ok" /\ v.pool.status = "Active" /\ ~v.drawn

deriveContributeSchema(cycle, v) ==
  IF cycle = MembersTarget - 1 THEN "POOL_COMPLETE"
  ELSE IF cycle < v.pool.cycle THEN "LATE"
  ELSE IF now <= v.pool.window THEN "PAYMENT" ELSE "LATE"

----------------------------------------------------------------------------
(* The programs: whether a call is accepted, and what it does then.        *)

installment_deadline(cycle) == next_cycle_at - (current_cycle - cycle) * CycleDuration

contribution_schema(cycle) ==
  IF cycle = MembersTarget - 1 THEN "POOL_COMPLETE"
  ELSE IF now <= installment_deadline(cycle) THEN "PAYMENT" ELSE "LATE"

\* The program takes the installment of any cycle the member may pay.
CycleMatches_mutant(tx) ==
  tx.op \in {"contribute", "finalize_draw"} \/ tx.cycle = current_cycle

\* The cycle argument of every call is checked.
CycleMatches(tx) ==
  CASE tx.op = "contribute"    -> tx.cycle = contributions_paid[Me]
    [] tx.op = "finalize_draw" -> TRUE
    [] OTHER                   -> tx.cycle = current_cycle

MayReceive(s) ==
  /\ status = "Active"
  /\ drawn
  /\ s \notin defaulted \cup paid_out
  /\ SeatOf[current_cycle] = s

\* Whether the program accepts the call, if there is money for it.  The account
\* of the attestation is derived from the schema: a wrong guess reverts.
Accepts(tx) ==
  /\ CycleMatches(tx)
  /\ CASE tx.op = "contribute"     -> CanPay(Me) /\ tx.schema = contribution_schema(tx.cycle)
       [] tx.op = "claim_payout"   -> MayReceive(Me)
       [] tx.op = "crank_payout"   -> MayReceive(tx.seat) /\ now >= GraceDeadline
       [] tx.op = "settle_default" -> Overdue(tx.seat)
       [] tx.op = "finalize_draw"  -> status = "Active" /\ ~drawn

Executes(tx) ==
  \/ tx.op = "contribute" /\ PayInstallment(Me)
  \/ tx.op \in {"claim_payout", "crank_payout"} /\ ReceiveCredit(tx.seat)
  \/ tx.op = "settle_default" /\ Settle(tx.seat)
  \/ tx.op = "finalize_draw" /\ DrawLate

----------------------------------------------------------------------------
(* A call, from the button to the confirmation.                            *)

Call(op, seat, cycle, schema) ==
  [op |-> op, seat |-> seat, cycle |-> cycle, schema |-> schema]

When(offered, tx) == IF offered THEN {tx} ELSE {}

\* The calls the dialogs build from a view.
Offers(v) ==
  LET paid  == v.members.paid[Me]
      cycle == v.pool.cycle
  IN
  IF v.status # "ok" THEN {} ELSE
  When(PaymentOffered(v),
       Call("contribute", Me, paid, deriveContributeSchema(paid, v)))
  \cup When(claimReadyChain(v), Call("claim_payout", Me, cycle, "none"))
  \cup When(drawPending(v), Call("finalize_draw", Me, 0, "none"))
  \cup UNION {When(CrankOffered(v, s), Call("crank_payout", s, cycle, "none"))
              \cup When(SettleOffered(v, s), Call("settle_default", s, cycle, "none"))
                : s \in Seats}

\* The simulation must pass before the wallet signs; if it does not, nothing
\* happens.  How long the wallet takes is part of how long the call takes.
HandleConfirm ==
  /\ modal = Idle
  /\ \E tx \in Offers(view) :
       /\ Accepts(tx)
       /\ modal' = [fate |-> "sent", call |-> tx]
  /\ UNCHANGED <<tvars, view, sync, adrift, payments>>

Forgotten(tx) ==
  /\ \E i \in DOMAIN adrift : adrift[i] = tx /\ adrift' = RemoveAt(adrift, i)
  /\ UNCHANGED modal

Awaited(tx) == modal = [fate |-> "sent", call |-> tx] /\ UNCHANGED adrift

InFlight == Range(adrift) \cup (IF modal.fate = "sent" THEN {modal.call} ELSE {})

\* What the dialog says of a call that was included and rejected: an error, and
\* the button is back.
AfterRejection_mutant(tx) == [fate |-> "done", call |-> tx]

AfterRejection(tx) == Idle

\* The confirmation arrives, unless it was given up on before.
Lands(tx) ==
  /\ Accepts(tx)
  /\ Executes(tx)
  /\ payments' = IF tx.op = "contribute" THEN [payments EXCEPT ![tx.cycle] = @ + 1]
                                         ELSE payments
  /\ Forgotten(tx) \/ (Awaited(tx) /\ modal' = [modal EXCEPT !.fate = "done"])
  /\ UNCHANGED <<view, sync>>

\* The pool has moved on since the simulation, or the money is gone.
Reverts(tx) ==
  /\ \/ ~Accepts(tx)
     \/ tx.op \in {"contribute", "claim_payout", "crank_payout"}
  /\ Forgotten(tx) \/ (Awaited(tx) /\ modal' = AfterRejection(tx))
  /\ UNCHANGED <<tvars, view, sync, payments>>

\* Dropped by the network: the expiry of its blockhash tells the dialog.
Expires(tx) ==
  /\ Forgotten(tx) \/ (Awaited(tx) /\ modal' = Idle)
  /\ UNCHANGED <<tvars, view, sync, payments>>

\* The confirmation is lost: the error is shown and the button is back, and
\* nothing is known of the call.
ConfirmationLost ==
  /\ modal.fate = "sent"
  /\ Leave
  /\ UNCHANGED <<tvars, view, sync, payments>>

\* The dialog cannot be closed while it is submitting.
Reset ==
  /\ modal.fate = "done"
  /\ modal' = Idle
  /\ UNCHANGED <<tvars, view, sync, adrift, payments>>

----------------------------------------------------------------------------

\* The other members, the cranks, and the clock.
PoolStep ==
  /\ \/ Activate \/ DrawLate \/ TimePasses
     \/ \E s \in Seats :
          \/ s # Me /\ contributions_paid[s] <= current_cycle /\ PayInstallment(s)
          \/ /\ MayReceive(s)
             /\ s = Me => now >= GraceDeadline
             /\ ReceiveCredit(s)
          \/ SeatOf[current_cycle] = s /\ PassOver(s)
          \/ Settle(s)
  /\ UNCHANGED webVars

SyncStep == FetchPoolsRaw \/ FetchAllPoolMembers

WebNext ==
  \/ PoolStep
  \/ SyncStep \/ SyncFails \/ UseDraw \/ Reload
  \/ HandleConfirm \/ ConfirmationLost \/ Reset
  \/ \E tx \in InFlight : Lands(tx) \/ Reverts(tx) \/ Expires(tx)

\* The timers of a page that stays open keep firing, and reads that are tried
\* again and again do not fail for ever.
WebSpec ==
  /\ WebInit
  /\ [][WebNext]_wvars
  /\ SF_wvars(SyncStep)
  /\ SF_wvars(SyncStep /\ sync' = NoSync)
  /\ WF_wvars(UseDraw)

----------------------------------------------------------------------------

ViewIsCurrent ==
  /\ view.status = "ok"
  /\ view.pool = PoolAccount
  /\ view.members = MemberAccounts
  /\ view.drawn = drawn

\* What the success card of each dialog tells the member.
TookEffect(tx) ==
  CASE tx.op = "contribute"     -> contributions_paid[Me] > tx.cycle /\ payments[tx.cycle] = 1
    [] tx.op = "settle_default" -> tx.seat \in defaulted
    [] tx.op = "finalize_draw"  -> drawn
    [] OTHER                    -> tx.seat \in paid_out

\* simulateTx.ts:119-124, "a success card linking a FAILED tx, with no state
\* actually changed": what a dialog reports as done has happened, although the
\* pool moves and calls compete between the simulation and the landing.
SuccessIsReal == modal.fate = "done" => TookEffect(modal.call)

\* Each installment of Me was paid by exactly one call that Me confirmed for
\* that installment: retries after a lost confirmation, from an old view or a
\* new one, never buy another one.
PaidAsConfirmed ==
  \A c \in Seats : payments[c] = IF c < contributions_paid[Me] THEN 1 ELSE 0

\* An installment of another cycle than the current one is dated as if it were
\* late, while its own window, as the program derives it, is still open.
WronglyDated(tx) ==
  tx.op = "contribute" /\ tx.schema = "LATE" /\ now <= installment_deadline(tx.cycle)

\* The candidates of a settlement are listed although the pool is over.
PoolIsOver(tx) == tx.op = "settle_default" /\ status # "Active"

\* useGroupChainState.ts:202, "so a panel never promises a bid that will
\* revert", for the dialogs, whose promise is not kept: on a view that is up to
\* date they offer what the program accepts, attestation and all, but for exactly
\* the two calls named above, which it turns down; and they offer all that Me may
\* do, except paying ahead when Me should claim first.
OffersMatchChain ==
  ViewIsCurrent =>
    /\ \A tx \in Offers(view) : Accepts(tx) <=> ~(WronglyDated(tx) \/ PoolIsOver(tx))
    /\ CanPay(Me) /\ ~MayReceive(Me) => PaymentOffered(view)
    /\ MayReceive(Me) => claimReadyChain(view)
    /\ \A s \in Seats : /\ Overdue(s) => SettleOffered(view, s)
                        /\ MayReceive(s) => CrankOffered(view, s) \/ now < GraceDeadline

\* However often reads fail and syncs are joined, a page that stays open ends
\* up showing the pool as it came to rest, for good.
ViewCatchesUp == <>[][~Reload]_wvars => <>[]ViewIsCurrent

\* contribute.ts:97, "Mirrors `programs/roundfi-core/src/instructions/
\* contribute.rs` exactly": on a view that is up to date the app derives the
\* schema that the program will attest, without which the payment reverts.
SchemaMirrorsProgram ==
  ViewIsCurrent /\ CanPay(Me) =>
    LET cycle == contributions_paid[Me]
    IN  deriveContributeSchema(cycle, view) = contribution_schema(cycle)
=============================================================================
