------------------------------ MODULE Indexer ------------------------------
(***************************************************************************)
(* The indexer (services/indexer): three ingress paths and one derivation. *)
(* The Helius webhook and the event backfill write append-only event rows, *)
(* one per transaction; the state backfill mirrors pools and members; the  *)
(* reconciler daemons, one per replica and led by a lease, let a webhook   *)
(* row take effect only when a quorum of RPC providers calls it final, or  *)
(* mark it orphaned for good; the projector rebuilds the table `events`    *)
(* from the rows.  Every await of the reconciler and the projector ends a  *)
(* step.                                                                   *)
(*                                                                         *)
(* Failures covered: transactions dropped by a fork and landed again,      *)
(* webhook deliveries lost (the handler swallows database errors and       *)
(* answers 200), repeated or late, RPC calls that fail, of any number of   *)
(* the providers at once and any number of times, a minority of providers  *)
(* that answer wrongly, ticks that outlive their lease, crashes of the     *)
(* reconciler and the projector.  A transaction carries one event of the   *)
(* program.                                                                *)
(***************************************************************************)
EXTENDS Integers, FiniteSets

CONSTANTS
  Contributions,  \* transactions with a contribute or claim event
  Defaults,       \* transactions with a default event, which has no member FK
  Providers,      \* the configured RPC endpoints
  MaxFaulty,      \* bound on the endpoints that answer a question wrongly
  Wrong,          \* what a wrong answer may be, other than an error
  Reconcilers,    \* replicas of the daemon, or overlapping ticks of one
  FINALITY_GATE_SLOTS,
  ORPHAN_GRACE_SLOTS,
  LastLanding,    \* bound: no transaction is sent after this slot
  MaxSlot,        \* bound on the slots
  MaxFailures     \* bound on wrong answers, throws and crashes, not on errors

Txs == Contributions \cup Defaults

ASSUME IndexerAssumption ==
  /\ IsFiniteSet(Txs) /\ Contributions \cap Defaults = {}
  /\ IsFiniteSet(Providers) /\ Providers # {}
  /\ MaxFaulty \in Nat /\ 2 * MaxFaulty <= Cardinality(Providers)
  /\ "error" \notin Wrong
  /\ FINALITY_GATE_SLOTS \in Nat /\ ORPHAN_GRACE_SLOTS \in Nat
  /\ LastLanding \in Nat /\ MaxSlot \in Nat /\ MaxFailures \in Nat

VARIABLES
  slotNow,     \* the finalized slot of the cluster
  chain,       \* [Txs -> fate of the transaction and the slots it landed at]
  rows,        \* [Txs -> its row in contribute_, claim_ or default_events]
  db,          \* the mirrored accounts: pools, then members
  leaseFresh,  \* the lease row is within its TTL; its holder is only logged
  rec,         \* [Reconcilers -> where each is in its tick]
  events,      \* the transactions in the table `events`
  proj,        \* the projector: where it is, and the rows it has read
  blinded,     \* history: the transactions that errors alone made out missing
  failures     \* how many failures there have been

chainVars == <<slotNow, chain>>
ivars == <<slotNow, chain, rows, db, leaseFresh, rec, events, proj, blinded, failures>>

Fates == {"unsent", "confirmed", "finalized", "dropped"}
NoRow == [via |-> "none", slot |-> 0, genuine |-> TRUE,
          resolved |-> FALSE, orphaned |-> FALSE]
NoTx == "none"
Idle == [pc |-> "idle", at |-> 0, todo |-> {}, tx |-> NoTx]

IndexerInit ==
  /\ slotNow = 0
  /\ chain = [t \in Txs |-> [fate |-> "unsent", slots |-> {}]]
  /\ rows = [t \in Txs |-> NoRow]
  /\ db = [pool |-> FALSE, member |-> FALSE]
  /\ leaseFresh = FALSE
  /\ rec = [r \in Reconcilers |-> Idle]
  /\ events = {}
  /\ proj = [pc |-> "idle", todo |-> {}]
  /\ blinded = {}
  /\ failures = 0

----------------------------------------------------------------------------
(* The cluster.                                                            *)

SlotPasses ==
  /\ slotNow < MaxSlot
  /\ slotNow' = slotNow + 1
  /\ UNCHANGED <<chain, rows, db, leaseFresh, rec, events, proj, blinded, failures>>

\* A transaction dropped by a fork may land again while its blockhash lives,
\* which is less than ORPHAN_GRACE_SLOTS.
MayLand(t) ==
  /\ slotNow <= LastLanding
  /\ chain[t].fate \in {"unsent", "dropped"}
  /\ \A s \in chain[t].slots : slotNow - s < ORPHAN_GRACE_SLOTS

Lands(t) ==
  /\ MayLand(t)
  /\ chain' = [chain EXCEPT ![t] = [fate |-> "confirmed", slots |-> @.slots \cup {slotNow}]]
  /\ UNCHANGED <<slotNow, rows, db, leaseFresh, rec, events, proj, blinded, failures>>

IsDecided(t) ==
  /\ chain[t].fate = "confirmed"
  /\ \E fate \in {"finalized", "dropped"} : chain' = [chain EXCEPT ![t].fate = fate]
  /\ UNCHANGED <<slotNow, rows, db, leaseFresh, rec, events, proj, blinded, failures>>

----------------------------------------------------------------------------
(* What the providers say.                                                 *)

\* Of the providers MaxFaulty may lie, or answer from a stale view; any number
\* of the calls may fail or time out.
Truths == {"finalized", "confirmed", "missing", "tx", "null"}
Answers ==
  [truth \in Truths |->
     {a \in [Providers -> {truth, "error"} \cup Wrong] :
        Cardinality({p \in Providers : a[p] \notin {truth, "error"}}) <= MaxFaulty}]

Truthful(truth) == [p \in Providers |-> truth]

Fails == failures < MaxFailures /\ failures' = failures + 1

\* rpcQuorum.ts says why it is not the ceiling of N/2.
quorumThreshold_mutant(n) == (n + 1) \div 2

quorumThreshold(n) == IF n = 0 THEN 0 ELSE n \div 2 + 1

Quorum(answers, ask) ==
  Cardinality({p \in Providers : answers[p] \in ask})
    >= quorumThreshold(Cardinality(Providers))

getSignatureStatus(t) ==
  IF chain[t].fate \in {"finalized", "confirmed"} THEN chain[t].fate ELSE "missing"

\* A failed call is counted with the answers that say "missing".
Missing(answers) == Quorum(answers, {"missing", "error"})

checkFinalizedQuorum(answers) ==
  CASE Quorum(answers, {"finalized"}) -> "finalized"
    [] Quorum(answers, {"confirmed"}) -> "not_finalized"
    [] Missing(answers)               -> "missing"
    [] OTHER                          -> "divergence"

getTransaction(t) ==
  IF chain[t].fate \in {"finalized", "confirmed"} THEN "tx" ELSE "null"

\* The fingerprints that reach the quorum: "tx" is the one of the transaction
\* on chain, "other" of one that is not.
decideTxQuorum(answers) ==
  IF Quorum(answers, {"null"}) THEN {}
  ELSE {fingerprint \in {"tx", "other"} : Quorum(answers, {fingerprint})}

----------------------------------------------------------------------------
(* Ingress.  A row is created once; a repeated upsert changes nothing.     *)

Resolvable(t) == db.pool /\ (t \in Defaults \/ db.member)

Upsert(t, row) == rows' = IF rows[t].via = "none" THEN [rows EXCEPT ![t] = row] ELSE rows

\* Without account keys the webhook leaves its row unresolved.  It may come
\* late or again, with any slot the transaction has landed at.
HandleHeliusWebhook(t) ==
  /\ \E s \in chain[t].slots : Upsert(t, [NoRow EXCEPT !.via = "webhook", !.slot = s])
  /\ UNCHANGED <<chainVars, db, leaseFresh, rec, events, proj, blinded, failures>>

\* With account keys the backfill resolves what it can at once.
BackfillEvent(t, a) ==
  /\ \E s \in chain[t].slots, fingerprint \in decideTxQuorum(a) :
       /\ \A other \in chain[t].slots : other <= s
       /\ Upsert(t, [via |-> "backfill", slot |-> s, genuine |-> fingerprint = "tx",
                     resolved |-> Resolvable(t), orphaned |-> FALSE])
  /\ UNCHANGED <<chainVars, db, leaseFresh, rec, events, proj, blinded, failures>>

BackfillState ==
  /\ \/ ~db.pool /\ db' = [db EXCEPT !.pool = TRUE]
     \/ db.pool /\ db' = [db EXCEPT !.member = TRUE]
  /\ UNCHANGED <<chainVars, rows, leaseFresh, rec, events, proj, blinded, failures>>

----------------------------------------------------------------------------
(* The reconciler.                                                         *)

\* The cutoff compared the wrong way round.
LeaseStale_mutant == leaseFresh

LeaseStale == ~leaseFresh

\* tryAcquireReconcilerLease, then the slot that ages are measured from.
TickStarts(r) ==
  /\ rec[r].pc = "idle"
  /\ LeaseStale
  /\ leaseFresh' = TRUE
  /\ rec' = [rec EXCEPT ![r] = [Idle EXCEPT !.pc = "read", !.at = slotNow]]
  /\ UNCHANGED <<chainVars, rows, db, events, proj, blinded, failures>>

\* crossValidateOnce only logs its gaps, but it takes the lease.
CrossValidates(r) ==
  /\ LeaseStale
  /\ leaseFresh' = TRUE
  /\ UNCHANGED <<chainVars, rows, db, rec, events, proj, blinded, failures>>

LeaseExpires ==
  /\ leaseFresh
  /\ leaseFresh' = FALSE
  /\ UNCHANGED <<chainVars, rows, db, rec, events, proj, blinded, failures>>

Unresolved(t) == rows[t].via # "none" /\ ~rows[t].resolved /\ ~rows[t].orphaned

OldEnough(at, t) == at - rows[t].slot >= FINALITY_GATE_SLOTS

PastGrace_mutant(at, t) == OldEnough(at, t)

PastGrace(at, t) == at - rows[t].slot > ORPHAN_GRACE_SLOTS

\* With no row left the tick is over.
WithTodo(r, todo) ==
  IF todo = {} THEN Idle ELSE [r EXCEPT !.pc = "check", !.todo = todo, !.tx = NoTx]

\* The tables are read in one step; what the code reads of a later table after
\* the loop over an earlier one is read here by the next tick.  Txs is within
\* the batch of 100, and a row too young is left for the next tick.
ReadRows(r) ==
  /\ rec[r].pc = "read"
  /\ rec' = [rec EXCEPT ![r] =
       WithTodo(@, {t \in Txs : Unresolved(t) /\ OldEnough(@.at, t)})]
  /\ UNCHANGED <<chainVars, rows, db, leaseFresh, events, proj, blinded, failures>>

\* What the verdict on t leads to.
Outcome(verdict, at, t) ==
  CASE verdict = "finalized"                     -> "resolve"
    [] verdict = "missing" /\ PastGrace(at, t) -> "orphan"
    [] OTHER                                     -> "pending"

Check(r, t, a) ==
  LET outcome == Outcome(checkFinalizedQuorum(a), rec[r].at, t)
      left    == rec[r].todo \ {t}
  IN
  /\ rec[r].pc = "check"
  /\ t \in rec[r].todo
  /\ IF \A p \in Providers : a[p] \in {getSignatureStatus(t), "error"}
     THEN UNCHANGED failures ELSE Fails
  /\ rec' = [rec EXCEPT ![r] =
       IF outcome = "pending" THEN WithTodo(@, left)
       ELSE [@ EXCEPT !.pc = outcome, !.todo = left, !.tx = t]]
  /\ blinded' = IF outcome = "orphan" /\ ~Quorum(a, {"missing"})
                THEN blinded \cup {t} ELSE blinded
  /\ UNCHANGED <<chainVars, rows, db, leaseFresh, events, proj>>

Continues(r) == rec' = [rec EXCEPT ![r] = WithTodo(@, @.todo)]

\* resolveCanonicalIds finds the accounts, and the row is updated by its id,
\* whatever has become of it meanwhile.
Resolve(r) ==
  /\ rec[r].pc = "resolve"
  /\ Resolvable(rec[r].tx)
  /\ rows' = [rows EXCEPT ![rec[r].tx].resolved = TRUE]
  /\ Continues(r)
  /\ UNCHANGED <<chainVars, db, leaseFresh, events, proj, blinded, failures>>

\* The accounts are not mirrored yet, or the primary, which alone is asked for
\* them, does not find the transaction.
CannotResolve(r) ==
  /\ rec[r].pc = "resolve"
  /\ IF Resolvable(rec[r].tx) THEN Fails ELSE UNCHANGED failures
  /\ Continues(r)
  /\ UNCHANGED <<chainVars, rows, db, leaseFresh, events, proj, blinded>>

MarkOrphaned(r) ==
  /\ rec[r].pc = "orphan"
  /\ rows' = [rows EXCEPT ![rec[r].tx].orphaned = TRUE]
  /\ Continues(r)
  /\ UNCHANGED <<chainVars, db, leaseFresh, events, proj, blinded, failures>>

\* A throw (caught by the daemon) or a crash ends the tick anywhere; the
\* lease stays taken until it expires.
TickFails(r) ==
  /\ rec[r].pc # "idle"
  /\ rec' = [rec EXCEPT ![r] = Idle]
  /\ Fails
  /\ UNCHANGED <<chainVars, rows, db, leaseFresh, events, proj, blinded>>

----------------------------------------------------------------------------
(* The projector: truncate, read, write row by row.                        *)

Projectable(t) == rows[t].resolved /\ ~rows[t].orphaned

Truncate ==
  /\ proj.pc = "idle"
  /\ events' = {}
  /\ proj' = [pc |-> "read", todo |-> {}]
  /\ UNCHANGED <<chainVars, rows, db, leaseFresh, rec, blinded, failures>>

ReadResolved ==
  /\ proj.pc = "read"
  /\ proj' = [pc |-> "write", todo |-> {t \in Txs : Projectable(t)}]
  /\ UNCHANGED <<chainVars, rows, db, leaseFresh, rec, events, blinded, failures>>

Project(t) ==
  /\ proj.pc = "write"
  /\ t \in proj.todo
  /\ events' = events \cup {t}
  /\ proj' = [proj EXCEPT !.todo = @ \ {t}]
  /\ UNCHANGED <<chainVars, rows, db, leaseFresh, rec, blinded, failures>>

RebuildEnds ==
  /\ proj.pc = "write"
  /\ proj.todo = {}
  /\ proj' = [pc |-> "idle", todo |-> {}]
  /\ UNCHANGED <<chainVars, rows, db, leaseFresh, rec, events, blinded, failures>>

RebuildFails ==
  /\ proj.pc # "idle"
  /\ proj' = [pc |-> "idle", todo |-> {}]
  /\ Fails
  /\ UNCHANGED <<chainVars, rows, db, leaseFresh, rec, events, blinded>>

DatabaseStep(r) == ReadRows(r) \/ Resolve(r) \/ CannotResolve(r) \/ MarkOrphaned(r)

TickStep(r) ==
  \/ DatabaseStep(r)
  \/ \E t \in Txs : \E a \in Answers[getSignatureStatus(t)] : Check(r, t, a)

RebuildStep == Truncate \/ ReadResolved \/ RebuildEnds \/ \E t \in Txs : Project(t)

IndexerNext ==
  \/ SlotPasses \/ LeaseExpires \/ BackfillState
  \/ \E t \in Txs :
       \/ Lands(t) \/ IsDecided(t) \/ HandleHeliusWebhook(t)
       \/ \E a \in Answers[getTransaction(t)] : BackfillEvent(t, a)
  \/ \E r \in Reconcilers :
       TickStarts(r) \/ CrossValidates(r) \/ TickStep(r) \/ TickFails(r)
  \/ RebuildStep \/ RebuildFails

\* What happens only a bounded number of times.
Progresses ==
  \/ SlotPasses \/ BackfillState
  \/ \E t \in Txs : BackfillEvent(t, Truthful(getTransaction(t)))

\* Slots pass, and the backfills are run again and again (the backfill cron,
\* docs/observability/grafana-dashboards.md:266); the daemons' intervals keep
\* firing, ten reconcile ticks to one cross-validation, so ticks cannot be
\* shut out of the lease for ever; of the replicas one may hang, not all; the
\* projector is run again and again.  Webhooks promise nothing.  What is asked
\* again and again is answered in the end, by all providers and truly.
IndexerFairness ==
  /\ WF_ivars(Progresses)
  /\ WF_ivars(LeaseExpires)
  /\ SF_ivars(\E r \in Reconcilers : TickStarts(r))
  /\ WF_ivars(\E r \in Reconcilers : DatabaseStep(r))
  /\ \A t \in Txs : SF_ivars(\E r \in Reconcilers : Check(r, t, Truthful(getSignatureStatus(t))))
  /\ WF_ivars(RebuildStep)

IndexerSpec == IndexerInit /\ [][IndexerNext]_ivars /\ IndexerFairness

----------------------------------------------------------------------------

\* rpcQuorum.ts:89: no provider "INJECTS its fingerprint without any real
\* agreement", and reconciler.ts:36: the reconciler "is the only path by which a
\* webhook event becomes canonical state".  Every derived event is one that the
\* transaction really carried, and what the webhook wrote is derived only when
\* its transaction is final, however late, repeated or off a dropped fork it
\* came, and whatever a minority of the providers says.
EventsAreGenuine ==
  \A t \in events :
    /\ rows[t].genuine
    /\ rows[t].via = "webhook" => chain[t].fate = "finalized"

\* rpcQuorum.ts:96-97, "CENSORING a real tx (or, in the reconciler, deleting a
\* real event from the canonical table)", is out of the reach of a minority that
\* lies: what is orphaned is not final and took no effect, in any order of
\* landings, stale verdicts and overlapping ticks.  The one exception is a
\* transaction called missing by a check that had counted failed calls as votes.
OnlyErrorsCensor ==
  \A t \in Txs :
    rows[t].orphaned => \/ chain[t].fate # "finalized" /\ ~rows[t].resolved
                        \/ t \in blinded

\* reconciler.ts:50-51: of a row marked orphaned "the tx was either dropped or
\* reorged out", and rpcQuorum.ts:115-118: errors are "no signal", not "vote for
\* null".  No final transaction is orphaned.
FinalizedNeverOrphaned ==
  \A t \in Txs : rows[t].orphaned => chain[t].fate # "finalized"

\* Every final event is in the derived table again and again, in spite of lost
\* webhooks, of failed calls, of crashes in the middle of a rebuild, of leases
\* that die with their holder, and of accounts mirrored after the event that
\* needs them; unless it has been orphaned, and OnlyErrorsCensor says by what.
FinalizedIsProjected ==
  \A t \in Txs : chain[t].fate = "finalized" ~> t \in events \/ rows[t].orphaned
=============================================================================
