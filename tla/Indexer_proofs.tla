--------------------------- MODULE Indexer_proofs ---------------------------
(***************************************************************************)
(* The indexer with any number of transactions, RPC endpoints and replicas *)
(* of its daemons: what a minority of the endpoints says never decides.    *)
(***************************************************************************)
EXTENDS Indexer, FiniteSetTheorems, TLAPS

ChainRecord == [fate : Fates, slots : SUBSET Nat]
RowRecord == [via : {"none", "webhook", "backfill"}, slot : Nat, genuine : BOOLEAN,
              resolved : BOOLEAN, orphaned : BOOLEAN]
TickRecord == [pc : {"idle", "read", "check", "resolve", "orphan"}, at : Nat,
               todo : SUBSET Txs, tx : Txs \cup {NoTx}]

IndexerType ==
  /\ slotNow \in Nat
  /\ chain \in [Txs -> ChainRecord]
  /\ rows \in [Txs -> RowRecord]
  /\ rec \in [Reconcilers -> TickRecord]
  /\ events \subseteq Txs
  /\ proj \in [pc : {"idle", "read", "write"}, todo : SUBSET Txs]

\* t was dropped and its blockhash has expired: it lands never again.
Dead(t) ==
  /\ chain[t].fate \in {"unsent", "dropped"}
  /\ \E s \in chain[t].slots : slotNow - s >= ORPHAN_GRACE_SLOTS

\* Of a row: it carries what the transaction carried, at a slot the transaction
\* landed at, and it is orphaned only when the transaction cannot land any more,
\* or when errors have made it out missing.
RowIsSound(t) ==
  /\ rows[t].via # "none" => rows[t].slot \in chain[t].slots
  /\ rows[t].genuine
  /\ rows[t].via = "none" => ~rows[t].resolved
  /\ rows[t].via = "webhook" /\ rows[t].resolved => chain[t].fate = "finalized"
  /\ rows[t].orphaned => (Dead(t) /\ ~rows[t].resolved) \/ t \in blinded

\* A tick has rows in hand that were unresolved when it read them.
InHand(t) ==
  /\ rows[t].via # "none"
  /\ rows[t].resolved => chain[t].fate = "finalized"

\* What the tick k acts on is true for good, however stale.
VerdictHolds(k) ==
  /\ k.at <= slotNow
  /\ \A t \in k.todo : InHand(t)
  /\ k.pc \in {"resolve", "orphan"} => k.tx \in Txs /\ InHand(k.tx)
  /\ k.pc = "resolve" => chain[k.tx].fate = "finalized"
  /\ k.pc = "orphan" => Dead(k.tx) \/ k.tx \in blinded

\* What the projector has in hand or has written is resolved.
DerivedFromResolved ==
  \A t \in events \cup proj.todo : rows[t].resolved

IndexerInv ==
  /\ IndexerType
  /\ \A t \in Txs : RowIsSound(t)
  /\ \A r \in Reconcilers : VerdictHolds(rec[r])
  /\ DerivedFromResolved

----------------------------------------------------------------------------
(* The quorum.                                                             *)

\* Answers that only the wrong endpoints give do not reach the quorum, however
\* many of the others fail.
LEMMA WrongAnswersLose ==
  ASSUME NEW truth \in Truths, NEW a \in Answers[truth], NEW ask,
         truth \notin ask, "error" \notin ask
  PROVE  ~Quorum(a, ask)
<1> DEFINE wrong == {p \in Providers : a[p] \notin {truth, "error"}}
           asked == {p \in Providers : a[p] \in ask}
           n == Cardinality(Providers)
<1>1. IsFiniteSet(Providers) /\ Providers # {} /\ MaxFaulty \in Nat /\ 2 * MaxFaulty <= n
  BY IndexerAssumption
<1>2. n \in Nat /\ n # 0
  BY <1>1, FS_CardinalityType, FS_EmptySet
<1>3. IsFiniteSet(wrong) /\ Cardinality(wrong) \in Nat /\ Cardinality(wrong) <= MaxFaulty
  BY <1>1, FS_Subset, FS_CardinalityType DEF Answers
<1>4. asked \subseteq wrong
  OBVIOUS
<1>5. Cardinality(asked) \in Nat /\ Cardinality(asked) <= Cardinality(wrong)
  BY <1>3, <1>4, FS_Subset, FS_CardinalityType
<1>6. MaxFaulty < quorumThreshold(n)
  BY <1>1, <1>2 DEF quorumThreshold
<1>7. quorumThreshold(n) \in Nat
  BY <1>2 DEF quorumThreshold
<1> HIDE DEF wrong, n
<1>8. Cardinality(asked) < quorumThreshold(n)
  BY <1>1, <1>3, <1>5, <1>6, <1>7
<1> QED
  BY <1>2, <1>5, <1>7, <1>8 DEF Quorum, n

LEMMA VerdictIsTrue ==
  ASSUME NEW truth \in Truths, NEW a \in Answers[truth]
  PROVE  /\ checkFinalizedQuorum(a) = "finalized" => truth = "finalized"
         /\ Quorum(a, {"missing"}) => truth = "missing"
<1>1. Quorum(a, {"finalized"}) => truth = "finalized"
  BY WrongAnswersLose
<1>2. Quorum(a, {"missing"}) => truth = "missing"
  BY WrongAnswersLose
<1> QED
  BY <1>1, <1>2 DEF checkFinalizedQuorum

\* A fingerprint that reaches the quorum is the one of a transaction on chain.
LEMMA FingerprintIsTrue ==
  ASSUME NEW t, NEW a \in Answers[getTransaction(t)],
         NEW fingerprint \in decideTxQuorum(a)
  PROVE  fingerprint = "tx" /\ chain[t].fate \in {"finalized", "confirmed"}
<1>1. fingerprint \in {"tx", "other"} /\ Quorum(a, {fingerprint})
  BY DEF decideTxQuorum
<1>2. getTransaction(t) \in Truths
  BY DEF getTransaction, Truths
<1>3. getTransaction(t) \in {fingerprint}
  BY <1>1, <1>2, WrongAnswersLose
<1> QED
  BY <1>1, <1>3 DEF getTransaction

----------------------------------------------------------------------------

LEMMA TodoType ==
  ASSUME NEW r \in TickRecord, NEW todo \in SUBSET Txs
  PROVE  /\ WithTodo(r, todo) \in TickRecord
         /\ WithTodo(r, todo).pc \in {"idle", "check"}
         /\ WithTodo(r, todo).todo = todo
         /\ WithTodo(r, todo).at \in {0, r.at}
<1>1. CASE todo = {}
  BY <1>1 DEF WithTodo, Idle, TickRecord
<1>2. CASE todo # {}
  BY <1>2 DEF WithTodo, TickRecord
<1> QED
  BY <1>1, <1>2

LEMMA DeadStays ==
  ASSUME IndexerType, slotNow' \in Nat, slotNow' >= slotNow, NEW t \in Txs, Dead(t), chain'[t] = chain[t]
  PROVE  Dead(t)'
<1>1. PICK s \in chain[t].slots : slotNow - s >= ORPHAN_GRACE_SLOTS
  BY DEF Dead
<1>2. s \in Nat /\ slotNow \in Nat /\ ORPHAN_GRACE_SLOTS \in Nat
  BY <1>1, IndexerAssumption DEF IndexerType, ChainRecord
<1>3. slotNow' - s >= ORPHAN_GRACE_SLOTS
  BY <1>1, <1>2
<1> QED
  BY <1>1, <1>3 DEF Dead

LEMMA DeadNeverLands ==
  ASSUME IndexerType, NEW t \in Txs, Dead(t)
  PROVE  ~MayLand(t) /\ chain[t].fate \notin {"confirmed", "finalized"}
<1>1. PICK s \in chain[t].slots : slotNow - s >= ORPHAN_GRACE_SLOTS
  BY DEF Dead
<1>2. s \in Nat /\ slotNow \in Nat /\ ORPHAN_GRACE_SLOTS \in Nat
  BY <1>1, IndexerAssumption DEF IndexerType, ChainRecord
<1>3. ~(slotNow - s < ORPHAN_GRACE_SLOTS)
  BY <1>1, <1>2
<1>4. ~MayLand(t)
  BY <1>1, <1>3 DEF MayLand
<1> QED
  BY <1>4 DEF Dead

\* Of what the chain has done to a transaction nothing that a row or a verdict
\* rests on is ever undone.
ChainGrows ==
  /\ slotNow' \in Nat /\ slotNow' >= slotNow
  /\ chain' \in [Txs -> ChainRecord]
  /\ blinded \subseteq blinded'
  /\ \A t \in Txs : /\ chain[t].slots \subseteq chain'[t].slots
                    /\ chain[t].fate = "finalized" => chain'[t].fate = "finalized"
                    /\ Dead(t) => Dead(t)'

LEMMA ChainStays ==
  ASSUME IndexerType, UNCHANGED chainVars, blinded \subseteq blinded'
  PROVE  ChainGrows
BY DeadStays DEF IndexerType, ChainGrows, chainVars

LEMMA ChainSteps ==
  ASSUME IndexerType, SlotPasses \/ \E t \in Txs : Lands(t) \/ IsDecided(t)
  PROVE  ChainGrows /\ UNCHANGED <<rows, rec, events, proj, blinded>>
<1>0. slotNow \in Nat /\ chain \in [Txs -> ChainRecord]
  BY DEF IndexerType
<1>1. CASE SlotPasses
  BY <1>0, <1>1, DeadStays DEF SlotPasses, ChainGrows
<1>2. ASSUME NEW t \in Txs, Lands(t)
      PROVE  ChainGrows /\ UNCHANGED <<rows, rec, events, proj, blinded>>
  <2>1. MayLand(t) /\ slotNow' = slotNow /\ UNCHANGED <<rows, rec, events, proj, blinded>>
    BY <1>2 DEF Lands
  <2> DEFINE after == [fate |-> "confirmed", slots |-> chain[t].slots \cup {slotNow}]
  <2>2. chain' = [chain EXCEPT ![t] = after]
    BY <1>2 DEF Lands
  <2>3. after \in ChainRecord
    BY <1>0 DEF ChainRecord, Fates
  <2>4. ~Dead(t) /\ chain[t].fate # "finalized"
    BY <2>1, DeadNeverLands DEF MayLand
  <2>5. chain' \in [Txs -> ChainRecord] /\ chain[t].slots \subseteq chain'[t].slots
    BY <1>0, <2>2, <2>3
  <2>6. \A u \in Txs \ {t} : chain'[u] = chain[u]
    BY <1>0, <2>2
  <2>7. \A u \in Txs \ {t} : Dead(u) => Dead(u)'
    BY <1>0, <2>1, <2>6, DeadStays
  <2> QED
    BY <1>0, <2>1, <2>4, <2>5, <2>6, <2>7 DEF ChainGrows
<1>3. ASSUME NEW t \in Txs, IsDecided(t)
      PROVE  ChainGrows /\ UNCHANGED <<rows, rec, events, proj, blinded>>
  <2>1. slotNow' = slotNow /\ UNCHANGED <<rows, rec, events, proj, blinded>> /\ chain[t].fate = "confirmed"
    BY <1>3 DEF IsDecided
  <2>2. PICK fate \in {"finalized", "dropped"} : chain' = [chain EXCEPT ![t].fate = fate]
    BY <1>3 DEF IsDecided
  <2>3. chain' \in [Txs -> ChainRecord] /\ chain[t].slots \subseteq chain'[t].slots
    BY <1>0, <2>2 DEF ChainRecord, Fates
  <2>4. ~Dead(t)
    BY <2>1 DEF Dead
  <2>6. \A u \in Txs \ {t} : chain'[u] = chain[u]
    BY <1>0, <2>2
  <2>7. \A u \in Txs \ {t} : Dead(u) => Dead(u)'
    BY <1>0, <2>1, <2>6, DeadStays
  <2> QED
    BY <1>0, <2>1, <2>3, <2>4, <2>6, <2>7 DEF ChainGrows
<1> QED
  BY <1>1, <1>2, <1>3

\* The rows change in hand only as a tick that resolves or orphans them may.
RowsGrow ==
  \A t \in Txs : InHand(t) => InHand(t)'

LEMMA VerdictStays ==
  ASSUME IndexerType, ChainGrows, RowsGrow, NEW k \in TickRecord, VerdictHolds(k)
  PROVE  VerdictHolds(k)'
<1>1. k.at <= slotNow'
  BY DEF IndexerType, ChainGrows, TickRecord, VerdictHolds
<1>2. \A t \in k.todo : InHand(t)'
  BY DEF RowsGrow, TickRecord, VerdictHolds
<1>3. k.pc \in {"resolve", "orphan"} => k.tx \in Txs /\ InHand(k.tx)'
  BY DEF RowsGrow, VerdictHolds
<1>4. k.pc = "resolve" => chain'[k.tx].fate = "finalized"
  BY DEF VerdictHolds, ChainGrows
<1>5. k.pc = "orphan" => (Dead(k.tx) \/ k.tx \in blinded)'
  BY DEF VerdictHolds, ChainGrows
<1> QED
  BY <1>1, <1>2, <1>3, <1>4, <1>5 DEF VerdictHolds

LEMMA RowsStay ==
  ASSUME ChainGrows, UNCHANGED rows
  PROVE  RowsGrow
BY DEF ChainGrows, RowsGrow, InHand

\* A step of the chain alone disturbs nothing.
LEMMA ChainKeepsInv ==
  ASSUME IndexerInv, ChainGrows, UNCHANGED <<rows, rec, events, proj>>
  PROVE  IndexerInv'
<1> USE DEF IndexerInv
<1>1. IndexerType'
  BY DEF IndexerType, ChainGrows
<1>2. \A t \in Txs : RowIsSound(t)'
  <2> SUFFICES ASSUME NEW t \in Txs PROVE RowIsSound(t)'
    OBVIOUS
  <2>1. RowIsSound(t) /\ rows'[t] = rows[t]
    OBVIOUS
  <2>2. /\ chain[t].slots \subseteq chain'[t].slots
        /\ chain[t].fate = "finalized" => chain'[t].fate = "finalized"
        /\ Dead(t) => Dead(t)'
        /\ blinded \subseteq blinded'
    BY DEF ChainGrows
  <2> QED
    BY <2>1, <2>2 DEF RowIsSound
<1>3. \A r \in Reconcilers : VerdictHolds(rec[r])'
  <2> SUFFICES ASSUME NEW r \in Reconcilers PROVE VerdictHolds(rec[r])'
    OBVIOUS
  <2>1. rec'[r] = rec[r] /\ rec[r] \in TickRecord /\ VerdictHolds(rec[r])
    BY DEF IndexerType
  <2>2. \A k \in TickRecord : VerdictHolds(k) => VerdictHolds(k)'
    BY RowsStay, VerdictStays
  <2> QED
    BY <2>1, <2>2
<1>4. DerivedFromResolved'
  BY DEF DerivedFromResolved
<1> QED
  BY <1>1, <1>2, <1>3, <1>4

----------------------------------------------------------------------------
(* Steps of the daemons.                                                   *)

ResolvedStays == \A t \in Txs : rows[t].resolved => rows'[t].resolved

\* What is left to show of a step of the ingress or of a tick.
LEMMA TickKeepsInv ==
  ASSUME IndexerInv, UNCHANGED <<chainVars, events, proj>>, blinded \subseteq blinded',
         rows' \in [Txs -> RowRecord], RowsGrow, ResolvedStays,
         \A t \in Txs : RowIsSound(t)',
         rec' \in [Reconcilers -> TickRecord],
         \A r \in Reconcilers : rec'[r] # rec[r] => VerdictHolds(rec[r])'
  PROVE  IndexerInv'
<1> USE DEF IndexerInv
<1>1. IndexerType'
  BY DEF IndexerType, chainVars
<1>2. \A r \in Reconcilers : VerdictHolds(rec[r])'
  <2> SUFFICES ASSUME NEW r \in Reconcilers, rec'[r] = rec[r] PROVE VerdictHolds(rec[r])'
    OBVIOUS
  <2>1. rec[r] \in TickRecord /\ VerdictHolds(rec[r])
    BY DEF IndexerType
  <2>2. \A k \in TickRecord : VerdictHolds(k) => VerdictHolds(k)'
    BY ChainStays, VerdictStays
  <2> QED
    BY <2>1, <2>2
<1>3. DerivedFromResolved'
  <2>1. events \subseteq Txs /\ proj.todo \subseteq Txs
    BY DEF IndexerType
  <2> QED
    BY <2>1 DEF DerivedFromResolved, ResolvedStays
<1> QED
  BY <1>1, <1>2, <1>3

\* A row that is created.
LEMMA UpsertKeepsInv ==
  ASSUME IndexerInv, UNCHANGED <<chainVars, rec, events, proj, blinded>>,
         NEW t \in Txs, NEW row \in RowRecord, Upsert(t, row),
         row.via # "none", row.slot \in chain[t].slots, row.genuine, ~row.orphaned,
         row.via = "webhook" => ~row.resolved
  PROVE  IndexerInv'
<1>0. /\ rows \in [Txs -> RowRecord] /\ rec \in [Reconcilers -> TickRecord]
      /\ chain' = chain /\ slotNow' = slotNow
  BY DEF IndexerInv, IndexerType, chainVars
<1>1. CASE rows[t].via # "none"
  <2>1. rows' = rows
    BY <1>1 DEF Upsert
  <2> QED
    BY <1>0, <2>1, ChainStays, ChainKeepsInv DEF IndexerInv
<1>2. CASE rows[t].via = "none"
  <2>1. rows' = [rows EXCEPT ![t] = row]
    BY <1>2 DEF Upsert
  <2>2. rows' \in [Txs -> RowRecord] /\ rows'[t] = row
    BY <1>0, <2>1
  <2>3. \A u \in Txs \ {t} : rows'[u] = rows[u]
    BY <1>0, <2>1
  <2>4. ~rows[t].resolved
    BY <1>2 DEF IndexerInv, RowIsSound
  <2>5. ResolvedStays
    BY <2>3, <2>4 DEF ResolvedStays
  <2>6. RowsGrow
    BY <1>0, <1>2, <2>3 DEF RowsGrow, InHand
  <2>7. RowIsSound(t)'
    BY <1>0, <2>2 DEF RowIsSound
  <2>8. \A u \in Txs \ {t} : RowIsSound(u)'
    BY <1>0, <2>3 DEF IndexerInv, RowIsSound, Dead
  <2> QED
    BY <1>0, <2>2, <2>5, <2>6, <2>7, <2>8, TickKeepsInv
<1> QED
  BY <1>1, <1>2

LEMMA WebhookKeepsInv ==
  ASSUME IndexerInv, NEW t \in Txs, HandleHeliusWebhook(t)
  PROVE  IndexerInv'
<1>1. PICK s \in chain[t].slots : Upsert(t, [NoRow EXCEPT !.via = "webhook", !.slot = s])
  BY DEF HandleHeliusWebhook
<1>2. s \in Nat
  BY DEF IndexerInv, IndexerType, ChainRecord
<1> DEFINE row == [NoRow EXCEPT !.via = "webhook", !.slot = s]
<1>3. row \in RowRecord
  BY <1>2 DEF RowRecord, NoRow
<1>4. /\ row.via = "webhook" /\ row.slot = s /\ row.genuine
      /\ ~row.resolved /\ ~row.orphaned
  BY DEF NoRow
<1>5. UNCHANGED <<chainVars, rec, events, proj, blinded>> /\ Upsert(t, row)
  BY <1>1 DEF HandleHeliusWebhook
<1> HIDE DEF row
<1> QED
  BY <1>3, <1>4, <1>5, UpsertKeepsInv

LEMMA BackfillKeepsInv ==
  ASSUME IndexerInv, NEW t \in Txs, NEW a \in Answers[getTransaction(t)], BackfillEvent(t, a)
  PROVE  IndexerInv'
<1>1. PICK s \in chain[t].slots :
        \E fingerprint \in decideTxQuorum(a) :
          Upsert(t, [via |-> "backfill", slot |-> s, genuine |-> fingerprint = "tx",
                     resolved |-> Resolvable(t), orphaned |-> FALSE])
  BY DEF BackfillEvent
<1>2. PICK fingerprint \in decideTxQuorum(a) :
        Upsert(t, [via |-> "backfill", slot |-> s, genuine |-> fingerprint = "tx",
                   resolved |-> Resolvable(t), orphaned |-> FALSE])
  BY <1>1
<1> DEFINE row == [via |-> "backfill", slot |-> s, genuine |-> fingerprint = "tx",
                   resolved |-> Resolvable(t), orphaned |-> FALSE]
<1>3. fingerprint = "tx"
  BY FingerprintIsTrue
<1>4. s \in Nat
  BY DEF IndexerInv, IndexerType, ChainRecord
<1>5. Resolvable(t) \in BOOLEAN /\ (fingerprint = "tx") \in BOOLEAN
  BY DEF Resolvable
<1>6. row \in RowRecord
  BY <1>4, <1>5 DEF RowRecord
<1>7. row.via = "backfill" /\ row.slot = s /\ row.genuine /\ ~row.orphaned
  BY <1>3
<1>8. UNCHANGED <<chainVars, rec, events, proj, blinded>> /\ Upsert(t, row)
  BY <1>2 DEF BackfillEvent
<1> HIDE DEF row
<1> QED
  BY <1>6, <1>7, <1>8, UpsertKeepsInv

\* A tick that moves on, with the rows as they are.
LEMMA TickMovesKeepInv ==
  ASSUME IndexerInv, UNCHANGED <<chainVars, rows, events, proj>>, blinded \subseteq blinded',
         NEW r \in Reconcilers, NEW k \in TickRecord,
         rec' = [rec EXCEPT ![r] = k], VerdictHolds(k) \/ VerdictHolds(k)'
  PROVE  IndexerInv'
<1>0. IndexerType /\ rec \in [Reconcilers -> TickRecord] /\ rows \in [Txs -> RowRecord]
  BY DEF IndexerInv, IndexerType
<1>1. ChainGrows /\ RowsGrow
  BY <1>0, ChainStays, RowsStay
<1>2. VerdictHolds(k)'
  BY <1>0, <1>1, VerdictStays
<1>3. rec' \in [Reconcilers -> TickRecord] /\ rec'[r] = k
  BY <1>0
<1>4. \A q \in Reconcilers : rec'[q] # rec[q] => VerdictHolds(rec[q])'
  BY <1>0, <1>2, <1>3
<1>5. ResolvedStays
  BY DEF ResolvedStays
<1>6. \A t \in Txs : RowIsSound(t)'
  <2> SUFFICES ASSUME NEW t \in Txs PROVE RowIsSound(t)'
    OBVIOUS
  <2> QED
    BY DEF IndexerInv, RowIsSound, Dead, chainVars
<1> QED
  BY <1>0, <1>1, <1>3, <1>4, <1>5, <1>6, TickKeepsInv

LEMMA IdleHolds ==
  ASSUME IndexerType
  PROVE  Idle \in TickRecord /\ VerdictHolds(Idle)
BY DEF IndexerType, TickRecord, Idle, VerdictHolds

LEMMA TodoHolds ==
  ASSUME IndexerType, NEW k \in TickRecord, k.at <= slotNow,
         NEW todo \in SUBSET Txs, \A t \in todo : InHand(t)
  PROVE  WithTodo(k, todo) \in TickRecord /\ VerdictHolds(WithTodo(k, todo))
<1>1. PICK j \in TickRecord : /\ j = WithTodo(k, todo) /\ j.pc \in {"idle", "check"}
                              /\ j.todo = todo /\ j.at \in {0, k.at}
  BY TodoType
<1>2. j.at <= slotNow
  BY <1>1 DEF IndexerType
<1> QED
  BY <1>1, <1>2 DEF VerdictHolds

LEMMA TickStartsKeepsInv ==
  ASSUME IndexerInv, NEW r \in Reconcilers, TickStarts(r)
  PROVE  IndexerInv'
<1> DEFINE k == [Idle EXCEPT !.pc = "read", !.at = slotNow]
<1>1. slotNow \in Nat
  BY DEF IndexerInv, IndexerType
<1>2. k \in TickRecord /\ k.at = slotNow /\ k.pc = "read" /\ k.todo = {}
  BY <1>1 DEF TickRecord, Idle
<1>3. UNCHANGED <<chainVars, rows, events, proj, blinded>> /\ rec' = [rec EXCEPT ![r] = k]
  BY DEF TickStarts
<1> HIDE DEF k
<1>4. VerdictHolds(k)
  BY <1>1, <1>2 DEF VerdictHolds
<1> QED
  BY <1>2, <1>3, <1>4, TickMovesKeepInv

LEMMA ReadRowsKeepsInv ==
  ASSUME IndexerInv, NEW r \in Reconcilers, ReadRows(r)
  PROVE  IndexerInv'
<1> DEFINE k    == rec[r]
           todo == {t \in Txs : Unresolved(t) /\ OldEnough(k.at, t)}
           j    == WithTodo(k, todo)
<1>1. IndexerType /\ k \in TickRecord /\ k.at <= slotNow
  BY DEF IndexerInv, IndexerType, VerdictHolds
<1>2. todo \in SUBSET Txs /\ \A t \in todo : InHand(t)
  BY DEF Unresolved, InHand
<1>3. j \in TickRecord /\ VerdictHolds(j)
  BY <1>1, <1>2, TodoHolds
<1>4. rec' = [rec EXCEPT ![r] = j]
  BY <1>1 DEF ReadRows, IndexerType
<1>5. UNCHANGED <<chainVars, rows, events, proj, blinded>>
  BY DEF ReadRows
<1> HIDE DEF j
<1> QED
  BY <1>3, <1>4, <1>5, TickMovesKeepInv

\* With nothing left in hand that was not in hand before.
LEMMA LeftHolds ==
  ASSUME IndexerInv, NEW r \in Reconcilers, NEW left \in SUBSET rec[r].todo
  PROVE  WithTodo(rec[r], left) \in TickRecord /\ VerdictHolds(WithTodo(rec[r], left))
<1>1. IndexerType /\ rec[r] \in TickRecord /\ VerdictHolds(rec[r])
  BY DEF IndexerInv, IndexerType
<1>2. rec[r].at <= slotNow /\ rec[r].todo \in SUBSET Txs
  BY <1>1 DEF VerdictHolds, TickRecord
<1>3. left \in SUBSET Txs /\ \A t \in left : InHand(t)
  BY <1>1, <1>2 DEF VerdictHolds
<1> QED
  BY <1>1, <1>2, <1>3, TodoHolds

\* What a verdict leads to is called for by the chain, or is due to errors.
LEMMA OutcomeIsTrue ==
  ASSUME IndexerInv, NEW t \in Txs, InHand(t), NEW at \in Nat, at <= slotNow,
         NEW a \in Answers[getSignatureStatus(t)],
         NEW outcome, outcome = Outcome(checkFinalizedQuorum(a), at, t)
  PROVE  /\ outcome \in {"resolve", "orphan", "pending"}
         /\ outcome = "resolve" => chain[t].fate = "finalized"
         /\ outcome = "orphan" /\ Quorum(a, {"missing"}) => Dead(t)
<1>0. getSignatureStatus(t) \in Truths
  BY DEF getSignatureStatus, Truths
<1>1. PICK verdict : verdict = checkFinalizedQuorum(a)
  OBVIOUS
<1>2. /\ verdict = "finalized" => getSignatureStatus(t) = "finalized"
      /\ Quorum(a, {"missing"}) => getSignatureStatus(t) = "missing"
  BY <1>0, <1>1, VerdictIsTrue
<1>3. /\ outcome = "resolve" => verdict = "finalized"
      /\ outcome = "orphan" => PastGrace(at, t)
      /\ outcome \in {"resolve", "orphan", "pending"}
  BY <1>1 DEF Outcome
<1>4. outcome = "resolve" => chain[t].fate = "finalized"
  BY <1>2, <1>3 DEF getSignatureStatus
<1>5. ASSUME outcome = "orphan", Quorum(a, {"missing"}) PROVE Dead(t)
  <2>1. chain[t] \in ChainRecord /\ rows[t].slot \in chain[t].slots /\ slotNow \in Nat
    BY DEF IndexerInv, IndexerType, RowIsSound, InHand
  <2>2. chain[t].fate \in {"unsent", "dropped"}
    BY <1>2, <1>5, <2>1 DEF getSignatureStatus, ChainRecord, Fates
  <2>3. at - rows[t].slot > ORPHAN_GRACE_SLOTS
    BY <1>3, <1>5 DEF PastGrace
  <2>4. rows[t].slot \in Nat /\ ORPHAN_GRACE_SLOTS \in Nat
    BY <2>1, IndexerAssumption DEF ChainRecord
  <2>5. slotNow - rows[t].slot >= ORPHAN_GRACE_SLOTS
    BY <2>1, <2>3, <2>4
  <2> QED
    BY <2>1, <2>2, <2>5 DEF Dead
<1> QED
  BY <1>3, <1>4, <1>5

LEMMA CheckKeepsInv ==
  ASSUME IndexerInv, NEW r \in Reconcilers, NEW t \in Txs,
         NEW a \in Answers[getSignatureStatus(t)], Check(r, t, a)
  PROVE  IndexerInv'
<1>1. PICK outcome, left : /\ outcome = Outcome(checkFinalizedQuorum(a), rec[r].at, t)
                           /\ left = rec[r].todo \ {t}
  OBVIOUS
<1>2. /\ UNCHANGED <<chainVars, rows, events, proj>> /\ t \in rec[r].todo
      /\ blinded' = IF outcome = "orphan" /\ ~Quorum(a, {"missing"})
                    THEN blinded \cup {t} ELSE blinded
  BY <1>1 DEF Check
<1>3. /\ rec \in [Reconcilers -> TickRecord] /\ rec[r] \in TickRecord
      /\ VerdictHolds(rec[r]) /\ rec[r].at \in Nat /\ rec[r].todo \subseteq Txs
  BY DEF IndexerInv, IndexerType, TickRecord
<1>4. rec[r].at <= slotNow /\ \A u \in rec[r].todo : InHand(u)
  BY <1>3 DEF VerdictHolds
<1>5. rec' = [rec EXCEPT ![r] =
        IF outcome = "pending" THEN WithTodo(rec[r], left)
        ELSE [rec[r] EXCEPT !.pc = outcome, !.todo = left, !.tx = t]]
  BY <1>1, <1>3 DEF Check
<1>6. /\ outcome \in {"resolve", "orphan", "pending"}
      /\ outcome = "resolve" => chain[t].fate = "finalized"
      /\ outcome = "orphan" /\ Quorum(a, {"missing"}) => Dead(t)
  BY <1>1, <1>2, <1>3, <1>4, OutcomeIsTrue
<1>7. CASE outcome = "pending"
  <2>1. rec' = [rec EXCEPT ![r] = WithTodo(rec[r], left)] /\ blinded' = blinded
    BY <1>2, <1>5, <1>7
  <2>2. left \in SUBSET rec[r].todo
    BY <1>1
  <2> QED
    BY <1>2, <2>1, <2>2, LeftHolds, TickMovesKeepInv
<1>8. CASE outcome # "pending"
  <2>0. PICK k : k = [rec[r] EXCEPT !.pc = outcome, !.todo = left, !.tx = t]
    OBVIOUS
  <2>1. rec' = [rec EXCEPT ![r] = k]
    BY <1>5, <1>8, <2>0
  <2>2. /\ k \in TickRecord /\ k.at = rec[r].at /\ k.todo = left
        /\ k.pc = outcome /\ k.tx = t
    BY <1>1, <1>3, <1>6, <1>8, <2>0 DEF TickRecord
  <2>3. blinded \subseteq blinded' /\ (outcome = "orphan" => Dead(t) \/ t \in blinded')
    BY <1>2, <1>6
  <2>4. IndexerType /\ ChainGrows /\ RowsGrow
    BY <1>2, <2>3, ChainStays, RowsStay DEF IndexerInv
  <2>5. (outcome = "orphan" => (Dead(t) \/ t \in blinded)') /\ InHand(t)'
    BY <1>2, <1>4, <2>3, <2>4 DEF ChainGrows, RowsGrow
  <2>6. k.at <= slotNow' /\ \A u \in k.todo : InHand(u)'
    BY <1>1, <1>2, <1>3, <1>4, <2>2, <2>4 DEF RowsGrow, chainVars
  <2>7. outcome = "resolve" => chain'[t].fate = "finalized"
    BY <1>6, <2>4 DEF ChainGrows
  <2>8. VerdictHolds(k)'
    BY <2>2, <2>5, <2>6, <2>7 DEF VerdictHolds
  <2> QED
    BY <1>2, <2>1, <2>2, <2>3, <2>8, TickMovesKeepInv
<1> QED
  BY <1>7, <1>8

LEMMA FailureKeepsInv ==
  ASSUME IndexerInv, NEW r \in Reconcilers, CannotResolve(r) \/ TickFails(r)
  PROVE  IndexerInv'
<1>1. CASE CannotResolve(r)
  <2>1. rec' = [rec EXCEPT ![r] = WithTodo(rec[r], rec[r].todo)]
    BY <1>1 DEF CannotResolve, Continues, IndexerInv, IndexerType
  <2>2. UNCHANGED <<chainVars, rows, events, proj, blinded>>
    BY <1>1 DEF CannotResolve
  <2> QED
    BY <2>1, <2>2, LeftHolds, TickMovesKeepInv
<1>2. CASE TickFails(r)
  <2>1. rec' = [rec EXCEPT ![r] = Idle] /\ UNCHANGED <<chainVars, rows, events, proj, blinded>>
    BY <1>2 DEF TickFails
  <2> QED
    BY <2>1, IdleHolds, TickMovesKeepInv DEF IndexerInv
<1> QED
  BY <1>1, <1>2

\* A row that takes effect or is orphaned.
LEMMA RowUpdateKeepsInv ==
  ASSUME IndexerInv, NEW r \in Reconcilers, Resolve(r) \/ MarkOrphaned(r)
  PROVE  IndexerInv'
<1>0. PICK t, k : t = rec[r].tx /\ k = WithTodo(rec[r], rec[r].todo)
  OBVIOUS
<1>1. /\ IndexerType /\ rows \in [Txs -> RowRecord] /\ rec \in [Reconcilers -> TickRecord]
      /\ VerdictHolds(rec[r])
  BY DEF IndexerInv, IndexerType
<1>2. /\ UNCHANGED <<chainVars, events, proj, blinded>>
      /\ rec' = [rec EXCEPT ![r] = k]
      /\ rec[r].pc \in {"resolve", "orphan"}
  BY <1>0, <1>1 DEF Resolve, MarkOrphaned, Continues
<1>3. t \in Txs /\ InHand(t) /\ RowIsSound(t)
  BY <1>0, <1>1, <1>2 DEF VerdictHolds, IndexerInv
<1>4. /\ \A u \in Txs \ {t} : rows'[u] = rows[u]
      /\ rows' \in [Txs -> RowRecord]
      /\ rows'[t].via = rows[t].via /\ rows'[t].slot = rows[t].slot
      /\ rows'[t].genuine = rows[t].genuine
      /\ \/ /\ rec[r].pc = "resolve"
            /\ rows'[t].resolved /\ rows'[t].orphaned = rows[t].orphaned
         \/ /\ rec[r].pc = "orphan"
            /\ rows'[t].orphaned /\ rows'[t].resolved = rows[t].resolved
  <2>1. CASE Resolve(r)
    <3> DEFINE row == [rows[t] EXCEPT !.resolved = TRUE]
    <3>1. rows' = [rows EXCEPT ![t] = row] /\ rec[r].pc = "resolve"
      BY <1>0, <1>1, <1>3, <2>1 DEF Resolve
    <3>2. /\ row \in RowRecord /\ row.via = rows[t].via /\ row.slot = rows[t].slot
          /\ row.genuine = rows[t].genuine /\ row.resolved /\ row.orphaned = rows[t].orphaned
      BY <1>1, <1>3 DEF RowRecord
    <3> HIDE DEF row
    <3> QED
      BY <1>1, <1>3, <3>1, <3>2
  <2>2. CASE MarkOrphaned(r)
    <3> DEFINE row == [rows[t] EXCEPT !.orphaned = TRUE]
    <3>1. rows' = [rows EXCEPT ![t] = row] /\ rec[r].pc = "orphan"
      BY <1>0, <1>1, <1>3, <2>2 DEF MarkOrphaned
    <3>2. /\ row \in RowRecord /\ row.via = rows[t].via /\ row.slot = rows[t].slot
          /\ row.genuine = rows[t].genuine /\ row.orphaned /\ row.resolved = rows[t].resolved
      BY <1>1, <1>3 DEF RowRecord
    <3> HIDE DEF row
    <3> QED
      BY <1>1, <1>3, <3>1, <3>2
  <2> QED
    BY <2>1, <2>2
<1>5. k \in TickRecord /\ VerdictHolds(k)
  BY <1>0, LeftHolds
<1>6. ChainGrows /\ chain' = chain /\ slotNow' = slotNow
  BY <1>1, <1>2, ChainStays DEF chainVars
<1>7. /\ rec[r].pc = "resolve" => chain[t].fate = "finalized"
      /\ rec[r].pc = "orphan" => (Dead(t) /\ chain[t].fate # "finalized") \/ t \in blinded
  BY <1>0, <1>1, <1>3, DeadNeverLands DEF VerdictHolds
<1>8. rows[t].orphaned => chain[t].fate # "finalized" \/ t \in blinded
  BY <1>1, <1>3, DeadNeverLands DEF RowIsSound
<1>9. rows[t].resolved => chain[t].fate = "finalized"
  BY <1>3 DEF InHand
<1>10. RowIsSound(t)'
  BY <1>2, <1>3, <1>4, <1>6, <1>7, <1>8, <1>9 DEF RowIsSound, InHand, Dead
<1>11. \A u \in Txs \ {t} : RowIsSound(u)'
  BY <1>2, <1>4, <1>6 DEF IndexerInv, RowIsSound, Dead
<1>12. RowsGrow
  BY <1>3, <1>4, <1>6, <1>7, <1>9 DEF RowsGrow, InHand
<1>13. ResolvedStays
  BY <1>3, <1>4 DEF ResolvedStays
<1>14. VerdictHolds(k)'
  BY <1>1, <1>5, <1>6, <1>12, VerdictStays
<1>15. rec' \in [Reconcilers -> TickRecord] /\ rec'[r] = k
  BY <1>1, <1>2, <1>5
<1>16. \A q \in Reconcilers : rec'[q] # rec[q] => VerdictHolds(rec[q])'
  BY <1>1, <1>2, <1>14, <1>15
<1>17. \A u \in Txs : RowIsSound(u)'
  BY <1>10, <1>11
<1> QED
  BY <1>2, <1>4, <1>12, <1>13, <1>15, <1>16, <1>17, TickKeepsInv

----------------------------------------------------------------------------
(* The projector.                                                          *)

\* What is left to show of a step of the projector.
LEMMA RebuildKeepsInv ==
  ASSUME IndexerInv, UNCHANGED <<chainVars, rows, rec, blinded>>,
         events' \subseteq Txs,
         proj' \in [pc : {"idle", "read", "write"}, todo : SUBSET Txs],
         \A t \in events' \cup proj'.todo : rows[t].resolved
  PROVE  IndexerInv'
<1>1. IndexerType'
  BY DEF IndexerInv, IndexerType, chainVars
<1>2. \A t \in Txs : RowIsSound(t)'
  BY DEF IndexerInv, RowIsSound, Dead, chainVars
<1>3. \A r \in Reconcilers : VerdictHolds(rec[r])'
  BY DEF IndexerInv, VerdictHolds, InHand, Dead, chainVars
<1>4. DerivedFromResolved'
  BY DEF DerivedFromResolved
<1> QED
  BY <1>1, <1>2, <1>3, <1>4 DEF IndexerInv

LEMMA RebuildStepKeepsInv ==
  ASSUME IndexerInv, RebuildStep \/ RebuildFails
  PROVE  IndexerInv'
<1>0. /\ events \subseteq Txs /\ proj \in [pc : {"idle", "read", "write"}, todo : SUBSET Txs]
      /\ \A t \in events \cup proj.todo : rows[t].resolved
  BY DEF IndexerInv, IndexerType, DerivedFromResolved
<1>1. UNCHANGED <<chainVars, rows, rec, blinded>>
  BY DEF RebuildStep, RebuildFails, Truncate, ReadResolved, RebuildEnds, Project
<1>2. CASE Truncate
  BY <1>1, <1>2, RebuildKeepsInv DEF Truncate
<1>3. CASE ReadResolved
  <2> DEFINE todo == {t \in Txs : Projectable(t)}
  <2>1. proj' = [pc |-> "write", todo |-> todo] /\ events' = events
    BY <1>3 DEF ReadResolved
  <2>2. todo \in SUBSET Txs /\ \A t \in todo : rows[t].resolved
    BY DEF Projectable
  <2> HIDE DEF todo
  <2> QED
    BY <1>0, <1>1, <2>1, <2>2, RebuildKeepsInv
<1>4. CASE RebuildEnds \/ RebuildFails
  BY <1>0, <1>1, <1>4, RebuildKeepsInv DEF RebuildEnds, RebuildFails
<1>5. ASSUME NEW t \in Txs, Project(t) PROVE IndexerInv'
  <2>1. events' = events \cup {t} /\ t \in proj.todo
        /\ proj' = [proj EXCEPT !.todo = @ \ {t}]
    BY <1>5 DEF Project
  <2>2. proj' \in [pc : {"idle", "read", "write"}, todo : SUBSET Txs]
        /\ proj'.todo = proj.todo \ {t}
    BY <1>0, <2>1
  <2> QED
    BY <1>0, <1>1, <2>1, <2>2, RebuildKeepsInv
<1> QED
  BY <1>2, <1>3, <1>4, <1>5 DEF RebuildStep

----------------------------------------------------------------------------

LEMMA IndexerInitInv == IndexerInit => IndexerInv
<1> SUFFICES ASSUME IndexerInit PROVE IndexerInv
  OBVIOUS
<1> USE DEF IndexerInit
<1>1. NoRow \in RowRecord /\ Idle \in TickRecord
  BY DEF NoRow, RowRecord, Idle, TickRecord
<1>2. [fate |-> "unsent", slots |-> {}] \in ChainRecord
  BY DEF ChainRecord, Fates
<1>3. IndexerType
  BY <1>1, <1>2 DEF IndexerType
<1>4. \A t \in Txs : RowIsSound(t)
  BY DEF RowIsSound, NoRow
<1>5. \A r \in Reconcilers : VerdictHolds(rec[r])
  BY <1>3, IdleHolds
<1>6. DerivedFromResolved
  BY DEF DerivedFromResolved
<1> QED
  BY <1>3, <1>4, <1>5, <1>6 DEF IndexerInv

LEMMA IndexerStepInv == IndexerInv /\ [IndexerNext]_ivars => IndexerInv'
<1> SUFFICES ASSUME IndexerInv, [IndexerNext]_ivars PROVE IndexerInv'
  OBVIOUS
<1>0. IndexerType
  BY DEF IndexerInv
<1>1. CASE UNCHANGED <<chainVars, rows, rec, events, proj, blinded>>
  BY <1>0, <1>1, ChainStays, ChainKeepsInv
<1>2. CASE UNCHANGED ivars \/ LeaseExpires \/ BackfillState \/ \E r \in Reconcilers : CrossValidates(r)
  BY <1>1, <1>2 DEF ivars, chainVars, LeaseExpires, BackfillState, CrossValidates
<1>3. CASE SlotPasses \/ \E t \in Txs : Lands(t) \/ IsDecided(t)
  BY <1>0, <1>3, ChainSteps, ChainKeepsInv
<1>4. CASE \E t \in Txs : \/ HandleHeliusWebhook(t)
                          \/ \E a \in Answers[getTransaction(t)] : BackfillEvent(t, a)
  BY <1>4, WebhookKeepsInv, BackfillKeepsInv
<1>5. CASE \E r \in Reconcilers : TickStarts(r) \/ TickStep(r) \/ TickFails(r)
  <2> PICK r \in Reconcilers : TickStarts(r) \/ TickStep(r) \/ TickFails(r)
    BY <1>5
  <2>1. CASE TickStarts(r) \/ ReadRows(r)
    BY <2>1, TickStartsKeepsInv, ReadRowsKeepsInv
  <2>2. CASE \E t \in Txs : \E a \in Answers[getSignatureStatus(t)] : Check(r, t, a)
    BY <2>2, CheckKeepsInv
  <2>3. CASE CannotResolve(r) \/ TickFails(r)
    BY <2>3, FailureKeepsInv
  <2>4. CASE Resolve(r) \/ MarkOrphaned(r)
    BY <2>4, RowUpdateKeepsInv
  <2> QED
    BY <2>1, <2>2, <2>3, <2>4 DEF TickStep, DatabaseStep
<1>6. CASE RebuildStep \/ RebuildFails
  BY <1>6, RebuildStepKeepsInv
<1> QED
  BY <1>2, <1>3, <1>4, <1>5, <1>6 DEF IndexerNext

LEMMA IndexerInvHolds == IndexerSpec => []IndexerInv
BY IndexerInitInv, IndexerStepInv, PTL DEF IndexerSpec

\* Whatever a minority of the endpoints says, and in any order of landings,
\* overlapping ticks and stale verdicts, a row that is orphaned is of a transaction
\* that is not final, and never took effect, unless a check that had to count
\* failed calls as votes made the transaction out missing.
THEOREM NoLieCensors == IndexerSpec => []OnlyErrorsCensor
<1>1. IndexerInv => OnlyErrorsCensor
  BY DeadNeverLands DEF IndexerInv, RowIsSound, OnlyErrorsCensor
<1> QED
  BY <1>1, IndexerInvHolds, PTL

\* With at most half of the endpoints wrong, and any number of calls failing,
\* every derived event is one of the transaction, and what only the webhook told
\* is derived only when it is final.
THEOREM DerivedIsGenuine == IndexerSpec => []EventsAreGenuine
<1>1. ASSUME IndexerInv PROVE EventsAreGenuine
  <2> SUFFICES ASSUME NEW t \in events
               PROVE  /\ rows[t].genuine
                      /\ rows[t].via = "webhook" => chain[t].fate = "finalized"
    BY DEF EventsAreGenuine
  <2>1. t \in Txs /\ rows[t].resolved /\ RowIsSound(t)
    BY <1>1 DEF IndexerInv, IndexerType, DerivedFromResolved
  <2> QED
    BY <2>1 DEF RowIsSound
<1> QED
  BY <1>1, IndexerInvHolds, PTL
=============================================================================
