---------------------------- MODULE EmailNotify ----------------------------
(***************************************************************************)
(* The mail notifier (services/indexer/src/email/notify.ts) beside the pool*)
(* it scans.  Every INTERVAL_MS the daemon starts a tick, whether or not   *)
(* the one before has ended: it reads the pool and the members, and for    *)
(* each mail they call for it claims the row of the mail in EmailSentLog,  *)
(* sends, and gives the row back if the sending failed.                    *)
(*                                                                         *)
(* Failures covered: a send that fails, an insertion or a read that fails  *)
(* and ends its tick, a deletion that fails (its error is swallowed), a    *)
(* crash of the daemon at any point.  What the adapter reports as failed   *)
(* may have been delivered nevertheless, and nobody knows.  The order of   *)
(* the turns is known from the start, as the notifier reads nothing of a   *)
(* draw.  The digest of new groups is left out.                            *)
(***************************************************************************)
EXTENDS PoolTimeline, FiniteSets

CONSTANTS
  Subscribers,   \* the seats whose wallets have opted in
  TurnOf,        \* the seat whose turn each cycle is
  DueWindow,     \* DUE_WINDOW_SECS
  Ticks,         \* bound: the ticks that can be under way at once
  MaxFaults      \* bound on overlapping ticks, crashes, failed INSERTs and deletions

ASSUME EmailAssumption ==
  /\ Subscribers \subseteq Seats
  /\ TurnOf \in [Seats -> Seats]
  /\ DueWindow \in Nat
  /\ IsFiniteSet(Ticks)
  /\ MaxFaults \in Nat

VARIABLES
  tick,          \* [Ticks -> what the tick has read, has to do, and is sending]
  EmailSentLog,  \* the rows, each of one mail: @@unique([wallet, kind, dedupeKey])
  accepted,      \* history: the mails the adapter has reported as sent
  stranded,      \* history: the mails whose row was left behind unsent
  faults

mailVars == <<tick, EmailSentLog, accepted, stranded, faults>>
evars == <<tvars, mailVars>>

Mails == [kind : {"pool_started", "due", "payout_turn"}, seat : Subscribers, cycle : Seats]
Mail(kind, seat, cycle) == [kind |-> kind, seat |-> seat, cycle |-> cycle]
Fault == faults < MaxFaults /\ faults' = faults + 1
NoMail == Mail("none", 0, 0)
NotRead == [read |-> FALSE]
Between == [pc |-> "idle", at |-> 0, pool |-> NotRead, members |-> NotRead,
            todo |-> {}, sending |-> NoMail]

NotifierInit ==
  /\ tick = [t \in Ticks |-> Between]
  /\ EmailSentLog = {}
  /\ accepted = {}
  /\ stranded = {}
  /\ faults = 0

EmailInit == TimelineInit /\ drawn /\ NotifierInit

----------------------------------------------------------------------------

\* Whose turn notifyOnce takes it to be: the seat numbered as the cycle.
isMyTurn(s, pool, members) ==
  s \notin members.defaulted \cup members.paid_out /\ s = pool.cycle

\* What is kept of the answers; at is the time the tick has read.
PoolNow(at) ==
  [read |-> TRUE, active |-> status = "Active", cycle |-> current_cycle,
   dueSoon |-> at < next_cycle_at /\ next_cycle_at - at <= DueWindow]

MembersNow ==
  [read |-> TRUE, paid |-> [s \in Subscribers |-> contributions_paid[s]],
   paid_out |-> paid_out \cap Subscribers, defaulted |-> defaulted \cap Subscribers]

\* The mails they call for.
CalledFor(pool, members) ==
  {m \in Mails :
     /\ pool.active
     /\ m.kind = "pool_started" => m.cycle = 0
     /\ m.kind # "pool_started" => m.cycle = pool.cycle
     /\ m.kind = "due" => /\ pool.dueSoon
                          /\ m.seat \notin members.defaulted
                          /\ members.paid[m.seat] = pool.cycle
     /\ m.kind = "payout_turn" => isMyTurn(m.seat, pool, members)}

\* With nothing left to do or to send the tick is over.
WithMails(todo) == IF todo = {} THEN Between
                   ELSE [Between EXCEPT !.pc = "mail", !.todo = todo]

\* fetchAllPools: two requests at once, whose answers are of two moments; with
\* both of them the tick knows what to send.
Answered(t, at, pool, members) ==
  /\ tick' = [tick EXCEPT ![t] =
       IF pool.read /\ members.read
       THEN WithMails(CalledFor(pool, members))
       ELSE [Between EXCEPT !.pc = "fetch", !.at = at, !.pool = pool, !.members = members]]
  /\ UNCHANGED <<tvars, EmailSentLog, accepted, stranded>>

\* The interval starts a tick, up to the first answer; it reads the clock once.
RunTick(t) ==
  /\ tick[t].pc = "idle"
  /\ Answered(t, 0, PoolNow(now), NotRead) \/ Answered(t, now, NotRead, MembersNow)
  /\ IF \E u \in Ticks : tick[u].pc # "idle" THEN Fault ELSE UNCHANGED faults

FetchAllPools(t) ==
  /\ tick[t].pc = "fetch"
  /\ LET r == tick[t]
     IN  IF r.pool.read THEN Answered(t, 0, r.pool, MembersNow)
                        ELSE Answered(t, 0, PoolNow(r.at), r.members)
  /\ UNCHANGED faults

FetchFails(t) ==
  /\ tick[t].pc = "fetch"
  /\ tick' = [tick EXCEPT ![t] = Between]
  /\ UNCHANGED <<tvars, EmailSentLog, accepted, stranded, faults>>

----------------------------------------------------------------------------
(* sendDeduped.                                                            *)

\* The next mails to be looked at: of each member in this order.
Order == [pool_started |-> 1, due |-> 2, payout_turn |-> 3]
Upcoming(t) ==
  IF tick[t].sending # NoMail THEN {} ELSE
  {m \in tick[t].todo :
     \A n \in tick[t].todo : n.seat = m.seat => Order[m.kind] <= Order[n.kind]}

\* The log is written when the mail has gone out.
Claimed_mutant(m) == EmailSentLog

\* INSERT before the sending.
Claimed(m) == EmailSentLog \cup {m}

Claim(t, m) ==
  /\ m \notin EmailSentLog
  /\ EmailSentLog' = Claimed(m)
  /\ tick' = [tick EXCEPT ![t].sending = m, ![t].todo = @ \ {m}]
  /\ UNCHANGED <<tvars, accepted, stranded, faults>>

\* P2002: somebody else has it.
Skip(t, m) ==
  /\ m \in EmailSentLog
  /\ tick' = [tick EXCEPT ![t] = WithMails(@.todo \ {m})]
  /\ UNCHANGED <<tvars, EmailSentLog, accepted, stranded, faults>>

\* The INSERT fails for another reason: the throw ends the tick.
InsertFails(t) ==
  /\ Upcoming(t) # {}
  /\ Fault
  /\ tick' = [tick EXCEPT ![t] = Between]
  /\ UNCHANGED <<tvars, EmailSentLog, accepted, stranded>>

SendOk(t) ==
  /\ tick[t].sending # NoMail
  /\ accepted' = accepted \cup {tick[t].sending}
  /\ tick' = [tick EXCEPT ![t] = WithMails(@.todo)]
  /\ UNCHANGED <<tvars, EmailSentLog, stranded, faults>>

\* The claim stays, a tombstone.
Released_mutant(m) == EmailSentLog

\* The claim is deleted, "lease, not tombstone".
Released(m) == EmailSentLog \ {m}

SendFails(t) ==
  LET m == tick[t].sending IN
  /\ m # NoMail
  /\ EmailSentLog' = Released(m)
  /\ tick' = [tick EXCEPT ![t] = WithMails(@.todo)]
  /\ UNCHANGED <<tvars, accepted, stranded, faults>>

\* The deletion fails too.
ReleaseFails(t) ==
  LET m == tick[t].sending IN
  /\ m # NoMail
  /\ Fault
  /\ stranded' = stranded \cup {m}
  /\ tick' = [tick EXCEPT ![t] = WithMails(@.todo)]
  /\ UNCHANGED <<tvars, EmailSentLog, accepted>>

\* The process dies; the claims under way stay in the log.
Dies ==
  /\ Fault
  /\ stranded' = stranded \cup ({tick[t].sending : t \in Ticks} \ {NoMail})
  /\ tick' = [t \in Ticks |-> Between]
  /\ UNCHANGED <<tvars, EmailSentLog, accepted>>

MailTickStep(t) ==
  \/ RunTick(t) \/ FetchAllPools(t)
  \/ \E m \in Upcoming(t) : Claim(t, m) \/ Skip(t, m)
  \/ SendOk(t) \/ SendFails(t)

\* Of the members that get no mail only the payouts matter, and of the time
\* nothing after the grace window.
PoolMoves ==
  /\ \/ Activate \/ (now < GraceDeadline /\ TimePasses)
     \/ \E s \in Seats :
          TurnOf[current_cycle] = s /\ (ReceiveCredit(s) \/ PassOver(s))
     \/ \E s \in Subscribers :
          \/ contributions_paid[s] <= current_cycle /\ PayInstallment(s)
          \/ Settle(s)
  /\ UNCHANGED mailVars

EmailNext ==
  \/ PoolMoves
  \/ \E t \in Ticks : MailTickStep(t) \/ FetchFails(t) \/ InsertFails(t) \/ ReleaseFails(t)
  \/ Dies

\* The interval keeps firing and the awaits of the ticks end; reads and sends that
\* are tried again and again do not fail for ever.
EmailSpec ==
  /\ EmailInit
  /\ [][EmailNext]_evars
  /\ WF_evars(\E t \in Ticks : MailTickStep(t))
  /\ SF_evars(\E t \in Ticks : FetchAllPools(t))
  /\ SF_evars(\E t \in Ticks : SendOk(t))

----------------------------------------------------------------------------

\* "EmailSentLog dedup makes re-running send nothing new" (notify.ts:295): a mail
\* that was reported sent is never being sent again, and no two ticks are sending
\* the same one, whatever reads they act on and wherever the daemon has died.
NeverMailedTwice ==
  \A t \in Ticks :
    LET m == tick[t].sending IN
    m # NoMail => /\ m \notin accepted
                  /\ \A u \in Ticks \ {t} : tick[u].sending # m

\* "On a send failure DELETE the claim so a later tick retries (lease, not
\* tombstone)" (notify.ts:122-123): whatever the ticks have read, and wherever they
\* fail, a row stands for a mail that was reported sent or is being sent, or was
\* left behind by a crash or a failed deletion.  So no other failure silences a
\* mail for good.
ClaimsAreLeases ==
  \A m \in EmailSentLog : m \in accepted \cup stranded \/ \E t \in Ticks : tick[t].sending = m

ItsTurn(s, c) ==
  /\ status = "Active" /\ current_cycle = c /\ TurnOf[c] = s
  /\ s \notin defaulted \cup paid_out

\* notify.ts:405-408: the mail is for the member who "is the contemplated slot for
\* the CURRENT cycle", as one who "is waiting to be told stalls the whole group".
\* So who can claim is told in the end, of the cycle whose credit it is.
WinnerIsTold ==
  \A s \in Subscribers, c \in Seats :
    ItsTurn(s, c) ~>
      \/ Mail("payout_turn", s, c) \in accepted \cup stranded
      \/ ~ItsTurn(s, c)
=============================================================================
