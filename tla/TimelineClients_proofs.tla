------------------------ MODULE TimelineClients_proofs ------------------------
(***************************************************************************)
(* The three that read the timeline of a pool and act on what they have    *)
(* read, the mail notifier, the web app and the crank service, beside a    *)
(* pool of any size whose windows are of any length.                       *)
(***************************************************************************)
EXTENDS WebClient, EmailNotify, CrankService, FiniteSetTheorems, SequenceTheorems, TLAPS

----------------------------------------------------------------------------
(* The timeline of a pool, which the notifier and the app read.            *)

TimelineType ==
  /\ status \in {"Forming", "Active", "Over"}
  /\ current_cycle \in Seats
  /\ next_cycle_at \in Nat /\ now \in Nat
  /\ contributions_paid \in [Seats -> Nat]
  /\ drawn \in BOOLEAN

\* What a pool has done it does not undo.
TimelineGrows ==
  /\ defaulted \subseteq defaulted'
  /\ paid_out \subseteq paid_out'
  /\ drawn => drawn'

LEMMA SeatNumbers ==
  /\ 0 \in Seats /\ Seats \subseteq Nat
  /\ MembersTarget \in Nat /\ CycleDuration \in Nat /\ GracePeriod \in Nat
  /\ \A c \in Seats : c < MembersTarget
BY TimelineAssumption DEF Seats

LEMMA TimelineStarts == TimelineInit => TimelineType
BY SeatNumbers DEF TimelineInit, TimelineType

LEMMA TurnEnds ==
  ASSUME TimelineType, Advance
  PROVE  /\ status' \in {"Forming", "Active", "Over"}
         /\ current_cycle' \in Seats /\ next_cycle_at' \in Nat
         /\ status' # "Over" => current_cycle' = current_cycle + 1
<1>1. /\ current_cycle \in Nat /\ next_cycle_at \in Nat /\ now \in Nat
      /\ CycleDuration \in Nat /\ MembersTarget \in Nat
  BY SeatNumbers DEF TimelineType
<1>2. CASE current_cycle + 1 >= MembersTarget
  BY <1>2 DEF Advance, TimelineType
<1>3. CASE ~(current_cycle + 1 >= MembersTarget)
  <2>1. current_cycle + 1 \in Seats
    BY <1>1, <1>3 DEF Seats
  <2>2. LaterOf(next_cycle_at, now) + CycleDuration \in Nat
    BY <1>1 DEF LaterOf
  <2> QED
    BY <1>3, <2>1, <2>2 DEF Advance, TimelineType
<1> QED
  BY <1>2, <1>3

\* One step of a pool.
PoolOperation(s) ==
  \/ Activate \/ DrawLate \/ TimePasses
  \/ s \in Seats /\ PayInstallment(s)
  \/ s \in Seats /\ \E k \in 1 .. MembersTarget : PrepayInBid(s, k)
  \/ ReceiveCredit(s) \/ PassOver(s) \/ Settle(s)

LEMMA TimelineMoves ==
  ASSUME TimelineType, NEW s, PoolOperation(s)
  PROVE  TimelineType' /\ TimelineGrows
<1>1. /\ next_cycle_at \in Nat /\ now \in Nat /\ CycleDuration \in Nat
      /\ drawn \in BOOLEAN /\ contributions_paid \in [Seats -> Nat]
  BY SeatNumbers DEF TimelineType
<1>2. CASE Activate
  <2>1. drawn' = drawn \/ drawn' = TRUE
    BY <1>2 DEF Activate
  <2>2. drawn' \in BOOLEAN /\ (drawn => drawn')
    BY <1>1, <2>1
  <2> QED
    BY <1>1, <1>2, <2>2 DEF Activate, TimelineType, TimelineGrows, seatVars
<1>3. CASE DrawLate
  BY <1>1, <1>3 DEF DrawLate, LaterOf, TimelineType, TimelineGrows, seatVars
<1>4. CASE TimePasses
  BY <1>1, <1>4 DEF TimePasses, TimelineType, TimelineGrows, seatVars
<1>5. CASE s \in Seats /\ PayInstallment(s)
  <2>1. contributions_paid' = [contributions_paid EXCEPT ![s] = @ + 1]
    BY <1>5 DEF PayInstallment
  <2>2. contributions_paid' \in [Seats -> Nat]
    BY <1>1, <1>5, <2>1
  <2> QED
    BY <1>5, <2>2 DEF PayInstallment, TimelineType, TimelineGrows
<1>6. CASE ReceiveCredit(s)
  BY <1>1, <1>6, TurnEnds DEF ReceiveCredit, TimelineType, TimelineGrows
<1>7. CASE PassOver(s)
  BY <1>1, <1>7, TurnEnds DEF PassOver, TimelineType, TimelineGrows, seatVars
<1>8. CASE Settle(s)
  BY <1>8 DEF Settle, TimelineType, TimelineGrows
<1>9. ASSUME s \in Seats, NEW k \in 1 .. MembersTarget, PrepayInBid(s, k)
      PROVE  TimelineType' /\ TimelineGrows
  <2>1. contributions_paid' = [contributions_paid EXCEPT ![s] = @ + k] /\ k \in Nat
    BY <1>9 DEF PrepayInBid
  <2>2. contributions_paid' \in [Seats -> Nat]
    BY <1>1, <1>9, <2>1
  <2> QED
    BY <1>9, <2>2 DEF PrepayInBid, TimelineType, TimelineGrows
<1> QED
  BY <1>2, <1>3, <1>4, <1>5, <1>6, <1>7, <1>8, <1>9 DEF PoolOperation

----------------------------------------------------------------------------
(* The mail notifier.                                                      *)

PoolAnswer == [read : {TRUE}, active : BOOLEAN, cycle : Seats, dueSoon : BOOLEAN]
MembersAnswer == [read : {TRUE}, paid : [Subscribers -> Nat],
                  paid_out : SUBSET Subscribers, defaulted : SUBSET Subscribers]
MailTick == [pc : {"idle", "fetch", "mail"}, at : Nat, pool : PoolAnswer \cup {NotRead},
             members : MembersAnswer \cup {NotRead},
             todo : SUBSET Mails, sending : Mails \cup {NoMail}]

\* Whatever is being sent has a row that nobody else can have claimed, and a
\* mail that went out keeps its row.
RowsAreHeld ==
  /\ accepted \subseteq EmailSentLog
  /\ \A t \in Ticks :
       tick[t].sending # NoMail => tick[t].sending \in EmailSentLog

MailInv ==
  /\ TimelineType
  /\ tick \in [Ticks -> MailTick]
  /\ RowsAreHeld
  /\ NeverMailedTwice

LEMMA NoMailIsNoMail == NoMail \notin Mails
BY DEF NoMail, Mail, Mails

LEMMA MailsType ==
  ASSUME NEW todo \in SUBSET Mails
  PROVE  WithMails(todo) \in MailTick /\ WithMails(todo).sending = NoMail
<1>1. Between \in MailTick /\ Between.sending = NoMail
  BY DEF Between, MailTick
<1>2. CASE todo = {}
  BY <1>1, <1>2 DEF WithMails
<1>3. CASE todo # {}
  BY <1>3 DEF WithMails, Between, MailTick
<1> QED
  BY <1>2, <1>3

LEMMA AnswersType ==
  ASSUME TimelineType, NEW at \in Nat
  PROVE  PoolNow(at) \in PoolAnswer /\ MembersNow \in MembersAnswer
<1>1. [s \in Subscribers |-> contributions_paid[s]] \in [Subscribers -> Nat]
  BY EmailAssumption DEF TimelineType
<1>2. MembersNow \in MembersAnswer
  BY <1>1 DEF MembersNow, MembersAnswer
<1>3. /\ (status = "Active") \in BOOLEAN
      /\ (at < next_cycle_at /\ next_cycle_at - at <= DueWindow) \in BOOLEAN
  OBVIOUS
<1>4. PoolNow(at) \in PoolAnswer
  BY <1>3 DEF PoolNow, PoolAnswer, TimelineType
<1> QED
  BY <1>2, <1>4

\* A tick that goes on without sending anything.
LEMMA TickGoesOn ==
  ASSUME MailInv, NEW t \in Ticks, NEW k \in MailTick, k.sending = NoMail,
         tick' = [tick EXCEPT ![t] = k], UNCHANGED <<tvars, EmailSentLog, accepted>>
  PROVE  MailInv'
<1>1. tick' \in [Ticks -> MailTick] /\ tick'[t] = k
  BY DEF MailInv
<1>2. \A u \in Ticks \ {t} : tick'[u] = tick[u]
  BY DEF MailInv
<1>3. TimelineType'
  BY DEF MailInv, TimelineType, tvars, seatVars
<1>4. RowsAreHeld'
  BY <1>1, <1>2 DEF MailInv, RowsAreHeld
<1>5. NeverMailedTwice'
  BY <1>1, <1>2 DEF MailInv, NeverMailedTwice
<1> QED
  BY <1>1, <1>3, <1>4, <1>5 DEF MailInv

LEMMA AnsweredKeepsInv ==
  ASSUME MailInv, NEW t \in Ticks, NEW at \in Nat,
         NEW pool \in PoolAnswer \cup {NotRead},
         NEW members \in MembersAnswer \cup {NotRead},
         Answered(t, at, pool, members)
  PROVE  MailInv'
<1> DEFINE todo == CalledFor(pool, members)
           j == [Between EXCEPT !.pc = "fetch", !.at = at, !.pool = pool, !.members = members]
           k == IF pool.read /\ members.read THEN WithMails(todo) ELSE j
<1>1. todo \in SUBSET Mails
  BY DEF CalledFor
<1>2. j \in MailTick /\ j.sending = NoMail
  BY DEF Between, MailTick
<1>3. tick' = [tick EXCEPT ![t] = k] /\ UNCHANGED <<tvars, EmailSentLog, accepted>>
  BY DEF Answered
<1> HIDE DEF todo, j
<1>4. k \in MailTick /\ k.sending = NoMail
  BY <1>1, <1>2, MailsType
<1> HIDE DEF k
<1> QED
  BY <1>3, <1>4, TickGoesOn

LEMMA ReadsKeepInv ==
  ASSUME MailInv, NEW t \in Ticks, RunTick(t) \/ FetchAllPools(t) \/ FetchFails(t) \/ InsertFails(t)
  PROVE  MailInv'
<1>1. TimelineType /\ now \in Nat /\ tick[t] \in MailTick /\ tick[t].at \in Nat
  BY DEF MailInv, TimelineType, MailTick
<1>2. CASE RunTick(t)
  BY <1>1, <1>2, AnswersType, AnsweredKeepsInv DEF RunTick
<1>3. CASE FetchAllPools(t)
  <2>1. \/ Answered(t, 0, tick[t].pool, MembersNow)
        \/ Answered(t, 0, PoolNow(tick[t].at), tick[t].members)
    BY <1>3 DEF FetchAllPools
  <2>2. /\ tick[t].pool \in PoolAnswer \cup {NotRead}
        /\ tick[t].members \in MembersAnswer \cup {NotRead}
    BY <1>1 DEF MailTick
  <2> QED
    BY <1>1, <2>1, <2>2, AnswersType, AnsweredKeepsInv
<1>4. CASE FetchFails(t) \/ InsertFails(t)
  <2>1. Between \in MailTick /\ Between.sending = NoMail
    BY DEF Between, MailTick
  <2> QED
    BY <1>4, <2>1, TickGoesOn DEF FetchFails, InsertFails
<1> QED
  BY <1>2, <1>3, <1>4

LEMMA ClaimKeepsInv ==
  ASSUME MailInv, NEW t \in Ticks, NEW m \in Upcoming(t), Claim(t, m) \/ Skip(t, m)
  PROVE  MailInv'
<1>1. tick \in [Ticks -> MailTick] /\ tick[t] \in MailTick /\ m \in tick[t].todo
  BY DEF MailInv, Upcoming
<1>2. m \in Mails /\ m # NoMail
  BY <1>1, NoMailIsNoMail DEF MailTick
<1>3. CASE Claim(t, m)
  <2> DEFINE k == [tick[t] EXCEPT !.sending = m, !.todo = @ \ {m}]
  <2>1. k \in MailTick /\ k.sending = m
    BY <1>1, <1>2 DEF MailTick
  <2>2. tick' = [tick EXCEPT ![t] = k] /\ UNCHANGED <<tvars, accepted>>
    BY <1>1, <1>3 DEF Claim
  <2> HIDE DEF k
  <2>3. tick' \in [Ticks -> MailTick] /\ tick'[t] = k
    BY <1>1, <2>1, <2>2
  <2>4. \A u \in Ticks \ {t} : tick'[u] = tick[u]
    BY <1>1, <2>2
  <2>5. m \notin EmailSentLog /\ EmailSentLog' = EmailSentLog \cup {m}
    BY <1>3 DEF Claim, Claimed
  <2>6. RowsAreHeld'
    BY <2>1, <2>2, <2>3, <2>4, <2>5 DEF MailInv, RowsAreHeld
  <2>7. m \notin accepted /\ \A u \in Ticks : tick[u].sending # m
    BY <1>2, <2>5 DEF MailInv, RowsAreHeld
  <2>8. NeverMailedTwice'
    BY <2>1, <2>2, <2>3, <2>4, <2>7 DEF MailInv, NeverMailedTwice
  <2> QED
    BY <2>2, <2>3, <2>6, <2>8 DEF MailInv, TimelineType, tvars, seatVars
<1>4. CASE Skip(t, m)
  <2>1. tick[t].todo \ {m} \in SUBSET Mails
    BY <1>1 DEF MailTick
  <2>2. tick' = [tick EXCEPT ![t] = WithMails(tick[t].todo \ {m})]
    BY <1>1, <1>4 DEF Skip
  <2> QED
    BY <1>4, <2>1, <2>2, MailsType, TickGoesOn DEF Skip
<1> QED
  BY <1>3, <1>4

\* The end of a sending, with the row of the mail kept or given back.
LEMMA SendKeepsInv ==
  ASSUME MailInv, NEW t \in Ticks, SendOk(t) \/ SendFails(t) \/ ReleaseFails(t)
  PROVE  MailInv'
<1>1. PICK m, k : m = tick[t].sending /\ k = WithMails(tick[t].todo)
  OBVIOUS
<1>2. tick \in [Ticks -> MailTick] /\ tick[t] \in MailTick /\ tick[t].todo \in SUBSET Mails
  BY DEF MailInv, MailTick
<1>3. k \in MailTick /\ k.sending = NoMail
  BY <1>1, <1>2, MailsType
<1>4. m # NoMail /\ tick' = [tick EXCEPT ![t] = k] /\ UNCHANGED tvars
  BY <1>1, <1>2 DEF SendOk, SendFails, ReleaseFails
<1>5. tick' \in [Ticks -> MailTick] /\ tick'[t] = k
  BY <1>2, <1>3, <1>4
<1>6. \A u \in Ticks \ {t} : tick'[u] = tick[u]
  BY <1>2, <1>4
<1>7. /\ m \in EmailSentLog /\ m \notin accepted
      /\ \A u \in Ticks \ {t} : tick[u].sending # m
  BY <1>1, <1>4 DEF MailInv, RowsAreHeld, NeverMailedTwice
<1>8. \/ accepted' = accepted \cup {m} /\ EmailSentLog' = EmailSentLog
      \/ accepted' = accepted /\ EmailSentLog' = EmailSentLog \ {m}
      \/ accepted' = accepted /\ EmailSentLog' = EmailSentLog
  BY <1>1 DEF SendOk, SendFails, ReleaseFails, Released
<1>9. RowsAreHeld'
  BY <1>3, <1>5, <1>6, <1>7, <1>8 DEF MailInv, RowsAreHeld
<1>10. NeverMailedTwice'
  BY <1>3, <1>5, <1>6, <1>7, <1>8 DEF MailInv, NeverMailedTwice
<1> QED
  BY <1>4, <1>5, <1>9, <1>10 DEF MailInv, TimelineType, tvars, seatVars

LEMMA MailInitInv == EmailInit => MailInv
<1> SUFFICES ASSUME EmailInit PROVE MailInv
  OBVIOUS
<1>1. Between \in MailTick /\ Between.sending = NoMail
  BY DEF Between, MailTick
<1> QED
  BY <1>1, TimelineStarts
     DEF EmailInit, NotifierInit, MailInv, RowsAreHeld, NeverMailedTwice

LEMMA MailStepInv == MailInv /\ [EmailNext]_evars => MailInv'
<1> SUFFICES ASSUME MailInv, [EmailNext]_evars PROVE MailInv'
  OBVIOUS
<1>1. CASE UNCHANGED evars
  BY <1>1 DEF MailInv, TimelineType, RowsAreHeld, NeverMailedTwice, evars, mailVars, tvars, seatVars
<1>2. CASE PoolMoves
  <2>1. \E s : PoolOperation(s)
    BY <1>2, EmailAssumption DEF PoolMoves, PoolOperation
  <2>2. TimelineType'
    BY <2>1, TimelineMoves DEF MailInv
  <2>3. UNCHANGED mailVars
    BY <1>2 DEF PoolMoves
  <2> QED
    BY <2>2, <2>3 DEF MailInv, RowsAreHeld, NeverMailedTwice, mailVars
<1>3. CASE Dies
  <2>1. Between \in MailTick /\ Between.sending = NoMail
    BY DEF Between, MailTick
  <2>2. tick' = [t \in Ticks |-> Between] /\ UNCHANGED <<tvars, EmailSentLog, accepted>>
    BY <1>3 DEF Dies
  <2> QED
    BY <2>1, <2>2 DEF MailInv, TimelineType, RowsAreHeld, NeverMailedTwice, tvars, seatVars
<1>4. ASSUME NEW t \in Ticks, MailTickStep(t) \/ FetchFails(t) \/ InsertFails(t) \/ ReleaseFails(t)
      PROVE  MailInv'
  <2>1. CASE RunTick(t) \/ FetchAllPools(t) \/ FetchFails(t) \/ InsertFails(t)
    BY <2>1, ReadsKeepInv
  <2>2. CASE \E m \in Upcoming(t) : Claim(t, m) \/ Skip(t, m)
    BY <2>2, ClaimKeepsInv
  <2>3. CASE SendOk(t) \/ SendFails(t) \/ ReleaseFails(t)
    BY <2>3, SendKeepsInv
  <2> QED
    BY <1>4, <2>1, <2>2, <2>3 DEF MailTickStep
<1> QED
  BY <1>1, <1>2, <1>3, <1>4 DEF EmailNext

\* With any number of overlapping ticks, crashes and failures, no mail that was
\* reported sent is sent again, and no two ticks send the same one.
THEOREM MailsAreSentOnce == EmailSpec => []NeverMailedTwice
<1>1. MailInv => NeverMailedTwice
  BY DEF MailInv
<1> QED
  BY <1>1, MailInitInv, MailStepInv, PTL DEF EmailSpec

\* Only a tick that has its mails sends one, and only mails have rows.
SendsFromItsMails ==
  /\ EmailSentLog \subseteq Mails
  /\ \A t \in Ticks : tick[t].pc # "mail" => tick[t].sending = NoMail /\ tick[t].todo = {}

Quiet(k) == k.sending = NoMail /\ (k.pc # "mail" => k.todo = {})

LeaseInv == MailInv /\ SendsFromItsMails /\ ClaimsAreLeases

\* A tick that was sending nothing goes on without sending anything.
LEMMA QuietTick ==
  ASSUME LeaseInv, MailInv', NEW t \in Ticks, NEW k, Quiet(k),
         tick[t].sending = NoMail, tick' = [tick EXCEPT ![t] = k],
         UNCHANGED <<EmailSentLog, accepted, stranded>>
  PROVE  LeaseInv'
<1>1. tick'[t] = k /\ \A u \in Ticks \ {t} : tick'[u] = tick[u]
  BY DEF LeaseInv, MailInv
<1>2. SendsFromItsMails'
  BY <1>1 DEF LeaseInv, SendsFromItsMails, Quiet
<1>3. \A m \in EmailSentLog : m # NoMail
  BY NoMailIsNoMail DEF LeaseInv, SendsFromItsMails
<1>4. ClaimsAreLeases'
  <2>1. SUFFICES ASSUME NEW m \in EmailSentLog, m \notin accepted \cup stranded
                 PROVE  \E u \in Ticks : tick'[u].sending = m
    BY DEF ClaimsAreLeases
  <2>2. PICK u \in Ticks : tick[u].sending = m
    BY <2>1 DEF LeaseInv, ClaimsAreLeases
  <2>3. u # t
    BY <1>3, <2>1, <2>2
  <2> QED
    BY <1>1, <2>2, <2>3 DEF Quiet
<1> QED
  BY <1>2, <1>4 DEF LeaseInv

LEMMA WithMailsIsQuiet ==
  Quiet(Between) /\ \A todo : Quiet(WithMails(todo))
<1>1. Quiet(Between)
  BY DEF Quiet, Between
<1>2. ASSUME NEW todo PROVE Quiet(WithMails(todo))
  <2>1. CASE todo = {}
    BY <1>1, <2>1 DEF WithMails
  <2>2. CASE todo # {}
    BY <2>2 DEF WithMails, Quiet, Between
  <2> QED
    BY <2>1, <2>2
<1> QED
  BY <1>1, <1>2

LEMMA AnsweredKeepsLeases ==
  ASSUME LeaseInv, MailInv', NEW t \in Ticks, tick[t].sending = NoMail,
         NEW at, NEW pool, NEW members, Answered(t, at, pool, members)
  PROVE  LeaseInv'
<1> DEFINE j == [Between EXCEPT !.pc = "fetch", !.at = at, !.pool = pool, !.members = members]
           k == IF pool.read /\ members.read THEN WithMails(CalledFor(pool, members)) ELSE j
<1>1. Quiet(j)
  BY DEF Quiet, Between
<1>2. tick' = [tick EXCEPT ![t] = k] /\ UNCHANGED <<EmailSentLog, accepted, stranded>>
  BY DEF Answered
<1> HIDE DEF j
<1>3. Quiet(k)
  BY <1>1, WithMailsIsQuiet
<1> HIDE DEF k
<1> QED
  BY <1>2, <1>3, QuietTick

LEMMA ReadsKeepLeases ==
  ASSUME LeaseInv, MailInv', NEW t \in Ticks,
         \/ RunTick(t) \/ FetchAllPools(t) \/ FetchFails(t) \/ InsertFails(t)
         \/ \E m \in Upcoming(t) : Skip(t, m)
  PROVE  LeaseInv'
<1>1. CASE RunTick(t)
  <2>1. tick[t].sending = NoMail
    BY <1>1 DEF RunTick, LeaseInv, SendsFromItsMails
  <2> QED
    BY <1>1, <2>1, AnsweredKeepsLeases DEF RunTick
<1>2. CASE FetchAllPools(t)
  <2>1. tick[t].sending = NoMail
    BY <1>2 DEF FetchAllPools, LeaseInv, SendsFromItsMails
  <2>2. \/ Answered(t, 0, tick[t].pool, MembersNow)
        \/ Answered(t, 0, PoolNow(tick[t].at), tick[t].members)
    BY <1>2 DEF FetchAllPools
  <2> QED
    BY <2>1, <2>2, AnsweredKeepsLeases
<1>3. CASE FetchFails(t)
  <2>1. tick[t].sending = NoMail
    BY <1>3 DEF FetchFails, LeaseInv, SendsFromItsMails
  <2> QED
    BY <1>3, <2>1, WithMailsIsQuiet, QuietTick DEF FetchFails
<1>4. CASE InsertFails(t)
  <2>1. tick[t].sending = NoMail
    BY <1>4 DEF InsertFails, Upcoming
  <2> QED
    BY <1>4, <2>1, WithMailsIsQuiet, QuietTick DEF InsertFails
<1>5. ASSUME NEW m \in Upcoming(t), Skip(t, m)
      PROVE  LeaseInv'
  <2>1. tick[t].sending = NoMail
    BY <1>5 DEF Upcoming
  <2>2. /\ tick' = [tick EXCEPT ![t] = WithMails(tick[t].todo \ {m})]
        /\ UNCHANGED <<EmailSentLog, accepted, stranded>>
    BY <1>5 DEF Skip, LeaseInv, MailInv
  <2> QED
    BY <2>1, <2>2, WithMailsIsQuiet, QuietTick
<1> QED
  BY <1>1, <1>2, <1>3, <1>4, <1>5

LEMMA ClaimKeepsLeases ==
  ASSUME LeaseInv, MailInv', NEW t \in Ticks, NEW m \in Upcoming(t), Claim(t, m)
  PROVE  LeaseInv'
<1>1. /\ tick \in [Ticks -> MailTick] /\ tick[t] \in MailTick
      /\ m \in tick[t].todo /\ m \in Mails /\ tick[t].sending = NoMail
  BY DEF LeaseInv, MailInv, MailTick, Upcoming
<1> DEFINE k == [tick[t] EXCEPT !.sending = m, !.todo = @ \ {m}]
<1>2. k.sending = m /\ k.pc = "mail"
  BY <1>1 DEF LeaseInv, SendsFromItsMails, MailTick
<1>3. /\ tick' = [tick EXCEPT ![t] = k]
      /\ EmailSentLog' = EmailSentLog \cup {m}
      /\ UNCHANGED <<accepted, stranded>>
  BY <1>1 DEF Claim, Claimed
<1> HIDE DEF k
<1>4. tick'[t] = k /\ \A u \in Ticks \ {t} : tick'[u] = tick[u]
  BY <1>1, <1>3
<1>5. SendsFromItsMails'
  BY <1>1, <1>2, <1>3, <1>4 DEF LeaseInv, SendsFromItsMails
<1>6. ClaimsAreLeases'
  <2>1. SUFFICES ASSUME NEW n \in EmailSentLog, n \notin accepted \cup stranded
                 PROVE  \E u \in Ticks : tick'[u].sending = n
    BY <1>2, <1>3, <1>4 DEF ClaimsAreLeases
  <2>2. PICK u \in Ticks : tick[u].sending = n
    BY <2>1 DEF LeaseInv, ClaimsAreLeases
  <2>3. n # NoMail
    BY <2>1, NoMailIsNoMail DEF LeaseInv, SendsFromItsMails
  <2>4. u # t
    BY <1>1, <2>2, <2>3
  <2> QED
    BY <1>4, <2>2, <2>4
<1> QED
  BY <1>5, <1>6 DEF LeaseInv

\* A send that ends leaves a row that was accepted or stranded, or none.
LEMMA SendKeepsLeases ==
  ASSUME LeaseInv, MailInv', NEW t \in Ticks, SendOk(t) \/ SendFails(t) \/ ReleaseFails(t)
  PROVE  LeaseInv'
<1>1. PICK m, k : m = tick[t].sending /\ k = WithMails(tick[t].todo)
  OBVIOUS
<1>2. tick \in [Ticks -> MailTick]
  BY DEF LeaseInv, MailInv
<1>3. Quiet(k)
  BY <1>1, WithMailsIsQuiet
<1>4. m # NoMail /\ tick' = [tick EXCEPT ![t] = k]
  BY <1>1, <1>2 DEF SendOk, SendFails, ReleaseFails
<1>5. tick'[t] = k /\ \A u \in Ticks \ {t} : tick'[u] = tick[u]
  BY <1>2, <1>4
<1>6. /\ EmailSentLog' \subseteq EmailSentLog
      /\ accepted \subseteq accepted' /\ stranded \subseteq stranded'
      /\ m \in EmailSentLog' => m \in accepted' \cup stranded'
  BY <1>1 DEF SendOk, SendFails, ReleaseFails, Released
<1>7. SendsFromItsMails'
  BY <1>3, <1>5, <1>6 DEF LeaseInv, SendsFromItsMails, Quiet
<1>8. ClaimsAreLeases'
  <2>1. SUFFICES ASSUME NEW n \in EmailSentLog', n \notin accepted' \cup stranded'
                 PROVE  \E u \in Ticks : tick'[u].sending = n
    BY DEF ClaimsAreLeases
  <2>2. n \in EmailSentLog /\ n \notin accepted \cup stranded /\ n # m
    BY <1>6, <2>1
  <2>3. PICK u \in Ticks : tick[u].sending = n
    BY <2>2 DEF LeaseInv, ClaimsAreLeases
  <2>4. u # t
    BY <1>1, <2>2, <2>3
  <2> QED
    BY <1>5, <2>3, <2>4
<1> QED
  BY <1>7, <1>8 DEF LeaseInv

LEMMA LeaseInitInv == EmailInit => LeaseInv
<1> SUFFICES ASSUME EmailInit PROVE LeaseInv
  OBVIOUS
<1>1. SendsFromItsMails
  BY WithMailsIsQuiet DEF EmailInit, NotifierInit, SendsFromItsMails, Quiet
<1>2. ClaimsAreLeases
  BY DEF EmailInit, NotifierInit, ClaimsAreLeases
<1> QED
  BY <1>1, <1>2, MailInitInv DEF LeaseInv

LEMMA LeaseStepInv == LeaseInv /\ [EmailNext]_evars => LeaseInv'
<1> SUFFICES ASSUME LeaseInv, [EmailNext]_evars PROVE LeaseInv'
  OBVIOUS
<1>1. MailInv'
  BY MailStepInv DEF LeaseInv
<1>2. CASE UNCHANGED evars \/ PoolMoves
  <2>1. UNCHANGED mailVars
    BY <1>2 DEF evars, PoolMoves
  <2> QED
    BY <1>1, <2>1 DEF LeaseInv, SendsFromItsMails, ClaimsAreLeases, mailVars
<1>3. CASE Dies
  <2>1. /\ tick' = [t \in Ticks |-> Between]
        /\ stranded' = stranded \cup ({tick[t].sending : t \in Ticks} \ {NoMail})
        /\ UNCHANGED <<EmailSentLog, accepted>>
    BY <1>3 DEF Dies
  <2>2. SendsFromItsMails'
    BY <2>1, WithMailsIsQuiet DEF LeaseInv, SendsFromItsMails, Quiet
  <2>3. \A m \in EmailSentLog : m # NoMail
    BY NoMailIsNoMail DEF LeaseInv, SendsFromItsMails
  <2>4. ClaimsAreLeases'
    BY <2>1, <2>3 DEF LeaseInv, ClaimsAreLeases
  <2> QED
    BY <1>1, <2>2, <2>4 DEF LeaseInv
<1>4. ASSUME NEW t \in Ticks, MailTickStep(t) \/ FetchFails(t) \/ InsertFails(t) \/ ReleaseFails(t)
      PROVE  LeaseInv'
  BY <1>1, <1>4, ReadsKeepLeases, ClaimKeepsLeases, SendKeepsLeases DEF MailTickStep
<1> QED
  BY <1>2, <1>3, <1>4 DEF EmailNext

\* Wherever ticks fail, a row of the log stands for a mail that was reported sent or
\* is being sent, or for one that a crash or a failed deletion left behind.
THEOREM RowsAreLeases == EmailSpec => []ClaimsAreLeases
<1>1. LeaseInv => ClaimsAreLeases
  BY DEF LeaseInv
<1> QED
  BY <1>1, LeaseInitInv, LeaseStepInv, PTL DEF EmailSpec

----------------------------------------------------------------------------
(* The app.                                                                *)

Operations == {"contribute", "claim_payout", "crank_payout", "settle_default", "finalize_draw"}
Schemas == {"PAYMENT", "LATE", "POOL_COMPLETE", "none"}

\* What the dialogs of Me build: a claim is for the seat of Me.
MyCalls ==
  {tx \in [op : Operations, seat : Seats, cycle : Nat, schema : Schemas] :
     tx.op = "claim_payout" => tx.seat = Me}

CallsAreMine ==
  /\ adrift \in Seq(MyCalls)
  /\ modal \in {Idle} \cup [fate : {"sent", "done"}, call : MyCalls]

\* Until the pool is over the seats paid out are those of the earlier cycles.
SeatsServed ==
  status # "Over" =>
    \A s \in paid_out : \E c \in Seats : c < current_cycle /\ s = SeatOf[c]

LedgerInv == TimelineType /\ payments \in [Seats -> Nat] /\ SeatsServed /\ PaidAsConfirmed

\* A payment that is done was of a cycle of the pool.
IsDone(tx) == TookEffect(tx) /\ (tx.op = "contribute" => tx.cycle \in Seats)

WebInv ==
  /\ LedgerInv
  /\ CallsAreMine
  /\ modal.fate = "done" => IsDone(modal.call)

LEMMA ServedMoves ==
  ASSUME TimelineType, SeatsServed, NEW s, PoolOperation(s),
         ReceiveCredit(s) => SeatOf[current_cycle] = s
  PROVE  SeatsServed'
<1>1. current_cycle \in Seats /\ current_cycle \in Nat
  BY SeatNumbers DEF TimelineType
<1>2. CASE ReceiveCredit(s) \/ PassOver(s)
  <2>1. Advance /\ status = "Active" /\ (paid_out' = paid_out \/ (ReceiveCredit(s) /\ paid_out' = paid_out \cup {s}))
    BY <1>2 DEF ReceiveCredit, PassOver, seatVars
  <2>2. status' # "Over" => current_cycle' = current_cycle + 1
    BY <2>1, TurnEnds
  <2> SUFFICES ASSUME status' # "Over", NEW u \in paid_out'
               PROVE  \E c \in Seats : c < current_cycle' /\ u = SeatOf[c]
    BY DEF SeatsServed
  <2>3. CASE u \in paid_out
    <3>1. PICK c \in Seats : c < current_cycle /\ u = SeatOf[c]
      BY <2>1, <2>3 DEF SeatsServed
    <3>2. c < current_cycle'
      BY <1>1, <2>2, <3>1, SeatNumbers
    <3> QED
      BY <3>1, <3>2
  <2>4. CASE u \notin paid_out
    <3>1. u = SeatOf[current_cycle]
      BY <2>1, <2>4
    <3>2. current_cycle < current_cycle'
      BY <1>1, <2>2
    <3> QED
      BY <1>1, <3>1, <3>2
  <2> QED
    BY <2>3, <2>4
<1>3. CASE ~(ReceiveCredit(s) \/ PassOver(s))
  <2>1. UNCHANGED <<current_cycle, paid_out>> /\ status # "Over"
    BY <1>3 DEF PoolOperation, Activate, DrawLate, TimePasses, PayInstallment, CanPay, PrepayInBid,
                Settle, Overdue, seatVars
  <2> QED
    BY <2>1 DEF SeatsServed
<1> QED
  BY <1>2, <1>3

\* Only a payment of Me changes what Me has paid.
LEMMA EffectStays ==
  ASSUME TimelineGrows, contributions_paid[Me] \in Nat, contributions_paid'[Me] \in Nat,
         contributions_paid'[Me] >= contributions_paid[Me],
         \A c \in Seats : c < contributions_paid[Me] => payments'[c] = payments[c],
         NEW tx, TookEffect(tx), tx.op = "contribute" => tx.cycle \in Seats
  PROVE  TookEffect(tx)'
<1>1. CASE tx.op = "contribute"
  <2>1. tx.cycle \in Nat /\ contributions_paid[Me] > tx.cycle /\ payments[tx.cycle] = 1
    BY <1>1, SeatNumbers DEF TookEffect
  <2>2. contributions_paid'[Me] > tx.cycle /\ payments'[tx.cycle] = 1
    BY <1>1, <2>1
  <2> QED
    BY <1>1, <2>2 DEF TookEffect
<1>2. CASE tx.op = "settle_default"
  BY <1>2 DEF TookEffect, TimelineGrows
<1>3. CASE tx.op = "finalize_draw"
  BY <1>3 DEF TookEffect, TimelineGrows
<1>4. CASE tx.op \notin {"contribute", "settle_default", "finalize_draw"}
  BY <1>4 DEF TookEffect, TimelineGrows
<1> QED
  BY <1>1, <1>2, <1>3, <1>4

LEMMA RemovalType ==
  ASSUME NEW S, NEW seq \in Seq(S), NEW i \in DOMAIN seq
  PROVE  RemoveAt(seq, i) \in Seq(S)
<1>1. Len(seq) \in Nat /\ DOMAIN seq = 1 .. Len(seq) /\ \A j \in 1 .. Len(seq) : seq[j] \in S
  BY LenProperties, ElementOfSeq
<1>2. i \in Nat /\ i - 1 \in Int /\ i + 1 \in Int /\ Len(seq) \in Int
  BY <1>1
<1>3. (\A j \in 1 .. i - 1 : seq[j] \in S) /\ (\A j \in i + 1 .. Len(seq) : seq[j] \in S)
  BY <1>1, <1>2
<1>4. SubSeq(seq, 1, i - 1) \in Seq(S) /\ SubSeq(seq, i + 1, Len(seq)) \in Seq(S)
  BY <1>2, <1>3, SubSeqProperties
<1> QED
  BY <1>4, ConcatProperties DEF RemoveAt

LEMMA InFlightIsMine ==
  ASSUME CallsAreMine, NEW tx \in InFlight
  PROVE  tx \in MyCalls
<1>1. CASE tx \in Range(adrift)
  <2>1. PICK i \in DOMAIN adrift : tx = adrift[i]
    BY <1>1 DEF Range
  <2>2. adrift \in Seq(MyCalls) /\ i \in 1 .. Len(adrift)
    BY <2>1, LenProperties DEF CallsAreMine
  <2> QED
    BY <2>1, <2>2, ElementOfSeq
<1>2. CASE modal.fate = "sent" /\ tx = modal.call
  BY <1>2 DEF CallsAreMine, Idle
<1> QED
  BY <1>1, <1>2 DEF InFlight

\* Where a call goes when it is over, or given up on.
LEMMA CallsStayMine ==
  ASSUME CallsAreMine, NEW tx \in MyCalls,
         \/ Forgotten(tx)
         \/ Awaited(tx) /\ modal' \in {Idle, [fate |-> "done", call |-> tx]}
  PROVE  CallsAreMine'
<1>1. CASE Forgotten(tx)
  BY <1>1, RemovalType DEF Forgotten, CallsAreMine
<1>2. CASE Awaited(tx) /\ modal' \in {Idle, [fate |-> "done", call |-> tx]}
  BY <1>2 DEF Awaited, CallsAreMine
<1> QED
  BY <1>1, <1>2

LEMMA LeaveIsMine ==
  ASSUME CallsAreMine, Leave
  PROVE  CallsAreMine' /\ modal' = Idle
<1>1. modal' = Idle
  BY DEF Leave
<1>2. CASE modal.fate = "sent" /\ modal.call.op \in {"contribute", "claim_payout"}
  <2>1. modal.call \in MyCalls /\ adrift \in Seq(MyCalls) /\ adrift' = Append(adrift, modal.call)
    BY <1>2 DEF Leave, CallsAreMine, Idle
  <2>2. adrift' \in Seq(MyCalls)
    BY <2>1
  <2> QED
    BY <1>1, <2>2 DEF CallsAreMine
<1>3. CASE ~(modal.fate = "sent" /\ modal.call.op \in {"contribute", "claim_payout"})
  BY <1>1, <1>3 DEF Leave, CallsAreMine
<1> QED
  BY <1>1, <1>2, <1>3

LEMMA MeTypes ==
  ASSUME TimelineType
  PROVE  Me \in Seats /\ contributions_paid[Me] \in Nat
BY WebClientAssumption DEF TimelineType

LEMMA OthersKeepLedger ==
  ASSUME LedgerInv, NEW s, PoolOperation(s), ReceiveCredit(s) => SeatOf[current_cycle] = s,
         contributions_paid'[Me] = contributions_paid[Me], payments' = payments
  PROVE  LedgerInv' /\ \A tx : IsDone(tx) => IsDone(tx)'
<1>1. TimelineType /\ TimelineType' /\ TimelineGrows /\ SeatsServed'
  BY TimelineMoves, ServedMoves DEF LedgerInv
<1>2. contributions_paid[Me] \in Nat
  BY <1>1, MeTypes
<1>3. PaidAsConfirmed'
  BY DEF LedgerInv, PaidAsConfirmed
<1>4. LedgerInv'
  BY <1>1, <1>3 DEF LedgerInv
<1>5. \A tx : IsDone(tx) => IsDone(tx)'
  BY <1>1, <1>2, EffectStays DEF IsDone
<1> QED
  BY <1>4, <1>5

LEMMA PaymentKeepsLedger ==
  ASSUME LedgerInv, PayInstallment(Me), NEW n, n = contributions_paid[Me],
         payments' = [payments EXCEPT ![n] = @ + 1]
  PROVE  /\ LedgerInv'
         /\ \A tx : IsDone(tx) => IsDone(tx)'
         /\ n \in Seats /\ contributions_paid'[Me] = n + 1 /\ payments'[n] = 1
<1>1. PoolOperation(Me) /\ (ReceiveCredit(Me) => FALSE)
  <2>1. Me \in Seats
    BY WebClientAssumption
  <2>2. contributions_paid'[Me] = contributions_paid[Me] + 1 /\ contributions_paid[Me] \in Nat
    BY <2>1 DEF PayInstallment, LedgerInv, TimelineType
  <2>3. ReceiveCredit(Me) => contributions_paid'[Me] = contributions_paid[Me]
    BY DEF ReceiveCredit
  <2> QED
    BY <2>1, <2>2, <2>3 DEF PoolOperation
<1>2. TimelineType /\ TimelineType' /\ TimelineGrows /\ SeatsServed'
  BY <1>1, TimelineMoves, ServedMoves DEF LedgerInv
<1>3. n \in Nat /\ Me \in Seats /\ n < MembersTarget
  BY <1>2, MeTypes DEF PayInstallment, CanPay
<1>4. n \in Seats
  BY <1>3, SeatNumbers DEF Seats
<1>5. contributions_paid'[Me] = n + 1
  BY <1>2, <1>3 DEF PayInstallment, TimelineType
<1>6. payments[n] = 0
  BY <1>3, <1>4 DEF LedgerInv, PaidAsConfirmed
<1>7. /\ payments' \in [Seats -> Nat] /\ payments'[n] = 1
      /\ \A c \in Seats \ {n} : payments'[c] = payments[c]
  BY <1>4, <1>6 DEF LedgerInv
<1>8. PaidAsConfirmed'
  <2> SUFFICES ASSUME NEW c \in Seats
               PROVE  payments'[c] = IF c < n + 1 THEN 1 ELSE 0
    BY <1>5 DEF PaidAsConfirmed
  <2>1. c \in Nat /\ payments[c] = IF c < n THEN 1 ELSE 0
    BY SeatNumbers DEF LedgerInv, PaidAsConfirmed
  <2> QED
    BY <1>3, <1>7, <2>1
<1>9. LedgerInv'
  BY <1>2, <1>7, <1>8 DEF LedgerInv
<1>10. \A tx : IsDone(tx) => IsDone(tx)'
  <2>1. \A c \in Seats : c < n => payments'[c] = payments[c]
    BY <1>3, <1>7, SeatNumbers
  <2> QED
    BY <1>2, <1>3, <1>5, <2>1, EffectStays DEF IsDone
<1> QED
  BY <1>4, <1>5, <1>7, <1>9, <1>10

LEMMA PoolStepKeepsInv ==
  ASSUME WebInv, PoolStep
  PROVE  WebInv'
<1>1. LedgerInv /\ Me \in Seats /\ contributions_paid \in [Seats -> Nat] /\ UNCHANGED webVars
  BY MeTypes DEF PoolStep, WebInv, LedgerInv, TimelineType
<1>2. PICK s : /\ PoolOperation(s)
               /\ ReceiveCredit(s) => SeatOf[current_cycle] = s
               /\ contributions_paid'[Me] = contributions_paid[Me]
  <2>1. CASE Activate \/ DrawLate \/ TimePasses
    <3>1. PoolOperation(Me) /\ UNCHANGED <<contributions_paid, paid_out>>
      BY <2>1 DEF PoolOperation, Activate, DrawLate, TimePasses, seatVars
    <3>2. ReceiveCredit(Me) => FALSE
      BY <3>1 DEF ReceiveCredit
    <3> QED
      BY <3>1, <3>2
  <2>2. ASSUME NEW s \in Seats, s # Me, PayInstallment(s)
        PROVE  /\ PoolOperation(s)
               /\ ReceiveCredit(s) => SeatOf[current_cycle] = s
               /\ contributions_paid'[Me] = contributions_paid[Me]
    <3>1. /\ contributions_paid'[Me] = contributions_paid[Me]
          /\ contributions_paid'[s] = contributions_paid[s] + 1
          /\ contributions_paid[s] \in Nat
      BY <1>1, <2>2 DEF PayInstallment
    <3>2. ReceiveCredit(s) => contributions_paid'[s] = contributions_paid[s]
      BY DEF ReceiveCredit
    <3> QED
      BY <2>2, <3>1, <3>2 DEF PoolOperation
  <2>3. ASSUME NEW s \in Seats, MayReceive(s), ReceiveCredit(s)
        PROVE  /\ PoolOperation(s)
               /\ ReceiveCredit(s) => SeatOf[current_cycle] = s
               /\ contributions_paid'[Me] = contributions_paid[Me]
    BY <2>3 DEF PoolOperation, MayReceive, ReceiveCredit
  <2>4. ASSUME NEW s \in Seats, (SeatOf[current_cycle] = s /\ PassOver(s)) \/ Settle(s)
        PROVE  /\ PoolOperation(s)
               /\ ReceiveCredit(s) => SeatOf[current_cycle] = s
               /\ contributions_paid'[Me] = contributions_paid[Me]
    <3>1. PoolOperation(s) /\ UNCHANGED <<contributions_paid, paid_out>>
      BY <2>4 DEF PoolOperation, PassOver, Settle, seatVars
    <3>2. ReceiveCredit(s) => FALSE
      BY <3>1 DEF ReceiveCredit
    <3> QED
      BY <3>1, <3>2
  <2> QED
    BY <2>1, <2>2, <2>3, <2>4 DEF PoolStep
<1>3. LedgerInv' /\ \A tx : IsDone(tx) => IsDone(tx)'
  BY <1>1, <1>2, OthersKeepLedger DEF webVars
<1>4. CallsAreMine' /\ modal' = modal
  BY <1>1 DEF WebInv, CallsAreMine, webVars
<1>5. modal'.fate = "done" => IsDone(modal.call)'
  <2> PICK tx : tx = modal.call
    OBVIOUS
  <2> QED
    BY <1>3, <1>4 DEF WebInv
<1> QED
  BY <1>3, <1>4, <1>5 DEF WebInv

\* A call that lands does what its dialog will say.
LEMMA LandingIsReal ==
  ASSUME LedgerInv, NEW tx \in MyCalls, Lands(tx)
  PROVE  /\ LedgerInv'
         /\ \A done : IsDone(done) => IsDone(done)'
         /\ IsDone(tx)'
<1>1. /\ Accepts(tx) /\ Executes(tx) /\ tx.op \in Operations
      /\ tx.op = "claim_payout" => tx.seat = Me
      /\ payments' = IF tx.op = "contribute" THEN [payments EXCEPT ![tx.cycle] = @ + 1] ELSE payments
  BY DEF Lands, MyCalls
<1>2. CASE tx.op = "contribute"
  <2>1. PayInstallment(Me)
    BY <1>1, <1>2 DEF Executes
  <2>2. tx.cycle = contributions_paid[Me]
    BY <1>1, <1>2 DEF Accepts, CycleMatches
  <2>3. /\ LedgerInv' /\ \A done : IsDone(done) => IsDone(done)'
        /\ tx.cycle \in Seats /\ contributions_paid'[Me] = tx.cycle + 1 /\ payments'[tx.cycle] = 1
    BY <1>1, <1>2, <2>1, <2>2, PaymentKeepsLedger
  <2>4. contributions_paid'[Me] > tx.cycle
    <3>1. tx.cycle \in Nat
      BY <2>3, SeatNumbers
    <3> QED
      BY <2>3, <3>1
  <2> QED
    BY <1>2, <2>3, <2>4 DEF IsDone, TookEffect
<1>3. CASE tx.op \in {"claim_payout", "crank_payout"}
  <2>1. ReceiveCredit(tx.seat) /\ PoolOperation(tx.seat) /\ UNCHANGED contributions_paid
    BY <1>1, <1>3 DEF Executes, PoolOperation, ReceiveCredit
  <2>2. MayReceive(tx.seat)
    BY <1>1, <1>3 DEF Accepts
  <2>3. LedgerInv' /\ \A done : IsDone(done) => IsDone(done)'
    BY <1>1, <1>3, <2>1, <2>2, OthersKeepLedger DEF MayReceive
  <2>4. tx.seat \in paid_out'
    BY <2>1 DEF ReceiveCredit
  <2> QED
    BY <1>3, <2>3, <2>4 DEF IsDone, TookEffect
<1>4. CASE tx.op \in {"settle_default", "finalize_draw"}
  <2>1. /\ PoolOperation(tx.seat) /\ UNCHANGED <<contributions_paid, paid_out>>
        /\ tx.op = "settle_default" => tx.seat \in defaulted'
        /\ tx.op = "finalize_draw" => drawn'
    BY <1>1, <1>4 DEF Executes, PoolOperation, Settle, DrawLate, seatVars
  <2>2. ReceiveCredit(tx.seat) => FALSE
    BY <2>1 DEF ReceiveCredit
  <2>3. LedgerInv' /\ \A done : IsDone(done) => IsDone(done)'
    BY <1>1, <1>4, <2>1, <2>2, OthersKeepLedger
  <2> QED
    BY <1>4, <2>1, <2>3 DEF IsDone, TookEffect
<1> QED
  BY <1>1, <1>2, <1>3, <1>4 DEF Operations

LEMMA OfferCases ==
  ASSUME NEW v, NEW tx \in Offers(v)
  PROVE  /\ v.status = "ok"
         /\ \/ /\ PaymentOffered(v)
               /\ tx = Call("contribute", Me, v.members.paid[Me],
                            deriveContributeSchema(v.members.paid[Me], v))
            \/ claimReadyChain(v) /\ tx = Call("claim_payout", Me, v.pool.cycle, "none")
            \/ drawPending(v) /\ tx = Call("finalize_draw", Me, 0, "none")
            \/ \E s \in Seats :
                 CrankOffered(v, s) /\ tx = Call("crank_payout", s, v.pool.cycle, "none")
            \/ \E s \in Seats :
                 SettleOffered(v, s) /\ tx = Call("settle_default", s, v.pool.cycle, "none")
<1>1. v.status = "ok"
  BY DEF Offers
<1>2. CASE tx \in When(PaymentOffered(v), Call("contribute", Me, v.members.paid[Me],
                         deriveContributeSchema(v.members.paid[Me], v)))
  BY <1>1, <1>2 DEF When
<1>3. CASE tx \in When(claimReadyChain(v), Call("claim_payout", Me, v.pool.cycle, "none"))
  BY <1>1, <1>3 DEF When
<1>4. CASE tx \in When(drawPending(v), Call("finalize_draw", Me, 0, "none"))
  BY <1>1, <1>4 DEF When
<1>5. ASSUME NEW s \in Seats,
             tx \in When(CrankOffered(v, s), Call("crank_payout", s, v.pool.cycle, "none"))
      PROVE  CrankOffered(v, s) /\ tx = Call("crank_payout", s, v.pool.cycle, "none")
  BY <1>5 DEF When
<1>6. ASSUME NEW s \in Seats,
             tx \in When(SettleOffered(v, s), Call("settle_default", s, v.pool.cycle, "none"))
      PROVE  SettleOffered(v, s) /\ tx = Call("settle_default", s, v.pool.cycle, "none")
  BY <1>6 DEF When
<1> QED
  BY <1>1, <1>2, <1>3, <1>4, <1>5, <1>6 DEF Offers

LEMMA OffersAreMine ==
  ASSUME TimelineType, NEW v, NEW tx \in Offers(v), CycleMatches(tx)
  PROVE  tx \in MyCalls
<1> USE DEF Call, MyCalls, Operations, Schemas
<1>1. Me \in Seats /\ contributions_paid[Me] \in Nat /\ current_cycle \in Nat /\ 0 \in Nat
  BY MeTypes, SeatNumbers DEF TimelineType
<1>2. CASE tx = Call("contribute", Me, v.members.paid[Me],
                     deriveContributeSchema(v.members.paid[Me], v))
  <2>1. tx.cycle = contributions_paid[Me]
    BY <1>2 DEF CycleMatches
  <2>2. tx.schema \in {"PAYMENT", "LATE", "POOL_COMPLETE"}
    BY <1>2 DEF deriveContributeSchema
  <2>3. tx = [op |-> "contribute", seat |-> Me, cycle |-> tx.cycle, schema |-> tx.schema]
    BY <1>2
  <2> QED
    BY <1>1, <2>1, <2>2, <2>3
<1>3. CASE tx = Call("finalize_draw", Me, 0, "none")
  BY <1>1, <1>3
<1>4. ASSUME NEW op \in {"claim_payout", "crank_payout", "settle_default"}, NEW s \in Seats,
             op = "claim_payout" => s = Me, tx = Call(op, s, v.pool.cycle, "none")
      PROVE  tx \in MyCalls
  <2>1. tx.op = op /\ tx.cycle = v.pool.cycle
    BY <1>4
  <2>2. v.pool.cycle = current_cycle
    BY <2>1 DEF CycleMatches
  <2> QED
    BY <1>1, <1>4, <2>2
<1> QED
  BY <1>1, <1>2, <1>3, <1>4, OfferCases

LEMMA CallStepsKeepInv ==
  ASSUME WebInv, NEW tx \in InFlight, Lands(tx) \/ Reverts(tx) \/ Expires(tx)
  PROVE  WebInv'
<1>1. tx \in MyCalls /\ CallsAreMine /\ LedgerInv
  BY InFlightIsMine DEF WebInv
<1>2. CASE Lands(tx)
  <2>1. /\ LedgerInv' /\ \A done : IsDone(done) => IsDone(done)'
        /\ IsDone(tx)'
    BY <1>1, <1>2, LandingIsReal
  <2>2. CASE Forgotten(tx)
    <3>1. CallsAreMine' /\ modal' = modal
      BY <1>1, <2>2, CallsStayMine DEF Forgotten
    <3>2. PICK call : call = modal.call
      OBVIOUS
    <3>3. modal'.fate = "done" => IsDone(modal.call)'
      BY <2>1, <3>1, <3>2 DEF WebInv
    <3> QED
      BY <2>1, <3>1, <3>3 DEF WebInv
  <2>3. CASE Awaited(tx) /\ modal' = [modal EXCEPT !.fate = "done"]
    <3>1. modal' = [fate |-> "done", call |-> tx]
      BY <2>3 DEF Awaited
    <3>2. CallsAreMine'
      BY <1>1, <2>3, <3>1, CallsStayMine
    <3>3. IsDone(modal.call)'
      BY <2>1, <3>1
    <3> QED
      BY <2>1, <3>2, <3>3 DEF WebInv
  <2> QED
    BY <1>2, <2>2, <2>3 DEF Lands
<1>3. CASE Reverts(tx) \/ Expires(tx)
  <2>1. /\ UNCHANGED <<tvars, payments>>
        /\ Forgotten(tx) \/ (Awaited(tx) /\ modal' = Idle)
    BY <1>3 DEF Reverts, Expires, AfterRejection
  <2>2. CallsAreMine'
    BY <1>1, <2>1, CallsStayMine
  <2>3. LedgerInv' /\ (modal'.fate = "done" => modal' = modal)
    BY <1>1, <2>1 DEF LedgerInv, TimelineType, SeatsServed, PaidAsConfirmed, tvars, seatVars,
       Forgotten, Idle
  <2>4. modal'.fate = "done" => IsDone(modal.call)'
    BY <2>1, <2>3 DEF WebInv, IsDone, TookEffect, tvars, seatVars
  <2> QED
    BY <2>2, <2>3, <2>4 DEF WebInv
<1> QED
  BY <1>2, <1>3

LEMMA WebStepInv == WebInv /\ [WebNext]_wvars => WebInv'
<1> SUFFICES ASSUME WebInv, [WebNext]_wvars PROVE WebInv'
  OBVIOUS
<1>0. LedgerInv /\ CallsAreMine /\ TimelineType
  BY DEF WebInv, LedgerInv
<1>1. CASE PoolStep
  BY <1>1, PoolStepKeepsInv
<1>2. CASE \E tx \in InFlight : Lands(tx) \/ Reverts(tx) \/ Expires(tx)
  BY <1>2, CallStepsKeepInv
<1>3. ASSUME UNCHANGED <<tvars, payments>>, CallsAreMine',
             modal' = modal \/ modal'.fate # "done"
      PROVE  WebInv'
  <2>1. LedgerInv'
    BY <1>0, <1>3 DEF LedgerInv, TimelineType, SeatsServed, PaidAsConfirmed, tvars, seatVars
  <2>2. modal'.fate = "done" => IsDone(modal.call)'
    BY <1>3 DEF WebInv, IsDone, TookEffect, tvars, seatVars
  <2> QED
    BY <1>3, <2>1, <2>2 DEF WebInv
<1>4. CASE UNCHANGED wvars \/ SyncStep \/ SyncFails \/ UseDraw
  <2>1. UNCHANGED <<tvars, calls>>
    BY <1>4 DEF wvars, webVars, calls, SyncStep, FetchPoolsRaw, FetchAllPoolMembers, SyncFails, UseDraw
  <2> QED
    BY <1>0, <1>3, <2>1 DEF calls, CallsAreMine
<1>5. CASE Reload \/ ConfirmationLost
  BY <1>0, <1>3, <1>5, LeaveIsMine DEF Reload, ConfirmationLost, Idle
<1>6. CASE Reset
  BY <1>0, <1>3, <1>6 DEF Reset, Idle, CallsAreMine
<1>7. CASE HandleConfirm
  <2>1. PICK tx \in Offers(view) : Accepts(tx) /\ modal' = [fate |-> "sent", call |-> tx]
    BY <1>7 DEF HandleConfirm
  <2>2. tx \in MyCalls
    BY <1>0, <2>1, OffersAreMine DEF Accepts
  <2> QED
    BY <1>0, <1>3, <1>7, <2>1, <2>2 DEF HandleConfirm, CallsAreMine
<1> QED
  BY <1>1, <1>2, <1>4, <1>5, <1>6, <1>7 DEF WebNext

LEMMA WebInitInv == WebInit => WebInv
<1> SUFFICES ASSUME WebInit PROVE WebInv
  OBVIOUS
<1>1. TimelineType /\ Me \in Seats
  BY TimelineStarts, MeTypes DEF WebInit
<1>2. payments \in [Seats -> Nat] /\ SeatsServed /\ PaidAsConfirmed
  BY <1>1, SeatNumbers DEF WebInit, TimelineInit, SeatsServed, PaidAsConfirmed
<1>3. CallsAreMine /\ modal.fate # "done"
  BY DEF WebInit, CallsAreMine, Idle
<1> QED
  BY <1>1, <1>2, <1>3 DEF WebInv, LedgerInv

LEMMA WebInvHolds == WebSpec => []WebInv
BY WebInitInv, WebStepInv, PTL DEF WebSpec

\* In every pool, what a dialog reports as done has happened, although the pool
\* moves and calls compete between the simulation and the landing.
THEOREM DoneMeansDone == WebSpec => []SuccessIsReal
<1>1. WebInv => SuccessIsReal
  BY DEF WebInv, IsDone, SuccessIsReal
<1> QED
  BY <1>1, WebInvHolds, PTL

\* In every pool each installment of Me is bought once, by a call that Me confirmed
\* for it, however many calls are sent, given up on and sent again.
THEOREM NoInstallmentTwice == WebSpec => []PaidAsConfirmed
<1>1. WebInv => PaidAsConfirmed
  BY DEF WebInv, LedgerInv
<1> QED
  BY <1>1, WebInvHolds, PTL

----------------------------------------------------------------------------

\* No seat has two turns, so who has not been paid and is on turn may claim.
LEMMA OneTurnEach ==
  ASSUME LedgerInv, status = "Active", NEW s \in Seats, SeatOf[current_cycle] = s
  PROVE  s \notin paid_out
<1>1. SeatOf \in Surjection(Seats, Seats)
  BY WebClientAssumption DEF Surjection
<1>2. IsFiniteSet(Seats)
  BY SeatNumbers, FS_Interval DEF Seats
<1>3. SeatOf \in Injection(Seats, Seats)
  BY <1>1, <1>2, FS_SurjSameCardinalityImpliesInj
<1>4. \A b, c \in Seats : SeatOf[b] = SeatOf[c] => b = c
  BY <1>1, <1>3 DEF Surjection, Injection, IsInjective
<1>5. current_cycle \in Seats /\ current_cycle \in Nat
  BY SeatNumbers DEF LedgerInv, TimelineType
<1> SUFFICES ASSUME s \in paid_out PROVE FALSE
  OBVIOUS
<1>6. PICK c \in Seats : c < current_cycle /\ s = SeatOf[c]
  BY DEF LedgerInv, SeatsServed
<1> QED
  BY <1>4, <1>5, <1>6

\* Where the schema that the app derives differs from the one the program attests.
LEMMA SchemaIsDerived ==
  ASSUME TimelineType, NEW cycle \in Nat, NEW v,
         v.pool.cycle = current_cycle, v.pool.window = next_cycle_at
  PROVE  deriveContributeSchema(cycle, v) = contribution_schema(cycle)
           <=> ~(/\ deriveContributeSchema(cycle, v) = "LATE"
                 /\ now <= installment_deadline(cycle))
<1>1. /\ current_cycle \in Nat /\ current_cycle < MembersTarget /\ MembersTarget \in Nat
      /\ next_cycle_at \in Nat /\ now \in Nat /\ CycleDuration \in Nat
  BY SeatNumbers DEF TimelineType
<1>2. PICK gap \in Int : gap = (current_cycle - cycle) * CycleDuration
  BY <1>1
<1>3. cycle >= current_cycle => gap <= 0
  BY <1>1, <1>2
<1>4. installment_deadline(cycle) = next_cycle_at - gap
  BY <1>2 DEF installment_deadline
<1>5. PICK deadline \in Int : deadline = installment_deadline(cycle)
  BY <1>1, <1>2, <1>4
<1>6. cycle >= current_cycle /\ now <= next_cycle_at => now <= deadline
  BY <1>1, <1>2, <1>3, <1>4, <1>5
<1> QED
  BY <1>1, <1>5, <1>6 DEF deriveContributeSchema, contribution_schema

LEMMA OffersAreAccepted ==
  ASSUME LedgerInv, ViewIsCurrent, NEW tx \in Offers(view)
  PROVE  Accepts(tx) <=> ~(WronglyDated(tx) \/ PoolIsOver(tx))
<1> USE DEF Call, WronglyDated, PoolIsOver
<1>1. /\ view.pool.cycle = current_cycle /\ view.pool.window = next_cycle_at
      /\ view.pool.status = status /\ view.drawn = drawn
      /\ view.members.paid = contributions_paid /\ view.members.paid_out = paid_out
      /\ view.members.defaulted = defaulted
  BY DEF ViewIsCurrent, PoolAccount, MemberAccounts
<1>2. /\ Me \in Seats /\ contributions_paid \in [Seats -> Nat]
      /\ current_cycle \in Nat /\ current_cycle < MembersTarget /\ MembersTarget \in Nat
      /\ now \in Nat /\ GraceDeadline \in Nat
  BY MeTypes, SeatNumbers DEF LedgerInv, TimelineType, GraceDeadline
<1>3. GraceOpen(view) <=> now < GraceDeadline
  BY <1>1 DEF GraceOpen, GraceDeadline
<1>4. \A s \in Seats : Contemplates(view, s) <=> drawn /\ SeatOf[current_cycle] = s
  BY <1>1 DEF Contemplates
<1>5. CASE /\ PaymentOffered(view)
           /\ tx = Call("contribute", Me, view.members.paid[Me],
                        deriveContributeSchema(view.members.paid[Me], view))
  <2>1. /\ tx.op = "contribute" /\ tx.cycle = contributions_paid[Me]
        /\ tx.schema = deriveContributeSchema(contributions_paid[Me], view)
    BY <1>1, <1>5
  <2>2. CanPay(Me)
    BY <1>1, <1>2, <1>3, <1>5 DEF PaymentOffered, onChainReady, CanPay
  <2>3. tx.schema = contribution_schema(tx.cycle)
          <=> ~(tx.schema = "LATE" /\ now <= installment_deadline(tx.cycle))
    BY <1>1, <1>2, <2>1, SchemaIsDerived DEF LedgerInv
  <2> QED
    BY <2>1, <2>2, <2>3 DEF Accepts, CycleMatches
<1>6. CASE claimReadyChain(view) /\ tx = Call("claim_payout", Me, view.pool.cycle, "none")
  <2>1. tx.op = "claim_payout" /\ tx.cycle = current_cycle
    BY <1>1, <1>6
  <2>2. MayReceive(Me)
    BY <1>1, <1>2, <1>4, <1>6 DEF claimReadyChain, onChainReady, MayReceive
  <2> QED
    BY <2>1, <2>2 DEF Accepts, CycleMatches
<1>7. CASE drawPending(view) /\ tx = Call("finalize_draw", Me, 0, "none")
  <2>1. tx.op = "finalize_draw"
    BY <1>7
  <2> QED
    BY <1>1, <1>7, <2>1 DEF Accepts, CycleMatches, drawPending
<1>8. ASSUME NEW s \in Seats, CrankOffered(view, s),
             tx = Call("crank_payout", s, view.pool.cycle, "none")
      PROVE  Accepts(tx) <=> ~(WronglyDated(tx) \/ PoolIsOver(tx))
  <2>1. tx.op = "crank_payout" /\ tx.cycle = current_cycle /\ tx.seat = s
    BY <1>1, <1>8
  <2>2. MayReceive(s) /\ now >= GraceDeadline
    BY <1>1, <1>2, <1>3, <1>4, <1>8 DEF CrankOffered, MayReceive
  <2> QED
    BY <2>1, <2>2 DEF Accepts, CycleMatches
<1>9. ASSUME NEW s \in Seats, SettleOffered(view, s),
             tx = Call("settle_default", s, view.pool.cycle, "none")
      PROVE  Accepts(tx) <=> ~(WronglyDated(tx) \/ PoolIsOver(tx))
  <2>1. tx.op = "settle_default" /\ tx.cycle = current_cycle /\ tx.seat = s
    BY <1>1, <1>9
  <2>2. Overdue(s) <=> status = "Active"
    BY <1>1, <1>2, <1>3, <1>9 DEF SettleOffered, Overdue
  <2> QED
    BY <2>1, <2>2 DEF Accepts, CycleMatches
<1> QED
  BY <1>5, <1>6, <1>7, <1>8, <1>9, OfferCases

\* In every pool, whatever its size and the order of its turns: on a view that is
\* up to date the dialogs offer all that Me may do, and the program turns down of
\* what they offer exactly the installments that are wrongly dated and the
\* settlements in a pool that is over.
THEOREM OffersAreHonest == WebSpec => []OffersMatchChain
<1>1. ASSUME LedgerInv PROVE OffersMatchChain
  <2> SUFFICES ASSUME ViewIsCurrent
               PROVE  /\ \A tx \in Offers(view) :
                           Accepts(tx) <=> ~(WronglyDated(tx) \/ PoolIsOver(tx))
                      /\ CanPay(Me) /\ ~MayReceive(Me) => PaymentOffered(view)
                      /\ MayReceive(Me) => claimReadyChain(view)
                      /\ \A s \in Seats :
                           /\ Overdue(s) => SettleOffered(view, s)
                           /\ MayReceive(s) => CrankOffered(view, s) \/ now < GraceDeadline
    BY DEF OffersMatchChain
  <2>1. /\ view.pool.cycle = current_cycle /\ view.pool.window = next_cycle_at
        /\ view.pool.status = status /\ view.drawn = drawn /\ view.status = "ok"
        /\ view.members.paid = contributions_paid /\ view.members.paid_out = paid_out
        /\ view.members.defaulted = defaulted
    BY DEF ViewIsCurrent, PoolAccount, MemberAccounts
  <2>2. /\ Me \in Seats /\ contributions_paid \in [Seats -> Nat]
        /\ current_cycle \in Nat /\ MembersTarget \in Nat
        /\ now \in Nat /\ GraceDeadline \in Nat
    BY <1>1, MeTypes, SeatNumbers DEF LedgerInv, TimelineType, GraceDeadline
  <2>3. GraceOpen(view) <=> now < GraceDeadline
    BY <2>1 DEF GraceOpen, GraceDeadline
  <2>4. \A s \in Seats : Contemplates(view, s) <=> drawn /\ SeatOf[current_cycle] = s
    BY <2>1 DEF Contemplates
  <2>5. ASSUME CanPay(Me), ~MayReceive(Me) PROVE PaymentOffered(view)
    <3>1. ~Contemplates(view, Me)
      BY <1>1, <2>2, <2>4, <2>5, OneTurnEach DEF CanPay, MayReceive
    <3>2. onChainReady(view)
      BY <2>1, <2>5 DEF onChainReady, CanPay
    <3> QED
      BY <2>1, <2>2, <2>3, <2>5, <3>1, <3>2 DEF PaymentOffered, cycleDone, CanPay
  <2>6. MayReceive(Me) => claimReadyChain(view)
    BY <2>1, <2>2, <2>4 DEF claimReadyChain, onChainReady, MayReceive
  <2>7. \A s \in Seats : Overdue(s) => SettleOffered(view, s)
    BY <2>1, <2>2, <2>3 DEF SettleOffered, Overdue
  <2>8. \A s \in Seats : MayReceive(s) => CrankOffered(view, s) \/ now < GraceDeadline
    BY <2>1, <2>2, <2>3, <2>4 DEF CrankOffered, MayReceive
  <2> QED
    BY <1>1, <2>5, <2>6, <2>7, <2>8, OffersAreAccepted
<1>2. WebInv => OffersMatchChain
  BY <1>1 DEF WebInv
<1> QED
  BY <1>2, WebInvHolds, PTL

----------------------------------------------------------------------------
(* The crank service.                                                      *)

Outages == [start : Int, end : Int]
CrankMemory ==
  [pc : {"idle", "health", "fetch", "list", "settle"}, cycle : Seats, window : Nat,
   todo : SUBSET Seats, rpcDownSince : Int, lastOutage : Outages]

\* Only a pool that is under way leaves cycle 0, and only with its order drawn:
\* from then on a window is moved by the end of its turn alone.
WindowsAreSettled ==
  /\ status = "Forming" => current_cycle = 0
  /\ current_cycle # 0 => drawn

\* What a replica remembers of the pool may be old, never wrong about the cycle
\* it is of: as long as that cycle is the current one, its window stands.
ViewIsOfItsCycle(r) ==
  r.pc \in {"list", "settle"} =>
    /\ r.cycle <= current_cycle
    /\ r.cycle = current_cycle /\ r.cycle # 0 => r.window = next_cycle_at

\* A replica sends only what the window it has read allows.
SweepIsAllowed(r) ==
  r.pc = "settle" =>
    /\ r.cycle # 0
    /\ now >= r.window + GracePeriod + outageOverlapSecs(r.lastOutage, r.window)

CrankInv ==
  /\ TimelineType
  /\ WindowsAreSettled
  /\ crank \in [Replicas -> CrankMemory]
  /\ \A c \in Replicas : ViewIsOfItsCycle(crank[c]) /\ SweepIsAllowed(crank[c])

\* What an outage took from a window, never less than nothing.
LEMMA OverlapIsSeconds ==
  ASSUME NEW outage \in Outages, NEW window \in Nat
  PROVE  outageOverlapSecs(outage, window) \in Nat
<1>1. outage.start \in Int /\ outage.end \in Int
  BY DEF Outages
<1>2. PICK last \in Int : last = EarlierOf(outage.end, window + GracePeriod)
  BY <1>1, SeatNumbers DEF EarlierOf
<1>3. PICK first \in Int : first = LaterOf(outage.start, window)
  BY <1>1 DEF LaterOf
<1>4. LaterOf(0, last - first) \in Nat
  BY DEF LaterOf
<1> QED
  BY <1>2, <1>3, <1>4 DEF outageOverlapSecs

\* A sweep goes on with fewer seats, or ends.
LEMMA SweepGoesOn ==
  ASSUME NEW r \in CrankMemory, NEW todo \in SUBSET Seats
  PROVE  /\ WithTodo(r, todo) \in CrankMemory
         /\ WithTodo(r, todo).pc \in {"idle", "settle"}
         /\ WithTodo(r, todo).pc = "settle" =>
              /\ todo # {}
              /\ WithTodo(r, todo).cycle = r.cycle
              /\ WithTodo(r, todo).window = r.window
              /\ WithTodo(r, todo).lastOutage = r.lastOutage
<1>1. CASE todo = {}
  BY <1>1, SeatNumbers DEF WithTodo, CrankMemory
<1>2. CASE todo # {}
  BY <1>2 DEF WithTodo, CrankMemory
<1> QED
  BY <1>1, <1>2

\* A step of the pool as the replicas see it: the cycle stays or the next one
\* opens, and the window of a cycle past the first is moved only with it.
LEMMA WindowsStand ==
  ASSUME TimelineType, WindowsAreSettled, NEW s, PoolOperation(s)
  PROVE  /\ WindowsAreSettled'
         /\ now <= now'
         /\ \/ current_cycle' = current_cycle + 1
            \/ /\ current_cycle' = current_cycle
               /\ current_cycle # 0 => next_cycle_at' = next_cycle_at
<1>1. /\ next_cycle_at \in Nat /\ now \in Nat /\ current_cycle \in Nat /\ drawn \in BOOLEAN
  BY SeatNumbers DEF TimelineType
<1>2. CASE Activate
  <2>1. current_cycle = 0 /\ current_cycle' = 0 /\ status' = "Active" /\ now' = now
    BY <1>2 DEF Activate, WindowsAreSettled
  <2> QED
    BY <1>1, <2>1 DEF WindowsAreSettled
<1>3. CASE DrawLate
  <2>1. /\ current_cycle = 0 /\ current_cycle' = 0 /\ now' = now
    BY <1>3 DEF DrawLate, WindowsAreSettled
  <2> QED
    BY <1>1, <2>1 DEF WindowsAreSettled
<1>4. CASE TimePasses
  BY <1>1, <1>4 DEF TimePasses, WindowsAreSettled
<1>5. CASE (s \in Seats /\ PayInstallment(s)) \/ Settle(s)
  BY <1>1, <1>5 DEF PayInstallment, Settle, WindowsAreSettled
<1>7. ASSUME NEW k \in 1 .. MembersTarget, PrepayInBid(s, k)
      PROVE  /\ WindowsAreSettled' /\ now' = now
             /\ current_cycle' = current_cycle /\ next_cycle_at' = next_cycle_at
  BY <1>1, <1>7 DEF PrepayInBid, WindowsAreSettled
<1>6. CASE ReceiveCredit(s) \/ PassOver(s)
  <2>1. status = "Active" /\ drawn /\ Advance /\ drawn' = drawn /\ now' = now
    BY <1>6 DEF ReceiveCredit, PassOver
  <2>2. CASE current_cycle + 1 >= MembersTarget
    <3>1. status' = "Over" /\ current_cycle' = current_cycle /\ next_cycle_at' = next_cycle_at
      BY <2>1, <2>2 DEF Advance
    <3> QED
      BY <1>1, <2>1, <3>1 DEF WindowsAreSettled
  <2>3. CASE ~(current_cycle + 1 >= MembersTarget)
    <3>1. status' = "Active" /\ current_cycle' = current_cycle + 1
      BY <2>1, <2>3 DEF Advance
    <3> QED
      BY <1>1, <2>1, <3>1 DEF WindowsAreSettled
  <2> QED
    BY <2>2, <2>3
<1> QED
  BY <1>1, <1>2, <1>3, <1>4, <1>5, <1>6, <1>7 DEF PoolOperation

\* The pool moves and the replicas keep their memories.
LEMMA MemoriesSurviveThePool ==
  ASSUME CrankInv, NEW s, PoolOperation(s)
  PROVE  /\ TimelineType' /\ WindowsAreSettled'
         /\ \A r \in CrankMemory :
              ViewIsOfItsCycle(r) /\ SweepIsAllowed(r)
                => ViewIsOfItsCycle(r)' /\ SweepIsAllowed(r)'
<1>1. TimelineType /\ WindowsAreSettled
  BY DEF CrankInv
<1>2. TimelineType'
  BY <1>1, TimelineMoves
<1>3. /\ WindowsAreSettled' /\ now <= now'
      /\ \/ current_cycle' = current_cycle + 1
         \/ /\ current_cycle' = current_cycle
            /\ current_cycle # 0 => next_cycle_at' = next_cycle_at
  BY <1>1, WindowsStand
<1>4. /\ now \in Nat /\ now' \in Nat /\ current_cycle \in Nat /\ current_cycle' \in Nat
      /\ GracePeriod \in Nat
  BY <1>1, <1>2, SeatNumbers DEF TimelineType
<1>5. ASSUME NEW r \in CrankMemory, ViewIsOfItsCycle(r), SweepIsAllowed(r)
      PROVE  ViewIsOfItsCycle(r)' /\ SweepIsAllowed(r)'
  <2>1. r.cycle \in Nat /\ r.window \in Nat /\ r.lastOutage \in Outages
    BY SeatNumbers DEF CrankMemory
  <2>2. outageOverlapSecs(r.lastOutage, r.window) \in Int
    BY <2>1, <1>4, OverlapIsSeconds
  <2>3. ViewIsOfItsCycle(r)'
    BY <1>3, <1>4, <1>5, <2>1 DEF ViewIsOfItsCycle
  <2>4. SweepIsAllowed(r)'
    <3>1. PICK allowed \in Int :
            allowed = r.window + GracePeriod + outageOverlapSecs(r.lastOutage, r.window)
      BY <1>4, <2>1, <2>2
    <3>2. r.pc = "settle" => r.cycle # 0 /\ now >= allowed
      BY <1>5, <3>1 DEF SweepIsAllowed
    <3>3. r.pc = "settle" => r.cycle # 0 /\ now' >= allowed
      BY <1>3, <1>4, <3>2
    <3>4. allowed = r.window + GracePeriod + outageOverlapSecs(r.lastOutage, r.window)'
      BY <3>1 DEF outageOverlapSecs
    <3> QED
      BY <3>3, <3>4 DEF SweepIsAllowed, outageOverlapSecs
  <2> QED
    BY <2>3, <2>4
<1> QED
  BY <1>2, <1>3, <1>5

\* A replica goes on to k and everything the invariant names but its own
\* memory stays.
LEMMA ReplicaMoves ==
  ASSUME CrankInv, NEW c \in Replicas, NEW k \in CrankMemory,
         crank' = [crank EXCEPT ![c] = k], UNCHANGED tvars,
         ViewIsOfItsCycle(k), SweepIsAllowed(k)
  PROVE  CrankInv'
<1>1. crank' \in [Replicas -> CrankMemory] /\ crank'[c] = k
  BY DEF CrankInv
<1>2. \A d \in Replicas \ {c} : crank'[d] = crank[d]
  BY DEF CrankInv
<1>3. TimelineType' /\ WindowsAreSettled'
  BY DEF CrankInv, TimelineType, WindowsAreSettled, tvars, seatVars
<1>4. \A d \in Replicas : ViewIsOfItsCycle(crank'[d]) /\ SweepIsAllowed(crank'[d])
  BY <1>1, <1>2 DEF CrankInv
<1>5. /\ now' = now /\ current_cycle' = current_cycle /\ next_cycle_at' = next_cycle_at
  BY DEF tvars
<1>6. \A d \in Replicas : ViewIsOfItsCycle(crank[d])' /\ SweepIsAllowed(crank[d])'
  BY <1>4, <1>5 DEF ViewIsOfItsCycle, SweepIsAllowed, outageOverlapSecs
<1> QED
  BY <1>1, <1>3, <1>6 DEF CrankInv

\* A replica that is not in a sweep remembers nothing that could go stale.
LEMMA ReplicaRests ==
  ASSUME CrankInv, NEW c \in Replicas, NEW k \in CrankMemory, k.pc \notin {"list", "settle"},
         crank' = [crank EXCEPT ![c] = k], UNCHANGED tvars
  PROVE  CrankInv'
BY ReplicaMoves DEF ViewIsOfItsCycle, SweepIsAllowed

LEMMA PollingKeepsInv ==
  ASSUME CrankInv, NEW c \in Replicas, TryAcquire(c) \/ CheckRpcHealth(c) \/ FetchActivePools(c)
  PROVE  CrankInv'
<1>1. /\ crank[c] \in CrankMemory /\ current_cycle \in Seats /\ current_cycle \in Nat
      /\ next_cycle_at \in Nat /\ now \in Int
  BY SeatNumbers DEF CrankInv, TimelineType
<1>2. PICK r \in CrankMemory : r = crank[c]
  BY <1>1
<1>3. r.rpcDownSince \in Int /\ r.lastOutage \in Outages
  BY DEF CrankMemory
<1>4. ASSUME TryAcquire(c)
      PROVE  CrankInv'
  <2>1. [r EXCEPT !.pc = "health"] \in CrankMemory
    BY DEF CrankMemory
  <2>2. crank' = [crank EXCEPT ![c] = [r EXCEPT !.pc = "health"]] /\ UNCHANGED tvars
    BY <1>2, <1>4 DEF TryAcquire, Goto
  <2> QED
    BY <2>1, <2>2, ReplicaRests DEF CrankMemory
<1>5. ASSUME CheckRpcHealth(c)
      PROVE  CrankInv'
  <2>1. PICK up : up = [markRpcUp(r) EXCEPT !.pc = "fetch"]
    OBVIOUS
  <2>2. PICK down : down = [markRpcDown(r) EXCEPT !.pc = "idle"]
    OBVIOUS
  <2>3. PICK outage \in Outages : outage = [start |-> r.rpcDownSince, end |-> now]
    BY <1>1, <1>3 DEF Outages
  <2>4. up \in CrankMemory /\ up.pc = "fetch"
    <3>1. CASE r.rpcDownSince = None
      BY <1>3, <2>1, <3>1 DEF markRpcUp, CrankMemory, None
    <3>2. CASE r.rpcDownSince # None
      <4>1. up = [[[r EXCEPT !.lastOutage = outage] EXCEPT !.rpcDownSince = None]
                    EXCEPT !.pc = "fetch"]
        BY <2>1, <2>3, <3>2 DEF markRpcUp, CrankMemory
      <4>2. None \in Int
        BY DEF None
      <4>3. PICK dated : dated = [r EXCEPT !.lastOutage = outage]
        OBVIOUS
      <4>4. dated \in CrankMemory
        BY <2>3, <4>3 DEF CrankMemory
      <4> QED
        BY <4>1, <4>2, <4>3, <4>4 DEF CrankMemory
    <3> QED
      BY <3>1, <3>2
  <2>5. down \in CrankMemory /\ down.pc = "idle"
    BY <1>1, <1>3, <2>2 DEF markRpcDown, CrankMemory
  <2>6. crank' = [crank EXCEPT ![c] = IF rpc.up THEN up ELSE down] /\ UNCHANGED tvars
    BY <1>2, <1>5, <2>1, <2>2 DEF CheckRpcHealth
  <2>7. CASE rpc.up
    BY <2>4, <2>6, <2>7, ReplicaRests
  <2>8. CASE ~rpc.up
    BY <2>5, <2>6, <2>8, ReplicaRests
  <2> QED
    BY <2>7, <2>8
<1>6. ASSUME FetchActivePools(c)
      PROVE  CrankInv'
  <2>1. PICK seen : seen = [r EXCEPT !.pc = "list", !.cycle = current_cycle,
                                     !.window = next_cycle_at]
    OBVIOUS
  <2>2. PICK missed : missed = [r EXCEPT !.pc = "idle"]
    OBVIOUS
  <2>3. /\ seen \in CrankMemory /\ seen.pc = "list"
        /\ seen.cycle = current_cycle /\ seen.window = next_cycle_at
    BY <1>1, <2>1 DEF CrankMemory
  <2>4. missed \in CrankMemory /\ missed.pc = "idle"
    BY <2>2 DEF CrankMemory
  <2>5. ViewIsOfItsCycle(seen) /\ SweepIsAllowed(seen)
    BY <1>1, <2>3 DEF ViewIsOfItsCycle, SweepIsAllowed
  <2>6. /\ crank' = [crank EXCEPT ![c] = IF rpc.up /\ status = "Active" THEN seen ELSE missed]
        /\ UNCHANGED tvars
    BY <1>2, <1>6, <2>1, <2>2 DEF FetchActivePools
  <2>7. CASE rpc.up /\ status = "Active"
    BY <2>3, <2>5, <2>6, <2>7, ReplicaMoves
  <2>8. CASE ~(rpc.up /\ status = "Active")
    BY <2>4, <2>6, <2>8, ReplicaRests
  <2> QED
    BY <2>7, <2>8
<1> QED
  BY <1>4, <1>5, <1>6

\* The list of a sweep is made only when the window, and what an outage took
\* from it, are over.
LEMMA ListingKeepsInv ==
  ASSUME CrankInv, NEW c \in Replicas, ListMembers(c)
  PROVE  CrankInv'
<1>1. PICK r \in CrankMemory : r = crank[c]
  BY DEF CrankInv
<1>2. /\ r.window \in Nat /\ r.lastOutage \in Outages /\ r.pc = "list"
      /\ now \in Nat /\ GracePeriod \in Nat
      /\ ViewIsOfItsCycle(r)
  BY <1>1, SeatNumbers DEF CrankInv, TimelineType, CrankMemory, ListMembers
<1>3. PICK overlap \in Nat : overlap = outageOverlapSecs(r.lastOutage, r.window)
  BY <1>2, OverlapIsSeconds
<1>4. PICK due \in SUBSET Seats :
        due = {s \in Seats : isEligibleForSettle(s, r.cycle) /\ ~Deferred(r, now)}
  OBVIOUS
<1>5. PICK todo \in SUBSET Seats :
        /\ crank' = [crank EXCEPT ![c] = WithTodo(r, todo)]
        /\ todo # {} => /\ r.cycle # 0 /\ now >= r.window + GracePeriod
                        /\ todo = due
  <2>1. CASE (r.cycle # 0 /\ now >= r.window + GracePeriod) /\ rpc.up
    BY <1>1, <1>4, <2>1 DEF ListMembers
  <2>2. CASE ~((r.cycle # 0 /\ now >= r.window + GracePeriod) /\ rpc.up)
    <3>1. crank' = [crank EXCEPT ![c] = WithTodo(r, {})]
      BY <1>1, <2>2 DEF ListMembers
    <3> QED
      BY <3>1
  <2> QED
    BY <2>1, <2>2
<1>6. todo # {} => now >= r.window + GracePeriod + overlap
  <2>1. SUFFICES ASSUME todo # {}
                 PROVE  now >= r.window + GracePeriod + overlap
    OBVIOUS
  <2>2. ~Deferred(r, now)
    BY <1>4, <1>5, <2>1
  <2>3. ~(overlap > 0 /\ now < r.window + GracePeriod + overlap)
    BY <1>3, <2>2 DEF Deferred
  <2>4. now >= r.window + GracePeriod
    BY <1>5, <2>1
  <2> QED
    BY <1>2, <2>3, <2>4
<1>7. PICK k : k = WithTodo(r, todo)
  OBVIOUS
<1>8. /\ k \in CrankMemory /\ k.pc \in {"idle", "settle"}
      /\ k.pc = "settle" => /\ todo # {} /\ k.cycle = r.cycle /\ k.window = r.window
                            /\ k.lastOutage = r.lastOutage
  BY <1>7, SweepGoesOn
<1>9. ViewIsOfItsCycle(k)
  BY <1>2, <1>8 DEF ViewIsOfItsCycle
<1>10. SweepIsAllowed(k)
  BY <1>3, <1>5, <1>6, <1>8 DEF SweepIsAllowed
<1>11. crank' = [crank EXCEPT ![c] = k] /\ UNCHANGED tvars
  BY <1>5, <1>7 DEF ListMembers
<1> QED
  BY <1>8, <1>9, <1>10, <1>11, ReplicaMoves

\* Once a call has landed or failed the sweep goes on with the others.
LEMMA SettlingKeepsInv ==
  ASSUME CrankInv, NEW c \in Replicas, NEW s \in Seats,
         SettleLands(c, s) \/ SettleFails(c, s)
  PROVE  CrankInv'
<1>1. PICK r \in CrankMemory : r = crank[c]
  BY DEF CrankInv
<1>2. r.pc = "settle" /\ ViewIsOfItsCycle(r) /\ SweepIsAllowed(r) /\ r.todo \in SUBSET Seats
  BY <1>1 DEF CrankInv, CrankMemory, SettleLands, SettleFails
<1>3. PICK k : k = WithTodo(r, r.todo \ {s})
  OBVIOUS
<1>4. r.todo \ {s} \in SUBSET Seats
  BY <1>2
<1>5. /\ k \in CrankMemory /\ k.pc \in {"idle", "settle"}
      /\ k.pc = "settle" => /\ k.cycle = r.cycle /\ k.window = r.window
                            /\ k.lastOutage = r.lastOutage
  BY <1>3, <1>4, SweepGoesOn
<1>6. crank' = [crank EXCEPT ![c] = k]
  BY <1>1, <1>3 DEF SettleLands, SettleFails
<1>7. ViewIsOfItsCycle(k) /\ SweepIsAllowed(k)
  BY <1>2, <1>5 DEF ViewIsOfItsCycle, SweepIsAllowed
<1>8. CASE SettleFails(c, s)
  BY <1>5, <1>6, <1>7, <1>8, ReplicaMoves DEF SettleFails
<1>9. CASE SettleLands(c, s)
  <2>1. PoolOperation(s)
    BY <1>9 DEF SettleLands, PoolOperation
  <2>2. /\ TimelineType' /\ WindowsAreSettled'
        /\ \A m \in CrankMemory :
             ViewIsOfItsCycle(m) /\ SweepIsAllowed(m)
               => ViewIsOfItsCycle(m)' /\ SweepIsAllowed(m)'
    BY <2>1, MemoriesSurviveThePool
  <2>3. \A d \in Replicas : /\ crank'[d] \in CrankMemory
                            /\ ViewIsOfItsCycle(crank'[d]) /\ SweepIsAllowed(crank'[d])
    BY <1>5, <1>6, <1>7 DEF CrankInv
  <2>4. UNCHANGED <<now, current_cycle, next_cycle_at>>
    BY <1>9 DEF SettleLands, Settle
  <2>5. \A d \in Replicas : ViewIsOfItsCycle(crank[d])' /\ SweepIsAllowed(crank[d])'
    BY <2>3, <2>4 DEF ViewIsOfItsCycle, SweepIsAllowed, outageOverlapSecs
  <2>6. crank' \in [Replicas -> CrankMemory]
    BY <1>5, <1>6 DEF CrankInv
  <2> QED
    BY <2>2, <2>5, <2>6 DEF CrankInv
<1> QED
  BY <1>8, <1>9

LEMMA CrankStarts == CrankInit => CrankInv
<1> SUFFICES ASSUME CrankInit
             PROVE  CrankInv
  OBVIOUS
<1>1. TimelineInit /\ crank = [c \in Replicas |-> makeInitialState]
  BY DEF CrankInit
<1>2. TimelineType /\ WindowsAreSettled
  BY <1>1, TimelineStarts DEF TimelineInit, WindowsAreSettled
<1>3. makeInitialState \in CrankMemory /\ makeInitialState.pc = "idle"
  BY SeatNumbers DEF makeInitialState, CrankMemory, Outages, NoOutage, None
<1>4. \A c \in Replicas : ViewIsOfItsCycle(crank[c]) /\ SweepIsAllowed(crank[c])
  BY <1>1, <1>3 DEF ViewIsOfItsCycle, SweepIsAllowed
<1> QED
  BY <1>1, <1>2, <1>3, <1>4 DEF CrankInv

\* The pool, the clock and every tick, crash, shutdown and outage.
LEMMA CrankStepKeepsInv ==
  ASSUME CrankInv, [CrankNext]_cvars
  PROVE  CrankInv'
<1>1. ASSUME NEW s, PoolOperation(s), crank' = crank
      PROVE  CrankInv'
  <2>1. \A d \in Replicas : crank[d] \in CrankMemory /\ crank'[d] = crank[d]
    BY <1>1 DEF CrankInv
  <2>2. /\ TimelineType' /\ WindowsAreSettled'
        /\ \A m \in CrankMemory :
             ViewIsOfItsCycle(m) /\ SweepIsAllowed(m)
               => ViewIsOfItsCycle(m)' /\ SweepIsAllowed(m)'
    BY <1>1, MemoriesSurviveThePool
  <2>3. ASSUME NEW d \in Replicas
        PROVE  ViewIsOfItsCycle(crank[d])' /\ SweepIsAllowed(crank[d])'
    <3>1. PICK m \in CrankMemory : m = crank[d] /\ m = crank'[d]
      BY <2>1
    <3>2. ViewIsOfItsCycle(m)' /\ SweepIsAllowed(m)'
      BY <2>2, <3>1 DEF CrankInv
    <3> QED
      BY <3>1, <3>2 DEF ViewIsOfItsCycle, SweepIsAllowed, outageOverlapSecs
  <2> QED
    BY <1>1, <2>2, <2>3 DEF CrankInv
<1>2. ASSUME UNCHANGED <<tvars, crank>>
      PROVE  CrankInv'
  BY <1>2 DEF CrankInv, TimelineType, WindowsAreSettled, ViewIsOfItsCycle, SweepIsAllowed,
              outageOverlapSecs, tvars, seatVars
<1>3. ASSUME PoolOrClockStep
      PROVE  CrankInv'
  <2>1. crank' = crank
    BY <1>3 DEF PoolOrClockStep, crankVars
  <2>2. \E s : PoolOperation(s)
    BY <1>3 DEF PoolOrClockStep, PoolOperation
  <2> QED
    BY <1>1, <2>1, <2>2
<1>4. ASSUME NEW c \in Replicas, TickStep(c)
      PROVE  CrankInv'
  BY <1>4, PollingKeepsInv, ListingKeepsInv, SettlingKeepsInv DEF TickStep
<1>5. ASSUME NEW c \in Replicas, CrashAndRestart(c) \/ Shutdown(c)
      PROVE  CrankInv'
  <2>1. makeInitialState \in CrankMemory /\ makeInitialState.pc = "idle"
    BY SeatNumbers DEF makeInitialState, CrankMemory, Outages, NoOutage, None
  <2>2. crank' = [crank EXCEPT ![c] = makeInitialState] /\ UNCHANGED tvars
    BY <1>5 DEF CrashAndRestart, Shutdown
  <2> QED
    BY <2>1, <2>2, ReplicaRests
<1>6. ASSUME LeaseExpires \/ RpcGoesDown \/ RpcComesBack \/ UNCHANGED cvars
      PROVE  CrankInv'
  BY <1>2, <1>6 DEF LeaseExpires, RpcGoesDown, RpcComesBack, cvars, crankVars
<1> QED
  BY <1>3, <1>4, <1>5, <1>6 DEF CrankNext

\* The chain takes a settlement only for the cycle the replica has read, whose
\* window still stands; and the replica had waited for that window.
LEMMA LandedInTime ==
  ASSUME CrankInv, NEW c \in Replicas, NEW s \in Seats, SettleLands(c, s)
  PROVE  now >= GraceDeadline + outageOverlapSecs(crank[c].lastOutage, next_cycle_at)
<1>1. PICK r \in CrankMemory : r = crank[c]
  BY DEF CrankInv
<1>2. r.pc = "settle" /\ r.cycle = current_cycle
  BY <1>1 DEF SettleLands, WouldLand
<1>3. r.cycle # 0 /\ now >= r.window + GracePeriod + outageOverlapSecs(r.lastOutage, r.window)
  BY <1>1, <1>2 DEF CrankInv, SweepIsAllowed
<1>4. r.window = next_cycle_at
  BY <1>1, <1>2, <1>3 DEF CrankInv, ViewIsOfItsCycle
<1> QED
  BY <1>1, <1>3, <1>4 DEF GraceDeadline

\* ECO-V52 for every number of replicas and seats and all periods: whatever a
\* replica has read before an await, and whoever crashes or takes over the
\* lease meanwhile, settle_default lands only after the time that the member's
\* grace window lost to the outage has been given back (settleDefaults.ts).
THEOREM InfraMissesAreDeferred == CrankSpec => InfraMissIsDeferred
<1>1. CrankInit => CrankInv
  BY CrankStarts
<1>2. CrankInv /\ [CrankNext]_cvars => CrankInv'
  BY CrankStepKeepsInv
<1>3. CrankInv =>
        [\A c \in Replicas, s \in Seats :
           SettleLands(c, s) =>
             now >= GraceDeadline
                      + outageOverlapSecs(crank[c].lastOutage, next_cycle_at)]_cvars
  BY LandedInTime
<1> QED
  BY <1>1, <1>2, <1>3, PTL DEF CrankSpec, InfraMissIsDeferred

=============================================================================
