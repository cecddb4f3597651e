---------------------------- MODULE CrankService ----------------------------
(***************************************************************************)
(* The crank service (services/crank) beside the pool it watches.  Its     *)
(* replicas poll: take the lease, probe the RPC node, read the active pool,*)
(* read its members, and send settle_default for those that are due.  Every*)
(* await of the code ends a step, so the pool, the node and the other      *)
(* replicas move between any two of them; what a replica has read is kept  *)
(* in its record and may be stale when it is used.                         *)
(*                                                                         *)
(* Failures covered: the RPC node goes down and comes back (a call may then*)
(* be lost, or land without being confirmed), a replica crashes at any     *)
(* point and restarts without its memory, or is shut down gracefully.  A   *)
(* failed database call only skips a tick and is not shown.                *)
(* settle_default is sent by the crank alone here: it is "the only path"   *)
(* (settleDefaults.ts:9).  The identity sweep belongs to Reputation.       *)
(***************************************************************************)
EXTENDS PoolTimeline, FiniteSets

CONSTANTS
  Replicas,       \* the running copies of the service
  LeaseEnabled,   \* CRANK_LEASE_ENABLED; otherwise noopLease
  MaxOutages,     \* bound on the outages of the RPC node
  MaxCrashes,     \* bound on crashes and shutdowns
  MaxAhead        \* bound on the installments a member pays in advance

ASSUME CrankAssumption ==
  /\ LeaseEnabled \in BOOLEAN
  /\ MaxOutages \in Nat
  /\ MaxCrashes \in Nat
  /\ MaxAhead \in Nat
  /\ IsFiniteSet(Replicas)

VARIABLES
  rpc,      \* the RPC node: up or not, and how often it has failed
  lease,    \* the row crank-main: its holder, and whether it is within its TTL
  crank,    \* [Replicas -> where it is in its tick and its memory]
  crashes   \* how many processes have died

crankVars == <<rpc, lease, crank, crashes>>
cvars == <<tvars, crankVars>>

None == -1
Nobody == "nobody"    \* the row does not exist yet
Gone == "gone"        \* the row is held by a process that has died
NoOutage == [start |-> None, end |-> None]
EarlierOf(a, b) == IF a <= b THEN a ELSE b

\* The memory of a new process: crankState, and the loop's locals.  cycle and
\* window are the PoolView read last, todo the members still to settle.
makeInitialState ==
  [pc |-> "idle", cycle |-> 0, window |-> 0, todo |-> {},
   rpcDownSince |-> None, lastOutage |-> NoOutage]

CrankInit ==
  /\ TimelineInit
  /\ rpc = [up |-> TRUE, outages |-> 0]
  /\ lease = [holder |-> Nobody, fresh |-> FALSE]
  /\ crank = [c \in Replicas |-> makeInitialState]
  /\ crashes = 0

Goto(c, pc) == crank' = [crank EXCEPT ![c].pc = pc]

----------------------------------------------------------------------------
(* One tick.                                                               *)

\* The stale row is never grabbed.
LeaseAvailable_mutant(c) == ~LeaseEnabled \/ lease.holder \in {c, Nobody}

\* Renew what we hold, grab what is stale, or insert the missing row.
LeaseAvailable(c) ==
  \/ ~LeaseEnabled
  \/ lease.holder \in {c, Nobody}
  \/ ~lease.fresh

TryAcquire(c) ==
  /\ crank[c].pc = "idle"
  /\ LeaseAvailable(c)
  /\ lease' = IF LeaseEnabled THEN [holder |-> c, fresh |-> TRUE] ELSE lease
  /\ Goto(c, "health")
  /\ UNCHANGED <<tvars, rpc, crashes>>

markRpcUp(r) ==
  [r EXCEPT !.lastOutage = IF r.rpcDownSince = None THEN @
                           ELSE [start |-> r.rpcDownSince, end |-> now],
            !.rpcDownSince = None]

markRpcDown(r) ==
  [r EXCEPT !.rpcDownSince = IF @ = None THEN now ELSE @]

\* A failed probe ends the tick.
CheckRpcHealth(c) ==
  /\ crank[c].pc = "health"
  /\ crank' = [crank EXCEPT ![c] =
       IF rpc.up THEN [markRpcUp(@) EXCEPT !.pc = "fetch"]
                 ELSE [markRpcDown(@) EXCEPT !.pc = "idle"]]
  /\ UNCHANGED <<tvars, rpc, lease, crashes>>

\* Only an Active pool is processed; a failed read ends the tick.
FetchActivePools(c) ==
  /\ crank[c].pc = "fetch"
  /\ crank' = [crank EXCEPT ![c] =
       IF rpc.up /\ status = "Active"
       THEN [@ EXCEPT !.pc = "list", !.cycle = current_cycle, !.window = next_cycle_at]
       ELSE [@ EXCEPT !.pc = "idle"]]
  /\ UNCHANGED <<tvars, rpc, lease, crashes>>

isEligibleForSettle(s, cycle) ==
  /\ s \notin defaulted
  /\ s \notin paid_out
  /\ contributions_paid[s] < cycle

\* Seconds of the last outage within the grace window that starts at window.
outageOverlapSecs(outage, window) ==
  IF outage = NoOutage THEN 0
  ELSE LaterOf(0, EarlierOf(outage.end, window + GracePeriod)
                    - LaterOf(outage.start, window))

\* Before ECO-V52 the outage under way was asked, which the probe has cleared.
Deferred_mutant(r, at) ==
  r.rpcDownSince # None /\ r.rpcDownSince <= r.window + GracePeriod

\* classifyDefaultReason = INFRA_FAILURE at the time the sweep began.
Deferred(r, at) ==
  LET overlap == outageOverlapSecs(r.lastOutage, r.window)
  IN  overlap > 0 /\ at < r.window + GracePeriod + overlap

\* With nobody left to settle the tick is over: what it has read is gone, the
\* outage windows stay.
WithTodo(r, todo) ==
  IF todo = {} THEN [r EXCEPT !.pc = "idle", !.cycle = 0, !.window = 0, !.todo = {}]
               ELSE [r EXCEPT !.pc = "settle", !.todo = todo]

\* checkAndSettleDefaults up to its loop.  The clock is read once, at its
\* start, and the members once: whom to settle depends on nothing read later.
ListMembers(c) ==
  LET r   == crank[c]
      due == r.cycle # 0 /\ now >= r.window + GracePeriod
  IN
  /\ r.pc = "list"
  /\ crank' = [crank EXCEPT ![c] =
       IF due /\ rpc.up
       THEN WithTodo(@, {s \in Seats : /\ isEligibleForSettle(s, r.cycle)
                                       /\ ~Deferred(r, now)})
       ELSE WithTodo(@, {})]     \* a throw is caught per pool
  /\ UNCHANGED <<tvars, rpc, lease, crashes>>

\* The chain takes the call only for its current cycle and an overdue member.
WouldLand(c, s) == crank[c].cycle = current_cycle /\ Overdue(s)

\* A call may land although its confirmation is lost with the node.
SettleLands(c, s) ==
  /\ crank[c].pc = "settle"
  /\ s \in crank[c].todo
  /\ WouldLand(c, s)
  /\ Settle(s)
  /\ crank' = [crank EXCEPT ![c] = WithTodo(@, @.todo \ {s})]
  /\ UNCHANGED <<rpc, lease, crashes>>

\* The call fails, on chain or for want of a node: logged, and tried again in
\* the next tick.
SettleFails(c, s) ==
  /\ crank[c].pc = "settle"
  /\ s \in crank[c].todo
  /\ ~rpc.up \/ ~WouldLand(c, s)
  /\ crank' = [crank EXCEPT ![c] = WithTodo(@, @.todo \ {s})]
  /\ UNCHANGED <<tvars, rpc, lease, crashes>>

TickStep(c) ==
  \/ TryAcquire(c) \/ CheckRpcHealth(c) \/ FetchActivePools(c)
  \/ ListMembers(c)
  \/ \E s \in Seats : SettleLands(c, s) \/ SettleFails(c, s)

----------------------------------------------------------------------------
(* Processes, lease and node.                                              *)

\* The process dies anywhere and a new one boots with an empty memory.  On
\* another host its holder id is another, and the row outlives its holder.
CrashAndRestart(c) ==
  /\ crashes < MaxCrashes
  /\ crashes' = crashes + 1
  /\ crank' = [crank EXCEPT ![c] = makeInitialState]
  /\ lease' \in {lease, [lease EXCEPT !.holder = IF @ = c THEN Gone ELSE @]}
  /\ UNCHANGED <<tvars, rpc>>

\* SIGTERM: the loop drains, the lease is released, then the process exits.
Shutdown(c) ==
  /\ crashes < MaxCrashes
  /\ crank[c].pc = "idle"
  /\ crashes' = crashes + 1
  /\ lease' = IF lease.holder = c THEN [lease EXCEPT !.fresh = FALSE] ELSE lease
  /\ crank' = [crank EXCEPT ![c] = makeInitialState]
  /\ UNCHANGED <<tvars, rpc>>

\* LEASE_TTL_SECS pass without a renewal, perhaps in the middle of a long tick.
LeaseExpires ==
  /\ lease.fresh
  /\ lease' = [lease EXCEPT !.fresh = FALSE]
  /\ UNCHANGED <<tvars, rpc, crank, crashes>>

RpcGoesDown ==
  /\ rpc.up
  /\ rpc.outages < MaxOutages
  /\ rpc' = [up |-> FALSE, outages |-> rpc.outages + 1]
  /\ UNCHANGED <<tvars, lease, crank, crashes>>

RpcComesBack ==
  /\ ~rpc.up
  /\ rpc' = [rpc EXCEPT !.up = TRUE]
  /\ UNCHANGED <<tvars, lease, crank, crashes>>

\* The members, their bids, the draw, whoever ends a turn, and the clock.
PoolOrClockStep ==
  /\ \/ Activate \/ DrawLate \/ TimePasses
     \/ \E s \in Seats :
          \/ contributions_paid[s] <= current_cycle + MaxAhead /\ PayInstallment(s)
          \/ ReceiveCredit(s)
          \/ PassOver(s)
          \/ \E k \in 1 .. MembersTarget :
               /\ contributions_paid[s] + k <= current_cycle + 1 + MaxAhead
               /\ PrepayInBid(s, k)
  /\ UNCHANGED crankVars

CrankNext ==
  \/ PoolOrClockStep
  \/ \E c \in Replicas : TickStep(c) \/ CrashAndRestart(c) \/ Shutdown(c)
  \/ LeaseExpires
  \/ RpcGoesDown
  \/ RpcComesBack

\* The loop of a live process never stops (its catch-alls see to that), a
\* lease that is not renewed expires, an outage ends, and time passes.
CrankSpec ==
  /\ CrankInit
  /\ [][CrankNext]_cvars
  /\ WF_cvars(TimePasses /\ UNCHANGED crankVars)
  /\ \A c \in Replicas : WF_cvars(TickStep(c))
  /\ WF_cvars(LeaseExpires)
  /\ WF_cvars(RpcComesBack)

----------------------------------------------------------------------------

\* ECO-V52: the irreversible settle_default lands for a member only after the
\* time its grace window lost to the last outage known to the process that
\* sends it has been given back, measured on the window on chain at that
\* moment, however old the view it acts on and whatever the other replicas do.
InfraMissIsDeferred ==
  [][\A c \in Replicas, s \in Seats :
       SettleLands(c, s) =>
         now >= GraceDeadline
                  + outageOverlapSecs(crank[c].lastOutage, next_cycle_at)]_cvars

Behind(s) == /\ status = "Active"
             /\ s \notin defaulted
             /\ contributions_paid[s] < current_cycle

\* settleDefaults.ts:27-30: a member that is behind and was not paid out yet is
\* settled, pays, or the pool ends: through outages, crashes of any replica
\* at any point of its tick, a lease that dies with its holder, and deferrals.
UnpaidDelinquencyEnds ==
  \A s \in Seats : Behind(s) /\ s \notin paid_out ~> ~Behind(s)

\* settleDefaults.ts:27: "a genuine defaulter is settled as PAYMENT_MISSED on a
\* later healthy tick"; so nobody stays behind, paid out early or not.
DelinquentsAreSettled == \A s \in Seats : Behind(s) ~> ~Behind(s)
=============================================================================
