--------------------------- MODULE RoscaProgress ---------------------------
(***************************************************************************)
(* RoscaPool under fairness.  Time passes.  services/crank polls the active*)
(* pools and sends settle_default for the members it does not hold for paid*)
(* out (see CrankService); crank_payout, skip_defaulted_payout and         *)
(* finalize_draw are open to anyone, and the members still waiting for a   *)
(* payout want them done, so one that stays possible happens.  The members *)
(* in Payers eventually pay an installment that stays payable; the others  *)
(* may never do anything again once they have joined.  Nothing is assumed  *)
(* of claims, releases, the pause flag or the closing ceremony.            *)
(***************************************************************************)
EXTENDS RoscaHistory

CONSTANT Payers     \* the seats whose members keep paying

ASSUME PayersAssumption == Payers \subseteq Seats

CrankAny ==
  \/ \E s \in Seats : SettleDefault(s) /\ ~member[s].paid_out
  \/ FinalizeDraw
  \/ \E s \in Seats : CrankPayout(s) \/ SkipDefaultedPayout(s)

PayAny == \E s \in Payers : Contribute(s)

\* One crank that never tires is enough: each of its calls can succeed only a
\* bounded number of times, and so it is with the payments.
ServingSpec ==
  HistorySpec /\ WF_vars(Tick) /\ WF_vars(CrankAny) /\ WF_vars(PayAny)

----------------------------------------------------------------------------

\* docs/architecture.md:456: "No indefinite locks: the pool can always advance
\* its cycle, regardless of a single member's action or reachability".  True of
\* a pool whose float covers the credit without one of its members, whoever
\* stops paying and whoever never claims.
NoIndefiniteLocks == (pool.status = "Active") ~> (pool.status # "Active")
=============================================================================
