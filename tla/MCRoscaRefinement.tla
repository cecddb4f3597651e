------------------------- MODULE MCRoscaRefinement -------------------------
(***************************************************************************)
(* RoscaRefinement on the pools of MCRoscaPool that are served in order of *)
(* arrival.  finalize_draw wants a sorteio pool, so it never runs here.    *)
(***************************************************************************)
EXTENDS RoscaRefinement, MCRoscaPool

ArrivalNext ==
  \/ \E s \in Seats, level \in Levels : JoinPool(s, level)
  \/ \E s \in Seats : Contribute(s)
  \/ \E s \in Seats : ClaimPayout(s)
  \/ \E s \in Seats : CrankPayout(s)
  \/ \E s \in Seats : SkipDefaultedPayout(s)
  \/ \E s \in Seats : SettleDefault(s)
  \/ \E s \in Seats, checkpoint \in 1 .. CyclesTotal : ReleaseEscrow(s, checkpoint)
  \/ Pause
  \/ ClosePool
  \/ \E s \in Seats : CloseMember(s)
  \/ ClosePoolVaults
  \/ Tick

ArrivalSpec == Init /\ [][ArrivalNext]_vars
=============================================================================
