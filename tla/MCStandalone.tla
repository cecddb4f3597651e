---------------------------- MODULE MCStandalone ----------------------------
(***************************************************************************)
(* The parts that need no other: the arithmetic of crates/math, its slot   *)
(* draw, the Stress Lab, and the two services that act by themselves on a  *)
(* pool's timeline, the crank and the mail notifier.  Each behaviour runs  *)
(* one of them, the subject, and leaves the others where they start.       *)
(***************************************************************************)
EXTENDS MathContracts, SlotDraw, StressLab, CrankService, MCEmailNotify

VARIABLE subject

allVars == <<subject, call, vars, matrix, cvars, mailVars>>

StandaloneInit ==
  /\ subject \in {"contracts", "draw", "lab", "crank", "mail"}
  /\ ContractsInit
  /\ Init
  /\ IF subject = "lab" THEN StressLabInit ELSE matrix = <<>>
  /\ CrankInit
  /\ NotifierInit
  /\ subject # "crank" => drawn

Only(part, A) == subject = part /\ A /\ UNCHANGED subject
Cranking(A) == Only("crank", A /\ UNCHANGED <<call, vars, matrix, mailVars>>)

StandaloneNext ==
  \/ Only("contracts", ContractsNext /\ UNCHANGED <<vars, matrix, cvars, mailVars>>)
  \/ Only("draw", Next /\ UNCHANGED <<call, matrix, cvars, mailVars>>)
  \/ Only("lab", StressLabNext /\ UNCHANGED <<call, vars, cvars, mailVars>>)
  \/ Only("mail", EmailNext /\ UNCHANGED <<call, vars, matrix, crankVars>>)
  \/ Cranking(CrankNext)

\* The fairness is that of CrankSpec.
StandaloneSpec ==
  /\ StandaloneInit
  /\ [][StandaloneNext]_allVars
  /\ WF_allVars(Cranking(TimePasses /\ UNCHANGED crankVars))
  /\ \A c \in Replicas : WF_allVars(Cranking(TickStep(c)))
  /\ WF_allVars(Cranking(LeaseExpires))
  /\ WF_allVars(Cranking(RpcComesBack))

\* In the pools that the service watches.
DelinquencyEnds == subject = "crank" => UnpaidDelinquencyEnds
=============================================================================
