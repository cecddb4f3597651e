--------------------------- MODULE RotatingCredit ---------------------------
(***************************************************************************)
(* What a pool promises its members, without money and without clocks: a   *)
(* fixed plan gives every seat one turn, turns are taken one after the     *)
(* other, and a turn ends with the seat receiving the credit or, only if   *)
(* the seat was expelled before it received anything, with nothing.        *)
(***************************************************************************)
EXTENDS Naturals

CONSTANT Members     \* how many seats, and so how many turns, there are

SeatSet == 0 .. Members - 1

VARIABLES
  roster,    \* the seats that have been taken
  plan,      \* seat -> its turn; NoPlan until it is fixed
  turn,      \* how many turns are over
  outcome    \* seat -> "due", "received" or "forfeited"

avars == <<roster, plan, turn, outcome>>

NoPlan == [s \in SeatSet |-> Members]
Plans == {f \in [SeatSet -> SeatSet] :
            \A s, t \in SeatSet : f[s] = f[t] => s = t}

Start ==
  /\ roster = {}
  /\ plan \in {NoPlan, [s \in SeatSet |-> s]}
  /\ turn = 0
  /\ outcome = [s \in SeatSet |-> "due"]

\* The plan may be fixed by the join that completes the roster.
Enrol(s) ==
  /\ s \notin roster
  /\ roster' = roster \cup {s}
  /\ \/ plan' = plan
     \/ plan = NoPlan /\ roster' = SeatSet /\ plan' \in Plans
  /\ UNCHANGED <<turn, outcome>>

FixPlan ==
  /\ plan = NoPlan
  /\ roster = SeatSet
  /\ plan' \in Plans
  /\ UNCHANGED <<roster, turn, outcome>>

Ready(s) == roster = SeatSet /\ plan[s] = turn

Receive(s) ==
  /\ Ready(s)
  /\ outcome[s] = "due"
  /\ outcome' = [outcome EXCEPT ![s] = "received"]
  /\ turn' = turn + 1
  /\ UNCHANGED <<roster, plan>>

Expel(s) ==
  /\ roster = SeatSet
  /\ turn < Members
  /\ outcome[s] = "due"
  /\ outcome' = [outcome EXCEPT ![s] = "forfeited"]
  /\ UNCHANGED <<roster, plan, turn>>

Pass(s) ==
  /\ Ready(s)
  /\ outcome[s] = "forfeited"
  /\ turn' = turn + 1
  /\ UNCHANGED <<roster, plan, outcome>>

Step == \/ FixPlan
        \/ \E s \in SeatSet : Enrol(s) \/ Receive(s) \/ Expel(s) \/ Pass(s)

Promise == Start /\ [][Step]_avars
=============================================================================
