------------------------------ MODULE SlotDraw ------------------------------
(***************************************************************************)
(* draw_slot_order of crates/math: a backward Fisher-Yates shuffle over    *)
(* the payout slots of a sorteio pool, one step per turn of its loop.  The *)
(* splitmix64 stream that picks the swaps is a nondeterministic choice, so *)
(* the model covers every seed.                                            *)
(***************************************************************************)
EXTENDS Integers, Functions

CONSTANT N           \* order.len(): the seats of the pool

ASSUME NAssumption == N \in 1 .. 256

Slots == 0 .. N - 1

VARIABLES
  order,     \* member index -> payout slot
  i          \* the loop counter; the loop is over once it is 0

vars == <<order, i>>

Identity == [s \in Slots |-> s]

Init == order = Identity /\ i = N - 1

\* A plausible bug of swap, used by nothing: the second write is lost.
swap_mutant(f, a, b) == [f EXCEPT ![a] = f[b]]

\* order.swap(i, j)
swap(f, a, b) == [f EXCEPT ![a] = f[b], ![b] = f[a]]

\* j = splitmix64(&mut state) % (i + 1)
Picks == 0 .. i

Turn(j) ==
  /\ i >= 1
  /\ order' = swap(order, i, j)
  /\ i' = i - 1

Next == \E j \in Picks : Turn(j)

Spec == Init /\ [][Next]_vars

----------------------------------------------------------------------------

TypeOK == order \in [Slots -> Slots] /\ i \in 0 .. N - 1

\* Whatever the seed, no step duplicates or loses a payout slot: two members
\* are never drawn into the same cycle and every cycle has its member.
DrawIsPermutation == order \in Bijection(Slots, Slots)

\* A slot the loop has passed is never touched again, so the result does not
\* depend on when it is read once i is below it.
PassedSlotsAreFinal ==
  [][\A s \in Slots : s > i => order'[s] = order[s]]_vars
=============================================================================
