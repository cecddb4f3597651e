--------------------------- MODULE MCEmailNotify ---------------------------
(* A drawn order that is not the order of arrival. *)
EXTENDS EmailNotify

Drawn == [c \in Seats |-> MembersTarget - 1 - c]
=============================================================================
