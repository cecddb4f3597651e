---------------------------- MODULE MCWebClient ----------------------------
(* A drawn order that is not the order of arrival. *)
EXTENDS WebClient

Drawn == [c \in Seats |-> MembersTarget - 1 - c]
=============================================================================
