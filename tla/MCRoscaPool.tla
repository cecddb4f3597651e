---------------------------- MODULE MCRoscaPool ----------------------------
(***************************************************************************)
(* Small instances of RoscaPool for TLC.                                   *)
(***************************************************************************)
EXTENDS RoscaPool

\* Wallets that cover the stake and every installment of the pool.
Ample == [s \in 0 .. MembersTarget - 1 |->
            CreditAmount + MembersTarget * InstallmentAmount]

\* Only seat 1 can pay every installment by itself; the others can pay their
\* stake and one installment, and more once they have received the credit.
Tight == [s \in 0 .. MembersTarget - 1 |->
            IF s = 1 THEN CreditAmount + MembersTarget * InstallmentAmount
                     ELSE CreditAmount \div 2 + InstallmentAmount]
=============================================================================
