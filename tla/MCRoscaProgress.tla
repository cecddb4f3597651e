--------------------------- MODULE MCRoscaProgress ---------------------------
(* Small instances of RoscaProgress for TLC; the wallets are MCRoscaPool's.     *)
EXTENDS RoscaProgress, MCRoscaPool
=============================================================================
