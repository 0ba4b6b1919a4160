------------------------------ MODULE MCAccount ------------------------------
(* Account with an account without and one with a second factor, and a     *)
(* phone that has no account.                                              *)
EXTENDS Account
=============================================================================
