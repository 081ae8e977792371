------------------------------ MODULE MCAccounts ------------------------------
(* Two accounts, worked on by two requests at a time.                      *)
EXTENDS Accounts

UserIds == 1..2
CodeIds == 1..2
=============================================================================
