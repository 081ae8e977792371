----------------------------- MODULE MCEmailIngest -----------------------------
(* Ids for model checking EmailIngest.                                     *)
EXTENDS EmailIngest

OneId    == 1..1
ThreeIds == 1..3
=============================================================================
