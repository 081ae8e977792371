------------------------------ MODULE MCSessions ------------------------------
(* One app with two calls at a time.                                       *)
EXTENDS Sessions

TokenIds   == 1..5
RequestIds == 1..4
CallIds    == {1, 2}
=============================================================================
