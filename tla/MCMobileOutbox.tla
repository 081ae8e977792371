--------------------------- MODULE MCMobileOutbox ---------------------------
(* Values for model checking MobileOutbox. *)
EXTENDS MobileOutbox

TwoFields   == {"is_favorite", "status"}

=============================================================================
