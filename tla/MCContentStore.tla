--------------------------- MODULE MCContentStore ---------------------------
(***************************************************************************)
(* Two users, a feed whose item has two versions, a page.                  *)
(***************************************************************************)
EXTENDS ContentStore
=============================================================================
