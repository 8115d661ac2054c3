------------------------------ MODULE Optional ------------------------------
(***************************************************************************)
(* The absent value that the modules share: None of an Option, NULL of a   *)
(* column.                                                                 *)
(***************************************************************************)
CONSTANT None
=============================================================================
