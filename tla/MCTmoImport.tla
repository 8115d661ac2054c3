---------------------------- MODULE MCTmoImport ----------------------------
(***************************************************************************)
(* The streams that TmoImport starts with: those of bootstrap_defaults, or *)
(* an imported trust-deed stream whose kind the form does not offer.       *)
(***************************************************************************)
EXTENDS TmoImport, TLC

Stream(kind, type) == [kind |-> kind, type |-> type, active |-> TRUE]

MCDatabases ==
    {<<Stream("tmo_trust", "mortgage_portfolio"), Stream("manual", "manual")>>,
     <<Stream("manual", "manual"),
       Stream("mortgage_portfolio", "mortgage_portfolio")>>}

Symmetry == Permutations(Editors) \cup Permutations(Payments)
=============================================================================
