----------------------------- MODULE MCAccounts ------------------------------
(***************************************************************************)
(* Two people and one name, so that requests meet at an address and at a   *)
(* slug.                                                                   *)
(***************************************************************************)
EXTENDS Accounts, TLC

CONSTANTS ann, root

MCBaseSlug == [n \in Names |-> "workspace"]
MCOffers == {<<"PRO", "CANCELLED">>}
=============================================================================
