------------------------------ MODULE MCConsole ------------------------------
(***************************************************************************)
(* Two people, one of whom the script makes an administrator, and one name *)
(* for what they create.                                                   *)
(***************************************************************************)
EXTENDS Console, TLC

CONSTANTS ann, root, web

MCBaseSlug == [n \in Names |-> "workspace"]
MCOffers == {<<"PRO", "CANCELLED">>}
=============================================================================
