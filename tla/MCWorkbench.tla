----------------------------- MODULE MCWorkbench -----------------------------
(***************************************************************************)
(* Two submits, so that one may fail or be left behind while another runs. *)
(***************************************************************************)
EXTENDS Workbench, TLC
=============================================================================
