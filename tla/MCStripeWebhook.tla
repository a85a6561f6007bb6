-------------------------- MODULE MCStripeWebhook --------------------------
(* Small instances of the webhook.                                         *)
EXTENDS StripeWebhook

MCEvent(type, price, status) == [type |-> type, price |-> price, status |-> status, org |-> TRUE]

(* A subscription that is created, changes its price or falls behind, and  *)
(* is deleted; a change that does not name the organization; an invoice.   *)
MCEvents ==
  {MCEvent("created", "pro", "active"), MCEvent("created", "starter", "trialing"),
   MCEvent("updated", "business", "past_due"), MCEvent("updated", "legacy", "active"),
   MCEvent("deleted", "business", "canceled"),
   [MCEvent("updated", "pro", "active") EXCEPT !.org = FALSE],
   MCEvent("other", "pro", "active")}

=============================================================================
