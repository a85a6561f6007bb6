--------------------------- MODULE StripeWebhook ---------------------------
(***************************************************************************)
(* POST /webhooks/stripe: Stripe sends an event for every change of an     *)
(* organization's subscription, again and again until the handler answers  *)
(* 2xx, and possibly once more after that.  A handler looks for the        *)
(* WebhookEvent row of the event, upserts it, writes the Subscription row  *)
(* and marks the event processed, each in a statement of its own.          *)
(*                                                                         *)
(* Stripe keeps no order between events and does not wait for a delivery   *)
(* before it starts the next.  With InOrder it is taken to do both.        *)
(***************************************************************************)
EXTENDS Naturals, Sequences

CONSTANTS
  Handlers,       \* handlers that can run at the same time
  Prices,         \* price ids
  ProPrice, BusinessPrice, StarterPrice,  \* those the configuration names
  Events,         \* events Stripe may make
  InOrder,        \* whether deliveries come one by one, oldest first
  MaxEvents,      \* bound: events Stripe makes
  MaxAborts,      \* bound: handlers that throw, die, or whose answer is lost
  MaxRepeats      \* bound: deliveries of events already answered

(* customer.subscription.created, updated, deleted, or anything else.      *)
EventType == {"created", "updated", "deleted", "other"}

(* What Stripe calls them; every other status is treated as "trialing".    *)
StripeStatus == {"active", "past_due", "canceled", "trialing"}

(* org: the subscription's metadata name the organization.                 *)
Event == [type : EventType, price : Prices, status : StripeStatus, org : BOOLEAN]

ASSUME WebhookAssumption ==
  /\ {ProPrice, BusinessPrice, StarterPrice} \subseteq Prices
  /\ Events \subseteq Event
  /\ InOrder \in BOOLEAN
  /\ MaxEvents \in Nat /\ MaxAborts \in Nat /\ MaxRepeats \in Nat

VARIABLES
  log,      \* the events Stripe has made, in the order of its changes
  acked,    \* those answered 2xx
  row,      \* the Subscription row
  event,    \* the WebhookEvent rows
  handler,  \* the running handlers
  aborts,   \* aborts so far
  repeats   \* repeats so far

vars == <<log, acked, row, event, handler, aborts, repeats>>

----------------------------------------------------------------------------
(* Types                                                                   *)

Plan == {"FREE", "STARTER", "BUSINESS", "PRO"}

SubscriptionStatus == {"TRIALING", "ACTIVE", "PAST_DUE", "CANCELLED", "EXPIRED"}

EventId == 1 .. MaxEvents

(* from: the event the row was last written from, 0 for none.              *)
Row == [plan : Plan, status : SubscriptionStatus, from : 0 .. MaxEvents]

HandlerPc == {"idle", "upsert", "apply", "mark", "answer"}

Handler == [pc : HandlerPc, id : 0 .. MaxEvents]

Idle == [pc |-> "idle", id |-> 0]

WebhookTypeOK ==
  /\ log \in Seq(Event) /\ Len(log) <= MaxEvents
  /\ acked \subseteq EventId
  /\ row \in Row
  /\ event \in [EventId -> {"absent", "seen", "processed"}]
  /\ handler \in [Handlers -> Handler]
  /\ aborts \in Nat /\ repeats \in Nat

(* Registration gives every organization a free plan.                      *)
Init ==
  /\ log = <<>> /\ acked = {}
  /\ row = [plan |-> "FREE", status |-> "ACTIVE", from |-> 0]
  /\ event = [i \in EventId |-> "absent"]
  /\ handler = [h \in Handlers |-> Idle]
  /\ aborts = 0 /\ repeats = 0

----------------------------------------------------------------------------
(* Stripe                                                                  *)

Kinds == {log[i].type : i \in DOMAIN log}

(* A subscription is created once, changes, and ends when it is deleted.   *)
Happens(e) ==
  /\ Len(log) < MaxEvents
  /\ e.type \in {"updated", "deleted"} => "created" \in Kinds /\ "deleted" \notin Kinds
  /\ e.type = "created" => "created" \notin Kinds
  /\ e.type = "deleted" => e.status = "canceled"
  /\ log' = Append(log, e)
  /\ UNCHANGED <<acked, row, event, handler, aborts, repeats>>

Busy(h) == handler[h].pc # "idle"

(* In order: nothing else is running, and all earlier events are answered. *)
MayDeliver(i) ==
  InOrder => /\ \A h \in Handlers : ~Busy(h)
             /\ \A j \in 1 .. (i - 1) : j \in acked

----------------------------------------------------------------------------
(* The handler                                                             *)

Go(h, pc) == handler' = [handler EXCEPT ![h].pc = pc]

(* Variant of FirstPc that takes a row for the event as proof enough.      *)
FirstPcSeen(i) == IF event[i] = "absent" THEN "upsert" ELSE "answer"

(* Variant of FirstPc that looks for nothing.                              *)
FirstPcAlways(i) == "upsert"

(* findUnique: an event that has been processed is answered at once.       *)
FirstPc(i) == IF event[i] = "processed" THEN "answer" ELSE "upsert"

Start(h, i) ==
  /\ ~Busy(h) /\ MayDeliver(i)
  /\ handler' = [handler EXCEPT ![h] = [pc |-> FirstPc(i), id |-> i]]
  /\ UNCHANGED <<log, acked, row, event, aborts>>

Deliver(h, i) == i \notin acked /\ Start(h, i) /\ UNCHANGED repeats

Repeat(h, i) ==
  /\ i \in acked /\ repeats < MaxRepeats
  /\ Start(h, i)
  /\ repeats' = repeats + 1

(* Events about the subscription of an organization change the row.        *)
Relevant(e) == e.type # "other" /\ e.org

(* Variant of Upsert that sets processedAt when it creates the row.        *)
UpsertProcessed(h) ==
  /\ handler[h].pc = "upsert"
  /\ event' = [event EXCEPT ![handler[h].id] = "processed"]
  /\ Go(h, IF Relevant(log[handler[h].id]) THEN "apply" ELSE "mark")
  /\ UNCHANGED <<log, acked, row, aborts, repeats>>

Upsert(h) ==
  /\ handler[h].pc = "upsert"
  /\ event' = [event EXCEPT ![handler[h].id] = IF @ = "absent" THEN "seen" ELSE @]
  /\ Go(h, IF Relevant(log[handler[h].id]) THEN "apply" ELSE "mark")
  /\ UNCHANGED <<log, acked, row, aborts, repeats>>

PlanOf(price) ==
  CASE price = ProPrice -> "PRO"
    [] price # ProPrice /\ price = BusinessPrice -> "BUSINESS"
    [] price \notin {ProPrice, BusinessPrice} /\ price = StarterPrice -> "STARTER"
    [] OTHER -> "FREE"

StatusOf(st) ==
  CASE st = "active" -> "ACTIVE"
    [] st = "past_due" -> "PAST_DUE"
    [] st = "canceled" -> "CANCELLED"
    [] OTHER -> "TRIALING"

(* Variant of RowOf that keeps Stripe's name of the status.                *)
RowRaw(i) == [plan |-> PlanOf(log[i].price), status |-> log[i].status, from |-> i]

(* Variant of RowOf that treats a deleted subscription like a changed one. *)
RowKept(i) == [plan |-> PlanOf(log[i].price), status |-> StatusOf(log[i].status), from |-> i]

RowOf(i) ==
  LET e == log[i]
  IN  [plan   |-> IF e.type = "deleted" THEN "FREE" ELSE PlanOf(e.price),
       status |-> IF e.type = "deleted" THEN "CANCELLED" ELSE StatusOf(e.status),
       from   |-> i]

(* subscription.update does not look at what the row holds.                *)
Apply(h) ==
  /\ handler[h].pc = "apply"
  /\ row' = RowOf(handler[h].id)
  /\ Go(h, "mark")
  /\ UNCHANGED <<log, acked, event, aborts, repeats>>

Mark(h) ==
  /\ handler[h].pc = "mark"
  /\ event' = [event EXCEPT ![handler[h].id] = "processed"]
  /\ Go(h, "answer")
  /\ UNCHANGED <<log, acked, row, aborts, repeats>>

Answer(h) ==
  /\ handler[h].pc = "answer"
  /\ acked' = acked \cup {handler[h].id}
  /\ handler' = [handler EXCEPT ![h] = Idle]
  /\ UNCHANGED <<log, row, event, aborts, repeats>>

(* An await rejects, the process dies, or Stripe never sees the answer.    *)
Abort(h) ==
  /\ Busy(h) /\ aborts < MaxAborts
  /\ aborts' = aborts + 1
  /\ handler' = [handler EXCEPT ![h] = Idle]
  /\ UNCHANGED <<log, acked, row, event, repeats>>

Handle(h) == Upsert(h) \/ Apply(h) \/ Mark(h) \/ Answer(h)

Next ==
  \/ \E e \in Events : Happens(e)
  \/ \E h \in Handlers, i \in DOMAIN log : Deliver(h, i) \/ Repeat(h, i)
  \/ \E h \in Handlers : Handle(h) \/ Abort(h)

Spec == Init /\ [][Next]_vars

(* Handlers run on, and Stripe delivers what has not been answered.        *)
Fairness ==
  /\ \A h \in Handlers : WF_vars(Handle(h))
  /\ \A i \in EventId : WF_vars(i \in DOMAIN log /\ \E h \in Handlers : Deliver(h, i))

FairSpec == Spec /\ Fairness

----------------------------------------------------------------------------
(* Properties                                                              *)

(* Whatever order events come in, and however often handlers die: an event *)
(* Stripe will not send again has been processed to the end.               *)
AckedIsDone == \A i \in acked : event[i] = "processed"

(* Delivered in order, no processed event is missing from the row: it was  *)
(* written from that event or a later one.                                 *)
NothingSkipped ==
  \A i \in DOMAIN log :
    event[i] = "processed" /\ Relevant(log[i]) => row.from >= i

(* Delivered in order, the row only moves forward in the history of the    *)
(* subscription, although handlers die between any two statements and      *)
(* events they have already applied are delivered again.                   *)
History == INSTANCE SubscriptionHistory WITH State <- Event, past <- log, at <- row.from

FollowsHistory == History!Spec

(* When Stripe's changes are over, the organization ends up with the plan  *)
(* it pays for, and without one once the subscription is deleted.          *)
Settled ==
  \A i \in DOMAIN log :
    /\ Relevant(log[i])
    /\ \A j \in DOMAIN log : j > i => ~Relevant(log[j])
    => row.plan = IF log[i].type = "deleted" THEN "FREE" ELSE PlanOf(log[i].price)

SettlesOnTruth == <>[]Settled

=============================================================================
