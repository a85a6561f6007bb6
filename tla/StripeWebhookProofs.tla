------------------------ MODULE StripeWebhookProofs ------------------------
(***************************************************************************)
(* What the webhook guarantees for every number of events, handlers,       *)
(* aborts and repeats.  In any order of the deliveries, an answered event  *)
(* has been processed.  Delivered in order, no processed event is missing  *)
(* from the Subscription row and the row follows Stripe's history.         *)
(***************************************************************************)
EXTENDS StripeWebhook, TLAPS

(* A handler works on an event that Stripe has made.                       *)
WorksOnLog == \A h \in Handlers : Busy(h) => handler[h].id \in 1 .. Len(log)

(* Only a processed event is about to be answered.                         *)
AnswersDone ==
  \A h \in Handlers : handler[h].pc = "answer" => event[handler[h].id] = "processed"

AnyOrderInv == WebhookTypeOK /\ WorksOnLog /\ AnswersDone /\ AckedIsDone

----------------------------------------------------------------------------
(* Any order                                                               *)

LEMMA RowOfType ==
  ASSUME WebhookTypeOK, NEW i \in 1 .. Len(log)
  PROVE  /\ RowOf(i) \in Row
         /\ RowOf(i).from = i
<1>1. log[i] \in Event /\ i \in 0 .. MaxEvents
  BY WebhookAssumption DEF WebhookTypeOK
<1>2. PlanOf(log[i].price) \in Plan
  BY DEF PlanOf, Plan
<1>3. StatusOf(log[i].status) \in SubscriptionStatus
  BY DEF StatusOf, SubscriptionStatus
<1> QED
  BY <1>1, <1>2, <1>3 DEF RowOf, Row, Plan, SubscriptionStatus

LEMMA AnyOrderInit == Init => AnyOrderInv
BY WebhookAssumption DEF Init, AnyOrderInv, WebhookTypeOK, WorksOnLog, AnswersDone,
   AckedIsDone, Row, Plan, SubscriptionStatus, EventId, Handler, HandlerPc, Idle, Busy

LEMMA AnyOrderStep == AnyOrderInv /\ [Next]_vars => AnyOrderInv'
<1> SUFFICES ASSUME AnyOrderInv, [Next]_vars
             PROVE  AnyOrderInv'
  OBVIOUS
<1> USE WebhookAssumption DEF AnyOrderInv, WorksOnLog, AnswersDone, AckedIsDone, Busy
<1>1. ASSUME NEW e \in Events, Happens(e)
      PROVE  AnyOrderInv'
  <2>1. /\ log' \in Seq(Event)
        /\ Len(log') = Len(log) + 1
        /\ Len(log') <= MaxEvents
    BY <1>1 DEF Happens, WebhookTypeOK
  <2> QED
    BY <1>1, <2>1 DEF Happens, WebhookTypeOK
<1>2. ASSUME NEW h \in Handlers, NEW i \in DOMAIN log, Deliver(h, i) \/ Repeat(h, i)
      PROVE  AnyOrderInv'
  <2>1. i \in 1 .. Len(log) /\ i \in EventId /\ i \in 0 .. MaxEvents
    BY DEF WebhookTypeOK, EventId
  <2>2. Start(h, i) /\ repeats' \in Nat
    BY <1>2 DEF Deliver, Repeat, WebhookTypeOK
  <2>3. handler' = [handler EXCEPT ![h] = [pc |-> FirstPc(i), id |-> i]]
    BY <2>2 DEF Start
  <2>4. /\ FirstPc(i) \in HandlerPc
        /\ FirstPc(i) = "answer" => event[i] = "processed"
    BY DEF FirstPc, HandlerPc
  <2> QED
    BY <2>1, <2>2, <2>3, <2>4 DEF Start, WebhookTypeOK, Handler
<1>3. ASSUME NEW h \in Handlers, Upsert(h)
      PROVE  AnyOrderInv'
  BY <1>3 DEF Upsert, Go, WebhookTypeOK, Handler, HandlerPc, EventId
<1>4. ASSUME NEW h \in Handlers, Apply(h)
      PROVE  AnyOrderInv'
  <2>1. row' \in Row
    BY <1>4, RowOfType DEF Apply
  <2> QED
    BY <1>4, <2>1 DEF Apply, Go, WebhookTypeOK, Handler, HandlerPc
<1>5. ASSUME NEW h \in Handlers, Mark(h)
      PROVE  AnyOrderInv'
  <2>1. handler[h].id \in EventId /\ "answer" \in HandlerPc
    BY <1>5 DEF Mark, WebhookTypeOK, EventId, HandlerPc
  <2>2. handler' = [handler EXCEPT ![h].pc = "answer"] /\ UNCHANGED <<log, acked, row, aborts, repeats>>
    BY <1>5 DEF Mark, Go
  <2>3. event' = [event EXCEPT ![handler[h].id] = "processed"]
    BY <1>5 DEF Mark
  <2>4. WebhookTypeOK'
    BY <2>1, <2>2, <2>3 DEF WebhookTypeOK, Handler
  <2>5. \A g \in Handlers : handler'[g].id = handler[g].id /\ (Busy(g)' => Busy(g))
    BY <1>5, <2>2 DEF Mark, WebhookTypeOK, Handler
  <2>6. \A i \in EventId : event[i] = "processed" => event'[i] = "processed"
    BY <2>3 DEF WebhookTypeOK
  <2>7. WorksOnLog'
    BY <2>2, <2>5
  <2>8. AnswersDone'
    BY <2>1, <2>2, <2>3, <2>5, <2>6 DEF WebhookTypeOK, Handler, EventId
  <2>9. AckedIsDone'
    BY <2>2, <2>6 DEF WebhookTypeOK
  <2> QED
    BY <2>4, <2>7, <2>8, <2>9
<1>6. ASSUME NEW h \in Handlers, Answer(h)
      PROVE  AnyOrderInv'
  <2>1. handler[h].id \in EventId /\ event[handler[h].id] = "processed"
    BY <1>6 DEF Answer, WebhookTypeOK, EventId
  <2>2. handler' = [handler EXCEPT ![h] = Idle] /\ Idle \in Handler /\ Idle.pc = "idle"
    BY <1>6 DEF Answer, Idle, Handler, HandlerPc
  <2>3. acked' = acked \cup {handler[h].id} /\ UNCHANGED <<log, row, event, aborts, repeats>>
    BY <1>6 DEF Answer
  <2> QED
    BY <2>1, <2>2, <2>3 DEF WebhookTypeOK
<1>7. ASSUME NEW h \in Handlers, Abort(h)
      PROVE  AnyOrderInv'
  BY <1>7 DEF Abort, Idle, WebhookTypeOK, Handler, HandlerPc
<1>8. CASE UNCHANGED vars
  BY <1>8 DEF vars, WebhookTypeOK
<1> QED
  BY <1>1, <1>2, <1>3, <1>4, <1>5, <1>6, <1>7, <1>8 DEF Next, Handle

LEMMA AnyOrder == Spec => []AnyOrderInv
BY AnyOrderInit, AnyOrderStep, PTL DEF Spec

(* Every variable of the webhook keeps its type: the Subscription row only *)
(* ever holds plans and statuses of the schema.                            *)
THEOREM WebhookTypes == Spec => []WebhookTypeOK
<1>1. AnyOrderInv => WebhookTypeOK
  BY DEF AnyOrderInv
<1> QED
  BY <1>1, AnyOrder, PTL

(* However deliveries overlap, repeat or fail, an event is only answered   *)
(* 2xx, so that Stripe forgets it, when its row says that it is processed. *)
THEOREM AnsweredWasProcessed == Spec => []AckedIsDone
<1>1. AnyOrderInv => AckedIsDone
  BY DEF AnyOrderInv
<1> QED
  BY <1>1, AnyOrder, PTL

----------------------------------------------------------------------------
(* In order                                                                *)

Alone == \A h, k \in Handlers : Busy(h) /\ Busy(k) => h = k

EarlierAcked ==
  \A h \in Handlers : Busy(h) => \A j \in 1 .. (handler[h].id - 1) : j \in acked

(* A handler that is yet to write the row works on an unprocessed event.   *)
StillOpen ==
  \A h \in Handlers : handler[h].pc \in {"upsert", "apply"} => event[handler[h].id] # "processed"

(* One that has passed the row has written it.                             *)
HasWritten ==
  \A h \in Handlers :
    handler[h].pc = "mark" /\ Relevant(log[handler[h].id]) => row.from >= handler[h].id

(* All events older than the one in the row have been answered.            *)
RowAfterAcked == row.from <= Len(log) /\ \A j \in 1 .. (row.from - 1) : j \in acked

(* Events that Stripe has yet to make are not processed.                   *)
OnlyMade == \A i \in EventId : event[i] = "processed" => i \in 1 .. Len(log)

InOrderInv ==
  /\ AnyOrderInv
  /\ Alone /\ EarlierAcked /\ StillOpen /\ HasWritten /\ RowAfterAcked /\ OnlyMade
  /\ NothingSkipped

LEMMA InOrderInit == Init => InOrderInv
<1> SUFFICES ASSUME Init PROVE InOrderInv
  OBVIOUS
<1>1. AnyOrderInv
  BY AnyOrderInit
<1> QED
  BY <1>1 DEF Init, InOrderInv, Alone, EarlierAcked, StillOpen, HasWritten, RowAfterAcked,
     OnlyMade, NothingSkipped, Idle, Busy, EventId

(* The row never goes back: what Apply writes is not older than the row.   *)
LEMMA ApplyForward ==
  ASSUME InOrderInv, NEW h \in Handlers, Apply(h)
  PROVE  /\ row'.from = handler[h].id
         /\ handler[h].id \in 1 .. Len(log)
         /\ row.from <= handler[h].id
         /\ \A j \in 1 .. (handler[h].id - 1) : j \in acked
<1>1. handler[h].id \in 1 .. Len(log) /\ handler[h].pc = "apply"
  BY DEF InOrderInv, AnyOrderInv, WorksOnLog, Busy, Apply
<1>2. row'.from = handler[h].id
  BY <1>1, RowOfType DEF Apply, InOrderInv, AnyOrderInv
<1>3. handler[h].id \notin acked
  BY <1>1 DEF InOrderInv, AnyOrderInv, StillOpen, AckedIsDone
<1>4. row.from <= handler[h].id
  BY <1>1, <1>3, WebhookAssumption
     DEF InOrderInv, AnyOrderInv, RowAfterAcked, WebhookTypeOK, Row
<1> QED
  BY <1>1, <1>2, <1>4 DEF InOrderInv, EarlierAcked, Busy

LEMMA InOrderStep ==
  ASSUME InOrder, InOrderInv, [Next]_vars
  PROVE  InOrderInv'
<1>0. AnyOrderInv /\ AnyOrderInv' /\ WebhookTypeOK /\ WebhookTypeOK'
  BY AnyOrderStep DEF InOrderInv, AnyOrderInv
<1> USE WebhookAssumption
    DEF InOrderInv, Alone, EarlierAcked, StillOpen, HasWritten, RowAfterAcked, OnlyMade,
        NothingSkipped, Busy
<1>1. ASSUME NEW e \in Events, Happens(e)
      PROVE  InOrderInv'
  <2>1. /\ Len(log') = Len(log) + 1
        /\ \A i \in 1 .. Len(log) : log'[i] = log[i]
        /\ Len(log) \in Nat /\ Len(log') \in Nat
    BY <1>0, <1>1 DEF Happens, WebhookTypeOK
  <2>2. UNCHANGED <<acked, row, event, handler>>
    BY <1>1 DEF Happens
  <2>3. HasWritten'
    BY <1>0, <2>1, <2>2 DEF AnyOrderInv, WorksOnLog, Relevant
  <2>4. NothingSkipped'
    BY <1>0, <2>1, <2>2 DEF WebhookTypeOK, EventId, Relevant
  <2>5. RowAfterAcked' /\ OnlyMade'
    BY <1>0, <2>1, <2>2 DEF WebhookTypeOK, Row, EventId
  <2> QED
    BY <1>0, <2>2, <2>3, <2>4, <2>5
<1>2. ASSUME NEW h \in Handlers, NEW i \in DOMAIN log, Deliver(h, i) \/ Repeat(h, i)
      PROVE  InOrderInv'
  <2>1. /\ handler' = [handler EXCEPT ![h] = [pc |-> FirstPc(i), id |-> i]]
        /\ \A k \in Handlers : ~Busy(k)
        /\ \A j \in 1 .. (i - 1) : j \in acked
        /\ UNCHANGED <<log, acked, row, event>>
    BY <1>2 DEF Deliver, Repeat, Start, MayDeliver
  <2>2. /\ FirstPc(i) \in {"upsert", "answer"}
        /\ FirstPc(i) = "upsert" => event[i] # "processed"
    BY DEF FirstPc
  <2> QED
    BY <1>0, <2>1, <2>2 DEF WebhookTypeOK, Handler
<1>3. ASSUME NEW h \in Handlers, Upsert(h)
      PROVE  InOrderInv'
  <2>1. handler[h].id \in EventId /\ handler[h].pc = "upsert" /\ event[handler[h].id] # "processed"
    BY <1>0, <1>3 DEF Upsert, AnyOrderInv, WorksOnLog, WebhookTypeOK, EventId
  <2>2. /\ UNCHANGED <<log, acked, row>>
        /\ event' = [event EXCEPT ![handler[h].id] = event'[handler[h].id]]
        /\ event'[handler[h].id] # "processed"
    BY <1>0, <1>3, <2>1 DEF Upsert, WebhookTypeOK
  <2>3. /\ handler' = [handler EXCEPT ![h].pc = IF Relevant(log[handler[h].id]) THEN "apply" ELSE "mark"]
    BY <1>3 DEF Upsert, Go
  <2>4. \A k \in Handlers : k # h => handler'[k] = handler[k] /\ handler[k].pc = "idle"
    BY <1>0, <2>1, <2>3 DEF WebhookTypeOK
  <2>5. /\ handler'[h].id = handler[h].id
        /\ handler'[h].pc = "apply" \/ (handler'[h].pc = "mark" /\ ~Relevant(log[handler[h].id]))
    BY <1>0, <2>3 DEF WebhookTypeOK, Handler
  <2>6. HasWritten'
    BY <2>2, <2>4, <2>5 DEF Relevant
  <2>7. NothingSkipped' /\ OnlyMade' /\ RowAfterAcked'
    <3>1. \A i \in EventId : event'[i] = "processed" => event[i] = "processed"
      BY <1>0, <2>1, <2>2 DEF WebhookTypeOK
    <3>2. \A i \in DOMAIN log : i \in EventId
      BY <1>0 DEF WebhookTypeOK, EventId
    <3> QED
      BY <3>1, <3>2, <2>2 DEF Relevant
  <2>8. Alone' /\ EarlierAcked' /\ StillOpen'
    BY <2>1, <2>2, <2>4, <2>5
  <2> QED
    BY <1>0, <2>6, <2>7, <2>8
<1>4. ASSUME NEW h \in Handlers, Apply(h)
      PROVE  InOrderInv'
  <2>1. /\ row'.from = handler[h].id
        /\ handler[h].id \in 1 .. Len(log)
        /\ row.from <= handler[h].id
        /\ \A j \in 1 .. (handler[h].id - 1) : j \in acked
    BY <1>4, ApplyForward
  <2>2. /\ handler' = [handler EXCEPT ![h].pc = "mark"]
        /\ handler[h].pc = "apply"
        /\ UNCHANGED <<log, acked, event>>
    BY <1>4 DEF Apply, Go
  <2>3. \A k \in Handlers : k # h => handler[k].pc = "idle"
    BY <2>2
  <2>4. NothingSkipped' /\ RowAfterAcked' /\ OnlyMade'
    BY <1>0, <2>1, <2>2 DEF WebhookTypeOK, Row, Relevant
  <2> QED
    BY <1>0, <2>1, <2>2, <2>3, <2>4 DEF WebhookTypeOK, Handler
<1>5. ASSUME NEW h \in Handlers, Mark(h)
      PROVE  InOrderInv'
  <2>1. /\ handler' = [handler EXCEPT ![h].pc = "answer"]
        /\ handler[h].pc = "mark"
        /\ event' = [event EXCEPT ![handler[h].id] = "processed"]
        /\ UNCHANGED <<log, acked, row>>
    BY <1>5 DEF Mark, Go
  <2>2. \A k \in Handlers : k # h => handler[k].pc = "idle"
    BY <2>1
  <2>3. handler[h].id \in 1 .. Len(log) /\ handler[h].id \in EventId
    BY <1>0, <2>1 DEF AnyOrderInv, WorksOnLog, WebhookTypeOK, EventId
  <2>4. NothingSkipped' /\ OnlyMade'
    BY <1>0, <2>1, <2>3 DEF WebhookTypeOK, EventId, Relevant
  <2> QED
    BY <1>0, <2>1, <2>2, <2>3, <2>4 DEF WebhookTypeOK, Handler
<1>6. ASSUME NEW h \in Handlers, Answer(h)
      PROVE  InOrderInv'
  BY <1>0, <1>6 DEF Answer, Idle, WebhookTypeOK, Handler, Relevant
<1>7. ASSUME NEW h \in Handlers, Abort(h)
      PROVE  InOrderInv'
  BY <1>0, <1>7 DEF Abort, Idle, WebhookTypeOK, Handler, Relevant
<1>8. CASE UNCHANGED vars
  BY <1>0, <1>8 DEF vars, Relevant
<1> QED
  BY <1>1, <1>2, <1>3, <1>4, <1>5, <1>6, <1>7, <1>8 DEF Next, Handle

LEMMA InOrderAlways == ASSUME InOrder PROVE Spec => []InOrderInv
<1>1. InOrderInv /\ [Next]_vars => InOrderInv'
  BY InOrderStep
<1> QED
  BY <1>1, InOrderInit, PTL DEF Spec

(* Delivered in order, every processed event is in the Subscription row,   *)
(* or a later one is, whatever dies between the statements of a handler.   *)
THEOREM ProcessedIsInRow == ASSUME InOrder PROVE Spec => []NothingSkipped
<1>1. InOrderInv => NothingSkipped
  BY DEF InOrderInv
<1> QED
  BY <1>1, InOrderAlways, PTL

(* Delivered in order, every step of the webhook is a step of the abstract *)
(* history or leaves it as it is: the row only moves forward.              *)
THEOREM WebhookFollowsHistory == ASSUME InOrder PROVE Spec => FollowsHistory
<1>1. Init => History!Init
  BY DEF Init, History!Init
<1>2. ASSUME InOrderInv, [Next]_vars
      PROVE  [History!Next]_<<log, row.from>>
  <2>1. ASSUME NEW e \in Events, Happens(e)
        PROVE  History!Change
    BY <2>1, WebhookAssumption DEF Happens, History!Change
  <2>2. ASSUME NEW h \in Handlers, Apply(h)
        PROVE  History!CatchUp \/ UNCHANGED <<log, row.from>>
    <3>1. /\ row'.from = handler[h].id
          /\ handler[h].id \in 1 .. Len(log)
          /\ row.from <= handler[h].id
      BY <1>2, <2>2, ApplyForward
    <3>2. row.from \in Nat /\ Len(log) \in Nat /\ log' = log
      BY <1>2, <2>2, WebhookAssumption DEF Apply, InOrderInv, AnyOrderInv, WebhookTypeOK, Row
    <3> QED
      BY <3>1, <3>2 DEF History!CatchUp
  <2>3. ASSUME NEW h \in Handlers, Upsert(h) \/ Mark(h) \/ Answer(h) \/ Abort(h)
        PROVE  UNCHANGED <<log, row.from>>
    BY <2>3 DEF Upsert, Mark, Answer, Abort
  <2>4. ASSUME NEW h \in Handlers, NEW i \in DOMAIN log, Deliver(h, i) \/ Repeat(h, i)
        PROVE  UNCHANGED <<log, row.from>>
    BY <2>4 DEF Deliver, Repeat, Start
  <2>5. CASE UNCHANGED vars
    BY <2>5 DEF vars
  <2> QED
    BY <1>2, <2>1, <2>2, <2>3, <2>4, <2>5 DEF Next, Handle, History!Next
<1> QED
  BY <1>1, <1>2, InOrderAlways, PTL DEF Spec, FollowsHistory, History!Spec

=============================================================================
