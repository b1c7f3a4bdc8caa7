----------------------------- MODULE EventQueues -----------------------------
(* Events: the conditions and the audit events that raise them, the pool that *)
(* holds what an audit event tells, the event queue of every Subscription and *)
(* the notifications written from it. alarms_conditions.c, audit_events.c,    *)
(* notification.c and the event half of publish_due.c.                        *)
EXTENDS Integers, SequencesExt, FiniteSetsExt

CONSTANTS
  Sub,          \* the Subscription slots
  Condition,    \* the ids of conditions
  Items,        \* Items[s]: the event items of s in slot order, each the types its filter lets pass
  QueueSize,    \* MU_MAX_EVENT_QUEUE_SIZE
  PoolSize,     \* MU_MAX_AUDIT_PAYLOADS
  MaxConditions,\* MU_INTERN_MAX_CONDITIONS
  SeqNumbers,   \* the number of values of audit_pool_sequence, 2^32 in the code
  BodyLimit,    \* field lists the 1024 bytes of body_buf hold
  MaxEvents     \* bound on the events raised

VARIABLES
  conditions,   \* the condition table, in the order of allocation
  pool,         \* audit_pool
  poolNext,     \* audit_pool_next
  poolSeq,      \* audit_pool_sequence
  queue,        \* event_queue of every Subscription
  live,         \* the Subscriptions in use
  raised,       \* the number of events raised so far
  written,      \* written[s]: the event field lists of the notification just sent
  newest        \* newest[s]: the last event a notification of s carried

vars == <<conditions, pool, poolNext, poolSeq, queue, live, raised, written, newest>>

NoRef == [index |-> 0, seq |-> 0]

NoEvent == [id |-> 0, type |-> "none", ref |-> NoRef]

EmptyQueue == [cell |-> [k \in 0..QueueSize - 1 |-> NoEvent], head |-> 0, tail |-> 0, count |-> 0]

Init ==
  /\ conditions = <<>>
  /\ pool = [k \in 0..PoolSize - 1 |-> [seq |-> 0, about |-> 0]]
  /\ poolNext = 0
  /\ poolSeq = 0
  /\ queue = [s \in Sub |-> EmptyQueue]
  /\ live \in SUBSET Sub
  /\ raised = 0
  /\ written = [s \in Sub |-> <<>>]
  /\ newest = [s \in Sub |-> 0]

-----------------------------------------------------------------------------
MakeRoom(q) ==
  IF q.count >= QueueSize THEN [q EXCEPT !.head = (q.head + 1) % QueueSize, !.count = q.count - 1] ELSE q

(* mu_server_trigger_event for one Subscription. *)
Queued(q0, e) ==
  LET q == MakeRoom(q0)
  IN [q EXCEPT !.cell[q.tail] = e, !.tail = (q.tail + 1) % QueueSize, !.count = q.count + 1]

TriggerEvent(e) ==
  /\ raised < MaxEvents
  /\ raised' = raised + 1
  /\ queue' = [s \in Sub |-> IF s \in live THEN Queued(queue[s], e) ELSE queue[s]]

(* audit_pool_sequence passes over 0, the mark of an empty slot. *)
NextSeq == IF (poolSeq + 1) % SeqNumbers = 0 THEN 1 ELSE poolSeq + 1

Advanced(slot) == (slot + 1) % PoolSize

(* mu_raise_audit_event: the payload goes to the pool, a reference to the queues. *)
RaiseAudit(type) ==
  LET ref == [index |-> poolNext, seq |-> NextSeq]
  IN /\ pool' = [pool EXCEPT ![poolNext] = [seq |-> NextSeq, about |-> raised + 1]]
     /\ poolSeq' = NextSeq
     /\ poolNext' = Advanced(poolNext)
     /\ TriggerEvent([id |-> raised + 1, type |-> type, ref |-> ref])

NoAudit == UNCHANGED <<pool, poolNext, poolSeq, queue, raised>>

NoneWritten == [s \in Sub |-> <<>>]

Quiet == written' = NoneWritten /\ UNCHANGED <<live, newest>>

(* The application triggers an event of its own. *)
ApplicationEvent(type) ==
  /\ TriggerEvent([id |-> raised + 1, type |-> type, ref |-> NoRef])
  /\ UNCHANGED <<conditions, pool, poolNext, poolSeq>>
  /\ Quiet

(* Any of the services that audit what they did. *)
ServiceAudit ==
  /\ RaiseAudit("audit")
  /\ UNCHANGED conditions
  /\ Quiet

-----------------------------------------------------------------------------
NewCondition(c) ==
  [id |-> c, active |-> FALSE, acked |-> FALSE, confirmed |-> FALSE, retain |-> FALSE, dialog |-> FALSE, mask |-> {}]

Known(c) == \E i \in DOMAIN conditions : conditions[i].id = c

(* find_or_allocate_condition: the table with c in it, if there is room. *)
WithCondition(c) ==
  IF Known(c) \/ Len(conditions) >= MaxConditions THEN conditions ELSE Append(conditions, NewCondition(c))

At(t, c) == CHOOSE i \in DOMAIN t : t[i].id = c

(* mu_alarms_set_active on a condition whose state changes. *)
Activated(r, on) ==
  [r EXCEPT !.active = on, !.acked = r.acked /\ ~on, !.retain = IF on THEN TRUE ELSE r.retain /\ ~r.acked]

SetActive(c, on) ==
  LET t == WithCondition(c)
      i == At(t, c)
      changes == t[i].active # on
  IN /\ \E k \in DOMAIN t : t[k].id = c
     /\ conditions' = IF changes THEN [t EXCEPT ![i] = Activated(t[i], on)] ELSE t
     /\ IF changes THEN RaiseAudit("condition") ELSE NoAudit
     /\ Quiet

(* mu_alarms_trigger_dialog. *)
TriggerDialog(c, mask) ==
  LET t == WithCondition(c)
  IN /\ \E k \in DOMAIN t : t[k].id = c
     /\ conditions' = [t EXCEPT ![At(t, c)].dialog = TRUE, ![At(t, c)].mask = mask,
                                ![At(t, c)].active = TRUE, ![At(t, c)].retain = TRUE]
     /\ RaiseAudit("condition")
     /\ Quiet

(* Acknowledge, Respond and Confirm of mu_alarms_conditions_method_dispatch. *)
Acknowledge(c) ==
  LET i == At(conditions, c)
  IN /\ Known(c)
     /\ ~conditions[i].acked
     /\ conditions' = [conditions EXCEPT ![i].acked = TRUE,
                                         ![i].retain = conditions[i].retain /\ conditions[i].active]
     /\ RaiseAudit("condition")
     /\ Quiet

Respond(c, response) ==
  LET i == At(conditions, c)
  IN /\ Known(c)
     /\ conditions[i].dialog /\ conditions[i].active
     /\ response \in conditions[i].mask
     /\ conditions' = [conditions EXCEPT ![i].active = FALSE, ![i].retain = FALSE]
     /\ RaiseAudit("condition")
     /\ Quiet

Confirm(c) ==
  LET i == At(conditions, c)
  IN /\ Known(c)
     /\ ~conditions[i].confirmed
     /\ conditions' = [conditions EXCEPT ![i].confirmed = TRUE]
     /\ RaiseAudit("condition")
     /\ Quiet

-----------------------------------------------------------------------------
(* The events of a queue, oldest first. *)
Entries(q) == [k \in 1..q.count |-> q.cell[(q.head + k - 1) % QueueSize]]

(* Mutant: whatever lies in the slot is taken for the payload. *)
ResolvesAny(ref) == ref.seq # 0

(* resolve_audit_payload: the slot still holds what was stored for ref. *)
Resolves(ref) == ref.seq # 0 /\ pool[ref.index].seq = ref.seq

(* mu_event_notification_resolve_field: what the audit fields tell, 0 for Null. *)
Told(e) == IF Resolves(e.ref) THEN pool[e.ref.index].about ELSE 0

(* The waiting events an item's filter lets pass. *)
Passed(q, types) == SelectSeq(Entries(q), LAMBDA e : e.type \in types)

(* write_event_notification_list: the field lists of one item after another. *)
FieldLists(s) ==
  FlattenSeq([k \in DOMAIN Items[s] |->
    LET passed == Passed(queue[s], Items[s][k])
    IN [j \in DOMAIN passed |-> [item |-> k, id |-> passed[j].id, told |-> Told(passed[j]), ref |-> passed[j].ref]]])

SentQueue(q) == [q EXCEPT !.head = 0, !.tail = 0, !.count = 0]

(* publish_due with a queued Publish request: lists that do not fit are       *)
(* answered with a fault, and after a failed send the queue is kept as well.  *)
Publish(s, sent) ==
  LET lists == FieldLists(s)
      ok == sent /\ Len(lists) <= BodyLimit
  IN /\ s \in live
     /\ queue[s].count > 0
     /\ queue' = IF ok THEN [queue EXCEPT ![s] = SentQueue(queue[s])] ELSE queue
     /\ written' = IF ok THEN [NoneWritten EXCEPT ![s] = lists] ELSE NoneWritten
     /\ newest' = IF ok THEN [newest EXCEPT ![s] = raised] ELSE newest
     /\ UNCHANGED <<conditions, pool, poolNext, poolSeq, live, raised>>

(* A Subscription is created in a cleared slot, and deleted. *)
CreateSubscription(s) ==
  /\ s \notin live
  /\ live' = live \cup {s}
  /\ queue' = [queue EXCEPT ![s] = EmptyQueue]
  /\ written' = NoneWritten
  /\ newest' = [newest EXCEPT ![s] = raised]
  /\ UNCHANGED <<conditions, pool, poolNext, poolSeq, raised>>

DeleteSubscription(s) ==
  /\ s \in live
  /\ live' = live \ {s}
  /\ written' = NoneWritten
  /\ UNCHANGED <<conditions, pool, poolNext, poolSeq, queue, raised, newest>>

Next ==
  \/ ApplicationEvent("base")
  \/ ServiceAudit
  \/ \E c \in Condition, on \in BOOLEAN : SetActive(c, on)
  \/ \E c \in Condition : TriggerDialog(c, {1})
  \/ \E c \in Condition : Acknowledge(c)
  \/ \E c \in Condition, r \in {0, 1} : Respond(c, r)
  \/ \E c \in Condition : Confirm(c)
  \/ \E s \in Sub, sent \in BOOLEAN : Publish(s, sent)
  \/ \E s \in Sub : CreateSubscription(s)
  \/ \E s \in Sub : DeleteSubscription(s)

Spec == Init /\ [][Next]_vars

-----------------------------------------------------------------------------
(* The audit fields a notification carries are those of its own event or      *)
(* Null: when the pool has wrapped past a reference that still waits in a     *)
(* queue, the sequence stamp gives it away, also once the stamp itself has    *)
(* wrapped around.                                                            *)
AuditOwn == \A s \in Sub : \A k \in DOMAIN written[s] : written[s][k].told \in {0, written[s][k].id}

AuditCompleteStep ==
  \A s \in Sub : written'[s] # written[s] =>
    \A k \in DOMAIN written'[s] :
      written'[s][k].ref # NoRef /\ raised - written'[s][k].id < PoolSize
        => written'[s][k].told = written'[s][k].id

(* An event field list that names an audit event no newer than PoolSize       *)
(* events is complete: its payload is still in the pool when it is written.   *)
AuditComplete == [][AuditCompleteStep]_vars

(* The queue of a Subscription holds the latest events since its last         *)
(* notification, in order and without a gap, at every wrap of head and tail.  *)
LatestEvents ==
  \A s \in live :
    LET e == Entries(queue[s])
        n == Len(e)
    IN /\ n = Min({QueueSize, raised - newest[s]})
       /\ \A k \in 1..n : e[k].id = raised - n + k

EventsOnceStep ==
  \A s \in Sub : written'[s] # written[s] =>
    \A k \in DOMAIN written'[s] :
      /\ s \in live => written'[s][k].id > newest[s]
      /\ \A j \in 1..k - 1 : written'[s][j].item = written'[s][k].item => written'[s][j].id < written'[s][k].id

(* An event item gets an event at most once and never an older one after a    *)
(* newer one, whatever fault or failed send came between.                     *)
EventsOnce == [][EventsOnceStep]_vars

RetainedUntilSettledStep ==
  \A i \in DOMAIN conditions :
    conditions[i].retain /\ ~conditions'[i].retain =>
      ~conditions'[i].active /\ (conditions'[i].acked \/ conditions[i].dialog)

(* An alarm is kept until it is both inactive and acknowledged, in whichever  *)
(* order that happens; only the answer to a dialog ends it at once.           *)
RetainedUntilSettled == [][RetainedUntilSettledStep]_vars

EventsFaithfulStep ==
  AuditOwn' /\ LatestEvents' /\ AuditCompleteStep /\ EventsOnceStep /\ RetainedUntilSettledStep

(* Queues hold the latest events, notifications carry them once and in order,  *)
(* with the audit fields of their own event as long as the pool keeps them,    *)
(* and a condition is retained until it is settled.                            *)
EventsFaithful == [][EventsFaithfulStep]_vars
=============================================================================
