----------------------------- MODULE ItemQueues -----------------------------
(* MonitoredItems seen as ReportQueue: an item's queue is what its ring       *)
(* holds, in order, and a message is the slot and the report of each entry of *)
(* the notification sent last.                                                *)
EXTENDS MonitoredItems

(* The rings and the notifications implement the queues of ReportQueue.       *)
Queues ==
  INSTANCE ReportQueue WITH
    Place <- Slot,
    Report <- [v : Value \cup {Null}, st : {"good", "bad"}, ovf : {FALSE}],
    owner <- [s \in Slot |-> item[s].id],
    list <- [s \in Slot |-> Reports(item[s].ring)],
    size <- [s \in Slot |-> item[s].ring.size],
    discard <- [s \in Slot |-> item[s].ring.discard],
    message <- [k \in 1 .. Len(sent) |-> [place |-> sent[k].slot, report |-> sent[k].report]]

QueuesImplemented == Queues!Spec

=============================================================================
