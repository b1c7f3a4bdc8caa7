--------------------------- MODULE MonitoredItems ---------------------------
(* The data MonitoredItems of one Subscription: CreateMonitoredItems,         *)
(* ModifyMonitoredItems, SetMonitoringMode, SetTriggering and                 *)
(* DeleteMonitoredItems, the ResendData method, semantic changes, and the     *)
(* tick that samples every item and then builds and empties a notification.   *)
(* subscription/basic/{monitored_items,subscription_helpers,tick,             *)
(* subscription_monitor,deadband,notification,publish_due}.c and              *)
(* subscription/standard/{triggering,subscription_aggregate}.c, in the build  *)
(* with MUC_OPCUA_CU_SUBSCRIPTION_STANDARD.                                   *)
(*                                                                            *)
(* Sampling and publishing timers are abstracted to a choice: any item may be *)
(* due at any tick. A tick is three steps, the sampling and the two halves of *)
(* publish_due; no request is handled before it is over.                      *)
EXTENDS ReportRing, FiniteSets

CONSTANTS
  NItems,       \* MU_INTERN_MAX_MONITORED_ITEMS
  MaxLinks,     \* MU_INTERN_MAX_TRIGGER_LINKS
  Node,         \* Variables whose Value is monitored
  Value,        \* their values, named by numbers
  Texts,        \* those that are strings or arrays and no numbers
  Limits,       \* max_notifications_per_publish, 0 for none
  Sizes,        \* queue sizes clients ask for
  Discards,     \* values of discardOldest clients ask for
  Deadbands,    \* absolute deadbands clients ask for, 0 for none
  Triggers,     \* DataChangeFilter triggers clients ask for
  Modes,        \* monitoring modes clients ask for
  Created,      \* how many items there may be at the start
  MaxId,        \* bound on the ids handed out
  MaxSteps      \* bound on the requests and the changes of values

ASSUME ItemsAssumption ==
  /\ NItems \in Nat
  /\ MaxLinks \in Nat
  /\ Node # {}
  /\ Value \subseteq Int \ {-1, -2}
  /\ Texts \subseteq Value
  /\ Limits \subseteq Nat
  /\ Sizes \subseteq Nat
  /\ Discards \subseteq BOOLEAN
  /\ Modes \subseteq {"disabled", "sampling", "reporting"}
  /\ Created \subseteq 0 .. NItems

VARIABLES
  item,      \* subs.monitored_items
  nextId,    \* subs.next_monitored_item_id
  active,    \* subs.active_monitored_items_count
  limit,     \* max_notifications_per_publish
  enabled,   \* publishing_enabled
  resend,    \* resend_data_pending
  more,      \* more_notifications
  source,    \* what reading each Variable returns
  phase,     \* how far the tick has come
  bitmap,    \* subs.reportable_bitmap
  sent,      \* the values the last step put into a notification
  told,      \* what the client of each item was last sent
  resized,   \* some queue was resized while it held reports
  reenabled, \* some item was enabled again while it held reports, or its read failed
  steps      \* how many requests and changes of values there were

subVars == <<limit, enabled, resend, more>>
ghosts == <<told, resized, reenabled, steps>>
vars == <<item, nextId, active, subVars, source, phase, bitmap, sent, ghosts>>

Slot == 1 .. NItems

(* MU_TYPE_NULL, what a failed read leaves in the Variant; no number of Value. *)
Null == -1

Bad == [v |-> Null, st |-> "bad"]

Reading == [v : Value, st : {"good"}] \cup {Bad}

AsReport(reading) == [v |-> reading.v, st |-> reading.st, ovf |-> FALSE]

Free ==
  [used |-> FALSE, id |-> 0, node |-> CHOOSE n \in Node : TRUE, mode |-> "disabled",
   trigger |-> "status", deadband |-> 0, hasValue |-> FALSE, pending |-> FALSE,
   semantics |-> FALSE, hasReported |-> FALSE, last |-> Bad, lastNumber |-> 0,
   ring |-> EmptyRing(1, FALSE), links |-> {}]

(* configure_monitored_item reads the value at once; a good one is owed to    *)
(* the client.                                                                *)
Configured(id, node, mode, size, discard, deadband, trigger) ==
  [Free EXCEPT !.used = TRUE, !.id = id, !.node = node, !.mode = mode,
               !.trigger = trigger, !.deadband = deadband,
               !.hasValue = source[node].st = "good", !.pending = source[node].st = "good",
               !.last = source[node], !.ring = EmptyRing(size, discard)]

(* The server has just started, or a few items have just been created. *)
Init ==
  /\ source \in [Node -> Reading]
  /\ \E k \in Created, n \in [Slot -> Node], m \in [Slot -> Modes], z \in Sizes, d \in Discards,
        b \in Deadbands, t \in Triggers :
       /\ item = [s \in Slot |-> IF s <= k THEN Configured(s, n[s], m[s], z, d, b, t) ELSE Free]
       /\ nextId = k + 1
       /\ active = k
  /\ limit \in Limits
  /\ enabled = TRUE
  /\ resend = FALSE
  /\ more = FALSE
  /\ phase = "idle"
  /\ bitmap = {}
  /\ sent = <<>>
  /\ told = [s \in Slot |-> Bad]
  /\ resized = FALSE
  /\ reenabled = FALSE
  /\ steps = 0

-----------------------------------------------------------------------------
(* Samples and reports. *)

Abs(n) == IF n < 0 THEN -n ELSE n

IsNumber(v) == v # Null /\ v \notin Texts

(* A reading that is no number leaves last_reported_numeric as it was. *)
RecordReported(it, reading) ==
  [it EXCEPT !.hasReported = TRUE,
             !.lastNumber = IF IsNumber(reading.v) THEN reading.v ELSE it.lastNumber]

Enqueue(it, reading) ==
  LET ring == EnqueueReport(it.ring, AsReport(reading))
  IN [RecordReported(it, reading) EXCEPT !.ring = ring, !.pending = ring.count > 0]

(* Mutant: what is owed is noted as reported and not queued. *)
PreparePendingNever(it) == IF it.hasValue /\ ~it.hasReported THEN RecordReported(it, it.last) ELSE it

(* A report that is owed (pending) but not in the queue is put there. *)
PreparePendingQueue(it) ==
  IF it.pending /\ it.ring.count = 0 /\ it.hasValue THEN Enqueue(it, it.last)
  ELSE IF it.hasValue /\ ~it.hasReported THEN RecordReported(it, it.last)
  ELSE it

(* variant_scalar_equal compares numbers alone: a string, an array and the     *)
(* Null of a failed read differ from everything, from themselves as well.      *)
ScalarEqual(v, w) == IsNumber(v) /\ v = w

SampleChanged(it, reading) ==
  \/ reading.st # it.last.st
  \/ it.trigger # "status" /\ ~ScalarEqual(reading.v, it.last.v)

(* Without a deadband every change of the number counts. *)
ChangeReportable(it, reading) ==
  \/ ~it.hasReported
  \/ reading.st # it.last.st
  \/ ~IsNumber(reading.v)
  \/ ~IsNumber(it.last.v)
  \/ LET diff == Abs(reading.v - it.lastNumber)
     IN IF it.deadband > 0 THEN diff >= it.deadband ELSE diff > 0

(* Mutant: the sample is remembered though the filter holds it back. *)
SampledAlways(it, reading) ==
  IF ~it.hasValue \/ (SampleChanged(it, reading) /\ ChangeReportable(it, reading))
  THEN Enqueue([it EXCEPT !.hasValue = TRUE, !.last = reading], reading)
  ELSE [it EXCEPT !.last = reading]

(* The first sample is a report; later ones are if the filter lets them pass. *)
Sampled(it, reading) ==
  IF ~it.hasValue \/ (SampleChanged(it, reading) /\ ChangeReportable(it, reading))
  THEN Enqueue([it EXCEPT !.hasValue = TRUE, !.last = reading], reading)
  ELSE it

Sample(it) ==
  LET owed == it.hasValue /\ (~it.hasReported \/ (it.pending /\ it.ring.count = 0))
  IN Sampled(IF owed THEN PreparePendingQueue(it) ELSE it, source[it.node])

Waiting(it) == it.pending \/ it.ring.count > 0

-----------------------------------------------------------------------------
(* Requests. A batch is a sequence of these steps; an operation that is       *)
(* refused changes nothing.                                                   *)

Request == phase = "idle" /\ steps < MaxSteps /\ steps' = steps + 1

FirstFree == CHOOSE s \in Slot : ~item[s].used /\ \A t \in 1 .. s - 1 : item[t].used

CreateMonitoredItem(node, mode, size, discard, deadband, trigger) ==
  /\ Request
  /\ nextId <= MaxId
  /\ \E s \in Slot : ~item[s].used
  /\ item' = [item EXCEPT ![FirstFree] =
                Configured(nextId, node, mode, size, discard, deadband, trigger)]
  /\ told' = [told EXCEPT ![FirstFree] = Bad]
  /\ nextId' = nextId + 1
  /\ active' = active + 1
  /\ sent' = <<>>
  /\ UNCHANGED <<subVars, source, phase, bitmap, resized, reenabled>>

(* A DataChangeFilter replaces the one of the item; a request without one     *)
(* keeps it, as one that repeats it does.                                     *)
Filtered(it, deadband, trigger) == [it EXCEPT !.deadband = deadband, !.trigger = trigger]

(* The indices and the count of the queue stay what they are. *)
Modified(it, size, discard, deadband, trigger) ==
  Filtered([it EXCEPT !.ring.size = ClampQueueSize(size), !.ring.discard = discard],
           deadband, trigger)

ModifyMonitoredItem(s, size, discard, deadband, trigger) ==
  /\ Request
  /\ item[s].used
  /\ item' = [item EXCEPT ![s] = Modified(@, size, discard, deadband, trigger)]
  /\ resized' = (resized \/ (ClampQueueSize(size) # item[s].ring.size /\ item[s].ring.count > 0))
  /\ sent' = <<>>
  /\ UNCHANGED <<nextId, active, subVars, source, phase, bitmap, told, reenabled>>

(* An item that leaves the disabled mode is read; what it holds is kept. *)
ModeSet(it, mode) ==
  LET moved == [it EXCEPT !.mode = mode]
  IN IF it.mode # "disabled" \/ mode = "disabled" THEN moved
     ELSE IF source[it.node].st = "good"
     THEN [moved EXCEPT !.last = source[it.node], !.hasValue = TRUE, !.pending = TRUE]
     ELSE [moved EXCEPT !.last = [it.last EXCEPT !.st = "bad"]]

SetMonitoringMode(s, mode) ==
  /\ Request
  /\ item[s].used
  /\ item' = [item EXCEPT ![s] = ModeSet(@, mode)]
  /\ reenabled' = (\/ reenabled
                   \/ /\ item[s].mode = "disabled" /\ mode # "disabled"
                      /\ item[s].ring.count > 0 \/ source[item[s].node].st = "bad")
  /\ sent' = <<>>
  /\ UNCHANGED <<nextId, active, subVars, source, phase, bitmap, told, resized>>

(* Links of other items to a deleted one stay. *)
DeleteMonitoredItem(s) ==
  /\ Request
  /\ item[s].used
  /\ item' = [item EXCEPT ![s] = Free]
  /\ active' = active - 1
  /\ sent' = <<>>
  /\ UNCHANGED <<nextId, subVars, source, phase, bitmap, told, resized, reenabled>>

(* Mutant: the count goes down by one whatever goes. *)
DepartedOne(S) == IF S = {} THEN 0 ELSE 1

Departed(S) == Cardinality(S)

(* mu_subscription_delete; the Subscription's own part is in Publishing. *)
DeleteSubscription ==
  /\ Request
  /\ item' = [s \in Slot |-> Free]
  /\ active' = active - Departed({s \in Slot : item[s].used})
  /\ resend' = FALSE
  /\ sent' = <<>>
  /\ UNCHANGED <<nextId, limit, enabled, more, source, phase, bitmap, told, resized, reenabled>>

(* A link that is there is not added twice; a full array takes no more. The   *)
(* order of the links is never looked at.                                     *)
Linked(links, id) == IF Cardinality(links) >= MaxLinks THEN links ELSE links \cup {id}

Unlinked(links, id) == links \ {id}

AddTriggerLink(s, t) ==
  /\ Request
  /\ item[s].used
  /\ item[t].used
  /\ Linked(item[s].links, item[t].id) # item[s].links
  /\ item' = [item EXCEPT ![s].links = Linked(@, item[t].id)]
  /\ sent' = <<>>
  /\ UNCHANGED <<nextId, active, subVars, source, phase, bitmap, told, resized, reenabled>>

RemoveTriggerLink(s, t) ==
  /\ Request
  /\ item[s].used
  /\ item[t].used
  /\ item[t].id \in item[s].links
  /\ item' = [item EXCEPT ![s].links = Unlinked(@, item[t].id)]
  /\ sent' = <<>>
  /\ UNCHANGED <<nextId, active, subVars, source, phase, bitmap, told, resized, reenabled>>

ResendData ==
  /\ Request
  /\ resend' = TRUE
  /\ sent' = <<>>
  /\ UNCHANGED <<item, nextId, active, limit, enabled, more, source, phase, bitmap, told, resized, reenabled>>

SetPublishingMode ==
  /\ Request
  /\ enabled' = ~enabled
  /\ more' = IF enabled' THEN FALSE ELSE more
  /\ sent' = <<>>
  /\ UNCHANGED <<item, nextId, active, limit, resend, source, phase, bitmap, told, resized, reenabled>>

(* mu_server_signal_semantic_change, called by the application. *)
SignalSemanticChange(node) ==
  /\ Request
  /\ item' = [s \in Slot |->
                IF item[s].used /\ item[s].node = node
                THEN [item[s] EXCEPT !.semantics = TRUE, !.pending = TRUE] ELSE item[s]]
  /\ sent' = <<>>
  /\ UNCHANGED <<nextId, active, subVars, source, phase, bitmap, told, resized, reenabled>>

(* The value source of a Variable returns something else, or fails. *)
ChangeSource(node, reading) ==
  /\ Request
  /\ reading # source[node]
  /\ source' = [source EXCEPT ![node] = reading]
  /\ sent' = <<>>
  /\ UNCHANGED <<item, nextId, active, subVars, phase, bitmap, told, resized, reenabled>>

-----------------------------------------------------------------------------
(* The tick. *)

(* mu_subscriptions_tick: every item in use, as far as the count of items     *)
(* reaches, is sampled if its timer has run out (due) and marked in the       *)
(* bitmap if it has something to report.                                      *)
SampleItems(due) ==
  /\ phase = "idle"
  /\ LET visited(s) ==
           item[s].used /\ Cardinality({t \in 1 .. s - 1 : item[t].used}) < active
         ticked(s) ==
           IF visited(s) /\ s \in due /\ item[s].mode # "disabled" THEN Sample(item[s]) ELSE item[s]
     IN /\ item' = [s \in Slot |-> ticked(s)]
        /\ bitmap' = {s \in Slot : visited(s) /\ (Waiting(item[s]) \/ Waiting(ticked(s)))}
  /\ phase' = "publish"
  /\ sent' = <<>>
  /\ UNCHANGED <<nextId, active, subVars, source, ghosts>>

(* enqueue_resend_data: what a reporting item reads now, or its last value    *)
(* under the bad status if it has one.                                        *)
Resent(it) ==
  LET reading == source[it.node]
      shown == IF reading.st = "bad" /\ it.hasValue THEN [it.last EXCEPT !.st = "bad"] ELSE reading
  IN Enqueue([it EXCEPT !.last = shown, !.hasValue = TRUE], shown)

(* The first half of publish_due: the publishing timer has run out, and if    *)
(* publishing is enabled the queues are made ready.                           *)
PrepareNotification ==
  /\ phase = "publish"
  /\ LET ready(it) == IF it.used /\ it.mode # "disabled" THEN PreparePendingQueue(it) ELSE it
         again(it) == it.used /\ it.mode = "reporting" /\ resend
         full(it) == IF again(it) THEN Resent(ready(it)) ELSE ready(it)
     IN /\ item' = IF enabled THEN [s \in Slot |-> full(item[s])] ELSE item
        /\ bitmap' = IF enabled THEN bitmap \cup {s \in Slot : again(item[s])} ELSE bitmap
  /\ resend' = (resend /\ ~enabled)
  /\ phase' = "emit"
  /\ sent' = <<>>
  /\ UNCHANGED <<nextId, active, limit, enabled, more, source, ghosts>>

Reportable(it) == it.used /\ Waiting(it) /\ it.mode = "reporting"

(* A sampling item with reports goes along with a reportable item that links  *)
(* to it.                                                                     *)
ReportsByTrigger(s) ==
  /\ item[s].used
  /\ item[s].mode = "sampling"
  /\ item[s].ring.count > 0
  /\ \E t \in Slot : Reportable(item[t]) /\ item[s].id \in item[t].links

(* A notification is put together, and afterwards drained, in two rounds over *)
(* the bitmap: turns 1 .. NItems visit the reportable items, the other turns  *)
(* the linked ones.                                                           *)
Turn == 1 .. 2 * NItems

SlotAt(k) == IF k <= NItems THEN k ELSE k - NItems

Takes(k) ==
  /\ SlotAt(k) \in bitmap
  /\ IF k <= NItems THEN Reportable(item[SlotAt(k)]) ELSE ReportsByTrigger(SlotAt(k))

(* How much the turns up to each one make of the amounts n. *)
Sums(n) ==
  LET sum[k \in 0 .. 2 * NItems] == IF k = 0 THEN 0 ELSE sum[k - 1] + (IF Takes(k) THEN n[k] ELSE 0)
  IN sum

Held == Sums([k \in Turn |-> item[SlotAt(k)].ring.count])

Entry(s, j) ==
  [slot |-> s, report |-> Reports(item[s].ring)[j], semantics |-> item[s].semantics]

AllEntries ==
  [e \in 1 .. Held[2 * NItems] |->
     LET k == CHOOSE k \in Turn : Held[k - 1] < e /\ e <= Held[k]
     IN Entry(SlotAt(k), e - Held[k - 1])]

ReportCount ==
  IF limit # 0 /\ Len(AllEntries) > limit THEN limit ELSE Len(AllEntries)

(* Mutant: a notification filled to the limit is taken for one that is cut. *)
MoreAtLimit == limit # 0 /\ ReportCount = limit

More == ReportCount < Len(AllEntries)

Drain(it, remaining) ==
  LET ring == DrainReported(it.ring, remaining)
  IN [it EXCEPT !.ring = ring, !.pending = ring.count > 0]

(* One item after the other gives up what was reported, until as many reports *)
(* have left the queues as the notification holds.                            *)
Gone == Sums([k \in Turn |-> Effective(item[SlotAt(k)].ring).count])

Remaining(count, k) == IF Gone[k - 1] < count THEN count - Gone[k - 1] ELSE 0

Latched(s) ==
  IF s \in bitmap /\ item[s].used THEN [item[s] EXCEPT !.semantics = FALSE] ELSE item[s]

Cleared(count) ==
  [s \in Slot |->
     LET turn == IF item[s].mode = "reporting" THEN s ELSE NItems + s
     IN IF Takes(turn) /\ Remaining(count, turn) > 0
        THEN Drain(Latched(s), Remaining(count, turn)) ELSE Latched(s)]

TellClients(entries) ==
  [s \in Slot |->
     LET mine == {k \in DOMAIN entries : entries[k].slot = s}
         newest == entries[CHOOSE k \in mine : \A other \in mine : other <= k].report
     IN IF mine = {} THEN told[s] ELSE [v |-> newest.v, st |-> newest.st]]

(* The second half: a notification goes out if there is something to report,  *)
(* a Publish request to answer and room for the response (answered).          *)
EmitNotification(answered) ==
  /\ phase = "emit"
  /\ more' = IF enabled THEN More ELSE more
  /\ IF enabled /\ ReportCount > 0 /\ answered
     THEN /\ sent' = SubSeq(AllEntries, 1, ReportCount)
          /\ told' = TellClients(sent')
          /\ item' = Cleared(ReportCount)
     ELSE sent' = <<>> /\ UNCHANGED <<told, item>>
  /\ phase' = "idle"
  /\ bitmap' = {}
  /\ UNCHANGED <<nextId, active, limit, enabled, resend, source, resized, reenabled, steps>>

(* The publishing timer has not run out. *)
NotDue ==
  /\ phase = "publish"
  /\ phase' = "idle"
  /\ bitmap' = {}
  /\ sent' = <<>>
  /\ UNCHANGED <<item, nextId, active, subVars, source, ghosts>>

Requests ==
  \/ \E n \in Node, m \in Modes, z \in Sizes, d \in Discards, b \in Deadbands, t \in Triggers :
       CreateMonitoredItem(n, m, z, d, b, t)
  \/ \E s \in Slot, z \in Sizes, d \in Discards, b \in Deadbands, t \in Triggers :
       ModifyMonitoredItem(s, z, d, b, t)
  \/ \E s \in Slot, m \in Modes : SetMonitoringMode(s, m)
  \/ \E s \in Slot : DeleteMonitoredItem(s)
  \/ DeleteSubscription
  \/ \E s, t \in Slot : AddTriggerLink(s, t)
  \/ \E s, t \in Slot : RemoveTriggerLink(s, t)
  \/ ResendData
  \/ SetPublishingMode
  \/ \E n \in Node : SignalSemanticChange(n)

Tick ==
  \/ \E due \in SUBSET Slot : SampleItems(due)
  \/ PrepareNotification
  \/ \E answered \in BOOLEAN : EmitNotification(answered)
  \/ NotDue

Next ==
  \/ Requests
  \/ \E n \in Node, r \in Reading : ChangeSource(n, r)
  \/ Tick

Spec == Init /\ [][Next]_vars

(* The server is polled for ever: ticks go on, and as each step of a tick is  *)
(* possible whenever its phase is reached, every sampling timer and the       *)
(* publishing timer run out again and again, and again and again there is a   *)
(* Publish request to answer.                                                 *)
Fairness ==
  /\ \A s \in Slot : []<><<\E due \in SUBSET Slot : s \in due /\ SampleItems(due)>>_vars
  /\ []<><<phase = "publish" /\ PrepareNotification>>_vars
  /\ []<><<phase = "emit" /\ EmitNotification(TRUE)>>_vars

FairSpec == Spec /\ Fairness

-----------------------------------------------------------------------------
(* The rings stay inside their cells, and active_monitored_items_count is the *)
(* number of items in use: the walks of the tick and of find_monitored_item   *)
(* stop after that many.                                                      *)
TypeOK ==
  /\ \A s \in Slot :
       /\ item[s].ring.head \in Cells
       /\ item[s].ring.tail \in Cells
       /\ item[s].ring.count \in 0 .. Depth
       /\ item[s].ring.size \in 1 .. Depth
       /\ item[s].mode \in {"disabled", "sampling", "reporting"}
       /\ item[s].last \in [v : Value \cup {Null}, st : {"good", "bad"}]
       /\ Cardinality(item[s].links) <= MaxLinks
  /\ active = Cardinality({s \in Slot : item[s].used})
  /\ bitmap \subseteq Slot
  /\ phase \in {"idle", "publish", "emit"}
  /\ source \in [Node -> Reading]

(* Once a reporting item has nothing left to report, the value and the status *)
(* its client was sent last are the ones the server compares new samples with *)
(* (last_value, last_status): no change can go unreported. It is not so once  *)
(* a queue that holds reports has been resized, or an item that holds some or *)
(* cannot be read has been enabled again: last_value then moves on alone.     *)
ToldCurrent ==
  phase = "idle" /\ ~resized /\ ~reenabled =>
    \A s \in Slot :
      item[s].mode = "reporting" /\ item[s].hasValue /\ ~Waiting(item[s]) => told[s] = item[s].last

(* A notification carries reports that were made, never a cell of the queue   *)
(* that no report was written to.                                             *)
OnlyReportsSent == [][\A k \in 1 .. Len(sent') : sent'[k].report.v # NoReport.v]_vars

(* The next sample of an item in one of these slots makes a report: its source *)
(* has changed, or its readings are never equal (it fails, or holds a string  *)
(* or an array). With a limit, the items of higher slots may then never have  *)
(* their turn.                                                                *)
Overtaken(slots) ==
  /\ limit # 0
  /\ \E t \in slots : /\ item[t].used /\ item[t].mode = "reporting"
                      /\ SampleChanged(item[t], source[item[t].node])

(* As long as a reporting item owes its client something, some of it is sent  *)
(* again and again, even while the item's own source makes a report at every  *)
(* sample. The walk over the items starts at the first slot each time, so     *)
(* that this holds only as long as items of lower slots do not go on using up *)
(* the limit because their sources go on changing.                            *)
Delivered ==
  \A s \in Slot :
    Reportable(item[s]) ~> \/ \E k \in DOMAIN sent : sent[k].slot = s
                           \/ ~Reportable(item[s]) \/ ~enabled \/ Overtaken(1 .. s - 1)

(* What did not fit into a notification (moreNotifications) is left in the    *)
(* queue of an item that the next notification reports. It is not so once a   *)
(* queue was resized, or for linked items that wait for their trigger. And a  *)
(* sampling item is reported only with a reporting item that links to it and  *)
(* has itself just been reported whole.                                       *)
ReportsInTurn ==
  [][/\ sent' # <<>> /\ more' /\ ~resized /\ (\A s \in Slot : item[s].links = {})
          => \E s \in Slot : Reportable(item'[s]) /\ item'[s].ring.count > 0
     /\ \A k \in 1 .. Len(sent') :
          LET s == sent'[k].slot
          IN item[s].mode # "reporting" =>
               \E t \in Slot : /\ item[t].mode = "reporting"
                                /\ item[s].id \in item[t].links
                                /\ ~Waiting(item'[t])]_vars
=============================================================================
