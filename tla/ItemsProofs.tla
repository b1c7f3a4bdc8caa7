---------------------------- MODULE ItemsProofs -----------------------------
(* MonitoredItems: the rings implement the queues of ReportQueue, and the     *)
(* theorems: what follows from the invariant holds in every behaviour.        *)
EXTENDS NotificationProofs, ItemQueues

-----------------------------------------------------------------------------
(* The invariant is inductive, and what it says *)

(* The invariant is inductive. *)
LEMMA NextIInv ==
  ASSUME Library
  PROVE  IInv /\ [Next]_vars => IInv'
  <1> SUFFICES ASSUME IInv, [Next]_vars
               PROVE  IInv'
    OBVIOUS
  <1>1. CASE Requests
    BY <1>1, RequestsKeep, Zenon
  <1>2. CASE \E n \in Node, r \in Reading : ChangeSource(n, r)
    BY <1>2, ChangeKeeps, Zenon
  <1>3. CASE Tick
    BY <1>3, SampleKeeps, PrepareKeeps, EmitKeeps, NotDueKeeps DEF Tick
  <1>4. CASE UNCHANGED vars
    <2>1. UNCHANGED <<item, nextId, active, limit, enabled, resend, source, phase, bitmap, told, resized, reenabled>>
      BY <1>4, Zenon DEF vars, subVars, ghosts
    <2>2. Used' = Used
      BY <2>1, Zenon DEF Used
    <2>3. Typed'
      BY <2>1, <2>2, Zenon DEF IInv, Typed
    <2>4. Covered' /\ Prepared' /\ RingsSound' /\ AllCaughtUp'
      BY <2>1 DEF IInv, Covered, Prepared, RingsSound, AllCaughtUp
    <2> QED
      BY <2>3, <2>4, Zenon DEF IInv
  <1> QED
    BY <1>1, <1>2, <1>3, <1>4 DEF Next

(* The invariant gives the types. *)
LEMMA InvariantTyped == IInv => TypeOK
  <1> SUFFICES ASSUME IInv
               PROVE  TypeOK
    OBVIOUS
  <1>1. Typed
    BY Zenon DEF IInv
  <1>2. \A s \in Slot :
          /\ item[s].ring.head \in Cells
          /\ item[s].ring.tail \in Cells
          /\ item[s].ring.count \in 0 .. Depth
          /\ item[s].ring.size \in 1 .. Depth
          /\ item[s].mode \in {"disabled", "sampling", "reporting"}
          /\ item[s].last \in [v : Value \cup {Null}, st : {"good", "bad"}]
          /\ Cardinality(item[s].links) <= MaxLinks
    <2> TAKE s \in Slot
    <2>1. item[s] \in ItemType
      BY <1>1, TypedFacts, Zenon
    <2>2. /\ item[s].ring \in RingType /\ item[s].mode \in Mode /\ item[s].last \in Shown
          /\ item[s].links \in LinkSet
      BY <2>1, ItemFields, Zenon
    <2>3. /\ item[s].ring.head \in Cells /\ item[s].ring.tail \in Cells
          /\ item[s].ring.count \in 0 .. Depth /\ item[s].ring.size \in 1 .. Depth
      BY <2>2, RingFields, Zenon
    <2> QED
      BY <2>2, <2>3, Zenon DEF Mode, Shown, LinkSet
  <1> QED
    BY <1>1, <1>2, Zenon DEF TypeOK, Typed, Used

(* The invariant says what the client was told. *)
LEMMA InvariantTold == IInv => ToldCurrent
  <1> SUFFICES ASSUME IInv, phase = "idle", ~resized, ~reenabled, NEW s \in Slot,
                      item[s].mode = "reporting", item[s].hasValue, ~Waiting(item[s])
               PROVE  told[s] = item[s].last
    BY Zenon DEF ToldCurrent
  <1>1. CaughtUp(item[s], told[s])
    BY DEF IInv, AllCaughtUp
  <1> QED
    BY <1>1, Zenon DEF CaughtUp, Waiting

(* Only publish_due sends anything. *)
LEMMA OnlySends ==
  ASSUME Library, IInv, Next
  PROVE  Sends \/ sent' = <<>>
  <1>1. CASE Requests
    BY <1>1, Zenon DEF Requests, CreateMonitoredItem, ModifyMonitoredItem, SetMonitoringMode,
       DeleteMonitoredItem, DeleteSubscription, AddTriggerLink, RemoveTriggerLink, ResendData,
       SetPublishingMode, SignalSemanticChange
  <1>2. CASE \E n \in Node, r \in Reading : ChangeSource(n, r)
    BY <1>2, Zenon DEF ChangeSource
  <1>3. CASE Tick
    BY <1>3, SampleGrows, PrepareGrows, EmitCases DEF Tick, NotDue
  <1> QED
    BY <1>1, <1>2, <1>3, Zenon DEF Next

(* What ReportsInTurn says of a step. *)
InTurn ==
  /\ sent' # <<>> /\ more' /\ ~resized /\ (\A s \in Slot : item[s].links = {})
       => \E s \in Slot : Reportable(item'[s]) /\ item'[s].ring.count > 0
  /\ \A k \in 1 .. Len(sent') :
       LET s == sent'[k].slot
       IN item[s].mode # "reporting" =>
            \E t \in Slot : /\ item[t].mode = "reporting"
                             /\ item[s].id \in item[t].links
                             /\ ~Waiting(item'[t])

(* Every step is one, publish_due's by what it takes and what it leaves. *)
LEMMA NextInTurn ==
  ASSUME Library, IInv, Next
  PROVE  InTurn
  <1>1. CASE sent' = <<>>
    BY <1>1 DEF InTurn
  <1>2. CASE Sends
    <2>1. Typed /\ more' = More /\ sent' = SubSeq(AllEntries, 1, ReportCount)
      BY <1>2, Zenon DEF IInv, Sends
    <2>2. Len(sent') = ReportCount /\ \A e \in 1 .. ReportCount : sent'[e] = AllEntries[e]
      BY <2>1, SentFacts, Zenon
    <2>3. ASSUME more', ~resized, \A s \in Slot : item[s].links = {}
          PROVE  \E s \in Slot : Reportable(item'[s]) /\ item'[s].ring.count > 0
      BY <1>2, <2>1, <2>3, CutInReportable
    <2>4. ASSUME NEW k \in 1 .. Len(sent'), item[sent'[k].slot].mode # "reporting"
          PROVE  \E t \in Slot : /\ item[t].mode = "reporting"
                                 /\ item[sent'[k].slot].id \in item[t].links
                                 /\ ~Waiting(item'[t])
      <3>1. k \in 1 .. ReportCount /\ sent'[k].slot = AllEntries[k].slot
        BY <2>2, Zenon
      <3> QED
        BY <1>2, <2>4, <3>1, LinkedAfterTrigger
    <2> QED
      BY <2>3, <2>4, Zenon DEF InTurn
  <1> QED
    BY <1>1, <1>2, OnlySends

-----------------------------------------------------------------------------
(* The rings implement the queues *)

(* The queue of the abstract specification grows as a ring does. *)
LEMMA AddedSame ==
  ASSUME NEW s, NEW x, NEW p \in Slot
  PROVE  Queues!Added(s, x, p) = AddedTo(s, x, item[p].ring.size, item[p].ring.discard)
  BY Zenon DEF Queues!Added, Queues!Marked, AddedTo

(* A step that makes reports. *)
LEMMA EnqueueImplements ==
  ASSUME Typed, \A s \in Slot : Sound(item[s].ring), sent' = <<>>, resized' = resized,
         \A s \in Slot : Grown(item[s].ring, item[s].ring') /\ item[s].id' = item[s].id
  PROVE  Queues!Enqueue
  <1> DEFINE Report == [v : Value \cup {Null}, st : {"good", "bad"}, ovf : {FALSE}]
             list == [s \in Slot |-> Reports(item[s].ring)]
  <1>1. ASSUME NEW p \in Slot
        PROVE  /\ \/ list[p]' = list[p]
                  \/ \E a \in Report : list[p]' = Queues!Added(list[p], a, p)
                  \/ list[p] = <<>> /\ \E a, b \in Report :
                       list[p]' = Queues!Added(Queues!Added(<<>>, a, p), b, p)
               /\ item[p].ring.size' = item[p].ring.size /\ item[p].ring.discard' = item[p].ring.discard
    <2> DEFINE r == item[p].ring
               q == item'[p].ring
    <2>1. r \in RingType /\ Sound(r) /\ Grown(r, q) /\ Made = Report
      BY TypedFacts, ItemFields, Zenon DEF Made
    <2>2. list[p] = Reports(r) /\ list[p]' = Reports(q)
      BY Zenon
    <2>3. /\ q.size = r.size /\ q.discard = r.discard
      BY <2>1, GrownRing, Zenon
    <2>4. \A s, x : Queues!Added(s, x, p) = AddedTo(s, x, r.size, r.discard)
      BY AddedSame, Zenon
    <2> HIDE DEF r, q, list, Report
    <2>5. CASE q = r
      BY <2>2, <2>3, <2>5 DEF r, q
    <2>6. CASE \E a \in Made : q = EnqueueReport(r, a)
      <3>1. PICK a \in Made : q = EnqueueReport(r, a)
        BY <2>6, Zenon
      <3>2. Reports(q) = AddedTo(Reports(r), a, r.size, r.discard)
        BY <2>1, <3>1, MadeKept, EnqueueAdds
      <3>3. list[p]' = Queues!Added(list[p], a, p)
        BY <2>2, <2>4, <3>2, Zenon
      <3> QED
        BY <2>1, <2>3, <3>3 DEF r, q
    <2>7. CASE r.count = 0 /\ \E a, b \in Made : q = EnqueueReport(EnqueueReport(r, a), b)
      <3>1. PICK a \in Made, b \in Made : q = EnqueueReport(EnqueueReport(r, a), b)
        BY <2>7, Zenon
      <3> DEFINE g == EnqueueReport(r, a)
      <3>2. g \in RingType /\ Sound(g) /\ g.size = r.size /\ g.discard = r.discard
        BY <2>1, GrownRing, Zenon DEF Grown
      <3>3. Reports(r) = <<>>
        BY <2>7, NoReports, Zenon
      <3>4. Reports(g) = AddedTo(<<>>, a, r.size, r.discard)
        BY <2>1, <3>3, MadeKept, EnqueueAdds
      <3>5. q = EnqueueReport(g, b)
        BY <3>1, Zenon
      <3> HIDE DEF g
      <3>6. Reports(q) = AddedTo(Reports(g), b, r.size, r.discard)
        BY <3>2, <3>5, MadeKept, EnqueueAdds
      <3>7. list[p]' = Queues!Added(Queues!Added(<<>>, a, p), b, p)
        BY <2>2, <2>4, <3>4, <3>6
      <3> QED
        BY <2>1, <2>2, <2>3, <3>3, <3>7 DEF r, q
    <2> QED
      BY <2>1, <2>5, <2>6, <2>7 DEF Grown
  <1>2. [k \in 1 .. Len(sent) |-> [place |-> sent[k].slot, report |-> sent[k].report]]' = <<>>
    OBVIOUS
  <1>3. /\ [s \in Slot |-> item[s].id]' = [s \in Slot |-> item[s].id]
        /\ [s \in Slot |-> item[s].ring.size]' = [s \in Slot |-> item[s].ring.size]
        /\ [s \in Slot |-> item[s].ring.discard]' = [s \in Slot |-> item[s].ring.discard]
    BY <1>1, Zenon
  <1> QED
    BY <1>1, <1>2, <1>3, Zenon DEF Queues!Enqueue

(* A step in which items come, go, or keep their reports. *)
LEMMA RenewImplements ==
  ASSUME sent' = <<>>, resized' = resized,
         \A s \in Slot : \/ item[s].id' = item[s].id /\ item[s].ring' = item[s].ring
                         \/ item[s].id' # item[s].id /\ item[s].ring.count' = 0
  PROVE  Queues!Renew
  <1>1. [k \in 1 .. Len(sent) |-> [place |-> sent[k].slot, report |-> sent[k].report]]' = <<>>
    OBVIOUS
  <1>2. \A s \in Slot : item[s].ring.count' = 0 => Reports(item[s].ring)' = <<>>
    <2> TAKE s \in Slot
    <2>1. item'[s].ring.count = 0 => Reports(item'[s].ring) = <<>>
      BY NoReports, Zenon
    <2> QED
      BY <2>1, Zenon
  <1>3. \A s \in Slot : item[s].ring' = item[s].ring => Reports(item[s].ring)' = Reports(item[s].ring)
    BY Zenon DEF Reports
  <1> QED
    BY <1>1, <1>2, <1>3 DEF Queues!Renew

(* ModifyMonitoredItems *)
LEMMA ModifyImplements ==
  ASSUME Typed, \A u \in Slot : Sound(item[u].ring), NEW s \in Slot, NEW z \in Sizes,
         NEW d \in Discards, NEW b \in Deadbands, NEW t \in Triggers,
         ModifyMonitoredItem(s, z, d, b, t)
  PROVE  Queues!Modify
  <1> DEFINE q == Modified(item[s], z, d, b, t)
  <1>1. item[s] \in ItemType /\ item[s].ring \in RingType /\ item[s].ring.count \in Nat
    BY TypedFacts, ItemFields, Zenon
  <1>2. /\ SameItem(item[s], q) /\ q.ring.size = ClampQueueSize(z)
        /\ item[s].ring.count = 0 \/ q.ring.size = item[s].ring.size =>
             Reports(q.ring) = Reports(item[s].ring)
    <2>1. q = Modified(item[s], z, d, b, t)
      BY Zenon
    <2> HIDE DEF q
    <2> QED
      BY <1>1, <2>1, ModifiedItem
  <1>3. /\ item' = [item EXCEPT ![s] = q] /\ sent' = <<>>
        /\ resized' = (resized \/ (ClampQueueSize(z) # item[s].ring.size /\ item[s].ring.count > 0))
    BY Zenon DEF ModifyMonitoredItem
  <1> HIDE DEF q
  <1>4. item[s]' = q /\ \A u \in Slot \ {s} : item[u]' = item[u]
    BY <1>3 DEF Typed
  <1>5. [k \in 1 .. Len(sent) |-> [place |-> sent[k].slot, report |-> sent[k].report]]' = <<>>
    BY <1>3
  <1>6. [u \in Slot |-> item[u].id]' = [u \in Slot |-> item[u].id]
    BY <1>2, <1>4, Zenon DEF SameItem
  <1>7. Reports(item[s].ring) # <<>> <=> item[s].ring.count > 0
    <2>1. Len(Reports(item[s].ring)) = item[s].ring.count
      BY <1>1, ReportsFacts
    <2>2. CASE item[s].ring.count = 0
      BY <1>1, <2>2, NoReports
    <2>3. CASE item[s].ring.count > 0
      BY <2>1, <2>3
    <2> QED
      BY <1>1, <2>2, <2>3
  <1>8. (\E p \in Slot : item[p].ring.size' # item[p].ring.size /\ Reports(item[p].ring) # <<>>)
          <=> (ClampQueueSize(z) # item[s].ring.size /\ item[s].ring.count > 0)
    BY <1>2, <1>4, <1>7, Zenon
  <1>9. resized' = (resized \/ \E p \in Slot : item[p].ring.size' # item[p].ring.size /\ Reports(item[p].ring) # <<>>)
    BY <1>3, <1>8, Zenon
  <1>10. resized' \/ [u \in Slot |-> Reports(item[u].ring)]' = [u \in Slot |-> Reports(item[u].ring)]
    <2> SUFFICES ASSUME ~resized', NEW u \in Slot
                 PROVE  Reports(item[u].ring)' = Reports(item[u].ring)
      BY Zenon
    <2>0. item[s].ring.count = 0 \/ item[s].ring.count > 0
      BY <1>1
    <2>1. item[s].ring.count = 0 \/ q.ring.size = item[s].ring.size
      BY <1>2, <1>3, <2>0, Zenon
    <2>2. Reports(q.ring) = Reports(item[s].ring)
      BY <1>2, <2>1, Zenon
    <2>3. CASE u = s
      BY <1>4, <2>2, <2>3, Zenon
    <2>4. CASE u # s
      BY <1>4, <2>4, Zenon
    <2> QED
      BY <2>3, <2>4, Zenon
  <1> QED
    BY <1>5, <1>6, <1>9, <1>10 DEF Queues!Modify

(* How many of the first k entries belong to a slot. *)
LEMMA EntriesBefore ==
  ASSUME Library, Typed, NEW s \in Slot, NEW k \in 0 .. Held[2 * NItems]
  PROVE  Cardinality({i \in 1 .. k : AllEntries[i].slot = s}) =
           IF k <= Held[TurnOf(s) - 1] THEN 0
           ELSE IF k <= Held[TurnOf(s)] THEN k - Held[TurnOf(s) - 1]
           ELSE Held[TurnOf(s)] - Held[TurnOf(s) - 1]
  <1> DEFINE a == Held[TurnOf(s) - 1]
             b == Held[TurnOf(s)]
             h == IF k <= b THEN k ELSE b
  <1>1. a \in Nat /\ b \in Nat /\ a <= b /\ k \in Nat /\ Held[2 * NItems] \in Nat
    BY TurnFacts, HeldFacts, CountFacts
  <1>2. \A i \in 1 .. k : AllEntries[i].slot = s <=> a < i /\ i <= b
    BY <1>1, EntriesOf
  <1> HIDE DEF a, b
  <1>3. h \in Nat
    BY <1>1, Zenon
  <1>4. {i \in 1 .. k : AllEntries[i].slot = s} = (a + 1) .. h
    BY <1>1, <1>2
  <1>5. Cardinality((a + 1) .. h) = IF a + 1 > h THEN 0 ELSE h - (a + 1) + 1
    <2> DEFINE l == a + 1
    <2>1. l \in Int /\ h \in Int
      BY <1>1, <1>3
    <2> HIDE DEF l, h
    <2>2. Cardinality(l .. h) = IF l > h THEN 0 ELSE h - l + 1
      BY <2>1, FiniteInterval, Zenon
    <2> QED
      BY <2>2, Zenon DEF l
  <1>6. (IF a + 1 > h THEN 0 ELSE h - (a + 1) + 1) =
          IF k <= a THEN 0 ELSE IF k <= b THEN k - a ELSE b - a
    BY <1>1
  <1> QED
    BY <1>4, <1>5, <1>6, Zenon DEF a, b

(* The abstract specification counts as this module does. *)
LEMMA SameCardinality ==
  ASSUME NEW S
  PROVE  Queues!Cardinality(S) = Cardinality(S)
  BY Zenon DEF Queues!Cardinality, Cardinality

(* publish_due with something to send *)
LEMMA SendsImplements ==
  ASSUME Library, Typed, \A u \in Slot : Sound(item[u].ring), Sends
  PROVE  Queues!Notify
  <1> DEFINE R == ReportCount
             message == [k \in 1 .. Len(sent) |-> [place |-> sent[k].slot, report |-> sent[k].report]]
             before(p, k) == Cardinality({i \in 1 .. k : AllEntries[i].slot = p})
  <1>1. R \in Nat /\ R <= Held[2 * NItems] /\ Held[2 * NItems] \in Nat
    BY CountFacts, Zenon
  <1>2. /\ sent' = SubSeq(AllEntries, 1, R) /\ item' = Cleared(R) /\ resized' = resized
    BY Zenon DEF Sends
  <1>3. Len(sent') = R /\ \A e \in 1 .. R : sent'[e] = AllEntries[e]
    BY <1>2, SentFacts, Zenon
  <1> HIDE DEF R
  <1>4. /\ Len(message') = R
        /\ \A e \in 1 .. R : message'[e] = [place |-> AllEntries[e].slot, report |-> AllEntries[e].report]
    BY <1>1, <1>3
  <1> HIDE DEF message
  <1>5. \A p \in Slot, k \in 0 .. R : Cardinality({i \in 1 .. k : message'[i].place = p}) = before(p, k)
    <2> SUFFICES ASSUME NEW p \in Slot, NEW k \in 0 .. R
                 PROVE  Cardinality({i \in 1 .. k : message'[i].place = p}) = before(p, k)
      BY Zenon
    <2>1. \A i \in 1 .. k : message'[i].place = AllEntries[i].slot
      BY <1>1, <1>4
    <2>2. {i \in 1 .. k : message'[i].place = p} = {i \in 1 .. k : AllEntries[i].slot = p}
      BY <2>1, Zenon
    <2> QED
      BY <2>2, Zenon
  <1>6. \A p \in Slot, k \in 0 .. R :
          before(p, k) = IF k <= Held[TurnOf(p) - 1] THEN 0
                         ELSE IF k <= Held[TurnOf(p)] THEN k - Held[TurnOf(p) - 1]
                         ELSE Held[TurnOf(p)] - Held[TurnOf(p) - 1]
    <2> TAKE p \in Slot, k \in 0 .. R
    <2>1. k \in 0 .. Held[2 * NItems]
      BY <1>1
    <2> QED
      BY <2>1, EntriesBefore, Zenon
  <1> HIDE DEF before
  <1>7. ASSUME NEW p \in Slot
        PROVE  /\ before(p, R) <= Len(Reports(item[p].ring))
               /\ Reports(item'[p].ring) =
                    SubSeq(Reports(item[p].ring), before(p, R) + 1, Len(Reports(item[p].ring)))
               /\ /\ item'[p].id = item[p].id /\ item'[p].ring.size = item[p].ring.size
                  /\ item'[p].ring.discard = item[p].ring.discard
    <2> DEFINE t == TurnOf(p)
               r == item[p].ring
               c == r.count
               q == item'[p]
               n == Remaining(R, t)
               m == IF n < c THEN n ELSE c
    <2>1. q = Cleared(R)[p]
      BY <1>2, Zenon
    <2>2. t \in Turn /\ SlotAt(t) = p /\ Held[t - 1] \in Nat /\ Held[t] \in Nat
      BY TurnFacts, HeldFacts, Zenon
    <2>3. Held[t] = Held[t - 1] + (IF Takes(t) THEN c ELSE 0)
      BY <2>2, HeldFacts, Zenon
    <2>4. r \in RingType /\ Sound(r) /\ c \in Nat
      BY TypedFacts, ItemFields, Zenon
    <2>5. Reports(r) \in Seq(Kept) /\ Len(Reports(r)) = c
      BY <2>4, ReportsFacts, Zenon
    <2>6. before(p, R) = IF R <= Held[t - 1] THEN 0
                         ELSE IF R <= Held[t] THEN R - Held[t - 1] ELSE Held[t] - Held[t - 1]
      BY <1>1, <1>6
    <2> HIDE DEF q
    <2>7. /\ Stays(item[p], q) /\ n \in Nat
          /\ IF Takes(t) /\ n > 0 THEN q.ring = DrainReported(r, n) ELSE q.ring = r
      <3>1. Stays(item[p], q) /\ n \in Nat /\ ClearedAs(item[p], t, n, q)
        BY <1>1, <2>1, ClearedItem, Zenon
      <3> HIDE DEF n
      <3> QED
        BY <3>1, Zenon DEF ClearedAs
    <2>8. /\ n = IF Held[t - 1] < R THEN R - Held[t - 1] ELSE 0
          /\ Takes(t) /\ n > 0 =>
               m \in 0 .. c /\ Reports(q.ring) = SubSeq(Reports(r), m + 1, c)
      <3>1. RingCleared(p, R, n, q)
        BY <1>1, <2>1, ClearedRing, Zenon
      <3> HIDE DEF n
      <3> QED
        BY <3>1, Zenon DEF RingCleared, FrontTaken
    <2>9. q.ring.size = r.size /\ q.ring.discard = r.discard
      <3>1. CASE Takes(t) /\ n > 0
        <4>1. q.ring = DrainReported(r, n)
          BY <2>7, <3>1, Zenon
        <4>2. DrainsAs(r, Effective(r), n, q.ring)
          BY <2>4, <2>7, <4>1, DrainFields
        <4> QED
          BY <4>2, Zenon DEF DrainsAs
      <3>2. CASE ~(Takes(t) /\ n > 0)
        BY <2>7, <3>2, Zenon
      <3> QED
        BY <3>1, <3>2, Zenon
    <2> HIDE DEF n, r, t
    <2>12. before(p, R) = IF Takes(t) /\ n > 0 THEN m ELSE 0
      <3> DEFINE e == IF Takes(t) THEN c ELSE 0
      <3>1. e \in Nat /\ (Takes(t) => e = c) /\ (~Takes(t) => e = 0)
        BY <2>4, Zenon
      <3>2. Held[t] = Held[t - 1] + e
        BY <2>3, Zenon
      <3> HIDE DEF e, c
      <3>3. before(p, R) = IF n < e THEN n ELSE e
        BY <1>1, <2>2, <2>6, <2>8, <3>1, <3>2, Portions
      <3>4. ~(n > 0) => n = 0
        BY <2>7
      <3>5. ~(n < 0)
        BY <2>7
      <3>6. CASE Takes(t) /\ n > 0
        BY <3>1, <3>3, <3>6, Zenon
      <3>7. CASE Takes(t) /\ ~(n > 0)
        BY <2>4, <3>1, <3>3, <3>4, <3>7 DEF c
      <3>8. CASE ~Takes(t)
        BY <3>1, <3>3, <3>5, <3>8, Zenon
      <3> QED
        BY <3>6, <3>7, <3>8, Zenon
    <2>10. CASE Takes(t) /\ n > 0
      <3>1. before(p, R) = m
        BY <2>10, <2>12, Zenon
      <3>2. Reports(q.ring) = SubSeq(Reports(r), m + 1, c)
        BY <2>8, <2>10, Zenon
      <3>3. before(p, R) <= Len(Reports(r))
        <4>1. m \in 0 .. c
          BY <2>8, <2>10, Zenon
        <4> HIDE DEF m, c
        <4> QED
          BY <2>4, <2>5, <3>1, <4>1
      <3> QED
        BY <2>5, <2>7, <2>9, <3>1, <3>2, <3>3, Zenon DEF Stays, r, q
    <2>11. CASE ~(Takes(t) /\ n > 0)
      <3>1. before(p, R) = 0
        BY <2>11, <2>12, Zenon
      <3>2. Reports(r) = SubSeq(Reports(r), 1, Len(Reports(r)))
        BY <2>5
      <3>3. 0 + 1 = 1
        OBVIOUS
      <3>4. q.ring = r
        BY <2>7, <2>11, Zenon
      <3>5. before(p, R) <= Len(Reports(r))
        BY <2>4, <2>5, <3>1
      <3> QED
        BY <2>5, <2>7, <2>9, <3>1, <3>2, <3>3, <3>4, <3>5, Zenon DEF Stays, r, q
    <2> QED
      BY <2>10, <2>11, Zenon
  <1>8. ASSUME NEW k \in 1 .. R
        PROVE  /\ message'[k].place \in Slot
               /\ message'[k].report =
                    Reports(item[message'[k].place].ring)[before(message'[k].place, k)]
    <2> DEFINE p == AllEntries[k].slot
    <2>1. k \in 1 .. Held[2 * NItems] /\ k \in 0 .. R /\ k \in Nat
      BY <1>1
    <2>2. PICK t \in Turn : Held[t - 1] < k /\ k <= Held[t]
      BY <2>1, EntryTurn, Zenon
    <2>3. AllEntries[k] = Entry(SlotAt(t), k - Held[t - 1])
      BY <2>1, <2>2, EntryAt
    <2>4. p = SlotAt(t) /\ p \in Slot
      BY <2>2, <2>3, TurnFacts DEF Entry
    <2> HIDE DEF p
    <2>5. /\ Held[TurnOf(p) - 1] < k /\ k <= Held[TurnOf(p)]
          /\ AllEntries[k].report = Reports(item[p].ring)[k - Held[TurnOf(p) - 1]]
      BY <2>1, <2>4, EntriesOf DEF p
    <2>6. Held[TurnOf(p) - 1] \in Nat
      BY <2>4, TurnFacts, HeldFacts
    <2>7. before(p, k) = k - Held[TurnOf(p) - 1]
      BY <1>6, <2>1, <2>4, <2>5, <2>6
    <2>8. message'[k].place = p /\ message'[k].report = AllEntries[k].report
      BY <1>4 DEF p
    <2> QED
      BY <2>4, <2>5, <2>7, <2>8
  <1>9. \A p \in Slot, k \in 0 .. R :
          Queues!Cardinality({i \in 1 .. k : message'[i].place = p}) = before(p, k)
    BY <1>5, SameCardinality, Zenon
  <1>10. R \in 0 .. R /\ \A k \in 1 .. R : k \in 0 .. R
    BY <1>1
  <1> DEFINE list == [s \in Slot |-> Reports(item[s].ring)]
  <1>11. \A p \in Slot : list[p] = Reports(item[p].ring) /\ list'[p] = Reports(item'[p].ring)
    BY Zenon
  <1> HIDE DEF list
  <1>12. \A p \in Slot :
           LET n == Queues!Cardinality({i \in 1 .. Len(message') : message'[i].place = p})
           IN /\ n <= Len(list[p])
              /\ list'[p] = SubSeq(list[p], n + 1, Len(list[p]))
    <2> TAKE p \in Slot
    <2>1. Queues!Cardinality({i \in 1 .. Len(message') : message'[i].place = p}) = before(p, R)
      BY <1>4, <1>9, <1>10
    <2> QED
      BY <1>7, <1>11, <2>1, ZenonT(60)
  <1>13. \A k \in 1 .. Len(message') :
           LET p == message'[k].place
           IN /\ p \in Slot
              /\ message'[k].report = list[p][Queues!Cardinality({i \in 1 .. k : message'[i].place = p})]
    <2> TAKE k \in 1 .. Len(message')
    <2>1. k \in 1 .. R /\ message'[k].place \in Slot
      BY <1>4, <1>8
    <2>2. Queues!Cardinality({i \in 1 .. k : message'[i].place = message'[k].place})
            = before(message'[k].place, k)
      BY <1>9, <1>10, <2>1
    <2> QED
      BY <1>8, <1>11, <2>1, <2>2, Zenon
  <1>14. /\ [s \in Slot |-> item[s].id]' = [s \in Slot |-> item[s].id]
         /\ [s \in Slot |-> item[s].ring.size]' = [s \in Slot |-> item[s].ring.size]
         /\ [s \in Slot |-> item[s].ring.discard]' = [s \in Slot |-> item[s].ring.discard]
    BY <1>7, Zenon
  <1> QED
    BY <1>2, <1>12, <1>13, <1>14, Zenon DEF Queues!Notify, Queues!Carried, message, list

(* Every request, and every tick that sends nothing, in terms of the queues. *)
LEMMA RequestsImplement ==
  ASSUME Library, IInv, ~resized, Requests
  PROVE  Queues!Renew \/ Queues!Modify
  <1>1. Typed /\ \A s \in Slot : Sound(item[s].ring)
    BY DEF IInv, RingsSound
  <1>2. item \in [Slot -> ItemType] /\ \A s \in Slot : IF item[s].used THEN item[s].id # 0 ELSE item[s] = Free
    BY <1>1, Zenon DEF Typed
  <1>3. ASSUME NEW n \in Node, NEW m \in Modes, NEW z \in Sizes, NEW d \in Discards,
               NEW b \in Deadbands, NEW t \in Triggers, CreateMonitoredItem(n, m, z, d, b, t)
        PROVE  Queues!Renew
    <2> DEFINE f == FirstFree
               c == Configured(nextId, n, m, z, d, b, t)
    <2>1. f \in Slot /\ ~item[f].used
      BY <1>3, FirstFreeIsFree, Zenon DEF CreateMonitoredItem
    <2>2. c.id = nextId /\ c.ring.count = 0 /\ nextId # 0
      BY <1>1, ConfiguredItem DEF Typed
    <2>3. item' = [item EXCEPT ![f] = c] /\ sent' = <<>> /\ resized' = resized
      BY <1>3, Zenon DEF CreateMonitoredItem
    <2> HIDE DEF f, c
    <2>4. item[f].id = 0
      BY <1>2, <2>1, FreeItem
    <2>5. \A s \in Slot : \/ item[s].id' = item[s].id /\ item[s].ring' = item[s].ring
                          \/ item[s].id' # item[s].id /\ item[s].ring.count' = 0
      <3> TAKE s \in Slot
      <3>1. CASE s = f
        BY <1>2, <2>2, <2>3, <2>4, <3>1
      <3>2. CASE s # f
        BY <1>2, <2>3, <3>2, Zenon
      <3> QED
        BY <3>1, <3>2, Zenon
    <2> QED
      BY <2>3, <2>5, RenewImplements
  <1>4. ASSUME NEW s \in Slot, DeleteMonitoredItem(s)
        PROVE  Queues!Renew
    <2>1. item' = [item EXCEPT ![s] = Free] /\ item[s].used /\ sent' = <<>> /\ resized' = resized
      BY <1>4, Zenon DEF DeleteMonitoredItem
    <2>2. \A u \in Slot : \/ item[u].id' = item[u].id /\ item[u].ring' = item[u].ring
                          \/ item[u].id' # item[u].id /\ item[u].ring.count' = 0
      BY <1>2, <2>1, FreeItem
    <2> QED
      BY <2>1, <2>2, RenewImplements
  <1>5. ASSUME DeleteSubscription
        PROVE  Queues!Renew
    <2>1. item' = [s \in Slot |-> Free] /\ sent' = <<>> /\ resized' = resized
      BY <1>5, Zenon DEF DeleteSubscription
    <2>2. \A u \in Slot : \/ item[u].id' = item[u].id /\ item[u].ring' = item[u].ring
                          \/ item[u].id' # item[u].id /\ item[u].ring.count' = 0
      BY <1>2, <2>1, FreeItem, Zenon
    <2> QED
      BY <2>1, <2>2, RenewImplements, Zenon
  <1>6. ASSUME NEW s \in Slot, NEW m \in Modes, SetMonitoringMode(s, m)
        PROVE  Queues!Renew
    <2> DEFINE q == ModeSet(item[s], m)
    <2>1. item' = [item EXCEPT ![s] = q] /\ item[s].used /\ sent' = <<>> /\ resized' = resized
      BY <1>6, Zenon DEF SetMonitoringMode
    <2>2. q.id = item[s].id /\ q.ring = item[s].ring
      BY <1>1, <2>1, TypedFacts, ModeItem DEF Typed
    <2> HIDE DEF q
    <2>3. \A u \in Slot : item[u].id' = item[u].id /\ item[u].ring' = item[u].ring
      BY <1>2, <2>1, <2>2, Zenon
    <2> QED
      BY <2>1, <2>3, RenewImplements, Zenon
  <1>7. ASSUME NEW s \in Slot, NEW t \in Slot, AddTriggerLink(s, t) \/ RemoveTriggerLink(s, t)
        PROVE  Queues!Renew
    <2> DEFINE L == IF AddTriggerLink(s, t) THEN Linked(item[s].links, item[t].id)
                    ELSE Unlinked(item[s].links, item[t].id)
               q == [item[s] EXCEPT !.links = L]
    <2>1. item' = [item EXCEPT ![s].links = L] /\ sent' = <<>> /\ resized' = resized
      BY <1>7 DEF AddTriggerLink, RemoveTriggerLink
    <2> HIDE DEF L
    <2>2. item' = [item EXCEPT ![s] = q]
      BY <1>2, <2>1, Zenon
    <2>3. q.id = item[s].id /\ q.ring = item[s].ring
      BY <1>2, Zenon DEF ItemType
    <2> HIDE DEF q
    <2>4. \A u \in Slot : item[u].id' = item[u].id /\ item[u].ring' = item[u].ring
      BY <1>2, <2>2, <2>3, Zenon
    <2> QED
      BY <2>1, <2>4, RenewImplements, Zenon
  <1>8. ASSUME ResendData \/ SetPublishingMode
        PROVE  Queues!Renew
    <2>1. item' = item /\ sent' = <<>> /\ resized' = resized
      BY <1>8, Zenon DEF ResendData, SetPublishingMode
    <2> QED
      BY <2>1, RenewImplements, Zenon
  <1>9. ASSUME NEW n \in Node, SignalSemanticChange(n)
        PROVE  Queues!Renew
    <2>1. /\ item' = [s \in Slot |->
                        IF item[s].used /\ item[s].node = n
                        THEN [item[s] EXCEPT !.semantics = TRUE, !.pending = TRUE] ELSE item[s]]
          /\ sent' = <<>> /\ resized' = resized
      BY <1>9, Zenon DEF SignalSemanticChange
    <2>2. \A u \in Slot : item[u].id' = item[u].id /\ item[u].ring' = item[u].ring
      <3> TAKE u \in Slot
      <3> DEFINE q == [item[u] EXCEPT !.semantics = TRUE, !.pending = TRUE]
      <3>1. q.id = item[u].id /\ q.ring = item[u].ring
        BY <1>2, Zenon DEF ItemType
      <3>2. item[u]' = q \/ item[u]' = item[u]
        BY <2>1, Zenon
      <3> HIDE DEF q
      <3> QED
        BY <3>1, <3>2, Zenon
    <2> QED
      BY <2>1, <2>2, RenewImplements, Zenon
  <1> QED
    BY <1>1, <1>3, <1>4, <1>5, <1>6, <1>7, <1>8, <1>9, ModifyImplements DEF Requests

(* Every step of a tick is one of the queues, as long as none was resized     *)
(* while it held reports.                                                     *)
LEMMA TickImplements ==
  ASSUME Library, IInv, ~resized, Tick
  PROVE  Queues!Enqueue \/ Queues!Notify \/ Queues!Renew
  <1>1. Typed /\ \A s \in Slot : Sound(item[s].ring)
    BY DEF IInv, RingsSound
  <1>2. ASSUME NEW due \in SUBSET Slot, SampleItems(due)
        PROVE  Queues!Enqueue
    <2>1. sent' = <<>> /\ resized' = resized /\ \A s \in Slot : Grows(item[s], item[s]')
      BY <1>2, SampleGrows, Zenon
    <2>2. \A s \in Slot : Grown(item[s].ring, item[s].ring') /\ item[s].id' = item[s].id
      BY <2>1, Zenon DEF Grows, SameItem
    <2> QED
      BY <1>1, <2>1, <2>2, EnqueueImplements
  <1>3. ASSUME PrepareNotification
        PROVE  Queues!Enqueue
    <2>1. sent' = <<>> /\ resized' = resized /\ \A s \in Slot : Grows(item[s], item[s]')
      BY <1>3, PrepareGrows, Zenon
    <2>2. \A s \in Slot : Grown(item[s].ring, item[s].ring') /\ item[s].id' = item[s].id
      BY <2>1, Zenon DEF Grows, SameItem
    <2> QED
      BY <1>1, <2>1, <2>2, EnqueueImplements
  <1>4. ASSUME NEW answered \in BOOLEAN, EmitNotification(answered)
        PROVE  Queues!Notify \/ Queues!Renew
    <2>1. CASE Sends
      BY <1>1, <2>1, SendsImplements, Zenon
    <2>2. CASE sent' = <<>> /\ item' = item /\ resized' = resized
      BY <2>2, RenewImplements, Zenon
    <2> QED
      BY <1>4, <2>1, <2>2, EmitCases
  <1>5. ASSUME NotDue
        PROVE  Queues!Renew
    <2>1. sent' = <<>> /\ item' = item /\ resized' = resized
      BY <1>5, Zenon DEF NotDue, ghosts
    <2> QED
      BY <2>1, RenewImplements, Zenon
  <1> QED
    BY <1>2, <1>3, <1>4, <1>5 DEF Tick

(* A queue that was resized stays so. *)
LEMMA ResizedStays ==
  ASSUME Library, IInv, Next, resized
  PROVE  resized'
  <1>1. CASE Requests
    BY <1>1, Zenon DEF Requests, CreateMonitoredItem, ModifyMonitoredItem, SetMonitoringMode,
       DeleteMonitoredItem, DeleteSubscription, AddTriggerLink, RemoveTriggerLink, ResendData,
       SetPublishingMode, SignalSemanticChange
  <1>2. CASE \E n \in Node, r \in Reading : ChangeSource(n, r)
    BY <1>2, Zenon DEF ChangeSource
  <1>3. CASE Tick
    BY <1>3, SampleGrows, PrepareGrows, EmitCases, Zenon DEF Tick, NotDue, ghosts, Sends
  <1> QED
    BY <1>1, <1>2, <1>3, Zenon DEF Next

(* The items start with empty queues. *)
LEMMA InitImplements ==
  ASSUME Library
  PROVE  Init => Queues!Init
  <1> SUFFICES ASSUME Init
               PROVE  Queues!Init
    OBVIOUS
  <1>1. source \in [Node -> Reading]
    BY DEF Init
  <1>2. PICK k \in Created, n \in [Slot -> Node], m \in [Slot -> Modes], z \in Sizes, d \in Discards,
             b \in Deadbands, t \in Triggers :
          item = [s \in Slot |-> IF s <= k THEN Configured(s, n[s], m[s], z, d, b, t) ELSE Free]
    BY DEF Init
  <1>3. \A s \in Slot : item[s].ring.count = 0
    <2> TAKE s \in Slot
    <2>1. s \in Nat \ {0} /\ m[s] \in Modes /\ n[s] \in Node
      BY ItemsAssumption DEF Slot
    <2>2. Configured(s, n[s], m[s], z, d, b, t).ring.count = 0
      <3>1. \A id \in Nat \ {0}, node \in Node, mode \in Modes :
              Configured(id, node, mode, z, d, b, t).ring.count = 0
        BY <1>1, ConfiguredItem
      <3> QED
        BY <2>1, <3>1, Zenon
    <2>3. Free.ring.count = 0
      BY FreeItem
    <2> QED
      BY <1>2, <2>2, <2>3, Zenon
  <1>4. \A s \in Slot : Reports(item[s].ring) = <<>>
    BY <1>3, NoReports
  <1>5. [s \in Slot |-> Reports(item[s].ring)] = [s \in Slot |-> <<>>]
    BY <1>4
  <1>6. [k_1 \in 1 .. Len(sent) |-> [place |-> sent[k_1].slot, report |-> sent[k_1].report]] = <<>>
    BY DEF Init
  <1> QED
    BY <1>5, <1>6 DEF Queues!Init, Init

(* Every step is a step of the queues, or leaves them. *)
LEMMA NextImplements ==
  ASSUME Library
  PROVE  IInv /\ [Next]_vars => [Queues!Next]_Queues!qvars
  <1> SUFFICES ASSUME IInv, [Next]_vars
               PROVE  [Queues!Next]_Queues!qvars
    BY Zenon
  <1>1. CASE UNCHANGED vars
    BY <1>1 DEF vars, ghosts, Queues!qvars
  <1>2. CASE Next /\ resized
    BY <1>2, ResizedStays, Zenon DEF Queues!Next
  <1>3. CASE Next /\ ~resized
    <2>1. CASE Requests
      BY <1>3, <2>1, RequestsImplement, Zenon DEF Queues!Next
    <2>2. CASE \E n \in Node, r \in Reading : ChangeSource(n, r)
      <3>1. sent' = <<>> /\ item' = item /\ resized' = resized
        BY <2>2 DEF ChangeSource
      <3> QED
        BY <3>1, RenewImplements, Zenon DEF Queues!Next
    <2>3. CASE Tick
      BY <1>3, <2>3, TickImplements, Zenon DEF Queues!Next
    <2> QED
      BY <1>3, <2>1, <2>2, <2>3 DEF Next
  <1> QED
    BY <1>1, <1>2, <1>3, Zenon

-----------------------------------------------------------------------------
(* Theorems *)

(* The definitions of FiniteSets. FiniteSetTheorems, instantiated below, has   *)
(* its own copy of them.                                                      *)
Listed(S) == \E seq \in Seq(S) : \A s \in S : \E n \in 1 .. Len(seq) : seq[n] = s

SizeOf(S) ==
  LET CS[T \in SUBSET S] == IF T = {} THEN 0 ELSE 1 + CS[T \ {CHOOSE x : x \in T}]
  IN CS[S]

LEMMA SizesDefined ==
  ASSUME NEW S
  PROVE  (IsFiniteSet(S) <=> Listed(S)) /\ Cardinality(S) = SizeOf(S)
  BY Zenon DEF IsFiniteSet, Cardinality, Listed, SizeOf

(* What is known of the definitions is known of the operators. *)
LEMMA FromDefinitions ==
  ASSUME \A S \in SUBSET Nat : S # {} => \E n \in S : \A m \in S : n <= m,
         Listed({}) /\ SizeOf({}) = 0,
         \A S : Listed(S) => SizeOf(S) \in Nat,
         \A S, x : Listed(S) =>
           /\ Listed(S \cup {x})
           /\ SizeOf(S \cup {x}) = IF x \in S THEN SizeOf(S) ELSE SizeOf(S) + 1
           /\ Listed(S \ {x})
           /\ SizeOf(S \ {x}) = IF x \in S THEN SizeOf(S) - 1 ELSE SizeOf(S),
         \A S : Listed(S) => \A T \in SUBSET S : Listed(T) /\ SizeOf(T) <= SizeOf(S),
         \A a, b \in Int : Listed(a .. b) /\ SizeOf(a .. b) = IF a > b THEN 0 ELSE b - a + 1
  PROVE  Library
  <1>1. IsFiniteSet({}) /\ Cardinality({}) = 0
    BY SizesDefined, Zenon
  <1>2. \A S : IsFiniteSet(S) => Cardinality(S) \in Nat
    BY SizesDefined, SMT
  <1>3. ASSUME NEW S, NEW x, IsFiniteSet(S)
        PROVE  /\ IsFiniteSet(S \cup {x})
               /\ Cardinality(S \cup {x}) = IF x \in S THEN Cardinality(S) ELSE Cardinality(S) + 1
               /\ IsFiniteSet(S \ {x})
               /\ Cardinality(S \ {x}) = IF x \in S THEN Cardinality(S) - 1 ELSE Cardinality(S)
    <2>1. Listed(S) /\ Cardinality(S) = SizeOf(S)
      BY <1>3, SizesDefined
    <2>2. /\ IsFiniteSet(S \cup {x}) <=> Listed(S \cup {x})
          /\ Cardinality(S \cup {x}) = SizeOf(S \cup {x})
          /\ IsFiniteSet(S \ {x}) <=> Listed(S \ {x})
          /\ Cardinality(S \ {x}) = SizeOf(S \ {x})
      BY SizesDefined, Zenon
    <2>3. /\ Listed(S \cup {x}) /\ Listed(S \ {x})
          /\ SizeOf(S \cup {x}) = IF x \in S THEN SizeOf(S) ELSE SizeOf(S) + 1
          /\ SizeOf(S \ {x}) = IF x \in S THEN SizeOf(S) - 1 ELSE SizeOf(S)
      BY <2>1, Zenon
    <2> QED
      BY <2>1, <2>2, <2>3, Zenon
  <1>4. ASSUME NEW S, IsFiniteSet(S), NEW T \in SUBSET S
        PROVE  IsFiniteSet(T) /\ Cardinality(T) <= Cardinality(S)
    <2>1. /\ Listed(S) /\ Cardinality(S) = SizeOf(S)
          /\ IsFiniteSet(T) <=> Listed(T)
          /\ Cardinality(T) = SizeOf(T)
      BY <1>4, SizesDefined, Zenon
    <2>2. Listed(T) /\ SizeOf(T) <= SizeOf(S)
      BY <2>1, Zenon
    <2> QED
      BY <2>1, <2>2, Zenon
  <1>5. ASSUME NEW a \in Int, NEW b \in Int
        PROVE  IsFiniteSet(a .. b) /\ Cardinality(a .. b) = IF a > b THEN 0 ELSE b - a + 1
    <2>1. (IsFiniteSet(a .. b) <=> Listed(a .. b)) /\ Cardinality(a .. b) = SizeOf(a .. b)
      BY SizesDefined, ZenonT(60)
    <2>2. Listed(a .. b) /\ SizeOf(a .. b) = IF a > b THEN 0 ELSE b - a + 1
      BY Zenon
    <2> QED
      BY <2>1, <2>2, Zenon
  <1> QED
    BY <1>1, <1>2, <1>3, <1>4, <1>5, Zenon DEF Library

LOCAL INSTANCE FiniteSetTheorems

(* The library's theorems. *)
LEMMA LibraryHolds == Library
  <1>1. \A S \in SUBSET Nat : S # {} => \E n \in S : \A m \in S : n <= m
    <2> SUFFICES ASSUME NEW S \in SUBSET Nat, S # {}
                 PROVE  \E n \in S : \A m \in S : n <= m
      OBVIOUS
    <2>1. IsWellFoundedOn(OpToRel(<, Nat), Nat)
      BY NatLessThanWellFounded, Zenon
    <2>2. PICK n \in S : \A m \in S : ~(<<m, n>> \in OpToRel(<, Nat))
      BY <2>1, WFMin, ZenonT(60)
    <2>3. \A m \in S : ~(m < n)
      BY <2>2, Zenon DEF OpToRel
    <2> QED
      BY <2>3
  <1>2. \A S : (IsFiniteSet(S) <=> Listed(S)) /\ Cardinality(S) = SizeOf(S)
    BY Zenon DEF IsFiniteSet, Cardinality, Listed, SizeOf
  <1>3. Listed({}) /\ SizeOf({}) = 0
    BY <1>2, FS_EmptySet, Zenon
  <1>4. \A S : Listed(S) => SizeOf(S) \in Nat
    BY <1>2, FS_CardinalityType, Zenon
  <1>5. \A S, x : Listed(S) =>
          /\ Listed(S \cup {x})
          /\ SizeOf(S \cup {x}) = IF x \in S THEN SizeOf(S) ELSE SizeOf(S) + 1
          /\ Listed(S \ {x})
          /\ SizeOf(S \ {x}) = IF x \in S THEN SizeOf(S) - 1 ELSE SizeOf(S)
    <2> SUFFICES ASSUME NEW S, NEW x, IsFiniteSet(S)
                 PROVE  /\ IsFiniteSet(S \cup {x})
                        /\ Cardinality(S \cup {x}) = IF x \in S THEN Cardinality(S) ELSE Cardinality(S) + 1
                        /\ IsFiniteSet(S \ {x})
                        /\ Cardinality(S \ {x}) = IF x \in S THEN Cardinality(S) - 1 ELSE Cardinality(S)
      BY <1>2, Zenon
    <2> QED
      BY FS_AddElement, FS_RemoveElement
  <1>6. \A S : Listed(S) => \A T \in SUBSET S : Listed(T) /\ SizeOf(T) <= SizeOf(S)
    BY <1>2, FS_Subset, Zenon
  <1>7. \A a, b \in Int : Listed(a .. b) /\ SizeOf(a .. b) = IF a > b THEN 0 ELSE b - a + 1
    BY <1>2, FS_Interval
  <1> QED
    BY <1>1, <1>3, <1>4, <1>5, <1>6, <1>7, FromDefinitions, Zenon

(* The inductive invariant holds in every reachable state. *)
THEOREM AlwaysIInv == Spec => []IInv
  <1>1. Init => IInv
    BY InitIInv, LibraryHolds, Zenon
  <1>2. IInv /\ [Next]_vars => IInv'
    BY NextIInv, LibraryHolds
  <1> QED
    BY <1>1, <1>2, PTL DEF Spec

(* The indices of every ring stay inside its cells, no item has more trigger  *)
(* links than there is room for, and active_monitored_items_count is the      *)
(* number of items in use.                                                    *)
THEOREM TypeCorrect == Spec => []TypeOK
  BY InvariantTyped, AlwaysIInv, PTL

(* Between ticks, a reporting item with nothing left to report has told its   *)
(* client the value and the status it compares new samples with, unless a     *)
(* queue that held reports was resized or an item was enabled again over its  *)
(* reports or a failed read.                                                  *)
THEOREM AlwaysToldCurrent == Spec => []ToldCurrent
  BY InvariantTold, AlwaysIInv, PTL

(* What did not fit into a notification is left with an item that the next    *)
(* notification reports; and a sampling item is reported only with a          *)
(* reporting item that links to it and has been reported whole.               *)
THEOREM AlwaysInTurn == Spec => ReportsInTurn
  <1>1. IInv /\ [Next]_vars => [InTurn]_vars
    BY NextInTurn, LibraryHolds
  <1>2. Spec => [][InTurn]_vars
    BY <1>1, AlwaysIInv, PTL DEF Spec
  <1> QED
    BY <1>2, Zenon DEF ReportsInTurn, InTurn

(* The rings, the sampling and the notifications implement the bounded        *)
(* queues of ReportQueue: no report is lost unmarked, none is invented, each  *)
(* notification carries the front of each queue and exactly that leaves it.   *)
THEOREM RingsImplementQueues == Spec => QueuesImplemented
  <1>1. Init => Queues!Init
    BY InitImplements, LibraryHolds
  <1>2. IInv /\ [Next]_vars => [Queues!Next]_Queues!qvars
    BY NextImplements, LibraryHolds
  <1>3. Spec => Queues!Spec
    BY <1>1, <1>2, AlwaysIInv, PTL DEF Spec, Queues!Spec
  <1> QED
    BY <1>3 DEF QueuesImplemented

=============================================================================
