------------------------- MODULE NotificationProofs -------------------------
(* The requests of a client keep the invariant of MonitoredItems. What a      *)
(* notification takes from the items, for every number of items, depth, limit *)
(* and link: its entries, the order they come in and what each item holds     *)
(* afterwards; that it keeps the invariant, and what it may leave.            *)
EXTENDS ReportProofs

-----------------------------------------------------------------------------
(* The invariant is inductive: the start and the requests *)

(* find_free_monitored_item finds a slot that is free. *)
LEMMA FirstFreeIsFree ==
  ASSUME Library, NEW u \in Slot, ~item[u].used
  PROVE  FirstFree \in Slot /\ ~item[FirstFree].used
  <1> DEFINE S == {s \in Slot : ~item[s].used}
  <1>1. S \in SUBSET Nat /\ S # {}
    BY ItemsAssumption DEF Slot
  <1> HIDE DEF S
  <1>2. PICK s \in S : \A m \in S : s <= m
    BY <1>1, LeastNumber, Zenon
  <1> USE DEF S
  <1>3. \A t \in 1 .. s - 1 : item[t].used
    <2> TAKE t \in 1 .. s - 1
    <2>1. t \in Slot /\ ~(s <= t)
      BY ItemsAssumption DEF Slot
    <2> QED
      BY <1>2, <2>1, Zenon
  <1>4. \E q \in Slot : ~item[q].used /\ \A t \in 1 .. q - 1 : item[t].used
    BY <1>3
  <1> HIDE DEF S
  <1> QED
    BY <1>4 DEF FirstFree

(* The first state satisfies the invariant, whatever items were created. *)
LEMMA InitIInv ==
  ASSUME Library
  PROVE  Init => IInv
  <1> SUFFICES ASSUME Init PROVE IInv
    OBVIOUS
  <1>1. source \in [Node -> Reading]
    BY DEF Init
  <1>2. PICK k \in Created, n \in [Slot -> Node], m \in [Slot -> Modes], z \in Sizes, d \in Discards,
             b \in Deadbands, t \in Triggers :
          /\ item = [s \in Slot |-> IF s <= k THEN Configured(s, n[s], m[s], z, d, b, t) ELSE Free]
          /\ nextId = k + 1
          /\ active = k
    BY DEF Init
  <1>3. k \in 0 .. NItems
    BY ItemsAssumption, Zenon
  <1>4. \A s \in Slot : /\ Fine(item[s]) /\ item[s].used = (s <= k) /\ Sound(item[s].ring)
                        /\ CaughtUp(item[s], told[s])
    <2> TAKE s \in Slot
    <2>1. s \in Nat \ {0} /\ m[s] \in Modes /\ n[s] \in Node
      BY ItemsAssumption DEF Slot
    <2>2. CASE s <= k
      <3>1. item[s] = Configured(s, n[s], m[s], z, d, b, t)
        BY <1>2, <2>2
      <3>2. Fine(item[s]) /\ item[s].used /\ Sound(item[s].ring) /\ CaughtUp(item[s], told[s])
        BY <1>1, <2>1, <3>1, ConfiguredItem
      <3>3. item[s].used \in BOOLEAN
        BY <3>2, ItemFields, Zenon DEF Fine
      <3> QED
        BY <2>2, <3>2, <3>3, Zenon
    <2>3. CASE ~(s <= k)
      <3>1. item[s] = Free
        BY <1>2, <2>3
      <3>2. Fine(Free) /\ Free.used = FALSE /\ CaughtUp(Free, told[s])
        BY FreeItem, ItemFields DEF Fine, CaughtUp
      <3>3. Sound(Free.ring)
        BY FreeItem
      <3>4. (s <= k) = FALSE
        BY <2>3
      <3> QED
        BY <3>1, <3>2, <3>3, <3>4, Zenon
    <2> QED
      BY <2>2, <2>3, Zenon
  <1>5. item \in [Slot -> ItemType]
    <2>1. \A s \in Slot : item[s] \in ItemType
      BY <1>4 DEF Fine
    <2>2. item = [s \in Slot |-> item[s]]
      BY <1>2
    <2> QED
      BY <2>1, <2>2, Zenon
  <1>6. Used = 1 .. k
    <2>1. \A s : s \in Used <=> s \in Slot /\ s <= k
      BY <1>4, Zenon DEF Used
    <2>2. \A s : s \in Slot /\ s <= k <=> s \in 1 .. k
      BY <1>3, ItemsAssumption DEF Slot
    <2> QED
      BY <2>1, <2>2, Zenon
  <1>7. Cardinality(Used) = k
    BY <1>3, <1>6, FiniteInterval
  <1>8. Typed
    <2>1. nextId \in Nat \ {0} /\ active = Cardinality(Used)
      BY <1>2, <1>3, <1>7
    <2>2. limit \in Nat
      BY ItemsAssumption DEF Init
    <2> QED
      BY <1>1, <1>4, <1>5, <2>1, <2>2, Zenon DEF Typed, Fine, Init
  <1>9. Covered /\ Prepared
    BY DEF Init, Covered, Prepared
  <1> QED
    BY <1>4, <1>8, <1>9, Zenon DEF IInv, RingsSound, AllCaughtUp

(* CreateMonitoredItems adds one to the count and an empty queue. *)
LEMMA CreateKeeps ==
  ASSUME Library, IInv, NEW n \in Node, NEW m \in Modes, NEW z \in Sizes, NEW d \in Discards,
         NEW b \in Deadbands, NEW t \in Triggers, CreateMonitoredItem(n, m, z, d, b, t)
  PROVE  IInv'
  <1> DEFINE f == FirstFree
             c == Configured(nextId, n, m, z, d, b, t)
  <1>1. Typed
    BY DEF IInv
  <1>2. f \in Slot /\ ~item[f].used
    BY FirstFreeIsFree, Zenon DEF CreateMonitoredItem
  <1>3. Fine(c) /\ c.used /\ Sound(c.ring) /\ \A u : CaughtUp(c, u)
    BY <1>1, ConfiguredItem, Zenon DEF Typed
  <1>4. /\ item' = [item EXCEPT ![f] = c] /\ told' = [told EXCEPT ![f] = Bad]
        /\ nextId' = nextId + 1 /\ active' = active + 1
        /\ UNCHANGED <<subVars, source, bitmap, resized, reenabled>> /\ phase' = "idle"
    BY DEF CreateMonitoredItem, Request
  <1> HIDE DEF f, c
  <1>5. item \in [Slot -> ItemType] /\ DOMAIN told = Slot
    BY <1>1 DEF Typed
  <1>6. item'[f] = c /\ \A s \in Slot \ {f} : item[s]' = item[s] /\ told[s]' = told[s]
    BY <1>2, <1>4, <1>5, Zenon
  <1>7. item' \in [Slot -> ItemType] /\ told' = [s \in Slot |-> told[s]']
    BY <1>3, <1>4, <1>5, Zenon DEF Fine
  <1>8. \A s \in Slot : Fine(item[s]')
    <2> TAKE s \in Slot
    <2>1. CASE s = f
      BY <1>3, <1>6, <2>1
    <2>2. CASE s # f
      BY <1>1, <1>6, <2>2, TypedFacts, Zenon
    <2> QED
      BY <2>1, <2>2
  <1>9. Used' = Used \cup {f} /\ f \notin Used
    BY <1>2, <1>3, <1>6, Zenon DEF Used
  <1>10. active' = Cardinality(Used')
    BY <1>1, <1>2, <1>4, <1>9, UsedFinite DEF Typed
  <1>11. Typed'
    BY <1>1, <1>4, <1>7, <1>8, <1>10 DEF Typed, Fine, subVars
  <1>12. RingsSound'
    BY <1>3, <1>4, <1>6, Zenon DEF IInv, RingsSound
  <1>13. AllCaughtUp'
    <2> SUFFICES ASSUME ~resized', ~reenabled', NEW s \in Slot
                 PROVE  CaughtUp(item[s]', told[s]')
      BY DEF AllCaughtUp
    <2>1. CASE s = f
      BY <1>3, <1>6, <2>1
    <2>2. CASE s # f
      BY <1>4, <1>6, <2>2 DEF IInv, AllCaughtUp
    <2> QED
      BY <2>1, <2>2, Zenon
  <1> QED
    BY <1>4, <1>11, <1>12, <1>13, Rests DEF IInv

(* ModifyMonitoredItems may spoil a ring only by resizing one that holds      *)
(* reports.                                                                   *)
LEMMA ModifyKeeps ==
  ASSUME IInv, NEW s \in Slot, NEW z \in Sizes, NEW d \in Discards,
         NEW b \in Deadbands, NEW t \in Triggers, ModifyMonitoredItem(s, z, d, b, t)
  PROVE  IInv'
  <1> DEFINE q == Modified(item[s], z, d, b, t)
  <1>1. Typed
    BY Zenon DEF IInv
  <1>2. item[s] \in ItemType /\ Fine(item[s]) /\ item[s].used
    BY <1>1, TypedFacts, Zenon DEF ModifyMonitoredItem
  <1>3. /\ q \in ItemType /\ SameItem(item[s], q) /\ q.ring.size = ClampQueueSize(z)
        /\ item[s].ring.count = 0 \/ q.ring.size = item[s].ring.size =>
             /\ Sound(item[s].ring) => Sound(q.ring)
             /\ \A u : CaughtUp(item[s], u) => CaughtUp(q, u)
    BY <1>2, ModifiedItem
  <1>4. /\ item' = [item EXCEPT ![s] = q]
        /\ resized' = (resized \/ (ClampQueueSize(z) # item[s].ring.size /\ item[s].ring.count > 0))
        /\ UNCHANGED <<nextId, active, subVars, source, bitmap, told, reenabled>> /\ phase' = "idle"
    BY DEF ModifyMonitoredItem, Request
  <1> HIDE DEF q
  <1>5. item \in [Slot -> ItemType]
    BY <1>1, Zenon DEF Typed
  <1>6. item' \in [Slot -> ItemType] /\ item[s]' = q /\ \A u \in Slot \ {s} : item[u]' = item[u]
    BY <1>3, <1>4, <1>5, Zenon
  <1>7. Fine(q) /\ q.used = item[s].used
    BY <1>2, <1>3, Zenon DEF Fine, SameItem
  <1>8. \A u \in Slot : Fine(item[u]') /\ item[u].used' = item[u].used
    BY <1>1, <1>6, <1>7, TypedFacts
  <1>9. resized' \in BOOLEAN /\ (resized => resized')
    BY <1>1, <1>4, Zenon DEF Typed
  <1>10. ~resized' => item[s].ring.count = 0 \/ q.ring.size = item[s].ring.size
    <2>1. item[s].ring.count \in Nat
      BY <1>2, ItemFields
    <2>2. item[s].ring.count > 0 \/ item[s].ring.count = 0
      BY <2>1
    <2> QED
      BY <1>3, <1>4, <2>2, Zenon
  <1>11. ~resized' => \A u \in Slot : Sound(item[u].ring) => Sound(item[u].ring')
    BY <1>3, <1>6, <1>10
  <1>12. ~resized' => \A u \in Slot : CaughtUp(item[u], told[u]) => CaughtUp(item[u]', told[u])
    BY <1>3, <1>6, <1>10, Zenon
  <1>13. /\ nextId' = nextId /\ active' = active /\ limit' = limit /\ enabled' \in BOOLEAN
         /\ resend' \in BOOLEAN /\ source' \in [Node -> Reading] /\ bitmap' \subseteq Slot /\ told' = told
         /\ reenabled' \in BOOLEAN /\ (reenabled => reenabled')
    BY <1>1, <1>4, Zenon DEF Typed, subVars
  <1> QED
    BY <1>4, <1>6, <1>8, <1>9, <1>11, <1>12, <1>13, QuietStep

(* SetMonitoringMode moves last_value on only where a report is owed, or      *)
(* notes that it did not.                                                     *)
LEMMA ModeKeeps ==
  ASSUME IInv, NEW s \in Slot, NEW m \in Modes, SetMonitoringMode(s, m)
  PROVE  IInv'
  <1> DEFINE q == ModeSet(item[s], m)
             alone == /\ item[s].mode = "disabled" /\ m # "disabled"
                      /\ item[s].ring.count > 0 \/ source[item[s].node].st = "bad"
  <1>1. Typed
    BY Zenon DEF IInv
  <1>2. item[s] \in ItemType /\ Fine(item[s]) /\ item[s].used
    BY <1>1, TypedFacts, Zenon DEF SetMonitoringMode
  <1>3. /\ q \in ItemType /\ q.used /\ q.id = item[s].id /\ q.ring = item[s].ring
        /\ alone \/ \A u : CaughtUp(item[s], u) => CaughtUp(q, u)
    BY <1>1, <1>2, ModeItem, Zenon DEF Typed
  <1>4. /\ item' = [item EXCEPT ![s] = q] /\ reenabled' = (reenabled \/ alone)
        /\ UNCHANGED <<nextId, active, subVars, source, bitmap, told, resized>> /\ phase' = "idle"
    BY Zenon DEF SetMonitoringMode, Request
  <1> HIDE DEF q, alone
  <1>5. item \in [Slot -> ItemType]
    BY <1>1 DEF Typed
  <1>6. item' \in [Slot -> ItemType] /\ item[s]' = q /\ \A u \in Slot \ {s} : item[u]' = item[u]
    BY <1>3, <1>4, <1>5
  <1>7. Fine(q) /\ q.used = item[s].used
    BY <1>2, <1>3, ItemFields DEF Fine
  <1>8. \A u \in Slot : Fine(item[u]') /\ item[u].used' = item[u].used
    BY <1>1, <1>6, <1>7, TypedFacts, Zenon
  <1>9. reenabled' \in BOOLEAN /\ (reenabled => reenabled')
    BY <1>1, <1>4, Zenon DEF Typed
  <1>10. \A u \in Slot : Sound(item[u].ring) => Sound(item[u].ring')
    BY <1>3, <1>6, Zenon
  <1>11. ~reenabled' => \A u \in Slot : CaughtUp(item[u], told[u]) => CaughtUp(item[u]', told[u])
    BY <1>3, <1>4, <1>6, ZenonT(60)
  <1>12. /\ nextId' = nextId /\ active' = active /\ limit' = limit /\ enabled' \in BOOLEAN
         /\ resend' \in BOOLEAN /\ source' \in [Node -> Reading] /\ bitmap' \subseteq Slot /\ told' = told
         /\ resized' \in BOOLEAN /\ (resized => resized')
    BY <1>1, <1>4 DEF Typed, subVars
  <1> QED
    BY <1>4, <1>6, <1>8, <1>9, <1>10, <1>11, <1>12, QuietStep

(* A slot that is given up satisfies the invariant by itself. *)
LEMMA FreeFine ==
  ASSUME Library
  PROVE  Fine(Free) /\ Sound(Free.ring) /\ \A u : CaughtUp(Free, u)
  BY FreeItem DEF Fine, CaughtUp

(* DeleteMonitoredItems takes one from the count. *)
LEMMA DeleteKeeps ==
  ASSUME Library, IInv, NEW s \in Slot, DeleteMonitoredItem(s)
  PROVE  IInv'
  <1>1. Typed
    BY DEF IInv
  <1>2. item[s].used
    BY DEF DeleteMonitoredItem
  <1>3. /\ item' = [item EXCEPT ![s] = Free] /\ active' = active - 1
        /\ UNCHANGED <<nextId, subVars, source, bitmap, told, resized, reenabled>> /\ phase' = "idle"
    BY DEF DeleteMonitoredItem, Request
  <1>4. item \in [Slot -> ItemType] /\ told' = [u \in Slot |-> told[u]']
    BY <1>1, <1>3, Zenon DEF Typed
  <1>5. item' \in [Slot -> ItemType] /\ item[s]' = Free /\ \A u \in Slot \ {s} : item[u]' = item[u]
    BY <1>3, <1>4, FreeItem, Zenon
  <1>6. \A u \in Slot : Fine(item[u]')
    BY <1>1, <1>5, FreeFine, TypedFacts, Zenon
  <1>7. Used' = Used \ {s} /\ s \in Used
    BY <1>2, <1>5, FreeItem, Zenon DEF Used
  <1>8. active' = Cardinality(Used')
    BY <1>1, <1>3, <1>7, UsedFinite, Zenon DEF Typed
  <1>9. Typed'
    BY <1>1, <1>3, <1>4, <1>5, <1>6, <1>8 DEF Typed, Fine, subVars
  <1>10. RingsSound'
    BY <1>3, <1>5, FreeFine, Zenon DEF IInv, RingsSound
  <1>11. AllCaughtUp'
    <2> SUFFICES ASSUME ~resized', ~reenabled', NEW u \in Slot
                 PROVE  CaughtUp(item[u]', told[u]')
      BY Zenon DEF AllCaughtUp
    <2>1. CASE u = s
      BY <1>5, <2>1, FreeFine
    <2>2. CASE u # s
      BY <1>3, <1>5, <2>2, Zenon DEF IInv, AllCaughtUp
    <2> QED
      BY <2>1, <2>2, Zenon
  <1> QED
    BY <1>3, <1>9, <1>10, <1>11, Rests DEF IInv

(* With its Subscription every item goes, and the count goes to 0. *)
LEMMA DeleteAllKeeps ==
  ASSUME Library, IInv, DeleteSubscription
  PROVE  IInv'
  <1>1. Typed
    BY DEF IInv
  <1>2. /\ item' = [u \in Slot |-> Free] /\ active' = active - Cardinality(Used) /\ resend' = FALSE
        /\ UNCHANGED <<nextId, limit, enabled, source, bitmap, told, resized, reenabled>> /\ phase' = "idle"
    BY DEF DeleteSubscription, Departed, Used, Request
  <1>3. item' \in [Slot -> ItemType] /\ \A u \in Slot : item[u]' = Free
    BY <1>2, FreeItem, Zenon
  <1>4. Used' = {}
    BY <1>3, FreeItem, Zenon DEF Used
  <1>5. active' = Cardinality(Used')
    BY <1>1, <1>2, <1>4, UsedFinite, FiniteEmpty DEF Typed
  <1>6. told' = [u \in Slot |-> told[u]']
    BY <1>1, <1>2, Zenon DEF Typed
  <1>7. \A u \in Slot : Fine(item[u]') /\ Sound(item[u].ring') /\ CaughtUp(item[u]', told[u]')
    BY <1>3, FreeFine, Zenon
  <1>8. Typed'
    BY <1>1, <1>2, <1>3, <1>5, <1>6, <1>7, Zenon DEF Typed, Fine
  <1>9. RingsSound' /\ AllCaughtUp'
    BY <1>7 DEF RingsSound, AllCaughtUp
  <1> QED
    BY <1>2, <1>8, <1>9, Rests DEF IInv

(* SetTriggering changes the links of an item and nothing else. *)
LEMMA LinkKeeps ==
  ASSUME IInv, NEW s \in Slot, NEW L \in LinkSet, item[s].used,
         item' = [item EXCEPT ![s].links = L], phase' = "idle",
         UNCHANGED <<nextId, active, subVars, source, bitmap, told, resized, reenabled>>
  PROVE  IInv'
  <1> DEFINE q == [item[s] EXCEPT !.links = L]
  <1>1. Typed
    BY DEF IInv
  <1>2. item[s] \in ItemType /\ Fine(item[s])
    BY <1>1, TypedFacts, Zenon
  <1>3. /\ q \in ItemType /\ q.used = item[s].used /\ q.id = item[s].id /\ q.ring = item[s].ring
        /\ q.hasValue = item[s].hasValue /\ q.pending = item[s].pending /\ q.last = item[s].last
    BY <1>2, Zenon DEF ItemType
  <1>4. item' = [item EXCEPT ![s] = q]
    BY <1>1 DEF Typed
  <1> HIDE DEF q
  <1>5. item \in [Slot -> ItemType]
    BY <1>1 DEF Typed
  <1>6. item' \in [Slot -> ItemType] /\ item[s]' = q /\ \A u \in Slot \ {s} : item[u]' = item[u]
    BY <1>3, <1>4, <1>5
  <1>7. Fine(q)
    BY <1>2, <1>3 DEF Fine
  <1>8. \A u \in Slot : Fine(item[u]') /\ item[u].used' = item[u].used
    BY <1>1, <1>3, <1>6, <1>7, TypedFacts
  <1>9. \A u \in Slot : Sound(item[u].ring) => Sound(item[u].ring')
    BY <1>3, <1>6, Zenon
  <1>10. \A x : CaughtUp(item[s], x) => CaughtUp(q, x)
    BY <1>3 DEF CaughtUp
  <1>11. \A u \in Slot : CaughtUp(item[u], told[u]) => CaughtUp(item[u]', told[u])
    BY <1>6, <1>10, Zenon
  <1>12. /\ nextId' = nextId /\ active' = active /\ limit' = limit /\ enabled' \in BOOLEAN
         /\ resend' \in BOOLEAN /\ source' \in [Node -> Reading] /\ bitmap' \subseteq Slot /\ told' = told
         /\ resized' \in BOOLEAN /\ (resized => resized') /\ reenabled' \in BOOLEAN /\ (reenabled => reenabled')
    BY <1>1, Zenon DEF Typed, subVars
  <1> QED
    BY <1>6, <1>8, <1>9, <1>11, <1>12, QuietStep

(* mu_server_signal_semantic_change *)
LEMMA SemanticKeeps ==
  ASSUME IInv, NEW n \in Node, SignalSemanticChange(n)
  PROVE  IInv'
  <1>1. Typed
    BY Zenon DEF IInv
  <1>2. /\ item' = [s \in Slot |->
                      IF item[s].used /\ item[s].node = n
                      THEN [item[s] EXCEPT !.semantics = TRUE, !.pending = TRUE] ELSE item[s]]
        /\ UNCHANGED <<nextId, active, subVars, source, bitmap, told, resized, reenabled>> /\ phase' = "idle"
    BY Zenon DEF SignalSemanticChange, Request
  <1>3. \A s \in Slot : /\ item[s]' \in ItemType /\ Fine(item[s]') /\ item[s].used' = item[s].used
                        /\ item[s].ring' = item[s].ring
                        /\ CaughtUp(item[s], told[s]) => CaughtUp(item[s]', told[s])
    <2> TAKE s \in Slot
    <2>1. item[s] \in ItemType /\ Fine(item[s])
      BY <1>1, TypedFacts, Zenon
    <2> DEFINE q == [item[s] EXCEPT !.semantics = TRUE, !.pending = TRUE]
    <2>2. /\ q \in ItemType /\ q.used = item[s].used /\ q.id = item[s].id /\ q.ring = item[s].ring
          /\ q.hasValue = item[s].hasValue /\ q.pending /\ q.last = item[s].last
      BY <2>1, Zenon DEF ItemType
    <2>3. item[s]' = IF item[s].used /\ item[s].node = n THEN q ELSE item[s]
      BY <1>2, Zenon
    <2> HIDE DEF q
    <2>4. CASE item[s].used /\ item[s].node = n
      <3>1. Fine(q)
        BY <2>1, <2>2, <2>4 DEF Fine
      <3>2. CaughtUp(item[s], told[s]) => CaughtUp(q, told[s])
        BY <2>2, Zenon DEF CaughtUp
      <3> QED
        BY <2>2, <2>3, <2>4, <3>1, <3>2, Zenon
    <2>5. CASE ~(item[s].used /\ item[s].node = n)
      BY <2>1, <2>3, <2>5, Zenon
    <2> QED
      BY <2>4, <2>5, Zenon
  <1>4. item' \in [Slot -> ItemType]
    <2>1. item' = [s \in Slot |-> item'[s]]
      BY <1>2, Zenon
    <2> QED
      BY <1>3, <2>1, Zenon
  <1>5. /\ nextId' = nextId /\ active' = active /\ limit' = limit /\ enabled' \in BOOLEAN
        /\ resend' \in BOOLEAN /\ source' \in [Node -> Reading] /\ bitmap' \subseteq Slot /\ told' = told
        /\ resized' \in BOOLEAN /\ (resized => resized') /\ reenabled' \in BOOLEAN /\ (reenabled => reenabled')
    BY <1>1, <1>2, Zenon DEF Typed, subVars
  <1> QED
    BY <1>2, <1>3, <1>4, <1>5, QuietStep, ZenonT(60)

(* Every request keeps the invariant. *)
LEMMA RequestsKeep ==
  ASSUME Library, IInv, Requests
  PROVE  IInv'
  <1>1. Typed
    BY DEF IInv
  <1>2. ASSUME NEW s \in Slot, NEW t \in Slot, AddTriggerLink(s, t) \/ RemoveTriggerLink(s, t)
        PROVE  IInv'
    <2>1. item[s].links \in LinkSet /\ item[t].id \in Nat
      BY <1>1, TypedFacts, ItemFields
    <2> DEFINE L == IF AddTriggerLink(s, t) THEN Linked(item[s].links, item[t].id)
                    ELSE Unlinked(item[s].links, item[t].id)
    <2>2. L \in LinkSet
      BY <2>1, LinkSets, Zenon
    <2>3. /\ item' = [item EXCEPT ![s].links = L] /\ item[s].used /\ phase' = "idle"
          /\ UNCHANGED <<nextId, active, subVars, source, bitmap, told, resized, reenabled>>
      BY <1>2 DEF AddTriggerLink, RemoveTriggerLink, Request
    <2> HIDE DEF L
    <2> QED
      BY <2>2, <2>3, LinkKeeps, Zenon
  <1>3. ASSUME ResendData
        PROVE  IInv'
    <2>1. /\ phase' = "idle" /\ enabled' \in BOOLEAN /\ resend' \in BOOLEAN
          /\ source' \in [Node -> Reading] /\ bitmap' \subseteq Slot
          /\ UNCHANGED <<item, nextId, active, limit, told, resized, reenabled>>
      BY <1>1, <1>3, Zenon DEF ResendData, Request, Typed
    <2> QED
      BY <2>1, ItemsAlone, Zenon
  <1>4. ASSUME SetPublishingMode
        PROVE  IInv'
    <2>1. /\ phase' = "idle" /\ enabled' \in BOOLEAN /\ resend' \in BOOLEAN
          /\ source' \in [Node -> Reading] /\ bitmap' \subseteq Slot
          /\ UNCHANGED <<item, nextId, active, limit, told, resized, reenabled>>
      BY <1>1, <1>4, Zenon DEF SetPublishingMode, Request, Typed
    <2> QED
      BY <2>1, ItemsAlone
  <1> QED
    BY <1>2, <1>3, <1>4, CreateKeeps, ModifyKeeps, ModeKeeps, DeleteKeeps, DeleteAllKeeps,
       SemanticKeeps DEF Requests

(* A change of a source is seen by no item before it is sampled. *)
LEMMA ChangeKeeps ==
  ASSUME IInv, NEW n \in Node, NEW r \in Reading, ChangeSource(n, r)
  PROVE  IInv'
  <1>1. /\ phase' = "idle" /\ enabled' \in BOOLEAN /\ resend' \in BOOLEAN
        /\ source' \in [Node -> Reading] /\ bitmap' \subseteq Slot
        /\ UNCHANGED <<item, nextId, active, limit, told, resized, reenabled>>
    BY Zenon DEF ChangeSource, Request, IInv, Typed, subVars
  <1> QED
    BY <1>1, ItemsAlone, Zenon

(* A tick that publishes nothing gives up the bitmap. *)
LEMMA NotDueKeeps ==
  ASSUME IInv, NotDue
  PROVE  IInv'
  <1>1. /\ phase' = "idle" /\ enabled' \in BOOLEAN /\ resend' \in BOOLEAN
        /\ source' \in [Node -> Reading] /\ bitmap' \subseteq Slot
        /\ UNCHANGED <<item, nextId, active, limit, told, resized, reenabled>>
    BY DEF NotDue, IInv, Typed, subVars, ghosts
  <1> QED
    BY <1>1, ItemsAlone

-----------------------------------------------------------------------------
(* Induction over an interval, and sums *)

(* What holds of 0 and of the successor of each number that it holds of. *)
LEMMA IntervalInduction ==
  ASSUME Library, NEW n \in Nat, NEW P, 0 \in P, \A k \in 0 .. n - 1 : k \in P => k + 1 \in P
  PROVE  \A k \in 0 .. n : k \in P
  <1> DEFINE S == {k \in 0 .. n : k \notin P}
  <1> SUFFICES ASSUME S # {} PROVE FALSE
    OBVIOUS
  <1>0. S \in SUBSET Nat
    OBVIOUS
  <1> HIDE DEF S
  <1>1. PICK k \in S : \A m \in S : k <= m
    BY <1>0, LeastNumber
  <1> USE DEF S
  <1>2. k # 0 /\ k \in Nat
    OBVIOUS
  <1>3. k - 1 \in 0 .. n - 1 /\ ~(k <= k - 1) /\ k - 1 + 1 = k /\ k - 1 \in 0 .. n
    BY <1>2
  <1>4. k - 1 \in P
    BY <1>1, <1>3
  <1> QED
    BY <1>3, <1>4

(* There is a function that adds up h. *)
LEMMA PrefixSums ==
  ASSUME Library, NEW n \in Nat, NEW h \in [1 .. n -> Nat]
  PROVE  \E f \in [0 .. n -> Nat] : f[0] = 0 /\ \A k \in 1 .. n : f[k] = f[k - 1] + h[k]
  <1> DEFINE Q(m) == \E f \in [0 .. m -> Nat] : f[0] = 0 /\ \A k \in 1 .. m : f[k] = f[k - 1] + h[k]
             P == {m \in 0 .. n : Q(m)}
  <1>1. Q(0)
    <2> DEFINE f == [k \in 0 .. 0 |-> 0]
    <2>1. f \in [0 .. 0 -> Nat] /\ f[0] = 0 /\ \A k \in 1 .. 0 : f[k] = f[k - 1] + h[k]
      OBVIOUS
    <2> QED
      BY <2>1, Zenon
  <1>2. ASSUME NEW m \in 0 .. n - 1, Q(m)
        PROVE  Q(m + 1)
    <2>1. PICK f \in [0 .. m -> Nat] : f[0] = 0 /\ \A k \in 1 .. m : f[k] = f[k - 1] + h[k]
      BY <1>2, Zenon
    <2> DEFINE g == [k \in 0 .. m + 1 |-> IF k = m + 1 THEN f[m] + h[m + 1] ELSE f[k]]
    <2>2. m + 1 \in 1 .. n /\ m \in 0 .. m /\ h[m + 1] \in Nat /\ f[m] \in Nat
      OBVIOUS
    <2>3. g \in [0 .. m + 1 -> Nat] /\ g[0] = 0
      BY <2>1, <2>2
    <2>4. \A k \in 1 .. m + 1 : g[k] = g[k - 1] + h[k]
      <3> SUFFICES ASSUME NEW k \in 1 .. m + 1 PROVE g[k] = g[k - 1] + h[k]
        BY Zenon
      <3>1. k \in 0 .. m + 1 /\ k - 1 \in 0 .. m + 1 /\ k - 1 # m + 1
        OBVIOUS
      <3>2. g[k - 1] = f[k - 1]
        BY <3>1
      <3>3. CASE k = m + 1
        BY <3>1, <3>2, <3>3
      <3>4. CASE k # m + 1
        <4>1. k \in 1 .. m
          BY <3>4
        <4> QED
          BY <2>1, <3>1, <3>2, <3>4, <4>1
      <3> QED
        BY <3>3, <3>4
    <2> QED
      BY <2>3, <2>4, Zenon
  <1> HIDE DEF Q
  <1>3. 0 \in P
    BY <1>1
  <1>4. \A m \in 0 .. n - 1 : m \in P => m + 1 \in P
    BY <1>2
  <1> HIDE DEF P
  <1>5. \A k \in 0 .. n : k \in P
    BY <1>3, <1>4, IntervalInduction, Zenon
  <1>6. Q(n)
    BY <1>5 DEF P
  <1> QED
    BY <1>6, Zenon DEF Q

(* Sums adds up the amounts of the turns that are taken. *)
LEMMA SumsFacts ==
  ASSUME Library, NEW n \in [Turn -> Nat]
  PROVE  /\ Sums(n) \in [0 .. 2 * NItems -> Nat] /\ Sums(n)[0] = 0
         /\ \A k \in Turn : Sums(n)[k] = Sums(n)[k - 1] + (IF Takes(k) THEN n[k] ELSE 0)
  <1> DEFINE N == 2 * NItems
             F(sum) == [k \in 0 .. N |-> IF k = 0 THEN 0 ELSE sum[k - 1] + (IF Takes(k) THEN n[k] ELSE 0)]
             h == [k \in Turn |-> IF Takes(k) THEN n[k] ELSE 0]
             S == Sums(n)
  <1>1. N \in Nat /\ Turn = 1 .. N
    BY ItemsAssumption DEF Turn
  <1> HIDE DEF N
  <1>2. h \in [1 .. N -> Nat]
    BY <1>1
  <1>3. PICK f \in [0 .. N -> Nat] : f[0] = 0 /\ \A k \in 1 .. N : f[k] = f[k - 1] + h[k]
    BY <1>1, <1>2, PrefixSums, Zenon
  <1>4. f = F(f)
    BY <1>1, <1>3
  <1>5. S = CHOOSE sum : sum = F(sum)
    BY DEF Sums, N
  <1>6. S = F(S)
    BY <1>4, <1>5, Zenon
  <1> HIDE DEF S
  <1>7. S[0] = 0 /\ DOMAIN S = 0 .. N
    BY <1>1, <1>6
  <1>8. \A k \in Turn : S[k] = S[k - 1] + (IF Takes(k) THEN n[k] ELSE 0)
    <2> TAKE k \in Turn
    <2>1. k \in 0 .. N /\ k # 0
      BY <1>1
    <2> QED
      BY <1>6, <2>1, Zenon
  <1> DEFINE P == {k \in 0 .. N : S[k] \in Nat}
  <1>9. 0 \in P
    BY <1>1, <1>7
  <1>10. \A k \in 0 .. N - 1 : k \in P => k + 1 \in P
    <2> SUFFICES ASSUME NEW k \in 0 .. N - 1, k \in P
                 PROVE  k + 1 \in P
      OBVIOUS
    <2>1. k + 1 \in Turn /\ k + 1 \in 0 .. N /\ k + 1 - 1 = k
      BY <1>1
    <2>2. S[k + 1] = S[k] + (IF Takes(k + 1) THEN n[k + 1] ELSE 0)
      BY <1>8, <2>1
    <2>3. n[k + 1] \in Nat /\ S[k] \in Nat
      BY <2>1
    <2> QED
      BY <2>1, <2>2, <2>3
  <1> HIDE DEF P
  <1>11. \A k \in 0 .. N : k \in P
    BY <1>1, <1>9, <1>10, IntervalInduction, Zenon
  <1>12. \A k \in 0 .. N : S[k] \in Nat
    BY <1>11 DEF P
  <1>13. S = [k \in 0 .. N |-> S[k]]
    BY <1>6
  <1>14. S \in [0 .. N -> Nat]
    BY <1>12, <1>13
  <1> QED
    BY <1>7, <1>8, <1>14 DEF S, N

(* A sum of a longer prefix is no smaller. *)
LEMMA SumsGrow ==
  ASSUME Library, NEW N \in Nat, NEW f \in [0 .. N -> Nat], \A k \in 1 .. N : f[k - 1] <= f[k],
         NEW i \in 0 .. N, NEW j \in 0 .. N, i <= j
  PROVE  f[i] <= f[j]
  <1> DEFINE P == {k \in 0 .. N : i <= k => f[i] <= f[k]}
  <1>1. 0 \in P
    OBVIOUS
  <1>2. \A k \in 0 .. N - 1 : k \in P => k + 1 \in P
    <2> SUFFICES ASSUME NEW k \in 0 .. N - 1, k \in P, i <= k + 1
                 PROVE  k + 1 \in 0 .. N /\ f[i] <= f[k + 1]
      OBVIOUS
    <2>1. k + 1 \in 1 .. N /\ k + 1 - 1 = k /\ k \in 0 .. N /\ k + 1 \in 0 .. N
      OBVIOUS
    <2>2. f[k] <= f[k + 1] /\ f[k] \in Nat /\ f[k + 1] \in Nat /\ f[i] \in Nat
      BY <2>1
    <2>3. i = k + 1 \/ i <= k
      OBVIOUS
    <2> QED
      BY <2>1, <2>2, <2>3
  <1> HIDE DEF P
  <1>3. \A k \in 0 .. N : k \in P
    BY <1>1, <1>2, IntervalInduction, Zenon
  <1> QED
    BY <1>3 DEF P

(* A number up to the last sum falls between two neighbouring ones, and
   between no other two. *)

LEMMA SumsCover ==
  ASSUME Library, NEW N \in Nat, NEW f \in [0 .. N -> Nat], f[0] = 0, NEW e \in 1 .. f[N]
  PROVE  \E k \in 1 .. N : f[k - 1] < e /\ e <= f[k]
  <1> DEFINE S == {k \in 0 .. N : e <= f[k]}
  <1>1. S \in SUBSET Nat /\ N \in S
    OBVIOUS
  <1> HIDE DEF S
  <1>2. PICK k \in S : \A m \in S : k <= m
    BY <1>1, LeastNumber, Zenon
  <1> USE DEF S
  <1>3. k # 0 /\ k \in 0 .. N
    OBVIOUS
  <1>4. k \in 1 .. N /\ k - 1 \in 0 .. N /\ ~(k <= k - 1)
    BY <1>3
  <1>5. ~(e <= f[k - 1])
    BY <1>2, <1>4
  <1>6. f[k - 1] \in Nat
    BY <1>4
  <1>7. f[k - 1] < e
    BY <1>5, <1>6
  <1> QED
    BY <1>4, <1>7

(* An index falls between the sums of one turn only. *)
LEMMA SumsApart ==
  ASSUME Library, NEW N \in Nat, NEW f \in [0 .. N -> Nat], \A k \in 1 .. N : f[k - 1] <= f[k],
         NEW e \in Nat, NEW i \in 1 .. N, f[i - 1] < e, e <= f[i],
         NEW j \in 1 .. N, f[j - 1] < e, e <= f[j]
  PROVE  i = j
  <1>1. ASSUME NEW a \in 1 .. N, NEW b \in 1 .. N, a < b, e <= f[a], f[b - 1] < e
        PROVE  FALSE
    <2>1. a \in 0 .. N /\ b - 1 \in 0 .. N /\ a <= b - 1
      BY <1>1
    <2>2. f[a] <= f[b - 1]
      BY <2>1, SumsGrow, Zenon
    <2>3. f[a] \in Nat /\ f[b - 1] \in Nat
      BY <2>1
    <2> QED
      BY <1>1, <2>2, <2>3
  <1>2. i < j \/ j < i \/ i = j
    OBVIOUS
  <1> QED
    BY <1>1, <1>2

-----------------------------------------------------------------------------
(* Turns and entries of a notification *)

(* The turn in which a slot may be visited. *)
TurnOf(s) == IF item[s].mode = "reporting" THEN s ELSE NItems + s

(* The turns of a notification and their slots. *)
LEMMA TurnFacts ==
  /\ 2 * NItems \in Nat /\ Turn = 1 .. 2 * NItems
  /\ \A k \in Turn : SlotAt(k) \in Slot /\ k \in 0 .. 2 * NItems /\ k - 1 \in 0 .. 2 * NItems
  /\ \A s \in Slot : TurnOf(s) \in Turn /\ SlotAt(TurnOf(s)) = s
  <1>1. NItems \in Nat
    BY ItemsAssumption
  <1>2. \A k \in Turn : SlotAt(k) \in Slot /\ k \in 0 .. 2 * NItems /\ k - 1 \in 0 .. 2 * NItems
    BY <1>1 DEF Turn, Slot, SlotAt
  <1>3. \A s \in Slot : s \in Turn /\ NItems + s \in Turn /\ SlotAt(s) = s /\ SlotAt(NItems + s) = s
    BY <1>1 DEF Turn, Slot, SlotAt
  <1>4. \A s \in Slot : TurnOf(s) \in Turn /\ SlotAt(TurnOf(s)) = s
    BY <1>3 DEF TurnOf
  <1> QED
    BY <1>1, <1>2, <1>4 DEF Turn

(* A slot is visited in no more than one turn: a reportable item is a         *)
(* reporting one, a linked item a sampling one.                               *)
LEMMA OneTurn ==
  ASSUME NEW k \in Turn, Takes(k)
  PROVE  k = TurnOf(SlotAt(k)) /\ SlotAt(k) \in bitmap
  <1>1. CASE k <= NItems
    BY <1>1 DEF Takes, Reportable, TurnOf, SlotAt
  <1>2. CASE ~(k <= NItems)
    <2>1. item[SlotAt(k)].mode = "sampling"
      BY <1>2 DEF Takes, ReportsByTrigger
    <2>2. NItems + SlotAt(k) = k
      BY <1>2, ItemsAssumption DEF SlotAt, Turn
    <2> QED
      BY <2>1, <2>2, Zenon DEF Takes, TurnOf
  <1> QED
    BY <1>1, <1>2

(* count_reportable_items: the sums of the counts. *)
LEMMA HeldFacts ==
  ASSUME Library, Typed
  PROVE  /\ Held \in [0 .. 2 * NItems -> Nat] /\ Held[0] = 0
         /\ \A k \in Turn : Held[k] = Held[k - 1] + (IF Takes(k) THEN item[SlotAt(k)].ring.count ELSE 0)
         /\ \A k \in Turn : Held[k - 1] <= Held[k] /\ Held[k - 1] \in Nat /\ Held[k] \in Nat
  <1> DEFINE n == [k \in Turn |-> item[SlotAt(k)].ring.count]
  <1>1. \A k \in Turn : item[SlotAt(k)].ring.count \in Nat
    BY TurnFacts, TypedFacts, ItemFields
  <1>2. n \in [Turn -> Nat] /\ \A k \in Turn : n[k] = item[SlotAt(k)].ring.count
    BY <1>1
  <1>3. Held = Sums(n)
    BY DEF Held
  <1> HIDE DEF n
  <1>4. /\ Held \in [0 .. 2 * NItems -> Nat] /\ Held[0] = 0
        /\ \A k \in Turn : Held[k] = Held[k - 1] + (IF Takes(k) THEN n[k] ELSE 0)
    BY <1>2, <1>3, SumsFacts, Zenon
  <1>5. \A k \in Turn : Held[k - 1] \in Nat /\ Held[k] \in Nat
    BY <1>4, TurnFacts, Zenon
  <1>6. \A k \in Turn : Held[k - 1] <= Held[k]
    BY <1>1, <1>2, <1>4, <1>5
  <1> QED
    BY <1>2, <1>4, <1>5, <1>6, Zenon

(* clear_reported_items: the sums of what the rings can give up. *)
LEMMA GoneFacts ==
  ASSUME Library, Typed
  PROVE  /\ Gone \in [0 .. 2 * NItems -> Nat] /\ Gone[0] = 0
         /\ \A k \in Turn : Gone[k] = Gone[k - 1] + (IF Takes(k) THEN Effective(item[SlotAt(k)].ring).count ELSE 0)
         /\ \A k \in Turn : Gone[k - 1] \in Nat /\ Gone[k] \in Nat
  <1> DEFINE n == [k \in Turn |-> Effective(item[SlotAt(k)].ring).count]
  <1>1. \A k \in Turn : Effective(item[SlotAt(k)].ring).count \in Nat
    BY TurnFacts, TypedFacts, ItemFields, EffectiveFields, RingFields
  <1>2. n \in [Turn -> Nat] /\ \A k \in Turn : n[k] = Effective(item[SlotAt(k)].ring).count
    BY <1>1
  <1>3. Gone = Sums(n)
    BY DEF Gone
  <1> HIDE DEF n
  <1>4. /\ Gone \in [0 .. 2 * NItems -> Nat] /\ Gone[0] = 0
        /\ \A k \in Turn : Gone[k] = Gone[k - 1] + (IF Takes(k) THEN n[k] ELSE 0)
    BY <1>2, <1>3, SumsFacts, Zenon
  <1>5. \A k \in Turn : Gone[k - 1] \in Nat /\ Gone[k] \in Nat
    BY <1>4, TurnFacts, Zenon
  <1> QED
    BY <1>2, <1>4, <1>5

(* No more goes than was held, and just as much if all rings are sound. *)
LEMMA GoneHeld ==
  ASSUME Library, Typed
  PROVE  /\ \A k \in 0 .. 2 * NItems : Gone[k] <= Held[k]
         /\ (\A s \in Slot : Sound(item[s].ring)) => \A k \in 0 .. 2 * NItems : Gone[k] = Held[k]
  <1> DEFINE N == 2 * NItems
             all == \A s \in Slot : Sound(item[s].ring)
             P == {k \in 0 .. N : Gone[k] <= Held[k] /\ (all => Gone[k] = Held[k])}
  <1>1. N \in Nat /\ Turn = 1 .. N
    BY TurnFacts, Zenon
  <1>2. 0 \in P
    BY <1>1, HeldFacts, GoneFacts
  <1>3. \A k \in 0 .. N - 1 : k \in P => k + 1 \in P
    <2> SUFFICES ASSUME NEW k \in 0 .. N - 1, k \in P
                 PROVE  k + 1 \in P
      OBVIOUS
    <2> DEFINE h == item[SlotAt(k + 1)].ring.count
               g == Effective(item[SlotAt(k + 1)].ring).count
    <2>1. k + 1 \in Turn /\ k + 1 - 1 = k /\ k + 1 \in 0 .. N
      BY <1>1
    <2>2. item[SlotAt(k + 1)].ring \in RingType /\ SlotAt(k + 1) \in Slot
      BY <2>1, TurnFacts, TypedFacts, ItemFields, Zenon
    <2>3. h \in Nat /\ g \in Nat /\ g <= h
      BY <2>2, EffectiveFields, RingFields
    <2>4. all => g = h
      BY <2>2, EffectiveSound, Zenon
    <2>5. /\ Held[k + 1] = Held[k] + (IF Takes(k + 1) THEN h ELSE 0)
          /\ Gone[k + 1] = Gone[k] + (IF Takes(k + 1) THEN g ELSE 0)
      BY <2>1, HeldFacts, GoneFacts
    <2>6. Held[k] \in Nat /\ Gone[k] \in Nat
      BY <2>1, HeldFacts, GoneFacts
    <2> HIDE DEF h, g, all
    <2> QED
      BY <2>1, <2>3, <2>4, <2>5, <2>6
  <1> HIDE DEF P
  <1>4. \A k \in 0 .. N : k \in P
    BY <1>1, <1>2, <1>3, IntervalInduction, Zenon
  <1> QED
    BY <1>4 DEF P

(* count_queue_entries, write_data_change_notification: which entry is whose. *)
LEMMA EntryAt ==
  ASSUME Library, Typed, NEW k \in Turn, NEW e \in Nat, Held[k - 1] < e, e <= Held[k]
  PROVE  /\ e \in 1 .. Held[2 * NItems]
         /\ AllEntries[e] = Entry(SlotAt(k), e - Held[k - 1])
         /\ Takes(k)
         /\ e - Held[k - 1] \in 1 .. item[SlotAt(k)].ring.count
         /\ Held[k] = Held[k - 1] + item[SlotAt(k)].ring.count
  <1> DEFINE N == 2 * NItems
  <1>1. /\ N \in Nat /\ Turn = 1 .. N /\ SlotAt(k) \in Slot
        /\ k \in 0 .. N /\ N \in 0 .. N /\ k <= N
    BY TurnFacts
  <1>2. /\ Held \in [0 .. N -> Nat] /\ \A j \in 1 .. N : Held[j - 1] <= Held[j]
        /\ Held[k - 1] \in Nat /\ Held[k] \in Nat
    BY <1>1, HeldFacts
  <1> HIDE DEF N
  <1>3. Held[k] <= Held[N]
    BY <1>1, <1>2, SumsGrow, Zenon
  <1>4. Held[N] \in Nat
    BY <1>1, <1>2
  <1>5. e \in 1 .. Held[N]
    BY <1>2, <1>3, <1>4
  <1>6. \A j \in Turn : Held[j - 1] < e /\ e <= Held[j] => j = k
    BY <1>1, <1>2, SumsApart, Zenon
  <1>7. k = CHOOSE j \in Turn : Held[j - 1] < e /\ e <= Held[j]
    BY <1>6
  <1>8. AllEntries[e] = Entry(SlotAt(k), e - Held[k - 1])
    BY <1>5, <1>7 DEF AllEntries, N
  <1>9. Held[k] = Held[k - 1] + (IF Takes(k) THEN item[SlotAt(k)].ring.count ELSE 0)
    BY HeldFacts
  <1>10. Takes(k)
    BY <1>2, <1>9
  <1>11. item[SlotAt(k)].ring.count \in Nat
    BY <1>1, TypedFacts, ItemFields, Zenon
  <1>12. e - Held[k - 1] \in 1 .. item[SlotAt(k)].ring.count
    BY <1>2, <1>9, <1>10, <1>11
  <1> QED
    BY <1>5, <1>8, <1>9, <1>10, <1>12 DEF N

(* Every entry of a notification belongs to a turn. *)
LEMMA EntryTurn ==
  ASSUME Library, Typed, NEW e \in 1 .. Held[2 * NItems]
  PROVE  \E k \in Turn : Held[k - 1] < e /\ e <= Held[k]
  BY TurnFacts, HeldFacts, SumsCover, Zenon

(* The entries of a slot are those of its turn. *)
LEMMA EntriesOf ==
  ASSUME Library, Typed, NEW s \in Slot, NEW e \in 1 .. Held[2 * NItems]
  PROVE  /\ AllEntries[e].slot = s <=> Held[TurnOf(s) - 1] < e /\ e <= Held[TurnOf(s)]
         /\ AllEntries[e].slot = s =>
              AllEntries[e].report = Reports(item[s].ring)[e - Held[TurnOf(s) - 1]]
  <1>1. e \in Nat
    BY TurnFacts, HeldFacts
  <1>2. PICK k \in Turn : Held[k - 1] < e /\ e <= Held[k]
    BY EntryTurn
  <1>3. AllEntries[e] = Entry(SlotAt(k), e - Held[k - 1]) /\ Takes(k)
    BY <1>1, <1>2, EntryAt
  <1>4. AllEntries[e].slot = SlotAt(k) /\ k = TurnOf(SlotAt(k))
    BY <1>3, OneTurn DEF Entry
  <1>5. ASSUME AllEntries[e].slot = s
        PROVE  /\ Held[TurnOf(s) - 1] < e /\ e <= Held[TurnOf(s)]
               /\ AllEntries[e].report = Reports(item[s].ring)[e - Held[TurnOf(s) - 1]]
    <2>1. s = SlotAt(k) /\ k = TurnOf(s)
      BY <1>4, <1>5, Zenon
    <2> QED
      BY <1>2, <1>3, <2>1 DEF Entry
  <1>6. ASSUME Held[TurnOf(s) - 1] < e, e <= Held[TurnOf(s)]
        PROVE  AllEntries[e].slot = s
    <2>1. TurnOf(s) \in Turn /\ SlotAt(TurnOf(s)) = s
      BY TurnFacts, Zenon
    <2>2. AllEntries[e] = Entry(s, e - Held[TurnOf(s) - 1])
      BY <1>1, <1>6, <2>1, EntryAt, Zenon
    <2> QED
      BY <2>2 DEF Entry
  <1> QED
    BY <1>5, <1>6

(* The number of entries, of those that are sent, and how it is cut. *)
LEMMA CountFacts ==
  ASSUME Library, Typed
  PROVE  /\ Held[2 * NItems] \in Nat /\ Len(AllEntries) = Held[2 * NItems]
         /\ ReportCount \in Nat /\ ReportCount <= Held[2 * NItems]
         /\ More => ReportCount < Held[2 * NItems]
  <1>1. Held[2 * NItems] \in Nat
    BY TurnFacts, HeldFacts
  <1>2. Len(AllEntries) = Held[2 * NItems]
    BY <1>1 DEF AllEntries
  <1>3. limit \in Nat
    BY DEF Typed
  <1> QED
    BY <1>1, <1>2, <1>3 DEF ReportCount, More

(* What goes out. *)
LEMMA SentFacts ==
  ASSUME Library, Typed
  PROVE  /\ Len(SubSeq(AllEntries, 1, ReportCount)) = ReportCount
         /\ DOMAIN SubSeq(AllEntries, 1, ReportCount) = 1 .. ReportCount
         /\ \A e \in 1 .. ReportCount : SubSeq(AllEntries, 1, ReportCount)[e] = AllEntries[e]
  <1> DEFINE A == AllEntries
             n == Held[2 * NItems]
             X == {A[e] : e \in 1 .. n}
  <1>1. n \in Nat /\ ReportCount \in Nat /\ ReportCount <= n
    BY CountFacts
  <1>2. A = [e \in 1 .. n |-> A[e]]
    BY DEF AllEntries
  <1> HIDE DEF A, n
  <1>3. A \in Seq(X) /\ Len(A) = n
    BY <1>1, <1>2
  <1> HIDE DEF X
  <1>4. /\ Len(SubSeq(A, 1, ReportCount)) = ReportCount
        /\ DOMAIN SubSeq(A, 1, ReportCount) = 1 .. ReportCount
        /\ \A e \in 1 .. ReportCount : SubSeq(A, 1, ReportCount)[e] = A[e]
    BY <1>1, <1>3
  <1> QED
    BY <1>4, Zenon DEF A

(* The part of an item that a notification leaves alone. *)
Stays(it, q) ==
  /\ q \in ItemType /\ q.used = it.used /\ q.id = it.id /\ q.mode = it.mode /\ q.links = it.links
  /\ q.hasValue = it.hasValue /\ q.last = it.last

(* clear_semantics_changed_for_reported *)
LEMMA LatchedItem ==
  ASSUME Typed, NEW s \in Slot
  PROVE  /\ Stays(item[s], Latched(s)) /\ Fine(Latched(s))
         /\ Latched(s).ring = item[s].ring /\ Latched(s).pending = item[s].pending
  <1> DEFINE q == [item[s] EXCEPT !.semantics = FALSE]
  <1>1. item[s] \in ItemType /\ Fine(item[s])
    BY TypedFacts
  <1>2. Stays(item[s], q) /\ q.ring = item[s].ring /\ q.pending = item[s].pending
    BY <1>1, Zenon DEF ItemType, Stays
  <1>3. Stays(item[s], item[s])
    BY <1>1 DEF Stays
  <1>4. CASE s \in bitmap /\ item[s].used
    <2>1. Latched(s) = q
      BY <1>4 DEF Latched
    <2> HIDE DEF q
    <2>2. Fine(q)
      BY <1>1, <1>2, <1>4 DEF Fine, Stays
    <2> QED
      BY <1>2, <2>1, <2>2
  <1>5. CASE ~(s \in bitmap /\ item[s].used)
    <2>1. Latched(s) = item[s]
      BY <1>5 DEF Latched
    <2> QED
      BY <1>1, <1>3, <2>1
  <1> QED
    BY <1>4, <1>5

(* drain_reported_entries *)
LEMMA DrainItem ==
  ASSUME NEW it \in ItemType, NEW n \in Nat
  PROVE  /\ Stays(it, Drain(it, n))
         /\ Drain(it, n).ring = DrainReported(it.ring, n)
         /\ Drain(it, n).pending = (Drain(it, n).ring.count > 0)
  <1> DEFINE r == DrainReported(it.ring, n)
             p == r.count > 0
  <1>1. r \in RingType /\ p \in BOOLEAN
    BY ItemFields, DrainFields
  <1>2. Drain(it, n) = [it EXCEPT !.ring = r, !.pending = p]
    BY DEF Drain
  <1> HIDE DEF r, p
  <1>3. Stays(it, Drain(it, n)) /\ Drain(it, n).ring = r /\ Drain(it, n).pending = p
    BY <1>1, <1>2, ZenonT(60) DEF ItemType, Stays
  <1> QED
    BY <1>3, Zenon DEF r, p

(* An item that is visited is in use. *)
LEMMA TakesUsed ==
  ASSUME NEW k \in Turn, Takes(k)
  PROVE  item[SlotAt(k)].used
  BY DEF Takes, Reportable, ReportsByTrigger

(* clear_reported_items drains the item it once was at turn k of n reports,   *)
(* or leaves it.                                                              *)
ClearedAs(it, k, n, q) ==
  IF Takes(k) /\ n > 0
  THEN q.ring = DrainReported(it.ring, n) /\ q.pending = (q.ring.count > 0)
  ELSE q.ring = it.ring /\ q.pending = it.pending

(* clear_reported_items, for one item. *)
LEMMA ClearedItem ==
  ASSUME Library, Typed, NEW s \in Slot, NEW R \in Nat, NEW q, q = Cleared(R)[s]
  PROVE  /\ Stays(item[s], q) /\ Fine(q)
         /\ Remaining(R, TurnOf(s)) \in Nat
         /\ ClearedAs(item[s], TurnOf(s), Remaining(R, TurnOf(s)), q)
  <1> DEFINE k == TurnOf(s)
             n == Remaining(R, k)
             l == Latched(s)
  <1>1. k \in Turn /\ SlotAt(k) = s
    BY TurnFacts
  <1>2. Gone[k - 1] \in Nat
    BY <1>1, GoneFacts
  <1>3. n \in Nat
    BY <1>2 DEF Remaining
  <1>4. /\ Stays(item[s], l) /\ Fine(l) /\ l \in ItemType
        /\ l.ring = item[s].ring /\ l.pending = item[s].pending
    BY LatchedItem, Zenon DEF Stays
  <1>5. q = IF Takes(k) /\ n > 0 THEN Drain(l, n) ELSE l
    BY Zenon DEF Cleared, TurnOf
  <1> HIDE DEF n, l
  <1>6. CASE Takes(k) /\ n > 0
    <2>1. q = Drain(l, n)
      BY <1>5, <1>6, Zenon
    <2>2. Stays(l, q) /\ q.ring = DrainReported(l.ring, n) /\ q.pending = (q.ring.count > 0)
      BY <1>3, <1>4, <2>1, DrainItem, Zenon
    <2>3. item[s].used
      BY <1>1, <1>6, TakesUsed, Zenon
    <2>4. Stays(item[s], q) /\ Fine(q)
      BY <1>4, <2>2, <2>3, Zenon DEF Stays, Fine
    <2> QED
      BY <1>3, <1>4, <1>6, <2>2, <2>4, Zenon DEF n, ClearedAs
  <1>7. CASE ~(Takes(k) /\ n > 0)
    BY <1>3, <1>4, <1>5, <1>7, Zenon DEF n, ClearedAs
  <1> QED
    BY <1>6, <1>7

(* What the client of an item is told: nothing new, or the last report of the *)
(* item if all of them are sent.                                              *)
LEMMA ToldFacts ==
  ASSUME Library, Typed, NEW s \in Slot,
         NEW t, t = TellClients(SubSeq(AllEntries, 1, ReportCount))[s]
  PROVE  /\ Held[TurnOf(s)] = Held[TurnOf(s) - 1] \/ ReportCount <= Held[TurnOf(s) - 1] => t = told[s]
         /\ Held[TurnOf(s) - 1] < Held[TurnOf(s)] /\ Held[TurnOf(s)] <= ReportCount =>
              t = [v |-> Reports(item[s].ring)[item[s].ring.count].v,
                   st |-> Reports(item[s].ring)[item[s].ring.count].st]
  <1> DEFINE S == SubSeq(AllEntries, 1, ReportCount)
             k == TurnOf(s)
             mine == {e \in DOMAIN S : S[e].slot = s}
             last == CHOOSE e \in mine : \A other \in mine : other <= e
             newest == S[last].report
  <1>1. t = IF mine = {} THEN told[s] ELSE [v |-> newest.v, st |-> newest.st]
    BY Zenon DEF TellClients
  <1>2. /\ Held[2 * NItems] \in Nat /\ ReportCount \in Nat /\ ReportCount <= Held[2 * NItems]
        /\ DOMAIN S = 1 .. ReportCount /\ \A e \in 1 .. ReportCount : S[e] = AllEntries[e]
    BY CountFacts, SentFacts, Zenon
  <1>3. k \in Turn /\ SlotAt(k) = s /\ Held[k - 1] \in Nat /\ Held[k] \in Nat
    BY TurnFacts, HeldFacts, Zenon
  <1> HIDE DEF S, k
  <1>4. \A e \in 1 .. ReportCount :
          /\ S[e].slot = s <=> Held[k - 1] < e /\ e <= Held[k]
          /\ S[e].slot = s => S[e].report = Reports(item[s].ring)[e - Held[k - 1]]
    <2> TAKE e \in 1 .. ReportCount
    <2>1. e \in 1 .. Held[2 * NItems] /\ S[e] = AllEntries[e]
      BY <1>2
    <2> QED
      BY <2>1, EntriesOf DEF k
  <1>5. \A e : e \in mine <=> e \in 1 .. ReportCount /\ Held[k - 1] < e /\ e <= Held[k]
    BY <1>2, <1>4, Zenon
  <1>6. ASSUME Held[k] = Held[k - 1] \/ ReportCount <= Held[k - 1]
        PROVE  t = told[s]
    <2>1. \A e : e \notin mine
      BY <1>2, <1>3, <1>5, <1>6
    <2>2. mine = {}
      BY <2>1, Zenon
    <2> QED
      BY <1>1, <2>2
  <1>7. ASSUME Held[k - 1] < Held[k], Held[k] <= ReportCount
        PROVE  t = [v |-> Reports(item[s].ring)[item[s].ring.count].v,
                    st |-> Reports(item[s].ring)[item[s].ring.count].st]
    <2> HIDE DEF mine
    <2>1. Held[k] \in mine /\ Held[k] \in 1 .. ReportCount
      BY <1>2, <1>3, <1>5, <1>7
    <2>2. \A e \in mine : e <= Held[k]
      BY <1>5
    <2>3. \A e \in mine : e \in Nat
      BY <1>2, <1>5
    <2>4. last \in mine /\ \A other \in mine : other <= last
      BY <2>1, <2>2
    <2>5. last = Held[k]
      BY <1>3, <2>1, <2>2, <2>3, <2>4
    <2>6. S[Held[k]].slot = s
      BY <1>2, <1>4, <1>7, <2>1
    <2>7. newest = Reports(item[s].ring)[Held[k] - Held[k - 1]]
      BY <1>4, <2>1, <2>5, <2>6, Zenon
    <2>8. Held[k] = Held[k - 1] + item[s].ring.count /\ item[s].ring.count \in Nat
      BY <1>3, <1>7, EntryAt, TypedFacts, ItemFields
    <2>9. Held[k] - Held[k - 1] = item[s].ring.count
      BY <1>3, <2>8
    <2> HIDE DEF last
    <2> QED
      BY <1>1, <2>1, <2>7, <2>9, Zenon
  <1> QED
    BY <1>6, <1>7, Zenon DEF k

-----------------------------------------------------------------------------
(* The invariant is inductive: the notification *)

(* A notification that goes out. *)
Sends ==
  /\ phase = "emit" /\ enabled /\ ReportCount > 0 /\ more' = More
  /\ sent' = SubSeq(AllEntries, 1, ReportCount)
  /\ told' = TellClients(SubSeq(AllEntries, 1, ReportCount))
  /\ item' = Cleared(ReportCount)
  /\ phase' = "idle" /\ bitmap' = {}
  /\ UNCHANGED <<nextId, active, limit, enabled, resend, source, resized, reenabled>>

(* The second half of publish_due sends a notification or leaves all items    *)
(* alone.                                                                     *)
LEMMA EmitCases ==
  ASSUME NEW answered \in BOOLEAN, EmitNotification(answered)
  PROVE  \/ Sends
         \/ /\ sent' = <<>> /\ phase' = "idle" /\ bitmap' = {}
            /\ UNCHANGED <<item, told, nextId, active, limit, enabled, resend, source, resized, reenabled>>
  BY Zenon DEF EmitNotification, Sends

(* What of r reports there are after the turns before it, n, is what a sound  *)
(* ring loses at the turn of its item, as far as it has so many.              *)
RingCleared(s, r, n, q) ==
  /\ n = IF Held[TurnOf(s) - 1] < r THEN r - Held[TurnOf(s) - 1] ELSE 0
  /\ q.ring \in RingType /\ Sound(q.ring)
  /\ Takes(TurnOf(s)) /\ n > 0 =>
       FrontTaken(item[s].ring, q.ring, IF n < item[s].ring.count THEN n ELSE item[s].ring.count)

(* In a sound ring as many reports go as were sent for its item. *)
LEMMA ClearedRing ==
  ASSUME Library, Typed, \A u \in Slot : Sound(item[u].ring), NEW s \in Slot, NEW R \in Nat,
         NEW q, q = Cleared(R)[s]
  PROVE  RingCleared(s, R, Remaining(R, TurnOf(s)), q)
  <1> DEFINE n == Remaining(R, TurnOf(s))
             k == TurnOf(s)
             r == item[s].ring
             m == IF n < r.count THEN n ELSE r.count
  <1>1. k \in Turn /\ k - 1 \in 0 .. 2 * NItems
    BY TurnFacts, Zenon
  <1>2. Gone[k - 1] = Held[k - 1]
    BY <1>1, GoneHeld, Zenon
  <1>3. n = IF Held[k - 1] < R THEN R - Held[k - 1] ELSE 0
    BY <1>2, Zenon DEF Remaining
  <1>4. r \in RingType /\ Sound(r) /\ item[s] \in ItemType
    BY TypedFacts, ItemFields, Zenon
  <1>5. Stays(item[s], q) /\ n \in Nat /\ ClearedAs(item[s], k, n, q)
    BY ClearedItem, Zenon
  <1>6. q.ring \in RingType
    BY <1>5, ItemFields, Zenon DEF Stays
  <1> HIDE DEF n, k, r
  <1>7. CASE Takes(k) /\ n > 0
    <2>1. q.ring = DrainReported(r, n) /\ n \in Nat
      BY <1>5, <1>7, Zenon DEF ClearedAs, r
    <2>2. m = IF n < r.count THEN n ELSE r.count
      BY Zenon
    <2> HIDE DEF m
    <2>3. FrontTaken(r, q.ring, m)
      BY <1>4, <2>1, <2>2, DrainTakesFront, Zenon
    <2>4. Sound(q.ring)
      BY <2>3, Zenon DEF FrontTaken
    <2> QED
      BY <1>3, <1>6, <2>3, <2>4, Zenon DEF m, n, r, k, RingCleared
  <1>8. CASE ~(Takes(k) /\ n > 0)
    BY <1>3, <1>4, <1>5, <1>6, <1>8, Zenon DEF k, n, r, ClearedAs, RingCleared
  <1> QED
    BY <1>7, <1>8, Zenon

(* An item that is visited while the queues are ready has reports in its      *)
(* queue, unless it has no value.                                             *)
LEMMA TakesReports ==
  ASSUME Typed, NEW s \in Slot, Takes(TurnOf(s)), Ready(item[s]), item[s].hasValue
  PROVE  item[s].ring.count > 0
  <1>1. SlotAt(TurnOf(s)) = s
    BY TurnFacts
  <1>2. CASE Reportable(item[s])
    BY <1>2, Zenon DEF Reportable, Waiting, Ready
  <1>3. CASE ReportsByTrigger(s)
    BY <1>3, Zenon DEF ReportsByTrigger
  <1> QED
    BY <1>1, <1>2, <1>3, Zenon DEF Takes

(* What a client was told and what is still queued for it stay in step. *)
LEMMA SendsCaughtUp ==
  ASSUME Library, Typed, \A u \in Slot : Sound(item[u].ring), NEW s \in Slot,
         Ready(item[s]), CaughtUp(item[s], told[s]),
         NEW q, q = Cleared(ReportCount)[s],
         NEW t, t = TellClients(SubSeq(AllEntries, 1, ReportCount))[s]
  PROVE  CaughtUp(q, t)
  <1> DEFINE R == ReportCount
             k == TurnOf(s)
             n == Remaining(R, k)
             it == item[s]
             c == it.ring.count
             m == IF n < c THEN n ELSE c
  <1> SUFFICES ASSUME q.hasValue
               PROVE  CaughtUp(q, t)
    BY Zenon DEF CaughtUp
  <1>1. R \in Nat
    BY CountFacts, Zenon
  <1>2. k \in Turn /\ SlotAt(k) = s /\ Held[k - 1] \in Nat /\ Held[k] \in Nat
    BY TurnFacts, HeldFacts, Zenon
  <1>3. Stays(it, q) /\ n \in Nat /\ ClearedAs(it, k, n, q)
    BY <1>1, ClearedItem, Zenon
  <1>4. it.hasValue /\ q.last = it.last /\ it.last \in Shown /\ c \in Nat
    BY <1>3, TypedFacts, ItemFields, Zenon DEF Stays
  <1>5. Held[k] = Held[k - 1] + (IF Takes(k) THEN c ELSE 0)
    BY <1>2, HeldFacts, Zenon
  <1>6. /\ Held[k] = Held[k - 1] \/ R <= Held[k - 1] => t = told[s]
        /\ Held[k - 1] < Held[k] /\ Held[k] <= R =>
             t = [v |-> Reports(it.ring)[c].v, st |-> Reports(it.ring)[c].st]
    BY ToldFacts, Zenon
  <1>7. CASE Takes(k) /\ n > 0
    <2>1. c > 0
      BY <1>4, <1>7, TakesReports, Zenon
    <2>2. /\ Reports(it.ring)[c].v = it.last.v /\ Reports(it.ring)[c].st = it.last.st
      BY <1>4, <2>1, Zenon DEF CaughtUp
    <2>3. /\ n = IF Held[k - 1] < R THEN R - Held[k - 1] ELSE 0
          /\ m \in 0 .. c /\ q.ring.count = c - m
          /\ q.ring.count > 0 => Reports(q.ring)[q.ring.count] = Reports(it.ring)[c]
      <3>1. RingCleared(s, R, n, q)
        BY <1>1, ClearedRing, Zenon
      <3> HIDE DEF n, R
      <3> QED
        BY <1>7, <3>1, Zenon DEF RingCleared, FrontTaken
    <2>6. Held[k] = Held[k - 1] + c
      BY <1>5, <1>7, Zenon
    <2>7. /\ n < c => c - n > 0
          /\ ~(n < c) => ~(c - c > 0) /\ Held[k - 1] < Held[k] /\ Held[k] <= R
      <3> HIDE DEF R, k, n, c
      <3> QED
        BY <1>1, <1>2, <1>4, <1>7, <2>1, <2>3, <2>6, Portions
    <2>4. CASE n < c
      <3>1. q.ring.count > 0
        BY <2>3, <2>4, <2>7, Zenon
      <3> QED
        BY <1>4, <2>2, <2>3, <3>1, Zenon DEF CaughtUp
    <2>5. CASE ~(n < c)
      <3>1. ~(q.ring.count > 0)
        BY <2>3, <2>5, <2>7, Zenon
      <3>2. Held[k - 1] < Held[k] /\ Held[k] <= R
        BY <2>5, <2>7, Zenon
      <3>3. t = [v |-> it.last.v, st |-> it.last.st]
        BY <1>6, <2>2, <3>2, Zenon
      <3>4. t = q.last
        BY <1>4, <3>3, Zenon DEF Shown
      <3> QED
        BY <3>1, <3>4, Zenon DEF CaughtUp
    <2> QED
      BY <2>4, <2>5, Zenon
  <1>8. CASE ~(Takes(k) /\ n > 0)
    <2>1. q.ring = it.ring /\ q.pending = it.pending
      BY <1>3, <1>8, Zenon DEF ClearedAs
    <2>2. CASE c > 0
      BY <1>4, <2>1, <2>2, Zenon DEF CaughtUp
    <2>3. CASE ~(c > 0)
      <3>1. Held[k] = Held[k - 1]
        BY <1>2, <1>4, <1>5, <2>3
      <3>2. t = told[s]
        BY <1>6, <3>1
      <3> QED
        BY <1>4, <2>1, <2>3, <3>2, Zenon DEF CaughtUp
    <2> QED
      BY <2>2, <2>3, Zenon
  <1> QED
    BY <1>7, <1>8, Zenon

(* Sending a notification keeps the invariant. *)
LEMMA SendsKeeps ==
  ASSUME Library, IInv, Sends
  PROVE  IInv'
  <1> DEFINE R == ReportCount
  <1>1. Typed
    BY DEF IInv
  <1>2. /\ told' = TellClients(SubSeq(AllEntries, 1, R)) /\ item' = Cleared(R) /\ phase' = "idle"
        /\ bitmap' = {} /\ enabled /\ phase = "emit"
        /\ UNCHANGED <<nextId, active, limit, enabled, resend, source, resized, reenabled>>
    BY DEF Sends
  <1>3. R \in Nat
    BY <1>1, CountFacts, Zenon
  <1>4. told' = [s \in Slot |-> told'[s]] /\ item' = [s \in Slot |-> item'[s]]
    BY <1>2, Zenon DEF TellClients, Cleared
  <1> HIDE DEF R
  <1>5. \A s \in Slot : Stays(item[s], item[s]') /\ Fine(item[s]')
    BY <1>1, <1>2, <1>3, ClearedItem, Zenon
  <1>6. item' \in [Slot -> ItemType]
    BY <1>4, <1>5, Zenon DEF Stays
  <1>7. Used' = Used
    BY <1>5, Zenon DEF Used, Stays
  <1>8. Typed'
    BY <1>1, <1>2, <1>4, <1>5, <1>6, <1>7 DEF Typed, Fine
  <1>9. ASSUME ~resized'
        PROVE  \A s \in Slot : Sound(item[s].ring) /\ Sound(item[s].ring')
    <2>1. \A s \in Slot : Sound(item[s].ring)
      BY <1>2, <1>9 DEF IInv, RingsSound
    <2> QED
      BY <1>1, <1>2, <1>3, <2>1, ClearedRing, Zenon DEF RingCleared
  <1>10. RingsSound'
    BY <1>9, Zenon DEF RingsSound
  <1>11. AllCaughtUp'
    <2> SUFFICES ASSUME ~resized', ~reenabled', NEW s \in Slot
                 PROVE  CaughtUp(item[s]', told[s]')
      BY Zenon DEF AllCaughtUp
    <2>1. /\ Ready(item[s]) /\ CaughtUp(item[s], told[s])
      BY <1>2 DEF IInv, Prepared, AllCaughtUp
    <2>2. \A u \in Slot : Sound(item[u].ring)
      BY <1>9
    <2>3. /\ item[s]' = Cleared(ReportCount)[s]
          /\ told[s]' = TellClients(SubSeq(AllEntries, 1, ReportCount))[s]
      BY <1>2 DEF R
    <2> QED
      BY <1>1, <2>1, <2>2, <2>3, SendsCaughtUp, Zenon
  <1> QED
    BY <1>2, <1>8, <1>10, <1>11, Rests, Zenon DEF IInv

(* So does the second half of publish_due, whether it sends or not. *)
LEMMA EmitKeeps ==
  ASSUME Library, IInv, NEW answered \in BOOLEAN, EmitNotification(answered)
  PROVE  IInv'
  <1>1. CASE Sends
    BY <1>1, SendsKeeps, Zenon
  <1>2. CASE /\ phase' = "idle" /\ bitmap' = {}
             /\ UNCHANGED <<item, told, nextId, active, limit, enabled, resend, source, resized, reenabled>>
    <2>1. /\ enabled' \in BOOLEAN /\ resend' \in BOOLEAN
          /\ source' \in [Node -> Reading] /\ bitmap' \subseteq Slot
      BY <1>2, Zenon DEF IInv, Typed
    <2> QED
      BY <1>2, <2>1, ItemsAlone, Zenon
  <1> QED
    BY <1>1, <1>2, EmitCases

-----------------------------------------------------------------------------
(* What is reported, and when *)

(* Where a notification is cut, an item is left that the next one reports. *)
LEMMA CutInReportable ==
  ASSUME Library, IInv, Sends, More, ~resized, \A s \in Slot : item[s].links = {}
  PROVE  \E s \in Slot : Reportable(item'[s]) /\ item'[s].ring.count > 0
  <1> DEFINE R == ReportCount
             N == 2 * NItems
             S == {k \in 0 .. N : R < Held[k]}
  <1>1. Typed /\ \A s \in Slot : Sound(item[s].ring)
    BY DEF IInv, RingsSound
  <1>2. R \in Nat /\ R < Held[N] /\ N \in Nat /\ Turn = 1 .. N
    BY <1>1, CountFacts, TurnFacts, Zenon
  <1>3. Held \in [0 .. N -> Nat] /\ Held[0] = 0
    BY <1>1, HeldFacts
  <1> HIDE DEF R, N
  <1>4. S \in SUBSET Nat /\ S # {}
    BY <1>2
  <1> HIDE DEF S
  <1>5. PICK k \in S : \A j \in S : k <= j
    BY <1>4, LeastNumber
  <1>6. k \in 0 .. N /\ R < Held[k]
    BY DEF S
  <1>7. k \in Turn /\ k - 1 \in 0 .. N /\ ~(k <= k - 1)
    BY <1>2, <1>3, <1>6
  <1>8. ~(R < Held[k - 1])
    BY <1>5, <1>7, Zenon DEF S
  <1>9. Held[k - 1] \in Nat /\ Held[k] \in Nat
    BY <1>3, <1>6, <1>7, Zenon
  <1>10. Held[k - 1] < R + 1 /\ R + 1 <= Held[k] /\ R + 1 \in Nat
    BY <1>2, <1>6, <1>8, <1>9
  <1>11. Takes(k) /\ Held[k] = Held[k - 1] + item[SlotAt(k)].ring.count
    BY <1>1, <1>7, <1>10, EntryAt, Zenon
  <1> DEFINE s == SlotAt(k)
             c == item[s].ring.count
             q == Cleared(R)[s]
             n == Remaining(R, TurnOf(s))
             m == IF n < c THEN n ELSE c
  <1>12. s \in Slot /\ k = TurnOf(s)
    BY <1>7, <1>11, TurnFacts, OneTurn, Zenon
  <1>13. Reportable(item[s])
    <2>1. ~ReportsByTrigger(s)
      BY DEF ReportsByTrigger
    <2> QED
      BY <1>11, <2>1, Zenon DEF Takes
  <1>14. c \in Nat /\ c > 0
    <2>1. c \in Nat
      BY <1>1, <1>12, TypedFacts, ItemFields, Zenon
    <2> QED
      BY <1>6, <1>8, <1>9, <1>2, <1>11, <2>1
  <1> HIDE DEF s
  <1>15. /\ Stays(item[s], q) /\ n \in Nat
         /\ ~(Takes(TurnOf(s)) /\ n > 0) => q.ring = item[s].ring
    <2>1. Stays(item[s], q) /\ n \in Nat /\ ClearedAs(item[s], TurnOf(s), n, q)
      BY <1>1, <1>2, <1>12, ClearedItem, Zenon
    <2> QED
      BY <2>1, Zenon DEF ClearedAs
  <1>16. /\ n = IF Held[k - 1] < R THEN R - Held[k - 1] ELSE 0
         /\ Takes(k) /\ n > 0 => q.ring.count = c - m
    <2>1. RingCleared(s, R, n, q)
      BY <1>1, <1>2, <1>12, ClearedRing, Zenon
    <2> HIDE DEF n, q
    <2> QED
      BY <1>12, <2>1, Zenon DEF RingCleared, FrontTaken
  <1>17. q.ring.count > 0
    <2> HIDE DEF q, n
    <2>1. CASE n > 0
      <3>1. n < c
        BY <1>2, <1>6, <1>8, <1>9, <1>11, <1>14, <1>16, <2>1 DEF s
      <3> QED
        BY <1>11, <1>14, <1>15, <1>16, <2>1, <3>1
    <2>2. CASE ~(n > 0)
      BY <1>14, <1>15, <2>2, Zenon
    <2> QED
      BY <2>1, <2>2, Zenon
  <1>18. Reportable(q)
    BY <1>13, <1>15, <1>17, Zenon DEF Reportable, Waiting, Stays
  <1>19. item'[s] = q
    BY Zenon DEF Sends, R
  <1> QED
    BY <1>12, <1>17, <1>18, <1>19, Zenon

(* A linked item goes along with an item that has been reported whole. *)
LEMMA LinkedAfterTrigger ==
  ASSUME Library, IInv, Sends, NEW e \in 1 .. ReportCount, NEW s, s = AllEntries[e].slot,
         item[s].mode # "reporting"
  PROVE  \E t \in Slot : /\ item[t].mode = "reporting"
                         /\ item[s].id \in item[t].links
                         /\ ~Waiting(item'[t])
  <1> DEFINE R == ReportCount
             N == 2 * NItems
  <1>1. Typed
    BY DEF IInv
  <1>2. R \in Nat /\ R <= Held[N] /\ Held[N] \in Nat /\ N \in Nat /\ Turn = 1 .. N
    BY <1>1, CountFacts, TurnFacts, Zenon
  <1> HIDE DEF R, N
  <1>3. e \in 1 .. Held[N] /\ e \in Nat /\ e <= R /\ 1 <= e
    BY <1>2 DEF R
  <1>4. PICK k \in Turn : Held[k - 1] < e /\ e <= Held[k]
    BY <1>1, <1>3, EntryTurn, Zenon DEF N
  <1>5. Takes(k) /\ s = SlotAt(k)
    <2>1. Takes(k) /\ AllEntries[e] = Entry(SlotAt(k), e - Held[k - 1])
      BY <1>1, <1>3, <1>4, EntryAt, Zenon
    <2> QED
      BY <2>1 DEF Entry
  <1>6. ~(k <= NItems) /\ ReportsByTrigger(s)
    BY <1>5, Zenon DEF Takes, Reportable
  <1>7. PICK t \in Slot : Reportable(item[t]) /\ item[s].id \in item[t].links
    BY <1>6, Zenon DEF ReportsByTrigger
  <1>8. item[t].mode = "reporting" /\ item[t].used /\ Waiting(item[t])
    BY <1>7, Zenon DEF Reportable
  <1>9. t \in Turn /\ TurnOf(t) = t /\ SlotAt(t) = t /\ t <= NItems /\ t \in Nat
    BY <1>8, TurnFacts, ItemsAssumption DEF TurnOf, Slot
  <1>10. t \in bitmap
    BY <1>8, Zenon DEF IInv, Covered, Sends
  <1>11. Takes(t)
    BY <1>7, <1>9, <1>10, Zenon DEF Takes
  <1>12. t \in 0 .. N /\ k - 1 \in 0 .. N /\ t <= k - 1 /\ t - 1 \in 0 .. N
    BY <1>2, <1>6, <1>9, ItemsAssumption
  <1>13. /\ Held \in [0 .. N -> Nat] /\ \A j \in 1 .. N : Held[j - 1] <= Held[j]
    BY <1>1, <1>2, HeldFacts, Zenon DEF N
  <1>14. Held[t] <= Held[k - 1]
    BY <1>2, <1>12, <1>13, SumsGrow, Zenon
  <1> DEFINE c == item[t].ring.count
             f == Effective(item[t].ring)
             q == Cleared(R)[t]
             n == Remaining(R, t)
  <1>15. Held[t] = Held[t - 1] + c
    BY <1>1, <1>9, <1>11, HeldFacts
  <1>16. c \in Nat /\ f.count \in Nat /\ f.count <= c /\ item[t].ring \in RingType
    BY <1>1, TypedFacts, ItemFields, EffectiveFields, RingFields
  <1>17. Gone[t - 1] <= Held[t - 1] /\ Gone[t - 1] \in Nat
    BY <1>1, <1>9, <1>12, GoneHeld, GoneFacts, Zenon DEF N
  <1>18. Held[t] \in Nat /\ Held[t - 1] \in Nat /\ Held[k - 1] \in Nat
    BY <1>12, <1>13, Zenon
  <1>19. n > 0 /\ ~(n < c) /\ n \in Nat
    <2>1. Held[t - 1] < R /\ Held[t - 1] + c <= R
      BY <1>2, <1>3, <1>4, <1>14, <1>15, <1>16, <1>18
    <2>2. Gone[t - 1] < R
      BY <1>2, <1>17, <1>18, <2>1
    <2>3. n = R - Gone[t - 1]
      BY <2>2, Zenon DEF Remaining
    <2> DEFINE g == Gone[t - 1]
               h == Held[t - 1]
    <2>4. /\ g \in Nat /\ h \in Nat /\ c \in Nat /\ R \in Nat
          /\ g <= h /\ h + c <= R /\ g < R /\ n = R - g
      BY <1>2, <1>16, <1>17, <1>18, <2>1, <2>2, <2>3, Zenon
    <2> HIDE DEF n, g, h, c, R
    <2> QED
      BY <2>4
  <1>20. q.ring = DrainReported(item[t].ring, n) /\ q.pending = (q.ring.count > 0)
    <2>1. ClearedAs(item[t], t, n, q)
      BY <1>1, <1>2, <1>9, ClearedItem, Zenon
    <2> HIDE DEF n, q
    <2> QED
      BY <1>11, <1>19, <2>1, Zenon DEF ClearedAs
  <1>21. DrainsAs(item[t].ring, f, n, q.ring)
    BY <1>16, <1>19, <1>20, DrainFields, Zenon
  <1> HIDE DEF q, n, f
  <1>22. Drained(f, n) = f.count
    BY <1>16, <1>19 DEF Drained
  <1>23. q.ring.count = 0
    BY <1>16, <1>21, <1>22 DEF DrainsAs
  <1>24. ~Waiting(q)
    <2>1. (q.ring.count > 0) = FALSE
      BY <1>23
    <2> QED
      BY <1>20, <2>1, Zenon DEF Waiting
  <1>25. item'[t] = q
    BY DEF Sends, R, q
  <1> QED
    BY <1>7, <1>8, <1>24, <1>25, Zenon

=============================================================================
