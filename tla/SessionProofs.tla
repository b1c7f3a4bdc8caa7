--------------------------- MODULE SessionProofs ---------------------------
(* The Session table for any number of slots, ids, tokens, channels, users   *)
(* and Subscriptions. The invariant is the conjunction of the safety          *)
(* properties: the counters need the tables, the tables need their types.     *)
EXTENDS Session, FiniteSetTheorems, TLAPS

IInv ==
  /\ TypeOK
  /\ UniqueSessions
  /\ NoOrphanSubscription
  /\ SessionsCounted
  /\ SubscriptionsCovered
  /\ NonceAgrees

(* The Sessions of a state that is about to be primed: typed, with granted    *)
(* timeouts.                                                                  *)
SessOK ==
  /\ sess \in [Slot -> SessionType]
  /\ \A s \in Slot : Open(s) => sess[s].timeout >= MinTimeout /\ sess[s].id # 0

(* The tables are finite, so their sizes are numbers. *)
LEMMA TablesFinite ==
  /\ \A S \in SUBSET Slot : IsFiniteSet(S) /\ Cardinality(S) \in Nat
  /\ \A S \in SUBSET SubSlot : IsFiniteSet(S) /\ Cardinality(S) \in Nat
<1>1. IsFiniteSet(Slot) /\ IsFiniteSet(SubSlot)
  BY FS_Interval, SessionAssumption DEF Slot, SubSlot
<1>2. ASSUME NEW S \in SUBSET Slot
      PROVE  IsFiniteSet(S) /\ Cardinality(S) \in Nat
  BY <1>1, FS_Subset, FS_CardinalityType
<1>3. ASSUME NEW S \in SUBSET SubSlot
      PROVE  IsFiniteSet(S) /\ Cardinality(S) \in Nat
  BY <1>1, FS_Subset, FS_CardinalityType
<1> QED
  BY <1>2, <1>3

(* The saturating decrement of the diagnostics counters. *)
LEMMA LessFacts ==
  ASSUME NEW n \in Nat, NEW k \in Nat
  PROVE  Less(n, k) \in Nat /\ Less(n, k) >= n - k /\ (k <= n => Less(n, k) = n - k)
BY DEF Less

(* clamp_timeout_bits grants a timeout within the limits, whatever is asked. *)
LEMMA ClampFacts ==
  ASSUME NEW d \in Int
  PROVE  Clamp(d) \in 0 .. MaxTimeout /\ Clamp(d) >= MinTimeout
BY SessionAssumption DEF Clamp

(* A closed slot is a Session record. *)
LEMMA ClosedType ==
  ASSUME NEW t \in Token \cup {0}
  PROVE  /\ Closed(t) \in SessionType
         /\ Closed(t).state = "closed"
BY SessionAssumption DEF Closed, SessionType

(* Sizes are those of the unchanged tables. *)
LEMMA SameTables ==
  ASSUME IInv, OpenSlots' = OpenSlots, subs' = subs, current' = current
  PROVE  SessionsCounted' /\ SubscriptionsCovered'
<1>1. UsedSubs' = UsedSubs
  BY DEF UsedSubs
<1> QED
  BY <1>1 DEF IInv, SessionsCounted, SubscriptionsCovered

(* A request that renews or activates an open Session keeps the table's order. *)
LEMMA Renewed ==
  ASSUME IInv, NEW s \in Slot, Open(s), NEW r \in SessionType,
         r.state = "activated", r.id = sess[s].id, r.token = sess[s].token,
         r.timeout = sess[s].timeout, sess' = [sess EXCEPT ![s] = r]
  PROVE  /\ SessOK'
         /\ OpenSlots' = OpenSlots
         /\ UniqueSessions'
         /\ \A q \in Slot : sess[q].state = "activated" =>
              sess'[q].state = "activated" /\ sess'[q].id = sess[q].id
<1> USE DEF IInv, TypeOK
<1>1. sess' \in [Slot -> SessionType]
  OBVIOUS
<1>2. \A q \in Slot : sess'[q] = IF q = s THEN r ELSE sess[q]
  OBVIOUS
<1>3. \A q \in Slot : /\ Open(q)' <=> Open(q)
                      /\ sess'[q].id = sess[q].id
                      /\ sess'[q].token = sess[q].token
                      /\ sess'[q].timeout = sess[q].timeout
  BY <1>2 DEF Open
<1>4. SessOK'
  BY <1>1, <1>3 DEF SessOK
<1>5. OpenSlots' = OpenSlots
  BY <1>3 DEF OpenSlots
<1>6. UniqueSessions'
  BY <1>3 DEF UniqueSessions
<1>7. ASSUME NEW q \in Slot, sess[q].state = "activated"
      PROVE  sess'[q].state = "activated" /\ sess'[q].id = sess[q].id
  BY <1>2, <1>7
<1> QED
  BY <1>4, <1>5, <1>6, <1>7

(* Touched changes the time of the last activity only. *)
LEMMA TouchedFacts ==
  ASSUME TypeOK, NEW s \in Slot
  PROVE  /\ Touched(sess[s]) \in SessionType
         /\ Touched(sess[s]).state = sess[s].state
         /\ Touched(sess[s]).id = sess[s].id
         /\ Touched(sess[s]).token = sess[s].token
         /\ Touched(sess[s]).timeout = sess[s].timeout
         /\ Touched(sess[s]).nonce = sess[s].nonce
<1>1. sess[s] \in SessionType
  BY DEF TypeOK
<1>2. 0 \in 0 .. MaxTimeout + 1 /\ (~zero) \in BOOLEAN
  BY SessionAssumption
<1> QED
  BY <1>1, <1>2, Zenon DEF Touched, SessionType

(* What every executed request does to the table: it renews its Session. *)
LEMMA TouchStep ==
  ASSUME IInv, NEW s \in Slot, sess[s].state = "activated",
         sess' = [sess EXCEPT ![s] = Touched(@)], told' = told
  PROVE  /\ SessOK'
         /\ OpenSlots' = OpenSlots
         /\ UniqueSessions'
         /\ NonceAgrees'
         /\ \A q \in Slot : sess[q].state = "activated" =>
              sess'[q].state = "activated" /\ sess'[q].id = sess[q].id
<1> DEFINE r == Touched(sess[s])
<1>1. /\ r \in SessionType
      /\ r.state = "activated"
      /\ r.id = sess[s].id
      /\ r.token = sess[s].token
      /\ r.timeout = sess[s].timeout
      /\ r.nonce = sess[s].nonce
  BY TouchedFacts DEF IInv
<1>2. sess' = [sess EXCEPT ![s] = r]
  OBVIOUS
<1> HIDE DEF r
<1>3. Open(s)
  BY DEF Open
<1>4. /\ SessOK'
      /\ OpenSlots' = OpenSlots
      /\ UniqueSessions'
      /\ \A q \in Slot : sess[q].state = "activated" =>
           sess'[q].state = "activated" /\ sess'[q].id = sess[q].id
  BY <1>1, <1>2, <1>3, Renewed, Zenon
<1>5. \A q \in Slot : Open(q)' => Open(q) /\ sess'[q].nonce = sess[q].nonce
  BY <1>1, <1>2, <1>3 DEF IInv, TypeOK, Open
<1>6. NonceAgrees'
  BY <1>5 DEF IInv, NonceAgrees
<1> QED
  BY <1>4, <1>6

(* Subscriptions that stay with their Sessions, or go to an activated one,    *)
(* have an owner.                                                             *)
LEMMA StillOwned ==
  ASSUME NoOrphanSubscription,
         \A q \in Slot : sess[q].state = "activated" =>
           sess'[q].state = "activated" /\ sess'[q].id = sess[q].id,
         \A j \in SubSlot : \/ subs'[j] \in {0, subs[j]}
                            \/ \E q \in Slot : sess[q].state = "activated" /\ sess[q].id = subs'[j]
  PROVE  NoOrphanSubscription'
<1> SUFFICES ASSUME NEW j \in SubSlot, subs'[j] # 0
             PROVE  \E s \in Slot : sess'[s].state = "activated" /\ sess'[s].id = subs'[j]
  BY DEF NoOrphanSubscription
<1>1. \E q \in Slot : sess[q].state = "activated" /\ sess[q].id = subs'[j]
  BY DEF NoOrphanSubscription
<1> QED
  BY <1>1

(* Sessions that end take their Subscriptions along and are counted. *)
LEMMA EndStep ==
  ASSUME IInv, NEW S \in SUBSET OpenSlots, Ends(S), told' = told, chans' = chans, zero' = zero
  PROVE  IInv'
<1> DEFINE gone == SubsOf(S)
<1>1. /\ sess' \in [Slot -> SessionType]
      /\ \A q \in Slot : IF q \in S THEN sess'[q].state = "closed" ELSE sess'[q] = sess[q]
  <2>1. \A q \in Slot : sess[q].token \in Token \cup {0}
    BY DEF IInv, TypeOK, SessionType
  <2>2. \A q \in Slot : Closed(sess[q].token) \in SessionType
                        /\ Closed(sess[q].token).state = "closed"
    BY <2>1, ClosedType
  <2>3. sess \in [Slot -> SessionType]
    BY DEF IInv, TypeOK
  <2>4. sess' = [s \in Slot |-> IF s \in S THEN Closed(sess[s].token) ELSE sess[s]]
    BY DEF Ends
  <2> QED
    BY <2>2, <2>3, <2>4
<1>2. /\ subs' = [j \in SubSlot |-> IF j \in gone THEN 0 ELSE subs[j]]
      /\ current' = [sessions |-> Less(current.sessions, Cardinality(S)),
                     subs |-> Less(current.subs, Cardinality(gone))]
  BY DEF Ends
<1>3. S \in SUBSET Slot /\ gone \in SUBSET UsedSubs /\ UsedSubs \in SUBSET SubSlot
  BY DEF OpenSlots, UsedSubs, SubsOf
<1>4. OpenSlots' = OpenSlots \ S
  BY <1>1, <1>3 DEF OpenSlots, Open
<1>5. UsedSubs' = UsedSubs \ gone
  <2>1. subs \in [SubSlot -> Id \cup {0}]
    BY DEF IInv, TypeOK
  <2> HIDE DEF gone
  <2> QED
    BY <1>2, <1>3, <2>1 DEF UsedSubs
<1>6. /\ Cardinality(OpenSlots') = Cardinality(OpenSlots) - Cardinality(S)
      /\ Cardinality(S) <= Cardinality(OpenSlots)
      /\ Cardinality(S) \in Nat /\ Cardinality(OpenSlots) \in Nat
  <2>1. OpenSlots \in SUBSET Slot /\ OpenSlots \cap S = S
    BY DEF OpenSlots
  <2>2. IsFiniteSet(OpenSlots) /\ Cardinality(OpenSlots) \in Nat /\ Cardinality(S) \in Nat
    BY <1>3, <2>1, TablesFinite
  <2>3. Cardinality(OpenSlots \ S) = Cardinality(OpenSlots) - Cardinality(OpenSlots \cap S)
    BY <2>2, FS_Difference, Zenon
  <2>4. Cardinality(S) <= Cardinality(OpenSlots)
    BY <2>2, FS_Subset
  <2> QED
    BY <1>4, <2>1, <2>2, <2>3, <2>4, Zenon
<1>7. /\ Cardinality(UsedSubs') = Cardinality(UsedSubs) - Cardinality(gone)
      /\ Cardinality(gone) \in Nat /\ Cardinality(UsedSubs) \in Nat
  <2> HIDE DEF gone
  <2>1. UsedSubs \cap gone = gone /\ gone \in SUBSET SubSlot
    BY <1>3
  <2>2. IsFiniteSet(UsedSubs) /\ Cardinality(UsedSubs) \in Nat /\ Cardinality(gone) \in Nat
    BY <1>3, <2>1, TablesFinite
  <2>3. Cardinality(UsedSubs \ gone) = Cardinality(UsedSubs) - Cardinality(UsedSubs \cap gone)
    BY <2>2, FS_Difference, Zenon
  <2> QED
    BY <1>5, <2>1, <2>2, <2>3, Zenon
<1>8. TypeOK'
  <2>1. current.sessions \in Nat /\ current.subs \in Nat
    BY DEF IInv, TypeOK
  <2>2. current' \in [sessions : Nat, subs : Nat]
    BY <1>2, <1>6, <1>7, <2>1, LessFacts, Zenon
  <2>3. subs' \in [SubSlot -> Id \cup {0}]
    BY <1>2 DEF IInv, TypeOK
  <2>4. \A q \in Slot : Open(q)' => sess'[q].timeout >= MinTimeout /\ sess'[q].id # 0
    BY <1>1 DEF IInv, TypeOK, Open
  <2> QED
    BY <1>1, <2>2, <2>3, <2>4 DEF IInv, TypeOK
<1>9. UniqueSessions'
  BY <1>1 DEF IInv, UniqueSessions, Open
<1>10. NoOrphanSubscription'
  <2> SUFFICES ASSUME NEW j \in SubSlot, subs'[j] # 0
               PROVE  \E s \in Slot : sess'[s].state = "activated" /\ sess'[s].id = subs'[j]
    BY DEF NoOrphanSubscription
  <2>1. j \notin gone /\ subs'[j] = subs[j] /\ subs[j] # 0
    BY <1>2
  <2>2. PICK s \in Slot : sess[s].state = "activated" /\ sess[s].id = subs[j]
    BY <2>1 DEF IInv, NoOrphanSubscription
  <2>3. s \notin S
    BY <2>1, <2>2 DEF SubsOf, UsedSubs
  <2> QED
    BY <1>1, <2>1, <2>2, <2>3
<1>11. SessionsCounted' /\ SubscriptionsCovered'
  <2>1. current.sessions = Cardinality(OpenSlots) /\ current.subs >= Cardinality(UsedSubs)
        /\ current.subs \in Nat
    BY DEF IInv, SessionsCounted, SubscriptionsCovered, TypeOK
  <2> HIDE DEF gone
  <2>2. current'.sessions = Cardinality(OpenSlots')
    <3>1. current'.sessions = Less(current.sessions, Cardinality(S))
      BY <1>2
    <3> QED
      BY <1>6, <2>1, <3>1, LessFacts
  <2>3. current'.subs >= Cardinality(UsedSubs')
    <3>1. current'.subs = Less(current.subs, Cardinality(gone))
      BY <1>2
    <3>2. Less(current.subs, Cardinality(gone)) >= current.subs - Cardinality(gone)
          /\ Less(current.subs, Cardinality(gone)) \in Nat
      BY <1>7, <2>1, LessFacts, Zenon
    <3> QED
      BY <1>7, <2>1, <3>1, <3>2
  <2> QED
    BY <2>2, <2>3 DEF SessionsCounted, SubscriptionsCovered
<1>12. NonceAgrees'
  BY <1>1 DEF IInv, NonceAgrees, Open
<1> QED
  BY <1>8, <1>9, <1>10, <1>11, <1>12 DEF IInv

(* CreateSession takes a slot that was closed, with identifiers no open       *)
(* Session has, or leaves it closed.                                          *)
LEMMA CreateSessionStep ==
  ASSUME IInv, NEW h \in Chan, NEW d \in Requested, NEW ok \in BOOLEAN, CreateSession(h, d, ok)
  PROVE  IInv'
<1> USE DEF IInv
<1>1. PICK s \in Slot, i \in Id, t \in Token :
        /\ FirstFree(s)
        /\ FreshId(i)
        /\ FreshToken(t)
        /\ LET new == [state |-> "created", id |-> i, token |-> t, chan |-> h, timeout |-> Clamp(d),
                       quiet |-> 0, stamped |-> ~zero, user |-> 0, nonce |-> 1 - told[s]]
           IN  sess' = [sess EXCEPT ![s] = IF ok THEN new ELSE Closed(t)]
        /\ told' = [told EXCEPT ![s] = IF ok THEN 1 - @ ELSE @]
        /\ current' = [current EXCEPT !.sessions = IF CountsCreated(ok) THEN @ + 1 ELSE @]
        /\ UNCHANGED <<subs, chans, zero>>
  BY Zenon DEF CreateSession
<1> DEFINE new == [state |-> "created", id |-> i, token |-> t, chan |-> h, timeout |-> Clamp(d),
                   quiet |-> 0, stamped |-> ~zero, user |-> 0, nonce |-> 1 - told[s]]
           r == IF ok THEN new ELSE Closed(t)
<1>2. told[s] \in {0, 1} /\ told'[s] \in {0, 1} /\ (ok => told'[s] = 1 - told[s])
      /\ told' \in [Slot -> {0, 1}] /\ \A q \in Slot \ {s} : told'[q] = told[q]
  BY <1>1 DEF TypeOK
<1>3. new \in SessionType /\ new.timeout >= MinTimeout /\ new.state = "created"
  <2>1. Clamp(d) \in 0 .. MaxTimeout /\ Clamp(d) >= MinTimeout
    BY ClampFacts, SessionAssumption
  <2>2. 1 - told[s] \in {0, 1} /\ 0 \in 0 .. MaxTimeout + 1 /\ (~zero) \in BOOLEAN
    BY <1>2, SessionAssumption
  <2> QED
    BY <2>1, <2>2 DEF SessionType
<1>4. /\ r \in SessionType
      /\ r.state # "closed" <=> ok
      /\ ok => r.timeout >= MinTimeout /\ r.id = i /\ r.token = t /\ r.nonce = told'[s]
  BY <1>2, <1>3, ClosedType
<1>5. sess' = [sess EXCEPT ![s] = r]
  BY <1>1
<1> HIDE DEF r, new
<1>6. \A q \in Slot : sess'[q] = IF q = s THEN r ELSE sess[q]
  BY <1>5 DEF TypeOK
<1>7. ~Open(s) /\ (Open(s)' <=> ok) /\ \A q \in Slot \ {s} : Open(q)' <=> Open(q)
  BY <1>1, <1>4, <1>6 DEF FirstFree, Open
<1>8. TypeOK'
  <2>1. sess' \in [Slot -> SessionType]
    BY <1>4, <1>5 DEF TypeOK
  <2>2. \A q \in Slot : Open(q)' => sess'[q].timeout >= MinTimeout /\ sess'[q].id # 0
    BY <1>4, <1>6, <1>7, SessionAssumption DEF TypeOK
  <2>3. current' \in [sessions : Nat, subs : Nat]
    BY <1>1 DEF TypeOK
  <2> QED
    BY <1>1, <1>2, <2>1, <2>2, <2>3 DEF TypeOK
<1>9. UniqueSessions'
  <2>1. \A q \in Slot : Open(q) => sess[q].id # i /\ sess[q].token # t
    BY <1>1 DEF FreshId, FreshToken
  <2> QED
    BY <1>4, <1>6, <1>7, <2>1 DEF UniqueSessions
<1>10. NoOrphanSubscription'
  <2>1. \A q \in Slot : sess[q].state = "activated" => q # s
    BY <1>7 DEF Open
  <2>2. \A j \in SubSlot : subs'[j] = subs[j]
    BY <1>1
  <2> QED
    BY <1>6, <2>1, <2>2, StillOwned
<1>11. SessionsCounted' /\ SubscriptionsCovered'
  <2>1. OpenSlots' = IF ok THEN OpenSlots \cup {s} ELSE OpenSlots
    BY <1>7 DEF OpenSlots
  <2>2. s \notin OpenSlots /\ OpenSlots \in SUBSET Slot
    BY <1>7 DEF OpenSlots
  <2>3. IsFiniteSet(OpenSlots) /\ Cardinality(OpenSlots) \in Nat
    BY <2>2, TablesFinite
  <2>4. Cardinality(OpenSlots \cup {s}) = Cardinality(OpenSlots) + 1
    BY <2>2, <2>3, FS_AddElement, Zenon
  <2>5. current'.subs = current.subs /\ current'.sessions = IF ok THEN current.sessions + 1 ELSE current.sessions
    BY <1>1, Zenon DEF TypeOK, CountsCreated
  <2>6. UsedSubs' = UsedSubs
    BY <1>1 DEF UsedSubs
  <2>7. SessionsCounted'
    BY <2>1, <2>4, <2>5 DEF SessionsCounted
  <2> QED
    BY <2>5, <2>6, <2>7 DEF SubscriptionsCovered
<1>12. NonceAgrees'
  BY <1>2, <1>4, <1>6, <1>7 DEF NonceAgrees
<1> QED
  BY <1>8, <1>9, <1>10, <1>11, <1>12

(* ActivateSession changes state, user and nonce of one open Session. *)
LEMMA ActivateSessionStep ==
  ASSUME IInv, NEW h \in Chan, NEW t \in Token, NEW u \in User, NEW ok \in BOOLEAN,
         ActivateSession(h, t, u, ok)
  PROVE  IInv'
<1> USE DEF IInv
<1>1. PICK s \in Slot :
        /\ Names(h, t, s)
        /\ sess' = [sess EXCEPT ![s] =
                      [Touched(@) EXCEPT !.state = "activated", !.user = u, !.nonce = Nonce(s, ok)]]
        /\ told' = [told EXCEPT ![s] = IF ok THEN 1 - @ ELSE @]
        /\ UNCHANGED <<subs, chans, current, zero>>
  BY Zenon DEF ActivateSession
<1> DEFINE p == Touched(sess[s])
           n == Nonce(s, ok)
           r == [p EXCEPT !.state = "activated", !.user = u, !.nonce = n]
<1>2. /\ p \in SessionType
      /\ p.id = sess[s].id
      /\ p.token = sess[s].token
      /\ p.timeout = sess[s].timeout
      /\ p.nonce = sess[s].nonce
  BY TouchedFacts
<1>3. sess' = [sess EXCEPT ![s] = r]
  BY <1>1
<1> HIDE DEF p
<1>4. /\ r \in SessionType
      /\ r.state = "activated"
      /\ r.id = sess[s].id
      /\ r.token = sess[s].token
      /\ r.timeout = sess[s].timeout
      /\ r.nonce = IF ok THEN 1 - sess[s].nonce ELSE sess[s].nonce
  <2>1. p.nonce \in {0, 1}
    BY <1>2 DEF SessionType
  <2>2. n \in {0, 1} /\ n = IF ok THEN 1 - sess[s].nonce ELSE sess[s].nonce
    BY <1>2, <2>1 DEF KeepsNonce, Nonce
  <2> HIDE DEF n
  <2> QED
    BY <1>2, <2>2, ZenonT(60) DEF SessionType
<1> HIDE DEF r
<1>5. Open(s)
  BY <1>1 DEF Names
<1>6. /\ SessOK'
      /\ OpenSlots' = OpenSlots
      /\ UniqueSessions'
      /\ \A q \in Slot : sess[q].state = "activated" =>
           sess'[q].state = "activated" /\ sess'[q].id = sess[q].id
  BY <1>3, <1>4, <1>5, Renewed, ZenonT(60)
<1>7. told' \in [Slot -> {0, 1}]
      /\ \A q \in Slot : told'[q] = IF q = s /\ ok THEN 1 - told[q] ELSE told[q]
  BY <1>1 DEF TypeOK
<1>8. TypeOK'
  BY <1>1, <1>6, <1>7 DEF TypeOK, SessOK
<1>9. NoOrphanSubscription'
  <2>1. \A j \in SubSlot : subs'[j] = subs[j]
    BY <1>1
  <2> QED
    BY <1>6, <2>1, StillOwned
<1>10. SessionsCounted' /\ SubscriptionsCovered'
  BY <1>1, <1>6, SameTables
<1>11. NonceAgrees'
  <2>1. \A q \in Slot : Open(q)' => Open(q)
    BY <1>6 DEF OpenSlots
  <2>2. \A q \in Slot : sess'[q].nonce = IF q = s THEN r.nonce ELSE sess[q].nonce
    BY <1>3 DEF TypeOK
  <2> QED
    BY <1>4, <1>5, <1>7, <2>1, <2>2 DEF NonceAgrees
<1> QED
  BY <1>6, <1>8, <1>9, <1>10, <1>11

(* The services that only renew their Session. *)
LEMMA OtherRequestStep ==
  ASSUME IInv, NEW h \in Chan, NEW t \in Token, OtherRequest(h, t)
  PROVE  IInv'
<1> USE DEF IInv
<1>1. PICK s \in Slot :
        /\ sess[s].state = "activated"
        /\ sess' = [sess EXCEPT ![s] = Touched(@)]
        /\ UNCHANGED <<subs, chans, told, current, zero>>
  BY Zenon DEF OtherRequest, Executes
<1>2. /\ SessOK'
      /\ OpenSlots' = OpenSlots
      /\ UniqueSessions'
      /\ NonceAgrees'
      /\ \A q \in Slot : sess[q].state = "activated" =>
           sess'[q].state = "activated" /\ sess'[q].id = sess[q].id
  BY <1>1, TouchStep, Zenon
<1>3. TypeOK'
  BY <1>1, <1>2 DEF TypeOK, SessOK
<1>4. \A j \in SubSlot : subs'[j] = subs[j]
  BY <1>1
<1>5. NoOrphanSubscription'
  BY <1>2, <1>4, StillOwned
<1>6. SessionsCounted' /\ SubscriptionsCovered'
  BY <1>1, <1>2, SameTables
<1> QED
  BY <1>2, <1>3, <1>5, <1>6

(* One Subscription slot is written: freed, given to an activated Session, or *)
(* left alone, and counted at least as far as it is in use.                   *)
LEMMA SubscriptionStep ==
  ASSUME IInv, SessOK', OpenSlots' = OpenSlots, UniqueSessions', NonceAgrees',
         \A q \in Slot : sess[q].state = "activated" =>
           sess'[q].state = "activated" /\ sess'[q].id = sess[q].id,
         NEW j \in SubSlot, NEW o \in Id \cup {0}, subs' = [subs EXCEPT ![j] = o],
         o = 0 \/ o = subs[j] \/ \E q \in Slot : sess[q].state = "activated" /\ sess[q].id = o,
         current' \in [sessions : Nat, subs : Nat], current'.sessions = current.sessions,
         \/ current'.subs >= current.subs /\ (subs[j] # 0 \/ o = 0)
         \/ current'.subs = current.subs + 1
         \/ subs[j] # 0 /\ o = 0 /\ current'.subs >= current.subs - 1,
         chans' = chans, told' = told, zero' = zero
  PROVE  IInv'
<1> USE DEF IInv
<1>1. subs' \in [SubSlot -> Id \cup {0}] /\ \A k \in SubSlot : subs'[k] = IF k = j THEN o ELSE subs[k]
  BY DEF TypeOK
<1>2. TypeOK'
  BY <1>1 DEF TypeOK, SessOK
<1>3. NoOrphanSubscription'
  BY <1>1, StillOwned
<1>4. SessionsCounted'
  BY DEF SessionsCounted
<1>5. SubscriptionsCovered'
  <2>1. UsedSubs' = IF o = 0 THEN UsedSubs \ {j} ELSE UsedSubs \cup {j}
    BY <1>1 DEF UsedSubs
  <2>2. UsedSubs \in SUBSET SubSlot /\ (j \in UsedSubs <=> subs[j] # 0)
    BY DEF UsedSubs
  <2>3. IsFiniteSet(UsedSubs) /\ Cardinality(UsedSubs) \in Nat
    BY <2>2, TablesFinite
  <2>4. /\ Cardinality(UsedSubs \ {j}) = IF j \in UsedSubs THEN Cardinality(UsedSubs) - 1
                                                       ELSE Cardinality(UsedSubs)
        /\ Cardinality(UsedSubs \cup {j}) = IF j \in UsedSubs THEN Cardinality(UsedSubs)
                                                          ELSE Cardinality(UsedSubs) + 1
    BY <2>3, FS_AddElement, FS_RemoveElement, ZenonT(60)
  <2>5. current.subs >= Cardinality(UsedSubs) /\ current.subs \in Nat /\ current'.subs \in Nat
    BY DEF SubscriptionsCovered, TypeOK
  <2>6. current'.subs >= Cardinality(UsedSubs')
    BY <2>1, <2>2, <2>3, <2>4, <2>5
  <2> QED
    BY <2>6 DEF SubscriptionsCovered
<1> QED
  BY <1>2, <1>3, <1>4, <1>5

(* CreateSubscription fills a free slot and counts it. *)
LEMMA CreateSubscriptionStep ==
  ASSUME IInv, NEW h \in Chan, NEW t \in Token, CreateSubscription(h, t)
  PROVE  IInv'
<1>1. PICK s \in Slot, j \in SubSlot :
        /\ sess[s].state = "activated"
        /\ subs' = [subs EXCEPT ![j] = sess[s].id]
        /\ current' = [current EXCEPT !.subs = @ + 1]
        /\ sess' = [sess EXCEPT ![s] = Touched(@)]
        /\ UNCHANGED <<chans, told, zero>>
  BY Zenon DEF CreateSubscription, Executes
<1>2. /\ SessOK'
      /\ OpenSlots' = OpenSlots
      /\ UniqueSessions'
      /\ NonceAgrees'
      /\ \A q \in Slot : sess[q].state = "activated" =>
           sess'[q].state = "activated" /\ sess'[q].id = sess[q].id
  BY <1>1, TouchStep, Zenon
<1>3. sess[s].id \in Id \cup {0}
  BY DEF IInv, TypeOK, SessionType
<1>4. /\ current' \in [sessions : Nat, subs : Nat]
      /\ current'.sessions = current.sessions
      /\ current'.subs = current.subs + 1
  BY <1>1 DEF IInv, TypeOK
<1> QED
  BY <1>1, <1>2, <1>3, <1>4, SubscriptionStep, Zenon

(* DeleteSubscriptions frees and counts what the caller owns. *)
LEMMA DeleteSubscriptionStep ==
  ASSUME IInv, NEW h \in Chan, NEW t \in Token, NEW j \in SubSlot, DeleteSubscription(h, t, j)
  PROVE  IInv'
<1>1. PICK s \in Slot :
        /\ sess[s].state = "activated"
        /\ subs' = [subs EXCEPT ![j] = IF @ = sess[s].id THEN 0 ELSE @]
        /\ current' = [current EXCEPT !.subs = IF CountsDelete(s, j) THEN Less(@, 1) ELSE @]
        /\ sess' = [sess EXCEPT ![s] = Touched(@)]
        /\ UNCHANGED <<chans, told, zero>>
  BY Zenon DEF DeleteSubscription, Executes
<1>2. /\ SessOK'
      /\ OpenSlots' = OpenSlots
      /\ UniqueSessions'
      /\ NonceAgrees'
      /\ \A q \in Slot : sess[q].state = "activated" =>
           sess'[q].state = "activated" /\ sess'[q].id = sess[q].id
  BY <1>1, TouchStep, Zenon
<1> DEFINE o == IF subs[j] = sess[s].id THEN 0 ELSE subs[j]
<1>3. o \in Id \cup {0} /\ subs' = [subs EXCEPT ![j] = o] /\ (o = 0 \/ o = subs[j])
  BY <1>1 DEF IInv, TypeOK
<1>4. /\ current' \in [sessions : Nat, subs : Nat]
      /\ current'.sessions = current.sessions
      /\ current'.subs = IF subs[j] = sess[s].id THEN Less(current.subs, 1) ELSE current.subs
  <2>1. current \in [sessions : Nat, subs : Nat] /\ Less(current.subs, 1) \in Nat
    BY LessFacts, ZenonT(60) DEF IInv, TypeOK
  <2> QED
    BY <1>1, <2>1 DEF CountsDelete
<1>5. \/ current'.subs >= current.subs /\ (subs[j] # 0 \/ o = 0)
      \/ subs[j] # 0 /\ o = 0 /\ current'.subs >= current.subs - 1
  <2>1. current.subs \in Nat /\ Less(current.subs, 1) >= current.subs - 1
    BY LessFacts, Zenon DEF IInv, TypeOK
  <2>2. sess[s].id # 0
    BY <1>1 DEF IInv, TypeOK, Open
  <2> QED
    BY <1>4, <2>1, <2>2
<1> HIDE DEF o
<1> QED
  BY <1>1, <1>2, <1>3, <1>4, <1>5, SubscriptionStep, ZenonT(60)

(* TransferSubscriptions gives one Subscription to the caller. *)
LEMMA TransferSubscriptionStep ==
  ASSUME IInv, NEW h \in Chan, NEW t \in Token, NEW j \in SubSlot, TransferSubscription(h, t, j)
  PROVE  IInv'
<1>1. PICK s \in Slot :
        /\ sess[s].state = "activated"
        /\ subs[j] \notin {0, sess[s].id}
        /\ subs' = [subs EXCEPT ![j] = sess[s].id]
        /\ sess' = [sess EXCEPT ![s] = Touched(@)]
        /\ UNCHANGED <<chans, told, current, zero>>
  BY Zenon DEF TransferSubscription, Executes
<1>2. /\ SessOK'
      /\ OpenSlots' = OpenSlots
      /\ UniqueSessions'
      /\ NonceAgrees'
      /\ \A q \in Slot : sess[q].state = "activated" =>
           sess'[q].state = "activated" /\ sess'[q].id = sess[q].id
  BY <1>1, TouchStep, ZenonT(60)
<1>3. sess[s].id \in Id \cup {0}
  BY DEF IInv, TypeOK, SessionType
<1>4. /\ current' \in [sessions : Nat, subs : Nat]
      /\ current' = current
      /\ current'.subs >= current.subs
  BY <1>1 DEF IInv, TypeOK
<1> QED
  BY <1>1, <1>2, <1>3, <1>4, SubscriptionStep, Zenon

(* The end of a lifetime frees a Subscription and touches nothing else. *)
LEMMA LifetimeEndsStep ==
  ASSUME IInv, NEW j \in SubSlot, LifetimeEnds(j)
  PROVE  IInv'
<1>1. /\ subs' = [subs EXCEPT ![j] = 0]
      /\ UNCHANGED <<sess, chans, told, current, zero>>
  BY DEF LifetimeEnds
<1>2. /\ SessOK'
      /\ OpenSlots' = OpenSlots
      /\ UniqueSessions'
      /\ NonceAgrees'
  BY <1>1 DEF IInv, TypeOK, SessOK, OpenSlots, Open, UniqueSessions, NonceAgrees
<1>3. /\ current' \in [sessions : Nat, subs : Nat]
      /\ current' = current
      /\ current'.subs >= current.subs
  BY <1>1 DEF IInv, TypeOK
<1> QED
  BY <1>1, <1>2, <1>3, SubscriptionStep, Zenon

(* Time changes nothing but how long Sessions have been quiet. *)
LEMMA TickStep ==
  ASSUME IInv, Tick
  PROVE  IInv'
<1> USE DEF IInv
<1>1. UNCHANGED <<subs, chans, told, current>> /\ zero' = FALSE
  BY DEF Tick
<1>2. sess' = [s \in Slot |-> IF Open(s) /\ sess[s].quiet <= MaxTimeout
                              THEN [sess[s] EXCEPT !.quiet = @ + 1] ELSE sess[s]]
  BY DEF Tick
<1>3. ASSUME NEW q \in Slot
      PROVE  /\ sess'[q] \in SessionType
             /\ sess'[q].state = sess[q].state
             /\ sess'[q].id = sess[q].id
             /\ sess'[q].token = sess[q].token
             /\ sess'[q].timeout = sess[q].timeout
             /\ sess'[q].nonce = sess[q].nonce
  <2>1. sess[q] \in SessionType
    BY DEF TypeOK
  <2>2. sess[q].quiet \in Nat /\ (sess[q].quiet <= MaxTimeout => sess[q].quiet + 1 \in 0 .. MaxTimeout + 1)
    BY <2>1, SessionAssumption DEF SessionType
  <2>3. CASE Open(q) /\ sess[q].quiet <= MaxTimeout
    <3>1. sess'[q] = [sess[q] EXCEPT !.quiet = sess[q].quiet + 1]
      BY <1>2, <2>3
    <3> QED
      BY <2>1, <2>2, <2>3, <3>1 DEF SessionType
  <2>4. CASE ~(Open(q) /\ sess[q].quiet <= MaxTimeout)
    BY <1>2, <2>1, <2>4
  <2> QED
    BY <2>3, <2>4
<1>4. \A q \in Slot : Open(q)' <=> Open(q)
  BY <1>3 DEF Open
<1>5. TypeOK'
  <2>1. sess' \in [Slot -> SessionType]
    BY <1>2, <1>3
  <2> QED
    BY <1>1, <1>3, <1>4, <2>1, Zenon DEF TypeOK
<1>6. UniqueSessions'
  BY <1>3, <1>4 DEF UniqueSessions
<1>7. OpenSlots' = OpenSlots
  BY <1>4 DEF OpenSlots
<1>8. SessionsCounted' /\ SubscriptionsCovered'
  BY <1>1, <1>7, SameTables
<1>9. NonceAgrees'
  BY <1>1, <1>3, <1>4 DEF NonceAgrees
<1>10. NoOrphanSubscription'
  BY <1>1, <1>3 DEF NoOrphanSubscription
<1> QED
  BY <1>5, <1>6, <1>8, <1>9, <1>10

(* A server that has just started has no Sessions and counts none. *)
LEMMA InitIInv == Init => IInv
<1> SUFFICES ASSUME Init PROVE IInv
  OBVIOUS
<1>1. \A s \in Slot : sess[s] = Closed(0) /\ ~Open(s)
  BY ClosedType DEF Init, Open
<1>2. Closed(0) \in SessionType
  BY ClosedType
<1>3. TypeOK
  BY <1>1, <1>2 DEF Init, TypeOK
<1>4. OpenSlots = {} /\ UsedSubs = {}
  BY <1>1 DEF Init, OpenSlots, UsedSubs
<1>5. SessionsCounted /\ SubscriptionsCovered
  BY <1>4, FS_EmptySet DEF Init, SessionsCounted, SubscriptionsCovered
<1>6. UniqueSessions /\ NonceAgrees
  BY <1>1 DEF UniqueSessions, NonceAgrees
<1>7. NoOrphanSubscription
  BY DEF Init, NoOrphanSubscription
<1> QED
  BY <1>3, <1>5, <1>6, <1>7 DEF IInv

(* Every step keeps the invariant, one case per action. *)
LEMMA NextIInv == IInv /\ [Next]_vars => IInv'
<1> SUFFICES ASSUME IInv, [Next]_vars PROVE IInv'
  OBVIOUS
<1>1. ASSUME UNCHANGED <<sess, subs, told, current, zero>>, chans' \subseteq Chan PROVE IInv'
  BY <1>1 DEF IInv, TypeOK, UniqueSessions, NoOrphanSubscription, SessionsCounted,
              SubscriptionsCovered, NonceAgrees, OpenSlots, UsedSubs, Open
<1>2. CASE SessionTimeout
  <2>1. Expired \in SUBSET OpenSlots
    BY DEF Expired, OpenSlots
  <2> QED
    BY <1>2, <2>1, EndStep DEF SessionTimeout
<1>3. CASE Tick
  BY <1>3, TickStep
<1>4. ASSUME NEW j \in SubSlot, LifetimeEnds(j) PROVE IInv'
  BY <1>4, LifetimeEndsStep
<1>5. ASSUME NEW h \in Chan, OpenChannel(h) PROVE IInv'
  <2>1. chans' \subseteq Chan
    BY <1>5 DEF OpenChannel, IInv, TypeOK
  <2> QED
    BY <1>1, <1>5, <2>1 DEF OpenChannel
<1>6. ASSUME NEW h \in Chan, CloseChannel(h) PROVE IInv'
  <2>1. chans' \subseteq Chan
    BY <1>6 DEF CloseChannel, IInv, TypeOK
  <2> QED
    BY <1>1, <1>6, <2>1 DEF CloseChannel
<1>7. ASSUME NEW h \in Chan, NEW d \in Requested, NEW ok \in BOOLEAN, CreateSession(h, d, ok) PROVE IInv'
  BY <1>7, CreateSessionStep
<1>8. ASSUME NEW h \in Chan, NEW t \in Token, NEW u \in User, NEW ok \in BOOLEAN,
             ActivateSession(h, t, u, ok) PROVE IInv'
  BY <1>8, ActivateSessionStep
<1>9. ASSUME NEW h \in Chan, NEW t \in Token, CloseSession(h, t) PROVE IInv'
  <2>1. PICK s \in Slot : Executes(h, t, s) /\ Ends({s}) /\ UNCHANGED <<chans, told, zero>>
    BY <1>9 DEF CloseSession
  <2>2. {s} \in SUBSET OpenSlots
    BY <2>1 DEF Executes, Names, OpenSlots
  <2> QED
    BY <2>1, <2>2, EndStep
<1>10. ASSUME NEW h \in Chan, NEW t \in Token, OtherRequest(h, t) PROVE IInv'
  BY <1>10, OtherRequestStep
<1>11. ASSUME NEW h \in Chan, NEW t \in Token, CreateSubscription(h, t) PROVE IInv'
  BY <1>11, CreateSubscriptionStep
<1>12. ASSUME NEW h \in Chan, NEW t \in Token, NEW j \in SubSlot, DeleteSubscription(h, t, j) PROVE IInv'
  BY <1>12, DeleteSubscriptionStep
<1>13. ASSUME NEW h \in Chan, NEW t \in Token, NEW j \in SubSlot, TransferSubscription(h, t, j) PROVE IInv'
  BY <1>13, TransferSubscriptionStep
<1>14. CASE UNCHANGED vars
  <2>1. chans \subseteq Chan
    BY DEF IInv, TypeOK
  <2> QED
    BY <1>1, <1>14, <2>1 DEF vars
<1> QED
  BY <1>2, <1>3, <1>4, <1>5, <1>6, <1>7, <1>8, <1>9, <1>10, <1>11, <1>12, <1>13, <1>14 DEF Next

(* The inductive invariant holds in every reachable state. *)
THEOREM Invariance == Spec => []IInv
BY InitIInv, NextIInv, PTL DEF Spec

(* Sessions keep their types, ids and granted timeouts (clamp_timeout_bits). *)
THEOREM TypeCorrect == Spec => []TypeOK
<1>1. IInv => TypeOK
  BY DEF IInv
<1> QED
  BY <1>1, Invariance, PTL

(* Open Sessions have different ids and tokens, however they are drawn.       *)
THEOREM SessionsUnique == Spec => []UniqueSessions
<1>1. IInv => UniqueSessions
  BY DEF IInv
<1> QED
  BY <1>1, Invariance, PTL

(* No Subscription is ever without an activated Session, so TransferSubscrip- *)
(* tions always compares users.                                               *)
THEOREM SubscriptionsOwned == Spec => []NoOrphanSubscription
<1>1. IInv => NoOrphanSubscription
  BY DEF IInv
<1> QED
  BY <1>1, Invariance, PTL

(* The diagnostics counts follow the tables: current_session_count is exact   *)
(* and current_subscription_count never falls short of the Subscriptions in   *)
(* use (mu_diagnostics_session_created/_closed, _subscription_created/_closed). *)
THEOREM CountsCorrect == Spec => []CountsFollow
<1>1. IInv => CountsFollow
  BY DEF IInv, CountsFollow
<1> QED
  BY <1>1, Invariance, PTL

(* Client and server hold the same nonce through failing activations.         *)
THEOREM NonceShared == Spec => []NonceAgrees
<1>1. IInv => NonceAgrees
  BY DEF IInv
<1> QED
  BY <1>1, Invariance, PTL
=============================================================================
