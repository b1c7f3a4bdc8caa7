-------------------------- MODULE PublishingProofs --------------------------
(***************************************************************************)
(* Proofs about the publishing engine, for any number of Sessions,         *)
(* connections, Subscriptions and parked requests, and for any widths of   *)
(* its counters.                                                           *)
(***************************************************************************)
EXTENDS Publishing, TLAPS

(* What every slot of the Subscription table satisfies.  TypeOK alone is not *)
(* inductive: the owner of a slot in use must be a Session (its connection   *)
(* is looked up), and the counts must be the revised ones.                   *)
SubOK(sub) ==
  /\ sub \in SubType
  /\ sub.in_use =>
       /\ sub.owner \in Session
       /\ sub.id # 0
       /\ sub.lifetimeCount >= 3
       /\ sub.retransmit # 0 => AdvanceSeq(sub.retransmit) = sub.seq

(* A request in use belongs to a Session, and a Session that was created has *)
(* a connection.                                                             *)
OwnersOK ==
  /\ \A r \in ReqSlot : queue[r].in_use => queue[r].owner \in Session
  /\ \A s \in Session : state[s] # "none" => home[s] \in Conn
  /\ \A i \in SubSlot : subs[i].in_use => state[subs[i].owner] # "none"

SubsOK == subs \in [SubSlot -> SubType] /\ \A i \in SubSlot : SubOK(subs[i])

IInv == TypeOK /\ SubsOK /\ OwnersOK /\ UniqueIds

-----------------------------------------------------------------------------
(* The helpers *)

(* advance_sequence_number stays in range and never yields 0. *)
LEMMA AdvanceSeqFacts ==
  ASSUME NEW n \in 0 .. MaxSeq
  PROVE  AdvanceSeq(n) \in 1 .. MaxSeq
  BY PublishingAssumption DEF AdvanceSeq

(* allocate_subscription_id stays in 1 .. MaxId, whatever the wrap. *)
LEMMA NextIdFacts ==
  ASSUME NEW id \in 1 .. MaxId, NEW k \in Nat
  PROVE  NextIdAfter(id, k) \in 1 .. MaxId
  <1>1. (id - 1 + k) % MaxId \in 0 .. MaxId - 1
    BY PublishingAssumption
  <1> QED
    BY <1>1, PublishingAssumption DEF NextIdAfter

(* revise_subscription_counts: both counts fit, the lifetime is at least 3. *)
LEMMA ReviseFacts ==
  ASSUME NEW req \in Requested
  PROVE  /\ ReviseKeepAlive(req[2]) \in 0 .. MaxCount
         /\ ReviseLifetime(req[1], req[2]) \in 3 .. MaxCount
  <1>1. req[1] \in 0 .. MaxCount /\ req[2] \in 0 .. MaxCount
    BY PublishingAssumption
  <1>2. MaxCount \div 3 \in 1 .. MaxCount /\ 3 * (MaxCount \div 3) <= MaxCount
    BY PublishingAssumption
  <1>3. ReviseKeepAlive(req[2]) \in 1 .. MaxCount \div 3
    BY <1>1, <1>2, PublishingAssumption DEF ReviseKeepAlive
  <1> QED
    BY <1>1, <1>2, <1>3, PublishingAssumption DEF ReviseLifetime

-----------------------------------------------------------------------------
(* What the operations do to one Subscription *)

(* A deleted slot, memset to 0, is well formed. *)
LEMMA FreeSubOK == SubOK(FreeSub)
  BY PublishingAssumption DEF SubOK, FreeSub, SubType

(* A Subscription just created, and one whose parameters are modified. *)
LEMMA ApplyParametersOK ==
  ASSUME NEW sub \in SubType, NEW req \in Requested,
         sub.in_use, sub.owner \in Session, sub.id # 0,
         sub.retransmit # 0 => AdvanceSeq(sub.retransmit) = sub.seq
  PROVE  /\ SubOK(ApplyParameters(sub, req))
         /\ ApplyParameters(sub, req).in_use
         /\ ApplyParameters(sub, req).id = sub.id
         /\ ApplyParameters(sub, req).owner = sub.owner
         /\ ApplyParameters(sub, req).seq = sub.seq
  <1> DEFINE ka == ReviseKeepAlive(req[2])
             lt == ReviseLifetime(req[1], req[2])
  <1>1. ka \in 0 .. MaxCount /\ lt \in 3 .. MaxCount
    BY ReviseFacts
  <1>2. ApplyParameters(sub, req) = [sub EXCEPT !.maxKeepAlive = ka, !.lifetimeCount = lt]
    BY DEF ApplyParameters
  <1> HIDE DEF ka, lt
  <1>3. lt \in 0 .. MaxCount /\ lt >= 3
    BY <1>1, PublishingAssumption
  <1> QED
    BY <1>1, <1>2, <1>3, Zenon DEF SubOK, SubType

(* The keep-alive counter of an idle cycle. *)
LEMMA KeepAliveCountedOK ==
  ASSUME NEW sub, SubOK(sub)
  PROVE  /\ SubOK(KeepAliveCounted(sub))
         /\ KeepAliveCounted(sub).in_use = sub.in_use
         /\ KeepAliveCounted(sub).owner = sub.owner
         /\ KeepAliveCounted(sub).id = sub.id
         /\ KeepAliveCounted(sub).seq = sub.seq
  <1>1. (sub.keepAlive + 1) % (MaxCount + 1) \in 0 .. MaxCount
    BY PublishingAssumption DEF SubOK, SubType
  <1> QED
    BY <1>1 DEF KeepAliveCounted, SubOK, SubType

(* A response was emitted: the counters start again, and a notification moves *)
(* the retransmission slot and the sequence number together.                  *)
LEMMA ReportedOK ==
  ASSUME NEW sub, SubOK(sub), NEW fits \in BOOLEAN, NEW more \in BOOLEAN
  PROVE  /\ SubOK(Reported(sub, fits, more))
         /\ Reported(sub, fits, more).in_use = sub.in_use
         /\ Reported(sub, fits, more).owner = sub.owner
         /\ Reported(sub, fits, more).id = sub.id
         /\ Reported(sub, fits, more).lifetime = 0
         /\ Reported(sub, fits, more).lifetimeCount = sub.lifetimeCount
         /\ Reported(sub, fits, more).seq = IF HasData(sub) THEN AdvanceSeq(sub.seq) ELSE sub.seq
  <1>1. sub \in SubType /\ AdvanceSeq(sub.seq) \in 0 .. MaxSeq
    BY AdvanceSeqFacts, PublishingAssumption DEF SubOK, SubType
  <1>2. sub.lifetime \in 0 .. MaxCount /\ 0 \in 0 .. MaxCount /\ 0 \in 0 .. MaxSeq
    BY PublishingAssumption DEF SubOK, SubType
  <1>3. CASE HasData(sub)
    <2> DEFINE kept == IF fits THEN sub.seq ELSE 0
    <2>1. kept \in 0 .. MaxSeq /\ (kept # 0 => kept = sub.seq)
      BY <1>1, <1>2 DEF SubType
    <2>2. Reported(sub, fits, more) =
            [sub EXCEPT !.keepAlive = 0, !.lifetime = 0, !.pending = more,
                        !.retransmit = kept, !.seq = AdvanceSeq(sub.seq)]
      BY <1>1, <1>3 DEF Reported, SubType
    <2> HIDE DEF kept
    <2> QED
      BY <1>1, <1>2, <1>3, <2>1, <2>2, ZenonT(60) DEF SubOK, SubType
  <1>4. CASE ~HasData(sub)
    <2>1. Reported(sub, fits, more) = [sub EXCEPT !.keepAlive = 0, !.lifetime = 0]
      BY <1>4 DEF Reported
    <2> QED
      BY <1>1, <1>2, <1>4, <2>1, Zenon DEF SubOK, SubType
  <1> QED
    BY <1>3, <1>4

(* A status change moves the slot and the number together as well. *)
LEMMA StatusChangedOK ==
  ASSUME NEW sub, SubOK(sub), NEW o
  PROVE  /\ SubOK(StatusChanged(sub, o))
         /\ StatusChanged(sub, o).in_use = sub.in_use
         /\ StatusChanged(sub, o).id = sub.id
         /\ StatusChanged(sub, o).seq = IF o = "unsent" THEN sub.seq ELSE AdvanceSeq(sub.seq)
  <1>1. sub \in SubType /\ AdvanceSeq(sub.seq) \in 0 .. MaxSeq
    BY AdvanceSeqFacts, PublishingAssumption DEF SubOK, SubType
  <1> QED
    BY <1>1, Zenon DEF StatusChanged, SubOK, SubType

(* The queue operations keep the type of the queue, and what is still parked  *)
(* afterwards was parked before, by the same Session.                         *)
LEMMA FreeReqFacts == FreeReq \in ReqType /\ ~FreeReq.in_use
  BY PublishingAssumption DEF FreeReq, ReqType

(* publish_request_dequeue. *)
LEMMA QueueFacts ==
  ASSUME NEW q \in [ReqSlot -> ReqType], NEW r \in ReqSlot
  PROVE  /\ Dequeue(q, r) \in [ReqSlot -> ReqType]
         /\ \A t \in ReqSlot : Dequeue(q, r)[t].in_use => t # r /\ Dequeue(q, r)[t] = q[t]
  BY FreeReqFacts DEF Dequeue

(* mu_publish_request_queue_clear. *)
LEMMA QueueClearFacts ==
  ASSUME NEW q \in [ReqSlot -> ReqType], NEW s
  PROVE  /\ QueueClear(q, s) \in [ReqSlot -> ReqType]
         /\ \A t \in ReqSlot : QueueClear(q, s)[t].in_use => QueueClear(q, s)[t] = q[t]
  BY FreeReqFacts DEF QueueClear

(* What is sent is a message. *)
LEMMA AnswerType ==
  ASSUME NEW kind \in {"data", "keepalive", "status", "fault", "reply", "garbled"}, NEW c \in Conn,
         NEW slot \in 0 .. NReqs, NEW id \in 0 .. MaxId, NEW seq \in 0 .. MaxSeq
  PROVE  Answer(kind, c, slot, id, seq) \in Message
  BY DEF Answer, Message

(* What mu_server_emit_message hands to the transport is a message. *)
LEMMA EmittedType ==
  ASSUME NEW m \in Message, NEW l, NEW o
  PROVE  Emitted(l, o, m) \subseteq Message
  BY DEF Emitted

(* A failed write changes only the state of its connection. *)
LEMMA LinkAfterType ==
  ASSUME NEW l \in [Conn -> {"idle", "open", "lost"}], NEW c, NEW o
  PROVE  LinkAfter(l, c, o) \in [Conn -> {"idle", "open", "lost"}]
  BY Zenon DEF LinkAfter

(* Slot numbers, and 0 for none, are in the ranges of a message's fields. *)
LEMMA SlotTypes ==
  /\ SubSlot \subseteq Nat \ {0} /\ ReqSlot \subseteq 0 .. NReqs
  /\ 0 \in 0 .. NReqs /\ 0 \in 0 .. MaxId /\ 0 \in 0 .. MaxSeq
  BY PublishingAssumption DEF SubSlot, ReqSlot

-----------------------------------------------------------------------------
(* No step but CreateSubscription gives a slot another id. *)
SameIds == \A i \in SubSlot : subs'[i].in_use => subs[i].in_use /\ subs'[i].id = subs[i].id

(* A step that creates no Subscription keeps ids unique. *)
LEMMA SameIdsUnique ==
  ASSUME UniqueIds, SameIds
  PROVE  UniqueIds'
  BY DEF UniqueIds, SameIds

(* The history of arrivals only names queue slots. *)
LEMMA EarlierType ==
  ASSUME NEW q, NEW r \in ReqSlot, earlier \subseteq ReqSlot \X ReqSlot
  PROVE  /\ EarlierIn(q) \subseteq ReqSlot \X ReqSlot
         /\ EarlierWith(q, r) \subseteq ReqSlot \X ReqSlot
  BY DEF EarlierIn, EarlierWith

(* The end of a cycle, whatever encoding and emitting left. *)
LEMMA AgeStep ==
  ASSUME IInv, NEW i \in SubSlot, cursor = i, subs[i].in_use,
         NEW sub, SubOK(sub), sub.in_use, sub.owner = subs[i].owner, sub.id = subs[i].id,
         NEW q \in [ReqSlot -> ReqType], \A t \in ReqSlot : q[t].in_use => q[t] = queue[t],
         NEW l \in [Conn -> {"idle", "open", "lost"}],
         NEW sent \in SUBSET Message,
         Age(i, sub, q, l, sent)
  PROVE  IInv'
  <1> USE SlotTypes
  <1>1. cursor' \in 0 .. NSubs
    BY PublishingAssumption, SMTT(30) DEF Age, AdvanceCursor, IInv, TypeOK, SubSlot
  <1>2. /\ subs \in [SubSlot -> SubType] /\ queue \in [ReqSlot -> ReqType]
        /\ \A j \in SubSlot : SubOK(subs[j])
        /\ home[sub.owner] \in Conn /\ sub.seq \in 0 .. MaxSeq /\ sub.id \in 0 .. MaxId
        /\ sub \in SubType
        /\ UNCHANGED <<state, home, nextId, now>> /\ earlier' = EarlierIn(queue')
    BY DEF Age, IInv, TypeOK, SubsOK, OwnersOK, SubOK, SubType
  <1>3. earlier' \subseteq ReqSlot \X ReqSlot
    BY <1>2 DEF IInv, TypeOK, EarlierIn
  <1>4. CASE /\ sub.lifetime + 1 < sub.lifetimeCount
             /\ subs' = [subs EXCEPT ![i] = [sub EXCEPT !.lifetime = @ + 1]]
             /\ queue' = q /\ link' = l /\ out' = sent
    <2>1. sub.lifetime + 1 \in 0 .. MaxCount
      BY <1>2, <1>4, PublishingAssumption DEF SubType
    <2> DEFINE older == [sub EXCEPT !.lifetime = sub.lifetime + 1]
    <2>2. SubOK(older) /\ older.in_use /\ older.id = sub.id /\ older.owner = sub.owner
      BY <1>2, <2>1 DEF SubOK, SubType
    <2>3. subs' = [subs EXCEPT ![i] = older]
      BY <1>2, <1>4 DEF SubType
    <2> HIDE DEF older
    <2>4. SubsOK' /\ SameIds /\ OwnersOK'
      BY <1>2, <1>4, <2>2, <2>3 DEF SubsOK, SubOK, SameIds, OwnersOK, IInv
    <2> QED
      BY <1>1, <1>2, <1>3, <1>4, <2>4, SameIdsUnique DEF IInv, TypeOK, SubsOK
  <1>5. CASE /\ subs' = [subs EXCEPT ![i] = FreeSub]
             /\ \/ NoneParked(q, sub.owner) /\ queue' = q /\ link' = l /\ out' = sent
                \/ \E r \in ReqSlot, o \in OutcomeOn(home[sub.owner]) :
                     /\ Oldest(q, sub.owner, r)
                     /\ queue' = Dequeue(q, r)
                     /\ link' = LinkAfter(l, home[sub.owner], o)
                     /\ out' = sent \cup
                          Emitted(l, o, Answer("status", home[sub.owner], r, sub.id, sub.seq))
    <2>1. /\ queue' \in [ReqSlot -> ReqType]
          /\ \A t \in ReqSlot : queue'[t].in_use => queue'[t] = queue[t]
          /\ link' \in [Conn -> {"idle", "open", "lost"}]
          /\ out' \subseteq Message
      <3>1. CASE queue' = q /\ link' = l /\ out' = sent
        BY <3>1
      <3>2. ASSUME NEW r \in ReqSlot, NEW o,
                   queue' = Dequeue(q, r), link' = LinkAfter(l, home[sub.owner], o),
                   out' = sent \cup
                     Emitted(l, o, Answer("status", home[sub.owner], r, sub.id, sub.seq))
            PROVE  <2>1
        <4>1. Answer("status", home[sub.owner], r, sub.id, sub.seq) \in Message
          BY <1>2, AnswerType
        <4>2. out' \subseteq Message
          BY <3>2, <4>1, EmittedType
        <4>3. link' \in [Conn -> {"idle", "open", "lost"}]
          BY <3>2, LinkAfterType
        <4> QED
          BY <3>2, <4>2, <4>3, QueueFacts
      <3> QED
        BY <1>5, <3>1, <3>2
    <2>2. ~FreeSub.in_use
      BY DEF FreeSub
    <2>3. SubsOK' /\ SameIds /\ OwnersOK'
      BY <1>2, <1>5, <2>1, <2>2, FreeSubOK DEF SubsOK, SubOK, SameIds, OwnersOK, IInv
    <2> QED
      BY <1>1, <1>2, <1>3, <2>1, <2>3, SameIdsUnique DEF IInv, TypeOK, SubsOK
  <1> QED
    BY <1>4, <1>5 DEF Age

(* A cycle of slot i, through each of the ways it can end. *)
LEMMA PublishSlotStep ==
  ASSUME IInv, NEW i \in SubSlot, PublishSlot(i)
  PROVE  IInv'
  <1> USE SlotTypes
  <1> DEFINE s == subs[i].owner
             c == home[s]
  <1>1. /\ cursor = i /\ subs[i].in_use /\ SubOK(subs[i])
        /\ s \in Session /\ c \in Conn /\ subs[i].id \in 0 .. MaxId /\ subs[i].seq \in 0 .. MaxSeq
        /\ queue \in [ReqSlot -> ReqType] /\ link \in [Conn -> {"idle", "open", "lost"}]
    BY Zenon DEF PublishSlot, PublishSilent, PublishTimedOut, PublishAnswer, PublishFailed, Due,
           IInv, TypeOK, SubsOK, SubOK, SubType, OwnersOK
  <1>2. /\ SubOK(KeepAliveCounted(subs[i])) /\ KeepAliveCounted(subs[i]).in_use
        /\ KeepAliveCounted(subs[i]).owner = s /\ KeepAliveCounted(subs[i]).id = subs[i].id
    BY <1>1, KeepAliveCountedOK
  <1>3. ASSUME NEW r \in ReqSlot, NEW o
        PROVE  /\ Dequeue(queue, r) \in [ReqSlot -> ReqType]
               /\ \A t \in ReqSlot : Dequeue(queue, r)[t].in_use => Dequeue(queue, r)[t] = queue[t]
               /\ LinkAfter(link, c, o) \in [Conn -> {"idle", "open", "lost"}]
               /\ Emitted(link, o, Answer("fault", c, r, 0, 0)) \in SUBSET Message
    <2>1. Answer("fault", c, r, 0, 0) \in Message
      BY <1>1, AnswerType
    <2> QED
      BY <1>1, <2>1, QueueFacts, LinkAfterType, EmittedType
  <1>4. CASE PublishSilent(i)
    BY <1>1, <1>2, <1>4, AgeStep DEF PublishSilent
  <1>5. CASE PublishTimedOut(i) \/ PublishFailed(i)
    <2>1. PICK r \in ReqSlot, o \in OutcomeOn(c) :
            Age(i, KeepAliveCounted(subs[i]), Dequeue(queue, r), LinkAfter(link, c, o),
                Emitted(link, o, Answer("fault", c, r, 0, 0)))
      BY <1>5 DEF PublishTimedOut, PublishFailed
    <2> QED
      BY <1>1, <1>2, <1>3, <2>1, AgeStep
  <1>6. CASE PublishAnswer(i)
    <2>1. PICK r \in ReqSlot, o \in {"sent", "lost"}, fits \in BOOLEAN, more \in BOOLEAN :
            Age(i, Reported(subs[i], fits, more), Dequeue(queue, r), LinkAfter(link, c, o),
                {Answer(IF HasData(subs[i]) THEN "data" ELSE "keepalive", c, r, subs[i].id, subs[i].seq)})
      BY <1>6, ZenonT(60) DEF PublishAnswer
    <2> DEFINE kind == IF HasData(subs[i]) THEN "data" ELSE "keepalive"
    <2>2. {Answer(kind, c, r, subs[i].id, subs[i].seq)} \in SUBSET Message
      <3>1. kind \in {"data", "keepalive", "status", "fault", "reply", "garbled"}
        OBVIOUS
      <3> HIDE DEF kind
      <3> QED
        BY <1>1, <3>1, AnswerType
    <2>3. /\ SubOK(Reported(subs[i], fits, more)) /\ Reported(subs[i], fits, more).in_use
          /\ Reported(subs[i], fits, more).owner = s /\ Reported(subs[i], fits, more).id = subs[i].id
      BY <1>1, ReportedOK
    <2> QED
      BY <1>1, <1>3, <2>1, <2>2, <2>3, AgeStep, SMTT(30)
  <1> QED
    BY <1>4, <1>5, <1>6 DEF PublishSlot

(* Connections and Sessions. *)
LEMMA LinkStep ==
  ASSUME IInv, NEW c \in Conn, Connect(c) \/ Disconnect(c)
  PROVE  IInv'
  <1>1. link' \in [Conn -> {"idle", "open", "lost"}]
    BY DEF Connect, Disconnect, IInv, TypeOK
  <1> QED
    BY <1>1 DEF Connect, Disconnect, IInv, TypeOK, SubsOK, OwnersOK, UniqueIds

(* CreateSession gives the Session its connection before anything refers to it. *)
LEMMA OpenSessionStep ==
  ASSUME IInv, NEW s \in Session, NEW c \in Conn, OpenSession(s, c)
  PROVE  IInv'
  <1>1. /\ state' \in [Session -> {"none", "active", "closed"}]
        /\ home' \in [Session -> Conn \cup {NoConn}]
    BY DEF OpenSession, IInv, TypeOK
  <1>2. OwnersOK'
    BY DEF OpenSession, IInv, TypeOK, OwnersOK, SubsOK, SubOK
  <1> QED
    BY <1>1, <1>2 DEF OpenSession, IInv, TypeOK, SubsOK, UniqueIds

(* Deleting the Subscriptions of the Sessions of T. *)
LEMMA DropSubsFacts ==
  ASSUME IInv, NEW T
  PROVE  /\ DropSubs(subs, T) \in [SubSlot -> SubType]
         /\ \A i \in SubSlot : SubOK(DropSubs(subs, T)[i])
         /\ \A i \in SubSlot : DropSubs(subs, T)[i].in_use => DropSubs(subs, T)[i] = subs[i]
  BY FreeSubOK, Zenon DEF DropSubs, IInv, TypeOK, SubsOK, SubOK, FreeSub

(* CloseSession. *)
LEMMA CloseSessionStep ==
  ASSUME IInv, NEW s \in Session, CloseSession(s)
  PROVE  IInv'
  <1>1. state' \in [Session -> {"none", "active", "closed"}]
    BY DEF CloseSession, IInv, TypeOK
  <1>2. SubsOK' /\ SameIds
    BY DropSubsFacts DEF CloseSession, SubsOK, SameIds
  <1>3. OwnersOK'
    BY DropSubsFacts DEF CloseSession, Caller, IInv, TypeOK, OwnersOK, SubsOK, SubOK
  <1> QED
    BY <1>1, <1>2, <1>3, SameIdsUnique, Zenon DEF CloseSession, IInv, TypeOK, SubsOK

(* The Session timeouts and the sampling at the start of the background work. *)
LEMMA BeginPublishStep ==
  ASSUME IInv, NEW T \in SUBSET Session, NEW sampled \in SUBSET SubSlot, BeginPublish(T, sampled)
  PROVE  IInv'
  <1>1. state' \in [Session -> {"none", "active", "closed"}]
    BY DEF BeginPublish, IInv, TypeOK
  <1>2. ASSUME NEW i \in SubSlot
        PROVE  /\ SubOK(subs'[i])
               /\ subs'[i].in_use => /\ subs[i].in_use /\ subs'[i].id = subs[i].id
                                     /\ subs'[i].owner = subs[i].owner
    <2> DEFINE sub == DropSubs(subs, T)[i]
    <2>1. SubOK(sub) /\ (sub.in_use => sub = subs[i])
      BY DropSubsFacts
    <2>2. subs'[i] = IF sub.in_use /\ i \in sampled THEN [sub EXCEPT !.pending = TRUE] ELSE sub
      BY DEF BeginPublish
    <2> HIDE DEF sub
    <2> QED
      BY <2>1, <2>2, ZenonT(60) DEF SubOK, SubType
  <1>3. SubsOK' /\ SameIds
    BY <1>2, Zenon DEF SubsOK, SameIds, SubOK, BeginPublish
  <1>4. OwnersOK'
    <2>1. ASSUME NEW s \in Session
          PROVE  state'[s] # "none" <=> state[s] # "none"
      BY DEF BeginPublish
    <2>2. ASSUME NEW i \in SubSlot, subs'[i].in_use
          PROVE  state'[subs'[i].owner] # "none"
      BY <1>2, <2>1, <2>2 DEF IInv, OwnersOK, SubsOK, SubOK
    <2>3. UNCHANGED <<queue, home>>
      BY DEF BeginPublish
    <2> QED
      BY <2>1, <2>2, <2>3 DEF IInv, OwnersOK
  <1>5. now' \in 0 .. MaxNow /\ cursor' \in 0 .. NSubs
    BY PublishingAssumption DEF BeginPublish
  <1> QED
    BY <1>1, <1>3, <1>4, <1>5, SameIdsUnique DEF BeginPublish, IInv, TypeOK, SubsOK

(* A step that writes one slot of the table with a well-formed Subscription of *)
(* the same id, or frees it.                                                   *)
LEMMA OneSlot ==
  ASSUME IInv, NEW i \in SubSlot, NEW sub, SubOK(sub),
         sub.in_use => subs[i].in_use /\ sub.id = subs[i].id,
         subs' = [subs EXCEPT ![i] = sub]
  PROVE  SubsOK' /\ SameIds
  BY DEF IInv, SubsOK, SubOK, SameIds

(* The Subscription services that touch only the table. *)
LEMMA CreateSubscriptionStep ==
  ASSUME IInv, NEW s \in Session, NEW req \in Requested, NEW b \in BOOLEAN,
         CreateSubscription(s, req, b)
  PROVE  IInv'
  <1>1. PICK i \in SubSlot, k \in 0 .. NSubs :
          LET id == NextIdAfter(nextId, k) IN
          /\ ~subs[i].in_use
          /\ ~IdInUse(id)
          /\ subs' = [subs EXCEPT ![i] =
                        ApplyParameters([FreeSub EXCEPT !.in_use = TRUE, !.id = id, !.owner = s,
                                                        !.enabled = b, !.seq = 1], req)]
          /\ nextId' = NextIdAfter(id, 1)
          /\ out' = {}
    BY Zenon DEF CreateSubscription
  <1> DEFINE id == NextIdAfter(nextId, k)
             fresh == [FreeSub EXCEPT !.in_use = TRUE, !.id = id, !.owner = s,
                                      !.enabled = b, !.seq = 1]
             new == ApplyParameters(fresh, req)
  <1>2. id \in 1 .. MaxId /\ nextId' \in 1 .. MaxId
    <2>1. k \in Nat /\ nextId \in 1 .. MaxId
      BY DEF IInv, TypeOK
    <2>2. id \in 1 .. MaxId
      BY <2>1, NextIdFacts
    <2> QED
      BY <1>1, <2>2, NextIdFacts
  <1>3. fresh \in SubType /\ fresh.in_use /\ fresh.owner = s /\ fresh.id = id /\ fresh.retransmit = 0
    <2>1. 1 \in 0 .. MaxSeq /\ id \in 0 .. MaxId /\ 0 \in 0 .. MaxCount /\ 0 \in 0 .. MaxSeq
      BY <1>2, PublishingAssumption
    <2> HIDE DEF id
    <2>2. FreeSub \in SubType /\ FreeSub.retransmit = 0
      BY FreeSubOK DEF SubOK, FreeSub
    <2> QED
      BY <2>1, <2>2, ZenonT(60) DEF SubType
  <1>4. SubOK(new) /\ new.in_use /\ new.id = id /\ new.owner = s
    <2> HIDE DEF fresh
    <2>1. fresh.id # 0
      BY <1>2, <1>3, PublishingAssumption
    <2> QED
      BY <1>3, <2>1, ApplyParametersOK
  <1>5. subs' = [subs EXCEPT ![i] = new]
    BY <1>1
  <1> HIDE DEF new, fresh
  <1>6. SubsOK'
    BY <1>4, <1>5 DEF IInv, SubsOK, SubOK
  <1>7. UniqueIds'
    <2>1. \A j \in SubSlot : subs[j].in_use => subs[j].id # id
      BY <1>1 DEF IdInUse
    <2>2. id # 0
      BY <1>2, PublishingAssumption
    <2> HIDE DEF id
    <2>3. subs \in [SubSlot -> SubType] /\ UniqueIds
      BY DEF IInv, SubsOK
    <2> QED
      BY <1>4, <1>5, <2>1, <2>2, <2>3 DEF UniqueIds
  <1>8. OwnersOK'
    BY <1>4, <1>5 DEF IInv, SubsOK, OwnersOK, CreateSubscription, Caller
  <1> QED
    BY <1>1, <1>2, <1>6, <1>7, <1>8 DEF CreateSubscription, IInv, TypeOK, SubsOK

(* ModifySubscription and the MonitoredItem services. *)
LEMMA ModifyStep ==
  ASSUME IInv, NEW s \in Session, NEW i \in SubSlot,
         (\E req \in Requested : ModifySubscription(s, i, req)) \/ ChangeItems(s, i)
  PROVE  IInv'
  <1>1. subs[i].in_use /\ SubOK(subs[i]) /\ subs \in [SubSlot -> SubType]
    BY DEF ModifySubscription, ChangeItems, Owns, IInv, SubsOK
  <1> DEFINE Written(sub) ==
               /\ SubOK(sub) /\ sub.in_use /\ sub.id = subs[i].id /\ sub.owner = subs[i].owner
               /\ subs' = [subs EXCEPT ![i] = sub]
  <1>2. PICK sub : Written(sub)
    <2>1. ASSUME NEW req \in Requested, ModifySubscription(s, i, req)
          PROVE  \E sub : Written(sub)
      BY <1>1, <2>1, ApplyParametersOK, Zenon DEF ModifySubscription, SubOK
    <2>2. CASE ChangeItems(s, i)
      <3> DEFINE sub == [subs[i] EXCEPT !.pending = ~subs[i].pending]
      <3>1. SubOK(sub) /\ sub.in_use /\ sub.id = subs[i].id /\ sub.owner = subs[i].owner
        BY <1>1, Zenon DEF SubOK, SubType
      <3>2. subs' = [subs EXCEPT ![i] = sub]
        BY <1>1, <2>2 DEF ChangeItems, SubType
      <3> QED
        BY <3>1, <3>2, Zenon
    <2> QED
      BY <2>1, <2>2
  <1>3. SubsOK' /\ SameIds
    BY <1>1, <1>2, OneSlot, Zenon
  <1>4. OwnersOK'
    BY <1>1, <1>2, Zenon DEF IInv, OwnersOK, ModifySubscription, ChangeItems
  <1> QED
    BY <1>3, <1>4, SameIdsUnique DEF ModifySubscription, ChangeItems, IInv, TypeOK, SubsOK

(* SetPublishingMode, with the parked requests it drops. *)
LEMMA SetPublishingModeStep ==
  ASSUME IInv, NEW s \in Session, NEW i \in SubSlot, NEW b \in BOOLEAN,
         SetPublishingMode(s, i, b)
  PROVE  IInv'
  <1>1. /\ subs[i].in_use /\ SubOK(subs[i]) /\ subs \in [SubSlot -> SubType]
        /\ queue \in [ReqSlot -> ReqType]
    BY DEF SetPublishingMode, Owns, IInv, SubsOK, TypeOK
  <1> DEFINE lt == IF b THEN 0 ELSE subs[i].lifetime
             sub == [subs[i] EXCEPT !.enabled = b, !.lifetime = lt]
  <1>2. lt \in 0 .. MaxCount
    BY <1>1, PublishingAssumption DEF SubOK, SubType
  <1>3. subs' = [subs EXCEPT ![i] = sub]
    BY <1>1, Zenon DEF SetPublishingMode, SubType
  <1> HIDE DEF lt
  <1>4. SubOK(sub) /\ sub.in_use /\ sub.id = subs[i].id /\ sub.owner = subs[i].owner
    BY <1>1, <1>2, Zenon DEF SubOK, SubType
  <1> HIDE DEF sub
  <1>5. SubsOK' /\ SameIds
    BY <1>1, <1>3, <1>4, OneSlot, Zenon
  <1>6. /\ queue' \in [ReqSlot -> ReqType]
        /\ \A t \in ReqSlot : queue'[t].in_use => queue'[t] = queue[t]
    <2>1. /\ QueueClear(queue, s) \in [ReqSlot -> ReqType]
          /\ \A t \in ReqSlot : QueueClear(queue, s)[t].in_use => QueueClear(queue, s)[t] = queue[t]
      BY <1>1, QueueClearFacts
    <2> QED
      BY <1>1, <2>1 DEF SetPublishingMode
  <1>7. OwnersOK'
    BY <1>1, <1>3, <1>4, <1>6 DEF IInv, OwnersOK, SetPublishingMode
  <1>8. earlier' \subseteq ReqSlot \X ReqSlot
    BY DEF SetPublishingMode, EarlierIn, IInv, TypeOK
  <1> QED
    BY <1>5, <1>6, <1>7, <1>8, SameIdsUnique DEF SetPublishingMode, IInv, TypeOK, SubsOK

(* The status change and the reply of DeleteSubscriptions and TransferSubscriptions. *)
LEMMA StatusAndReplyType ==
  ASSUME IInv, NEW i \in SubSlot, NEW r \in ReqSlot, NEW c \in Conn, NEW o, NEW seq \in 0 .. MaxSeq
  PROVE  StatusAndReply(i, r, c, o, seq) \subseteq Message
  <1> USE SlotTypes
  <1>1. subs[i].id \in 0 .. MaxId /\ subs[i].seq \in 0 .. MaxSeq
    BY DEF IInv, SubsOK, SubType
  <1>2. Emitted(link, o, Answer("status", c, r, subs[i].id, subs[i].seq)) \subseteq Message
    <2>1. Answer("status", c, r, subs[i].id, subs[i].seq) \in Message
      BY <1>1, AnswerType
    <2> QED
      BY <2>1, EmittedType
  <1>3. /\ Answer("garbled", c, 0, subs[i].id, seq) \in Message
        /\ Answer("reply", c, 0, subs[i].id, seq) \in Message
    BY <1>1, AnswerType
  <1> QED
    BY <1>2, <1>3 DEF StatusAndReply

(* DeleteSubscriptions. *)
LEMMA DeleteSubscriptionStep ==
  ASSUME IInv, NEW s \in Session, NEW i \in SubSlot, DeleteSubscription(s, i)
  PROVE  IInv'
  <1> USE SlotTypes
  <1>1. /\ home[s] \in Conn /\ queue \in [ReqSlot -> ReqType]
        /\ link \in [Conn -> {"idle", "open", "lost"}]
    BY DEF DeleteSubscription, Caller, IInv, OwnersOK, TypeOK
  <1>2. SubsOK' /\ SameIds
    BY FreeSubOK, OneSlot, Zenon DEF DeleteSubscription, FreeSub
  <1>3. /\ queue' \in [ReqSlot -> ReqType]
        /\ \A t \in ReqSlot : queue'[t].in_use => queue'[t] = queue[t]
        /\ link' \in [Conn -> {"idle", "open", "lost"}]
        /\ out' \subseteq Message
    <2>1. CASE out' = {} /\ UNCHANGED <<queue, link>>
      BY <1>1, <2>1
    <2>2. ASSUME NEW r \in ReqSlot, NEW o,
                 queue' = IF OwnsNone(subs', s) THEN QueueClear(queue, s) ELSE Dequeue(queue, r),
                 link' = LinkAfter(link, home[s], o),
                 out' = StatusAndReply(i, r, home[s], o, 0)
          PROVE  <1>3
      <3>1. out' \subseteq Message
        BY <1>1, <2>2, StatusAndReplyType
      <3>2. link' \in [Conn -> {"idle", "open", "lost"}]
        BY <1>1, <2>2, LinkAfterType
      <3> QED
        BY <1>1, <2>2, <3>1, <3>2, QueueFacts, QueueClearFacts
    <2> QED
      BY <2>1, <2>2, Zenon DEF DeleteSubscription
  <1>4. OwnersOK'
    <2>1. \A j \in SubSlot : subs'[j].in_use => subs'[j] = subs[j]
      BY DEF DeleteSubscription, FreeSub, IInv, SubsOK
    <2> QED
      BY <1>3, <2>1 DEF IInv, OwnersOK, DeleteSubscription, SameIds
  <1>5. earlier' \subseteq ReqSlot \X ReqSlot
    BY DEF DeleteSubscription, EarlierIn, IInv, TypeOK
  <1> QED
    BY <1>2, <1>3, <1>4, <1>5, SameIdsUnique, SMTT(30) DEF DeleteSubscription, IInv, TypeOK, SubsOK

(* TransferSubscriptions. *)
LEMMA TransferStep ==
  ASSUME IInv, NEW s \in Session, NEW i \in SubSlot, Transfer(s, i)
  PROVE  IInv'
  <1> USE SlotTypes
  <1> DEFINE old == subs[i].owner
  <1>1. /\ home[s] \in Conn /\ state[s] # "none" /\ queue \in [ReqSlot -> ReqType]
        /\ link \in [Conn -> {"idle", "open", "lost"}] /\ subs \in [SubSlot -> SubType]
        /\ subs[i].in_use /\ SubOK(subs[i])
        /\ subs[i].id \in 0 .. MaxId /\ subs[i].retransmit \in 0 .. MaxSeq
    BY DEF Transfer, MayTransfer, Caller, IInv, OwnersOK, TypeOK, SubsOK, SubType
  <1>2. ASSUME NEW sub, SubOK(sub), sub.in_use, sub.id = subs[i].id
        PROVE  LET new == [sub EXCEPT !.owner = s]
               IN SubOK(new) /\ new.in_use /\ new.id = subs[i].id /\ new.owner = s
    BY <1>2 DEF SubOK, SubType
  <1>3. CASE /\ subs' = [subs EXCEPT ![i].owner = s]
             /\ out' = {Reply(home[s], subs[i].id, subs[i].retransmit)}
             /\ UNCHANGED <<queue, link>>
    <2> DEFINE new == [subs[i] EXCEPT !.owner = s]
    <2>1. SubOK(new) /\ new.in_use /\ new.id = subs[i].id /\ new.owner = s
      BY <1>1, <1>2
    <2>2. subs' = [subs EXCEPT ![i] = new]
      BY <1>1, <1>3
    <2> HIDE DEF new
    <2>3. SubsOK' /\ SameIds
      BY <1>1, <2>1, <2>2, OneSlot, Zenon
    <2>4. OwnersOK'
      BY <1>1, <1>3, <2>1, <2>2 DEF IInv, OwnersOK, Transfer
    <2>5. out' \subseteq Message
      BY <1>1, <1>3, AnswerType DEF Reply
    <2>6. earlier' \subseteq ReqSlot \X ReqSlot
      BY DEF Transfer, EarlierIn, IInv, TypeOK
    <2> QED
      BY <1>1, <1>3, <2>3, <2>4, <2>5, <2>6, SameIdsUnique DEF Transfer, IInv, TypeOK, SubsOK
  <1>4. ASSUME NEW r \in ReqSlot, NEW o,
               subs' = [subs EXCEPT ![i] = [StatusChanged(@, o) EXCEPT !.owner = s]],
               queue' = IF OwnsNone(subs', old) THEN QueueClear(Dequeue(queue, r), old)
                                                ELSE Dequeue(queue, r),
               link' = LinkAfter(link, home[s], o),
               out' = StatusAndReply(i, r, home[s], o, subs[i].retransmit)
        PROVE  IInv'
    <2> DEFINE new == [StatusChanged(subs[i], o) EXCEPT !.owner = s]
    <2>1. SubOK(new) /\ new.in_use /\ new.id = subs[i].id /\ new.owner = s
      <3>1. /\ SubOK(StatusChanged(subs[i], o)) /\ StatusChanged(subs[i], o).in_use
            /\ StatusChanged(subs[i], o).id = subs[i].id
        BY <1>1, StatusChangedOK
      <3> QED
        BY <3>1, <1>2
    <2>2. subs' = [subs EXCEPT ![i] = new]
      BY <1>1, <1>4
    <2> HIDE DEF new
    <2>3. SubsOK' /\ SameIds
      BY <1>1, <2>1, <2>2, OneSlot, Zenon
    <2>4. /\ queue' \in [ReqSlot -> ReqType]
          /\ \A t \in ReqSlot : queue'[t].in_use => queue'[t] = queue[t]
      <3>1. /\ Dequeue(queue, r) \in [ReqSlot -> ReqType]
            /\ \A t \in ReqSlot : Dequeue(queue, r)[t].in_use => Dequeue(queue, r)[t] = queue[t]
        BY <1>1, QueueFacts
      <3> QED
        BY <1>4, <3>1, QueueClearFacts
    <2>5. OwnersOK'
      BY <1>1, <2>1, <2>2, <2>4 DEF IInv, OwnersOK, Transfer
    <2>6. out' \subseteq Message
      BY <1>1, <1>4, StatusAndReplyType
    <2>7. earlier' \subseteq ReqSlot \X ReqSlot
      BY DEF Transfer, EarlierIn, IInv, TypeOK
    <2>8. link' \in [Conn -> {"idle", "open", "lost"}]
      BY <1>1, <1>4, LinkAfterType
    <2> QED
      BY <2>3, <2>4, <2>5, <2>6, <2>7, <2>8, SameIdsUnique DEF Transfer, IInv, TypeOK, SubsOK
  <1> QED
    BY <1>3, <1>4 DEF Transfer

(* Publish: parked, parked in place of an evicted request, or refused. *)
LEMMA PublishStep ==
  ASSUME IInv, NEW s \in Session, NEW ack \in SUBSET SubSlot,
         Publish(s, ack) \/ PublishEvicting(s, ack) \/ PublishRefused(s, ack)
  PROVE  IInv'
  <1> USE SlotTypes
  <1>1. /\ home[s] \in Conn /\ queue \in [ReqSlot -> ReqType] /\ now \in 0 .. MaxNow
        /\ link \in [Conn -> {"idle", "open", "lost"}] /\ subs \in [SubSlot -> SubType]
    BY DEF Publish, PublishEvicting, PublishRefused, Caller, IInv, OwnersOK, TypeOK
  <1>2. ASSUME NEW j \in SubSlot
        PROVE  /\ SubOK(subs'[j]) /\ subs'[j].in_use = subs[j].in_use
               /\ subs'[j].id = subs[j].id /\ subs'[j].owner = subs[j].owner
    <2>1. SubOK(subs[j])
      BY DEF IInv, SubsOK
    <2>2. subs'[j] = IF j \in ack THEN [subs[j] EXCEPT !.retransmit = 0] ELSE subs[j]
      BY DEF Publish, PublishEvicting, PublishRefused, Acknowledge
    <2> QED
      BY <2>1, <2>2 DEF SubOK, SubType
  <1>3. SubsOK' /\ SameIds
    <2>1. subs' \in [SubSlot -> SubType]
      BY <1>2 DEF Publish, PublishEvicting, PublishRefused, Acknowledge, SubOK
    <2> QED
      BY <1>2, <2>1 DEF SubsOK, SameIds
  <1>4. /\ queue' \in [ReqSlot -> ReqType]
        /\ \A t \in ReqSlot : queue'[t].in_use => queue'[t] = queue[t] \/ queue'[t].owner = s
        /\ earlier' \subseteq ReqSlot \X ReqSlot
        /\ link' \in [Conn -> {"idle", "open", "lost"}]
        /\ out' \subseteq Message
    <2>1. Request(s) \in ReqType /\ Request(s).owner = s
      BY <1>1 DEF Request, ReqType
    <2>2. CASE Publish(s, ack)
      <3>1. PICK r \in ReqSlot : queue' = [queue EXCEPT ![r] = Request(s)] /\ earlier' = EarlierWith(queue, r)
        BY <2>2, ZenonT(60) DEF Publish
      <3>2. link' = link /\ out' = {}
        BY <2>2 DEF Publish
      <3> QED
        BY <1>1, <2>1, <3>1, <3>2, EarlierType, SMTT(30) DEF IInv, TypeOK
    <2>3. CASE PublishEvicting(s, ack)
      <3>1. PICK r \in ReqSlot, o \in OutcomeOn(home[s]) :
              /\ queue' = [queue EXCEPT ![r] = Request(s)]
              /\ earlier' = EarlierWith(queue, r)
              /\ link' = LinkAfter(link, home[s], o)
              /\ out' = Emitted(link, o, Answer("fault", home[s], r, 0, 0))
        BY <2>3, ZenonT(60) DEF PublishEvicting
      <3>2. Answer("fault", home[s], r, 0, 0) \in Message
        BY <1>1, AnswerType
      <3>3. out' \subseteq Message
        BY <3>1, <3>2, EmittedType
      <3>4. link' \in [Conn -> {"idle", "open", "lost"}]
        BY <1>1, <3>1, LinkAfterType
      <3> QED
        BY <1>1, <2>1, <3>1, <3>3, <3>4, EarlierType DEF IInv, TypeOK
    <2>4. CASE PublishRefused(s, ack)
      BY <1>1, <2>4, SMTT(30) DEF PublishRefused, IInv, TypeOK
    <2> QED
      BY <2>2, <2>3, <2>4
  <1>5. UNCHANGED <<state, home, nextId, now, cursor>>
    BY DEF Publish, PublishEvicting, PublishRefused
  <1>6. OwnersOK'
    BY <1>2, <1>4, <1>5, SMTT(30) DEF IInv, OwnersOK
  <1> QED
    BY <1>3, <1>4, <1>5, <1>6, SameIdsUnique, SMTT(30) DEF IInv, TypeOK, SubsOK

-----------------------------------------------------------------------------
(* The inductive invariant holds in the initial states. *)
LEMMA InitIInv == Init => IInv
  <1> SUFFICES ASSUME Init PROVE IInv
    OBVIOUS
  <1>1. SubsOK
    BY FreeSubOK DEF Init, SubsOK, SubOK
  <1>2. \A i \in SubSlot : ~subs[i].in_use
    BY DEF Init, FreeSub
  <1>3. queue \in [ReqSlot -> ReqType] /\ \A r \in ReqSlot : ~queue[r].in_use
    BY FreeReqFacts DEF Init
  <1> QED
    BY <1>1, <1>2, <1>3, PublishingAssumption DEF Init, IInv, TypeOK, SubsOK, OwnersOK, UniqueIds

(* Every step preserves it. *)
LEMMA NextIInv == IInv /\ [Next]_vars => IInv'
  <1> SUFFICES ASSUME IInv, [Next]_vars PROVE IInv'
    BY SMTT(30)
  <1>1. CASE UNCHANGED vars
    BY <1>1, SMTT(30) DEF vars, IInv, TypeOK, SubsOK, OwnersOK, UniqueIds
  <1>2. CASE SkipSlot
    BY <1>2, PublishingAssumption
       DEF SkipSlot, AdvanceCursor, SubSlot, IInv, TypeOK, SubsOK, OwnersOK, UniqueIds
  <1>3. CASE \E s \in Session, i \in SubSlot, req \in Requested : ModifySubscription(s, i, req)
    BY <1>3, ModifyStep
  <1>4. CASE \E s \in Session, i \in SubSlot : ChangeItems(s, i)
    BY <1>4, ModifyStep
  <1> QED
    BY <1>1, <1>2, <1>3, <1>4, LinkStep, OpenSessionStep, CloseSessionStep, CreateSubscriptionStep,
       SetPublishingModeStep, DeleteSubscriptionStep, TransferStep, PublishStep, BeginPublishStep,
       PublishSlotStep DEF Next

-----------------------------------------------------------------------------
(* The inductive invariant is an invariant. *)
THEOREM Invariance == Spec => []IInv
  BY InitIInv, NextIInv, PTL DEF Spec

(* Type correctness; in particular the counters of publish_due never leave *)
(* their width.                                                            *)
THEOREM TypeCorrect == Spec => []TypeOK
  <1>1. IInv => TypeOK
    BY DEF IInv
  <1> QED
    BY <1>1, Invariance, PTL

(* allocate_subscription_id never gives out an id that is in use. *)
THEOREM IdsUnique == Spec => []UniqueIds
  <1>1. IInv => UniqueIds
    BY DEF IInv
  <1> QED
    BY <1>1, Invariance, PTL

(* Republish finds the notification numbered last, or nothing. *)
THEOREM RetransmitLast == Spec => []RetransmitIsLast
  <1>1. IInv => RetransmitIsLast
    BY DEF IInv, SubsOK, SubOK, RetransmitIsLast
  <1> QED
    BY <1>1, Invariance, PTL

-----------------------------------------------------------------------------
(* Which messages a step sends *)

(* The messages of kinds that report notifications or keep-alives. *)
Reports(M) == {m \in M : m.kind \in {"data", "keepalive"}}

(* A fault or a status change is not a report. *)
LEMMA EmittedNoReport ==
  ASSUME NEW l, NEW o, NEW kind \in {"fault", "status", "reply", "garbled"},
         NEW c, NEW slot, NEW id, NEW seq
  PROVE  Reports(Emitted(l, o, Answer(kind, c, slot, id, seq))) = {}
  BY DEF Reports, Emitted, Answer

(* The lifetime check sends no report of its own. *)
LEMMA AgeReports ==
  ASSUME NEW i, NEW sub, NEW q, NEW l, NEW sent, Age(i, sub, q, l, sent)
  PROVE  Reports(out') = Reports(sent)
  <1>1. CASE out' = sent
    BY <1>1
  <1>2. ASSUME NEW r \in ReqSlot, NEW o,
               out' = sent \cup Emitted(l, o, Answer("status", home[sub.owner], r, sub.id, sub.seq))
        PROVE  Reports(out') = Reports(sent)
    <2>1. Reports(Emitted(l, o, Answer("status", home[sub.owner], r, sub.id, sub.seq))) = {}
      BY EmittedNoReport, SMTT(30)
    <2> QED
      BY <1>2, <2>1 DEF Reports
  <1> QED
    BY <1>1, <1>2 DEF Age

(* Only PublishAnswer reports. *)
LEMMA OnlyAnswerReports ==
  ASSUME Next, ~\E i \in SubSlot : PublishAnswer(i)
  PROVE  Reports(out') = {}
  <1>1. Reports({}) = {}
    BY DEF Reports
  <1>2. ASSUME NEW i \in SubSlot, PublishSilent(i) \/ PublishTimedOut(i) \/ PublishFailed(i)
        PROVE  Reports(out') = {}
    <2>1. CASE PublishSilent(i)
      BY <1>1, <2>1, AgeReports, SMTT(30) DEF PublishSilent
    <2>2. CASE PublishTimedOut(i) \/ PublishFailed(i)
      <3>1. PICK r \in ReqSlot, o \in OutcomeOn(home[subs[i].owner]) :
              Age(i, KeepAliveCounted(subs[i]), Dequeue(queue, r),
                  LinkAfter(link, home[subs[i].owner], o),
                  Emitted(link, o, Answer("fault", home[subs[i].owner], r, 0, 0)))
        BY <2>2, ZenonT(60) DEF PublishTimedOut, PublishFailed
      <3>2. Reports(Emitted(link, o, Answer("fault", home[subs[i].owner], r, 0, 0))) = {}
        BY EmittedNoReport
      <3> QED
        BY <3>1, <3>2, AgeReports, SMTT(30)
    <2> QED
      BY <1>2, <2>1, <2>2
  <1>3. ASSUME NEW i, NEW r, NEW c, NEW o, NEW seq, out' = StatusAndReply(i, r, c, o, seq)
        PROVE  Reports(out') = {}
    <2>1. Reports(Emitted(link, o, Answer("status", c, r, subs[i].id, subs[i].seq))) = {}
      BY EmittedNoReport
    <2> QED
      BY <1>3, <2>1 DEF StatusAndReply, Reports, Answer
  <1>4. ASSUME NEW s \in Session, NEW i \in SubSlot, DeleteSubscription(s, i) \/ Transfer(s, i)
        PROVE  Reports(out') = {}
    BY <1>1, <1>3, <1>4 DEF DeleteSubscription, Transfer, Reports, Reply, Answer
  <1>5. ASSUME NEW s \in Session, NEW ack, PublishEvicting(s, ack)
        PROVE  Reports(out') = {}
    BY <1>5, EmittedNoReport DEF PublishEvicting
  <1>6. CASE out' = {}
    BY <1>1, <1>6
  <1> QED
    BY <1>2, <1>4, <1>5, <1>6, Zenon
       DEF Next, PublishSlot, Connect, Disconnect, OpenSession, CloseSession, CreateSubscription,
           ModifySubscription, SetPublishingMode, ChangeItems, Publish, PublishRefused,
           BeginPublish, SkipSlot

(* A Subscription that answers in a cycle is not expired in it: the lifetime *)
(* counter was reset, and the revised lifetime count is at least 3.          *)
THEOREM ServedSurvive == Spec => ServedSurvives
  <1> DEFINE A == \A i \in SubSlot, m \in out' :
                    subs[i].in_use /\ m.kind \in {"data", "keepalive"} /\ m.sub = subs[i].id
                      => subs'[i].in_use
  <1>1. IInv /\ [Next]_vars => [A]_vars
    <2> SUFFICES ASSUME IInv, Next,
                        NEW j \in SubSlot, NEW m \in out', subs[j].in_use,
                        m.kind \in {"data", "keepalive"}, m.sub = subs[j].id
                 PROVE  subs'[j].in_use
      OBVIOUS
    <2>1. PICK i \in SubSlot : PublishAnswer(i)
      BY OnlyAnswerReports, SMTT(30) DEF Reports
    <2>2. PICK r \in ReqSlot, o \in {"sent", "lost"}, fits \in BOOLEAN, more \in BOOLEAN :
            Age(i, Reported(subs[i], fits, more), Dequeue(queue, r),
                LinkAfter(link, home[subs[i].owner], o),
                {Answer(IF HasData(subs[i]) THEN "data" ELSE "keepalive",
                        home[subs[i].owner], r, subs[i].id, subs[i].seq)})
      BY <2>1, ZenonT(60) DEF PublishAnswer
    <2>3. m.sub = subs[i].id
      <3> DEFINE answer == Answer(IF HasData(subs[i]) THEN "data" ELSE "keepalive",
                                  home[subs[i].owner], r, subs[i].id, subs[i].seq)
      <3>1. answer.sub = subs[i].id
        BY SMTT(30) DEF Answer
      <3>2. Reports(out') = Reports({answer})
        BY <2>2, AgeReports
      <3> HIDE DEF answer
      <3>3. m \in Reports({answer})
        BY <3>2, SMTT(30) DEF Reports
      <3> QED
        BY <3>1, <3>3 DEF Reports
    <2>4. subs[i].in_use /\ SubOK(subs[i]) /\ subs \in [SubSlot -> SubType]
      BY <2>1 DEF PublishAnswer, Due, IInv, SubsOK
    <2>5. i = j
      BY <2>3, <2>4, ZenonT(60) DEF IInv, UniqueIds
    <2> DEFINE sub == Reported(subs[i], fits, more)
    <2>6. /\ sub.lifetime = 0 /\ sub.lifetimeCount \in Int /\ sub.lifetimeCount >= 3
          /\ sub \in SubType /\ sub.in_use
      BY <2>4, ReportedOK, PublishingAssumption DEF SubOK, SubType
    <2> HIDE DEF sub
    <2>7. subs' = [subs EXCEPT ![i] = [sub EXCEPT !.lifetime = @ + 1]]
      BY <2>2, <2>6 DEF Age, sub
    <2> QED
      BY <2>4, <2>5, <2>6, <2>7 DEF SubType
  <1> QED
    BY <1>1, Invariance, PTL DEF Spec, ServedSurvives

-----------------------------------------------------------------------------
(* Who is answered *)

(* What AnsweredInTurn says of one message. *)
InTurn(m) ==
  /\ cursor # 0 => queue[m.slot].in_use /\ home[queue[m.slot].owner] = m.conn
  /\ \A r \in ReqSlot :
       m.slot # 0 /\ queue'[r] = queue[r] /\ Parked(queue, queue[m.slot].owner, r) /\ r # m.slot
         => queue[r].stamp >= queue[m.slot].stamp

(* The answer to the oldest request of a Session, on the Session's connection *)
(* in the publishing cycle, is in turn.                                       *)
LEMMA OldestInTurn ==
  ASSUME IInv, NEW s \in Session, NEW r \in ReqSlot, Oldest(queue, s, r), NEW m,
         m.slot = r, cursor # 0 => m.conn = home[s]
  PROVE  InTurn(m)
  <1>1. queue[r].in_use /\ queue[r].owner = s
    BY DEF Oldest, Parked
  <1>2. ASSUME NEW t \in ReqSlot, Parked(queue, s, t)
        PROVE  queue[t].stamp >= queue[r].stamp
    <2>1. queue[t].stamp \in Int /\ queue[r].stamp \in Int
      BY PublishingAssumption DEF IInv, TypeOK, ReqType
    <2> QED
      BY <1>2, <2>1 DEF Oldest
  <1> QED
    BY <1>1, <1>2 DEF InTurn

(* Emitting sends the message or nothing. *)
LEMMA EmittedIs ==
  ASSUME NEW l, NEW o, NEW m, NEW e \in Emitted(l, o, m)
  PROVE  e = m
  BY DEF Emitted

(* The fields of an answer. *)
LEMMA AnswerFields ==
  ASSUME NEW kind, NEW c, NEW slot, NEW id, NEW seq
  PROVE  /\ Answer(kind, c, slot, id, seq).kind = kind /\ Answer(kind, c, slot, id, seq).conn = c
         /\ Answer(kind, c, slot, id, seq).slot = slot /\ Answer(kind, c, slot, id, seq).sub = id
         /\ Answer(kind, c, slot, id, seq).seq = seq
  BY DEF Answer

(* The lifetime check answers the oldest request that is left. *)
LEMMA AgeInTurn ==
  ASSUME IInv, NEW i \in SubSlot, subs[i].in_use, NEW sub, sub.owner = subs[i].owner,
         NEW q, NEW l, NEW sent, Age(i, sub, q, l, sent),
         \/ q = queue
         \/ \E r \in ReqSlot : queue[r].in_use /\ q = Dequeue(queue, r),
         \A m \in sent : InTurn(m)
  PROVE  \A m \in out' : InTurn(m)
  <1> DEFINE s == subs[i].owner
  <1>1. s \in Session /\ queue \in [ReqSlot -> ReqType]
    BY DEF IInv, TypeOK, SubsOK, SubOK
  <1>2. CASE out' = sent
    BY <1>2, Zenon
  <1>3. ASSUME NEW t \in ReqSlot, NEW o, Oldest(q, s, t), queue' = Dequeue(q, t),
               out' = sent \cup Emitted(l, o, Answer("status", home[s], t, sub.id, sub.seq)),
               NEW m \in out'
        PROVE  InTurn(m)
    <2>1. CASE m \in sent
      BY <2>1
    <2>2. CASE m \in Emitted(l, o, Answer("status", home[s], t, sub.id, sub.seq))
      <3>1. m.slot = t /\ m.conn = home[s]
        BY <2>2, EmittedIs, AnswerFields
      <3>2. CASE q = queue
        BY <1>1, <1>3, <3>1, <3>2, OldestInTurn, Zenon
      <3>3. ASSUME NEW r \in ReqSlot, queue[r].in_use, q = Dequeue(queue, r)
            PROVE  InTurn(m)
        <4>1. /\ q[r] = FreeReq /\ ~q[r].in_use
              /\ \A x \in ReqSlot \ {r} : q[x] = queue[x]
          BY <1>1, <3>3, FreeReqFacts DEF Dequeue
        <4>2. q \in [ReqSlot -> ReqType]
          BY <1>1, <3>3, QueueFacts, Zenon
        <4>3. q[t].in_use /\ q[t].owner = s
          BY <1>3, Zenon DEF Oldest, Parked
        <4>4. t # r /\ queue[t] = q[t]
          BY <4>1, <4>3, Zenon
        <4>5. queue'[r] # queue[r]
          BY <1>3, <3>3, <4>1, <4>2, <4>4, Zenon DEF Dequeue
        <4>6. ASSUME NEW x \in ReqSlot \ {r}, Parked(queue, s, x)
              PROVE  queue[x].stamp >= queue[t].stamp
          <5>1. Parked(q, s, x)
            BY <4>1, <4>6 DEF Parked
          <5>2. q[x].stamp \in Int /\ q[t].stamp \in Int
            BY <4>2, PublishingAssumption DEF ReqType
          <5>3. q[t].stamp < q[x].stamp \/ q[t].stamp = q[x].stamp
            BY <1>3, <5>1 DEF Oldest
          <5>4. q[x].stamp >= q[t].stamp
            BY <5>2, <5>3
          <5> QED
            BY <4>1, <4>4, <5>4
        <4> QED
          BY <3>1, <4>3, <4>4, <4>5, <4>6 DEF InTurn
      <3> QED
        BY <3>2, <3>3, Zenon
    <2> QED
      BY <1>3, <2>1, <2>2
  <1> QED
    BY <1>2, <1>3 DEF Age


(* A slot of the publishing cycle: the fault, the keep-alive or the data go to *)
(* the owner's oldest request, then the lifetime check to the next.            *)
LEMMA SlotInTurn ==
  ASSUME IInv, NEW i \in SubSlot, PublishSlot(i)
  PROVE  \A m \in out' : InTurn(m)
  <1> DEFINE s == subs[i].owner
  <1>1. subs[i].in_use
    BY Zenon DEF PublishSlot, PublishSilent, PublishTimedOut, PublishAnswer, PublishFailed, Due
  <1>2. subs[i] \in SubType /\ s \in Session
    BY <1>1 DEF IInv, TypeOK, SubsOK, SubOK
  <1>3. KeepAliveCounted(subs[i]).owner = s
    BY <1>2 DEF KeepAliveCounted, SubType
  <1>4. \A fits, more \in BOOLEAN : Reported(subs[i], fits, more).owner = s
    BY <1>2 DEF Reported, SubType
  <1>5. ASSUME NEW r \in ReqSlot, Oldest(queue, s, r), NEW o
        PROVE  /\ queue[r].in_use
               /\ \A m \in Emitted(link, o, Answer("fault", home[s], r, 0, 0)) : InTurn(m)
    <2>1. queue[r].in_use
      BY <1>5 DEF Oldest, Parked
    <2>2. ASSUME NEW m \in Emitted(link, o, Answer("fault", home[s], r, 0, 0))
          PROVE  InTurn(m)
      <3>1. m.slot = r /\ m.conn = home[s]
        BY <2>2, EmittedIs, AnswerFields
      <3> QED
        BY <1>2, <1>5, <3>1, OldestInTurn
    <2> QED
      BY <2>1, <2>2
  <1> HIDE DEF s
  <1>6. CASE PublishSilent(i)
    <2>1. Age(i, KeepAliveCounted(subs[i]), queue, link, {})
      BY <1>6, Zenon DEF PublishSilent
    <2> QED
      BY <1>1, <1>3, <2>1, AgeInTurn DEF s
  <1>7. CASE PublishTimedOut(i) \/ PublishFailed(i)
    <2>1. PICK r \in ReqSlot, o \in OutcomeOn(home[s]) :
            /\ Oldest(queue, s, r)
            /\ Age(i, KeepAliveCounted(subs[i]), Dequeue(queue, r), LinkAfter(link, home[s], o),
                   Emitted(link, o, Answer("fault", home[s], r, 0, 0)))
      BY <1>7, ZenonT(60) DEF PublishTimedOut, PublishFailed, s
    <2>2. /\ queue[r].in_use
          /\ \A m \in Emitted(link, o, Answer("fault", home[s], r, 0, 0)) : InTurn(m)
      BY <1>5, <2>1, Zenon
    <2> QED
      BY <1>1, <1>3, <2>1, <2>2, AgeInTurn, Zenon DEF s
  <1>8. CASE PublishAnswer(i)
    <2> DEFINE kind == IF HasData(subs[i]) THEN "data" ELSE "keepalive"
    <2>1. PICK r \in ReqSlot, o \in {"sent", "lost"}, fits \in BOOLEAN, more \in BOOLEAN :
            /\ Oldest(queue, s, r)
            /\ Age(i, Reported(subs[i], fits, more), Dequeue(queue, r), LinkAfter(link, home[s], o),
                   {Answer(kind, home[s], r, subs[i].id, subs[i].seq)})
      BY <1>8, ZenonT(60) DEF PublishAnswer, s
    <2> HIDE DEF kind
    <2>2. queue[r].in_use
      BY <1>5, <2>1
    <2>3. InTurn(Answer(kind, home[s], r, subs[i].id, subs[i].seq))
      <3> DEFINE answer == Answer(kind, home[s], r, subs[i].id, subs[i].seq)
      <3>1. answer.slot = r /\ answer.conn = home[s]
        BY AnswerFields
      <3> HIDE DEF answer
      <3>2. InTurn(answer)
        BY <1>2, <2>1, <3>1, OldestInTurn, Zenon
      <3> QED
        BY <3>2 DEF answer
    <2> QED
      BY <1>1, <1>4, <2>1, <2>2, <2>3, AgeInTurn, ZenonT(60) DEF s
  <1> QED
    BY <1>6, <1>7, <1>8, Zenon DEF PublishSlot

(* Requests are answered in the order they came, on the connection of the    *)
(* Session that parked them: every dequeue takes the Session's oldest, and   *)
(* the second answer of a cycle the oldest of what the first one left.       *)
THEOREM AnswersInTurn == Spec => AnsweredInTurn
  <1> DEFINE A == \A m \in out' :
       /\ cursor # 0 => queue[m.slot].in_use /\ home[queue[m.slot].owner] = m.conn
       /\ \A r \in ReqSlot :
            m.slot # 0 /\ queue'[r] = queue[r] /\ Parked(queue, queue[m.slot].owner, r) /\ r # m.slot
              => queue[r].stamp >= queue[m.slot].stamp
  <1>1. IInv /\ [Next]_vars => [A]_vars
    <2> SUFFICES ASSUME IInv, Next, NEW m \in out'
                 PROVE  InTurn(m)
      BY DEF InTurn
    <2>1. ASSUME m.slot = 0, cursor = 0
          PROVE  InTurn(m)
      BY <2>1 DEF InTurn
    <2>2. ASSUME NEW s \in Session, NEW i \in SubSlot, DeleteSubscription(s, i)
          PROVE  InTurn(m)
      <3>1. cursor = 0
        BY <2>2 DEF DeleteSubscription, Caller
      <3>2. PICK r \in ReqSlot, o \in OutcomeOn(home[s]) :
              Oldest(queue, s, r) /\ out' = StatusAndReply(i, r, home[s], o, 0)
        BY <2>2, Zenon DEF DeleteSubscription
      <3>3. m.slot \in {0, r}
        BY <3>2, EmittedIs, AnswerFields DEF StatusAndReply
      <3> QED
        BY <2>1, <3>1, <3>2, <3>3, OldestInTurn, Zenon
    <2>3. ASSUME NEW s \in Session, NEW i \in SubSlot, Transfer(s, i)
          PROVE  InTurn(m)
      <3>1. cursor = 0 /\ subs[i].owner \in Session
        BY <2>3 DEF Transfer, Caller, MayTransfer, IInv, SubsOK, SubOK
      <3>2. CASE out' = {Reply(home[s], subs[i].id, subs[i].retransmit)}
        BY <2>1, <3>1, <3>2, AnswerFields DEF Reply
      <3>3. ASSUME NEW r \in ReqSlot, NEW o \in OutcomeOn(home[s]), Oldest(queue, subs[i].owner, r),
                   out' = StatusAndReply(i, r, home[s], o, subs[i].retransmit)
            PROVE  InTurn(m)
        <4>1. m.slot \in {0, r}
          BY <3>3, EmittedIs, AnswerFields DEF StatusAndReply
        <4> QED
          BY <2>1, <3>1, <3>3, <4>1, OldestInTurn, Zenon
      <3> QED
        BY <2>3, <3>2, <3>3 DEF Transfer
    <2>4. ASSUME NEW s \in Session, NEW ack \in SUBSET SubSlot, PublishEvicting(s, ack)
          PROVE  InTurn(m)
      <3>1. cursor = 0
        BY <2>4 DEF PublishEvicting, Caller
      <3>2. PICK r \in ReqSlot, o \in OutcomeOn(home[s]) :
              Oldest(queue, s, r) /\ out' = Emitted(link, o, Answer("fault", home[s], r, 0, 0))
        BY <2>4, Zenon DEF PublishEvicting
      <3>3. m.slot = r
        BY <3>2, EmittedIs, AnswerFields
      <3> QED
        BY <3>1, <3>2, <3>3, OldestInTurn
    <2>5. ASSUME NEW i \in SubSlot, PublishSlot(i)
          PROVE  InTurn(m)
      BY <2>5, SlotInTurn
    <2>6. CASE out' = {}
      BY <2>6
    <2> QED
      BY <2>2, <2>3, <2>4, <2>5, <2>6, Zenon
      DEF Next, Connect, Disconnect, OpenSession, CloseSession, CreateSubscription, ModifySubscription,
          SetPublishingMode, ChangeItems, Publish, PublishRefused, BeginPublish, SkipSlot
  <1> QED
    BY <1>1, Invariance, PTL DEF Spec, AnsweredInTurn


-----------------------------------------------------------------------------
(* Sequence numbers *)

Numbered(m) == m.kind \in {"data", "status"}

(* A service fault carries no number. *)
LEMMA FaultUnnumbered ==
  ASSUME NEW l, NEW o, NEW c, NEW r
  PROVE  \A m \in Emitted(l, o, Answer("fault", c, r, 0, 0)) : ~Numbered(m)
  BY EmittedIs, AnswerFields DEF Numbered

(* What SequenceUnbroken says of one slot. *)
Unbroken(j) ==
  subs[j].in_use /\ subs'[j].in_use /\ subs'[j].id = subs[j].id =>
    /\ subs'[j].seq # subs[j].seq =>
         /\ subs'[j].seq = AdvanceSeq(subs[j].seq)
         /\ \E m \in out' : Numbered(m) /\ m.sub = subs[j].id /\ m.seq = subs[j].seq
    /\ \A m \in out' : Numbered(m) /\ m.sub = subs[j].id =>
         m.seq = subs[j].seq /\ subs'[j].seq # subs[j].seq

(* advance_sequence_number never leaves the number it found, if there is more *)
(* than one.                                                                  *)
LEMMA AdvanceSeqMoves ==
  ASSUME MaxSeq > 1, NEW n \in 0 .. MaxSeq
  PROVE  AdvanceSeq(n) # n
  BY PublishingAssumption DEF AdvanceSeq

(* A slot that keeps its number in a step that sends no notification of it. *)
LEMMA QuietUnbroken ==
  ASSUME NEW j \in SubSlot,
         subs[j].in_use /\ subs'[j].in_use => subs'[j].seq = subs[j].seq,
         subs[j].in_use => \A m \in out' : Numbered(m) => m.sub # subs[j].id
  PROVE  Unbroken(j)
  BY DEF Unbroken

(* A slot that takes the next number in a step that sends its notification. *)
LEMMA SentUnbroken ==
  ASSUME MaxSeq > 1, NEW j \in SubSlot, subs[j] \in SubType, subs'[j].seq = AdvanceSeq(subs[j].seq),
         \E m \in out' : Numbered(m) /\ m.sub = subs[j].id /\ m.seq = subs[j].seq,
         \A m \in out' : Numbered(m) => m.seq = subs[j].seq
  PROVE  Unbroken(j)
  <1>1. AdvanceSeq(subs[j].seq) # subs[j].seq
    BY AdvanceSeqMoves, Zenon DEF SubType
  <1> QED
    BY <1>1 DEF Unbroken

(* The slots a cycle does not look at keep their Subscription, and what it *)
(* sends bears the id of the one it looks at.                              *)
LEMMA AgeElsewhere ==
  ASSUME IInv, NEW i \in SubSlot, subs[i].in_use, NEW sub, sub.id = subs[i].id,
         NEW q, NEW l, NEW sent, Age(i, sub, q, l, sent),
         \A m \in sent : Numbered(m) => m.sub = subs[i].id,
         NEW j \in SubSlot \ {i}
  PROVE  Unbroken(j)
  <1>1. subs'[j] = subs[j]
    BY DEF Age, IInv, TypeOK
  <1>2. \A m \in out' : Numbered(m) => m.sub = subs[i].id
    BY EmittedIs, AnswerFields DEF Age
  <1>3. subs[j].in_use => subs[j].id # subs[i].id
    BY DEF IInv, UniqueIds
  <1> QED
    BY <1>1, <1>2, <1>3, QuietUnbroken

(* The slot itself: it is freed, or left with what encoding and emitting made *)
(* of it, and nothing is sent after that.                                     *)
LEMMA AgeHere ==
  ASSUME NEW i \in SubSlot, subs \in [SubSlot -> SubType], NEW sub \in SubType,
         NEW q, NEW l, NEW sent, Age(i, sub, q, l, sent), subs'[i].in_use
  PROVE  subs'[i].seq = sub.seq /\ out' = sent
  <1>1. ~FreeSub.in_use
    BY DEF FreeSub
  <1>2. subs' # [subs EXCEPT ![i] = FreeSub]
    BY <1>1
  <1>3. subs' = [subs EXCEPT ![i] = [sub EXCEPT !.lifetime = @ + 1]] /\ out' = sent
    BY <1>2 DEF Age
  <1> QED
    BY <1>3 DEF SubType

(* A slot of the publishing cycle takes a number with the notification it *)
(* sends, and none with a fault or a keep-alive.                          *)
LEMMA SlotUnbroken ==
  ASSUME MaxSeq > 1, IInv, NEW i \in SubSlot, PublishSlot(i), NEW j \in SubSlot
  PROVE  Unbroken(j)
  <1> DEFINE s == subs[i].owner
             kept == KeepAliveCounted(subs[i])
  <1>1. subs[i].in_use
    BY Zenon DEF PublishSlot, PublishSilent, PublishTimedOut, PublishAnswer, PublishFailed, Due
  <1>2. subs[i] \in SubType /\ SubOK(subs[i]) /\ subs \in [SubSlot -> SubType]
    BY <1>1 DEF IInv, TypeOK, SubsOK
  <1>3. kept.id = subs[i].id /\ kept.seq = subs[i].seq /\ kept \in SubType
    BY <1>2, KeepAliveCountedOK DEF SubOK
  <1> HIDE DEF s, kept
  <1>4. ASSUME NEW q, NEW l, NEW sent, Age(i, kept, q, l, sent), \A m \in sent : ~Numbered(m)
        PROVE  Unbroken(j)
    <2>1. CASE i # j
      BY <1>1, <1>3, <1>4, <2>1, AgeElsewhere
    <2>2. CASE i = j /\ ~subs'[i].in_use
      BY <2>2 DEF Unbroken
    <2>3. CASE i = j /\ subs'[i].in_use
      <3>1. subs'[i].seq = kept.seq /\ out' = sent
        BY <1>2, <1>3, <1>4, <2>3, AgeHere
      <3> QED
        BY <1>3, <1>4, <2>3, <3>1, QuietUnbroken, Zenon
    <2> QED
      BY <2>1, <2>2, <2>3
  <1>5. CASE PublishSilent(i)
    <2>1. Age(i, kept, queue, link, {})
      BY <1>5 DEF PublishSilent, kept
    <2> QED
      BY <1>4, <2>1
  <1>6. CASE PublishTimedOut(i) \/ PublishFailed(i)
    <2>1. PICK r \in ReqSlot, o \in OutcomeOn(home[s]) :
            Age(i, kept, Dequeue(queue, r), LinkAfter(link, home[s], o),
                Emitted(link, o, Answer("fault", home[s], r, 0, 0)))
      BY <1>6, ZenonT(60) DEF PublishTimedOut, PublishFailed, s, kept
    <2> QED
      BY <1>4, <2>1, FaultUnnumbered, Zenon
  <1>7. CASE PublishAnswer(i)
    <2> DEFINE kind == IF HasData(subs[i]) THEN "data" ELSE "keepalive"
    <2>1. PICK r \in ReqSlot, o \in {"sent", "lost"}, fits \in BOOLEAN, more \in BOOLEAN :
            Age(i, Reported(subs[i], fits, more), Dequeue(queue, r), LinkAfter(link, home[s], o),
                {Answer(kind, home[s], r, subs[i].id, subs[i].seq)})
      BY <1>7, ZenonT(60) DEF PublishAnswer, s
    <2> DEFINE sub == Reported(subs[i], fits, more)
               answer == Answer(kind, home[s], r, subs[i].id, subs[i].seq)
    <2>2. /\ sub \in SubType /\ sub.id = subs[i].id
          /\ sub.seq = IF HasData(subs[i]) THEN AdvanceSeq(subs[i].seq) ELSE subs[i].seq
      BY <1>2, ReportedOK, Zenon DEF SubOK
    <2>3. answer.kind = kind /\ answer.sub = subs[i].id /\ answer.seq = subs[i].seq
      BY AnswerFields
    <2>4. Numbered(answer) <=> HasData(subs[i])
      BY <2>3 DEF Numbered
    <2> HIDE DEF kind, sub, answer
    <2>5. Age(i, sub, Dequeue(queue, r), LinkAfter(link, home[s], o), {answer})
      BY <2>1, Zenon DEF sub, answer
    <2>6. CASE i # j
      <3>1. \A m \in {answer} : Numbered(m) => m.sub = subs[i].id
        BY <2>3, Zenon
      <3>2. j \in SubSlot \ {i}
        BY <2>6, Zenon
      <3> QED
        BY <1>1, <2>2, <2>5, <3>1, <3>2, AgeElsewhere
    <2>7. CASE i = j /\ ~subs'[i].in_use
      BY <2>7 DEF Unbroken
    <2>8. CASE i = j /\ subs'[i].in_use
      <3>1. subs'[i].seq = sub.seq /\ out' = {answer}
        BY <1>2, <2>2, <2>5, <2>8, AgeHere, Zenon
      <3>2. CASE HasData(subs[i])
        BY <1>2, <2>2, <2>3, <2>4, <2>8, <3>1, <3>2, SentUnbroken, Zenon
      <3>3. CASE ~HasData(subs[i])
        BY <2>2, <2>4, <2>8, <3>1, <3>3, QuietUnbroken
      <3> QED
        BY <3>2, <3>3, Zenon
    <2> QED
      BY <2>6, <2>7, <2>8
  <1> QED
    BY <1>5, <1>6, <1>7, Zenon DEF PublishSlot


(* The messages of a status change and of the reply after it. *)
LEMMA StatusMessages ==
  ASSUME NEW i, NEW r, NEW c, NEW o, NEW seq, NEW m \in StatusAndReply(i, r, c, o, seq), Numbered(m)
  PROVE  o # "unsent" /\ m.sub = subs[i].id /\ m.seq = subs[i].seq
  <1> DEFINE status == Answer("status", c, r, subs[i].id, subs[i].seq)
             kind == IF o = "sent" /\ c \notin Secure THEN "garbled" ELSE "reply"
  <1>1. m \in Emitted(link, o, status) \/ m = Answer(kind, c, 0, subs[i].id, seq)
    BY DEF StatusAndReply
  <1>2. ~Numbered(Answer(kind, c, 0, subs[i].id, seq))
    BY AnswerFields DEF Numbered
  <1>3. m \in Emitted(link, o, status)
    BY <1>1, <1>2
  <1>4. status.sub = subs[i].id /\ status.seq = subs[i].seq
    BY AnswerFields
  <1> HIDE DEF status
  <1> QED
    BY <1>3, <1>4 DEF Emitted

(* A Transfer takes a number for the status change exactly when it is sent:   *)
(* the caller's connection, on which it goes out, is the one being read.      *)
LEMMA TransferUnbroken ==
  ASSUME MaxSeq > 1, IInv, NEW s \in Session, NEW i \in SubSlot, Transfer(s, i), NEW j \in SubSlot
  PROVE  Unbroken(j)
  <1>1. /\ subs[i].in_use /\ link[home[s]] = "open"
        /\ subs[i] \in SubType /\ SubOK(subs[i]) /\ subs \in [SubSlot -> SubType]
    BY DEF Transfer, MayTransfer, Caller, IInv, TypeOK, SubsOK
  <1>2. j # i /\ subs[j].in_use => subs[j].id # subs[i].id
    BY <1>1 DEF IInv, UniqueIds
  <1>3. ASSUME out' = {Reply(home[s], subs[i].id, subs[i].retransmit)},
               subs' = [subs EXCEPT ![i].owner = s]
        PROVE  Unbroken(j)
    <2>1. \A m \in out' : ~Numbered(m)
      BY <1>3, AnswerFields DEF Reply, Numbered
    <2>2. subs'[j].seq = subs[j].seq
      BY <1>1, <1>3 DEF SubType
    <2> QED
      BY <2>1, <2>2, QuietUnbroken
  <1>4. ASSUME NEW r \in ReqSlot, NEW o \in OutcomeOn(home[s]),
               subs' = [subs EXCEPT ![i] = [StatusChanged(@, o) EXCEPT !.owner = s]],
               out' = StatusAndReply(i, r, home[s], o, subs[i].retransmit)
        PROVE  Unbroken(j)
    <2> DEFINE changed == StatusChanged(subs[i], o)
               status == Answer("status", home[s], r, subs[i].id, subs[i].seq)
    <2>1. /\ changed \in SubType
          /\ changed.seq = IF o = "unsent" THEN subs[i].seq ELSE AdvanceSeq(subs[i].seq)
      BY <1>1, StatusChangedOK DEF SubOK
    <2> HIDE DEF changed
    <2>2. subs' = [subs EXCEPT ![i] = [changed EXCEPT !.owner = s]]
      BY <1>4 DEF changed
    <2>3. subs'[i].seq = changed.seq
      BY <1>1, <2>1, <2>2 DEF SubType
    <2>4. \A m \in out' : Numbered(m) => o # "unsent" /\ m.sub = subs[i].id /\ m.seq = subs[i].seq
      BY <1>4, StatusMessages
    <2>5. CASE j # i
      <3>1. subs'[j] = subs[j]
        BY <1>1, <2>2, <2>5
      <3> QED
        BY <1>2, <2>4, <2>5, <3>1, QuietUnbroken
    <2>6. CASE j = i /\ o = "unsent"
      BY <2>1, <2>3, <2>4, <2>6, QuietUnbroken
    <2>7. CASE j = i /\ o # "unsent"
      <3>1. /\ status.conn = home[s] /\ status.sub = subs[i].id /\ status.seq = subs[i].seq
            /\ Numbered(status)
        BY AnswerFields DEF Numbered
      <3>2. status \in StatusAndReply(i, r, home[s], o, subs[i].retransmit)
        <4>1. status \in Emitted(link, o, status)
          <5> HIDE DEF status
          <5> QED
            BY <1>1, <2>7, <3>1 DEF Emitted
        <4> QED
          BY <4>1 DEF StatusAndReply
      <3> HIDE DEF status
      <3> QED
        BY <1>1, <1>4, <2>1, <2>3, <2>4, <2>7, <3>1, <3>2, SentUnbroken, Zenon
    <2> QED
      BY <2>5, <2>6, <2>7, Zenon
  <1> QED
    BY <1>3, <1>4 DEF Transfer

(* A Subscription takes a new sequence number exactly when a notification with *)
(* the old one was handed to the transport, through every service, transfer,   *)
(* status change and publishing cycle, and across the wrap of the number. With *)
(* a single number there would be no new one to take.                          *)
THEOREM NumbersUnbroken ==
  ASSUME MaxSeq > 1
  PROVE  Spec => SequenceUnbroken
  <1> DEFINE A == \A i \in SubSlot :
       subs[i].in_use /\ subs'[i].in_use /\ subs'[i].id = subs[i].id =>
         /\ subs'[i].seq # subs[i].seq =>
              /\ subs'[i].seq = AdvanceSeq(subs[i].seq)
              /\ \E m \in out' : m.kind \in {"data", "status"} /\ m.sub = subs[i].id /\ m.seq = subs[i].seq
         /\ \A m \in out' : m.kind \in {"data", "status"} /\ m.sub = subs[i].id =>
              m.seq = subs[i].seq /\ subs'[i].seq # subs[i].seq
  <1>1. IInv /\ [Next]_vars => [A]_vars
    <2> SUFFICES ASSUME IInv, Next, NEW j \in SubSlot
                 PROVE  Unbroken(j)
      BY DEF Unbroken, Numbered
    <2>1. subs \in [SubSlot -> SubType]
      BY DEF IInv, TypeOK
    <2>2. ASSUME out' = {}, subs[j].in_use /\ subs'[j].in_use => subs'[j].seq = subs[j].seq
          PROVE  Unbroken(j)
      BY <2>2, QuietUnbroken
    <2>3. CASE \/ \E c \in Conn : Connect(c) \/ Disconnect(c)
               \/ \E s \in Session, c \in Conn : OpenSession(s, c)
               \/ SkipSlot
      BY <2>2, <2>3, Zenon DEF Connect, Disconnect, OpenSession, SkipSlot
    <2>4. ASSUME NEW s \in Session, CloseSession(s)
          PROVE  Unbroken(j)
      BY <2>2, <2>4 DEF CloseSession, DropSubs, FreeSub
    <2>5. ASSUME NEW s \in Session, NEW req \in Requested, NEW b \in BOOLEAN, CreateSubscription(s, req, b)
          PROVE  Unbroken(j)
      BY <2>1, <2>2, <2>5 DEF CreateSubscription
    <2>6. ASSUME NEW s \in Session, NEW i \in SubSlot, NEW req \in Requested, ModifySubscription(s, i, req)
          PROVE  Unbroken(j)
      BY <2>1, <2>2, <2>6 DEF ModifySubscription, ApplyParameters, SubType
    <2>7. ASSUME NEW s \in Session, NEW i \in SubSlot, NEW b \in BOOLEAN, SetPublishingMode(s, i, b)
          PROVE  Unbroken(j)
      BY <2>1, <2>2, <2>7 DEF SetPublishingMode, SubType
    <2>8. ASSUME NEW s \in Session, NEW i \in SubSlot, DeleteSubscription(s, i)
          PROVE  Unbroken(j)
      <3>1. CASE out' = {}
        BY <2>1, <2>2, <2>8, <3>1 DEF DeleteSubscription, FreeSub
      <3>2. ASSUME NEW r \in ReqSlot, NEW o, out' = StatusAndReply(i, r, home[s], o, 0)
            PROVE  Unbroken(j)
        <4>1. \A m \in out' : Numbered(m) => m.sub = subs[i].id
          BY <3>2, StatusMessages
        <4>2. CASE i = j
          BY <2>1, <2>8, <4>2 DEF DeleteSubscription, FreeSub, Unbroken
        <4>3. CASE i # j
          <5>1. subs[i].in_use /\ subs'[j] = subs[j]
            BY <2>1, <2>8, <4>3, Zenon DEF DeleteSubscription, Owns
          <5>2. subs[j].in_use => subs[j].id # subs[i].id
            BY <4>3, <5>1 DEF IInv, UniqueIds
          <5> QED
            BY <4>1, <5>1, <5>2, QuietUnbroken, Zenon
        <4> QED
          BY <4>2, <4>3, Zenon
      <3> QED
        BY <2>8, <3>1, <3>2, Zenon DEF DeleteSubscription
    <2>9. ASSUME NEW s \in Session, NEW i \in SubSlot, Transfer(s, i)
          PROVE  Unbroken(j)
      BY <2>9, TransferUnbroken
    <2>10. ASSUME NEW s \in Session, NEW i \in SubSlot, ChangeItems(s, i)
           PROVE  Unbroken(j)
      BY <2>1, <2>2, <2>10 DEF ChangeItems, SubType
    <2>11. ASSUME NEW s \in Session, NEW ack \in SUBSET SubSlot,
                  Publish(s, ack) \/ PublishEvicting(s, ack) \/ PublishRefused(s, ack)
           PROVE  Unbroken(j)
      <3>1. subs'[j].seq = subs[j].seq
        BY <2>1, <2>11 DEF Publish, PublishEvicting, PublishRefused, Acknowledge, SubType
      <3>2. \A m \in out' : ~Numbered(m)
        <4>1. CASE PublishEvicting(s, ack)
          <5>1. PICK r \in ReqSlot, o \in OutcomeOn(home[s]) :
                  out' = Emitted(link, o, Answer("fault", home[s], r, 0, 0))
            BY <4>1, Zenon DEF PublishEvicting
          <5> QED
            BY <5>1, FaultUnnumbered, Zenon
        <4>2. CASE Publish(s, ack) \/ PublishRefused(s, ack)
          <5>1. out' = {}
            BY <4>2, Zenon DEF Publish, PublishRefused
          <5> QED
            BY <5>1, Zenon
        <4> QED
          BY <2>11, <4>1, <4>2, Zenon
      <3> QED
        BY <3>1, <3>2, QuietUnbroken
    <2>12. ASSUME NEW T \in SUBSET Session, NEW sampled \in SUBSET SubSlot, BeginPublish(T, sampled)
           PROVE  Unbroken(j)
      BY <2>1, <2>2, <2>12 DEF BeginPublish, DropSubs, FreeSub, SubType
    <2>13. ASSUME NEW i \in SubSlot, PublishSlot(i)
           PROVE  Unbroken(j)
      BY <2>13, SlotUnbroken
    <2> QED
      BY <2>3, <2>4, <2>5, <2>6, <2>7, <2>8, <2>9, <2>10, <2>11, <2>12, <2>13, Zenon DEF Next
  <1> QED
    BY <1>1, Invariance, PTL DEF Spec, SequenceUnbroken

-----------------------------------------------------------------------------
(* Requests that leave the queue *)

(* What NoSilentDrop asks of a request that leaves the queue: it is answered, *)
(* or one of the excuses holds of its Session s.                              *)
Excused(s) ==
  \/ OwnsNone(subs', s)
  \/ NoneParked(queue', s) /\ \E i \in SubSlot : Owns(subs', s, i) /\ ~subs'[i].enabled
  \/ home[s] \in Secure
  \/ \E t \in Session, i \in SubSlot : Owns(subs, s, i) /\ Owns(subs', t, i) /\ home[t] \in Secure
  \/ link'[home[s]] # "open"

AnsweredOr(r, excuse) == (\E m \in out' : m.slot = r) \/ excuse

(* Only a channel with security fails to send on an open connection. *)
LEMMA EmittedUnlessUnsent ==
  ASSUME NEW l, NEW c, NEW o \in OutcomeOn(c), NEW m, m.conn = c, l[c] = "open", c \notin Secure
  PROVE  m \in Emitted(l, o, m)
  BY DEF OutcomeOn, Emitted

(* A dequeue frees one slot, clearing the queue those of one Session. *)
LEMMA DequeueFrees ==
  ASSUME NEW q \in [ReqSlot -> ReqType], NEW x \in ReqSlot, NEW r \in ReqSlot, r # x
  PROVE  Dequeue(q, x)[r] = q[r]
  BY DEF Dequeue

LEMMA QueueClearFrees ==
  ASSUME NEW q \in [ReqSlot -> ReqType], NEW s, NEW r \in ReqSlot, q[r].in_use, ~QueueClear(q, s)[r].in_use
  PROVE  q[r].owner = s
  BY DEF QueueClear, Parked

(* The end of a cycle: the request the cycle took and the one the lifetime    *)
(* check takes are answered, or the channel or the connection is to blame.    *)
LEMMA AgeDrops ==
  ASSUME NEW i \in SubSlot, NEW s \in Session, home[s] \in Conn, NEW sub, sub.owner = s,
         queue \in [ReqSlot -> ReqType], NEW q, NEW l \in [Conn -> {"idle", "open", "lost"}],
         NEW sent, Age(i, sub, q, l, sent),
         \/ q = queue
         \/ \E x \in ReqSlot : /\ Oldest(queue, s, x) /\ q = Dequeue(queue, x)
                               /\ home[s] \in Secure \/ \E m \in sent : m.slot = x,
         NEW r \in ReqSlot, queue[r].in_use, ~queue'[r].in_use
  PROVE  AnsweredOr(r, queue[r].owner = s /\ (home[s] \in Secure \/ link'[home[s]] # "open"))
  <1>1. q \in [ReqSlot -> ReqType]
    <2>1. CASE q = queue
      BY <2>1
    <2>2. CASE \E x \in ReqSlot : q = Dequeue(queue, x)
      BY <2>2, QueueFacts
    <2> QED
      BY <2>1, <2>2
  <1>2. sent \subseteq out'
    BY Zenon DEF Age
  <1>3. CASE ~q[r].in_use
    <2>1. PICK x \in ReqSlot : /\ Oldest(queue, s, x) /\ q = Dequeue(queue, x)
                               /\ home[s] \in Secure \/ \E m \in sent : m.slot = x
      BY <1>3, Zenon
    <2>2. x = r
      BY <1>3, <2>1, DequeueFrees, Zenon
    <2>3. queue[r].owner = s
      BY <2>1, <2>2, Zenon DEF Oldest, Parked
    <2> QED
      BY <1>2, <2>1, <2>2, <2>3, Zenon DEF AnsweredOr
  <1>4. CASE q[r].in_use
    <2>1. PICK t \in ReqSlot, o \in OutcomeOn(home[s]) :
            /\ Oldest(q, s, t) /\ queue' = Dequeue(q, t) /\ link' = LinkAfter(l, home[s], o)
            /\ out' = sent \cup Emitted(l, o, Answer("status", home[s], t, sub.id, sub.seq))
      BY <1>4, Zenon DEF Age
    <2>2. t = r
      BY <1>1, <1>4, <2>1, DequeueFrees, Zenon
    <2>3. queue[r].owner = s
      <3>1. q[r].owner = s
        BY <2>1, <2>2, Zenon DEF Oldest, Parked
      <3> QED
        BY <1>4, <3>1, QueueFacts
    <2>4. CASE l[home[s]] # "open"
      <3>1. link'[home[s]] # "open"
        BY <2>1, <2>4, Zenon DEF LinkAfter
      <3> QED
        BY <2>3, <3>1, Zenon DEF AnsweredOr
    <2>5. CASE l[home[s]] = "open" /\ home[s] \notin Secure
      <3> DEFINE a == Answer("status", home[s], t, sub.id, sub.seq)
      <3>1. a.slot = t /\ a.conn = home[s]
        BY DEF Answer
      <3> HIDE DEF a
      <3>2. a \in Emitted(l, o, a)
        BY <2>5, <3>1, EmittedUnlessUnsent, Zenon
      <3>3. a \in out'
        BY <2>1, <3>2, Zenon DEF a
      <3> QED
        BY <2>2, <3>1, <3>3, Zenon DEF AnsweredOr
    <2> QED
      BY <2>3, <2>4, <2>5, Zenon DEF AnsweredOr
  <1> QED
    BY <1>3, <1>4, Zenon

(* The publishing cycle of one slot. *)
LEMMA SlotDrops ==
  ASSUME IInv, NEW i \in SubSlot, PublishSlot(i), NEW r \in ReqSlot, queue[r].in_use, ~queue'[r].in_use
  PROVE  AnsweredOr(r, Excused(queue[r].owner))
  <1> DEFINE s == subs[i].owner
             c == home[s]
  <1>1. subs[i].in_use /\ state[s] = "active" /\ link[c] = "open"
    BY Zenon DEF PublishSlot, PublishSilent, PublishTimedOut, PublishAnswer, PublishFailed, Due, Reachable
  <1>2. /\ SubOK(subs[i]) /\ s \in Session /\ queue \in [ReqSlot -> ReqType]
        /\ link \in [Conn -> {"idle", "open", "lost"}]
    BY <1>1 DEF IInv, TypeOK, SubsOK, SubOK
  <1>3. c \in Conn
    BY <1>1, <1>2 DEF IInv, OwnersOK
  <1>4. KeepAliveCounted(subs[i]).owner = s
    BY <1>2, KeepAliveCountedOK, Zenon
  <1>5. \A fits, more \in BOOLEAN : Reported(subs[i], fits, more).owner = s
    BY <1>2, ReportedOK
  <1> HIDE DEF s, c
  <1>6. ASSUME NEW sub, sub.owner = s, NEW q, NEW o, NEW sent,
               \/ Age(i, sub, q, link, sent)
               \/ Age(i, sub, q, LinkAfter(link, c, o), sent),
               \/ q = queue
               \/ \E x \in ReqSlot : /\ Oldest(queue, s, x) /\ q = Dequeue(queue, x)
                                     /\ c \in Secure \/ \E m \in sent : m.slot = x
        PROVE  AnsweredOr(r, Excused(queue[r].owner))
    <2>1. LinkAfter(link, c, o) \in [Conn -> {"idle", "open", "lost"}]
      BY <1>2, LinkAfterType, Zenon
    <2>2. PICK l \in [Conn -> {"idle", "open", "lost"}] : Age(i, sub, q, l, sent)
      BY <1>2, <1>6, <2>1, Zenon
    <2>3. \/ q = queue
          \/ \E x \in ReqSlot : /\ Oldest(queue, s, x) /\ q = Dequeue(queue, x)
                                /\ home[s] \in Secure \/ \E m \in sent : m.slot = x
      BY <1>6, Zenon DEF c
    <2>4. s \in Session /\ home[s] \in Conn
      BY <1>2, <1>3 DEF c
    <2>5. AnsweredOr(r, queue[r].owner = s /\ (home[s] \in Secure \/ link'[home[s]] # "open"))
      BY <1>2, <1>6, <2>2, <2>3, <2>4, AgeDrops, Zenon
    <2> QED
      BY <2>5, Zenon DEF AnsweredOr, Excused
  <1>7. CASE PublishSilent(i)
    <2>1. Age(i, KeepAliveCounted(subs[i]), queue, link, {})
      BY <1>7, Zenon DEF PublishSilent
    <2> QED
      BY <1>4, <1>6, <2>1, Zenon
  <1>8. CASE PublishTimedOut(i) \/ PublishFailed(i)
    <2>1. PICK x \in ReqSlot, o \in OutcomeOn(c) :
            /\ Oldest(queue, s, x)
            /\ Age(i, KeepAliveCounted(subs[i]), Dequeue(queue, x), LinkAfter(link, c, o),
                   Emitted(link, o, Answer("fault", c, x, 0, 0)))
      BY <1>8, ZenonT(60) DEF PublishTimedOut, PublishFailed, s, c
    <2> DEFINE a == Answer("fault", c, x, 0, 0)
    <2>2. a.slot = x /\ a.conn = c
      BY DEF Answer
    <2> HIDE DEF a
    <2>3. c \in Secure \/ a \in Emitted(link, o, a)
      BY <1>1, <2>2, EmittedUnlessUnsent, Zenon
    <2>4. c \in Secure \/ \E m \in Emitted(link, o, a) : m.slot = x
      BY <2>2, <2>3, Zenon
    <2>5. Age(i, KeepAliveCounted(subs[i]), Dequeue(queue, x), LinkAfter(link, c, o), Emitted(link, o, a))
      BY <2>1, Zenon DEF a
    <2> QED
      BY <1>4, <1>6, <2>1, <2>4, <2>5, Zenon
  <1>9. CASE PublishAnswer(i)
    <2> DEFINE kind == IF HasData(subs[i]) THEN "data" ELSE "keepalive"
    <2>1. PICK x \in ReqSlot, o \in {"sent", "lost"}, fits \in BOOLEAN, more \in BOOLEAN :
            /\ Oldest(queue, s, x)
            /\ Age(i, Reported(subs[i], fits, more), Dequeue(queue, x), LinkAfter(link, c, o),
                   {Answer(kind, c, x, subs[i].id, subs[i].seq)})
      BY <1>9, ZenonT(60) DEF PublishAnswer, s, c
    <2> HIDE DEF kind
    <2>2. \E m \in {Answer(kind, c, x, subs[i].id, subs[i].seq)} : m.slot = x
      BY DEF Answer
    <2> QED
      BY <1>5, <1>6, <2>1, <2>2, Zenon
  <1> QED
    BY <1>7, <1>8, <1>9, Zenon DEF PublishSlot

(* The status change of a deleted or transferred Subscription answers its     *)
(* request, unless the caller's channel fails to secure it.                   *)
LEMMA StatusAnswers ==
  ASSUME NEW i, NEW r, NEW c, NEW o \in OutcomeOn(c), NEW seq, link[c] = "open", c \notin Secure,
         out' = StatusAndReply(i, r, c, o, seq)
  PROVE  \E m \in out' : m.slot = r
  <1> DEFINE a == Answer("status", c, r, subs[i].id, subs[i].seq)
  <1>1. a.slot = r /\ a.conn = c
    BY DEF Answer
  <1> HIDE DEF a
  <1>2. a \in Emitted(link, o, a)
    BY <1>1, EmittedUnlessUnsent, Zenon
  <1>3. a \in out'
    BY <1>2, Zenon DEF StatusAndReply, a
  <1> QED
    BY <1>1, <1>3, Zenon

(* DeleteSubscriptions and TransferSubscriptions. *)
LEMMA DeleteDrops ==
  ASSUME IInv, NEW s \in Session, NEW i \in SubSlot, DeleteSubscription(s, i),
         NEW r \in ReqSlot, queue[r].in_use, ~queue'[r].in_use
  PROVE  AnsweredOr(r, Excused(queue[r].owner))
  <1>1. queue \in [ReqSlot -> ReqType] /\ link[home[s]] = "open"
    BY Zenon DEF IInv, TypeOK, DeleteSubscription, Caller
  <1>2. PICK x \in ReqSlot, o \in OutcomeOn(home[s]) :
          /\ Oldest(queue, s, x)
          /\ queue' = IF OwnsNone(subs', s) THEN QueueClear(queue, s) ELSE Dequeue(queue, x)
          /\ out' = StatusAndReply(i, x, home[s], o, 0)
    BY Zenon DEF DeleteSubscription
  <1>3. CASE OwnsNone(subs', s)
    <2>1. queue[r].owner = s
      BY <1>1, <1>2, <1>3, QueueClearFrees, Zenon
    <2> QED
      BY <1>3, <2>1, Zenon DEF AnsweredOr, Excused
  <1>4. CASE ~OwnsNone(subs', s)
    <2>1. x = r
      BY <1>1, <1>2, <1>4, DequeueFrees, Zenon
    <2>2. queue[r].owner = s
      BY <1>2, <2>1, Zenon DEF Oldest, Parked
    <2>3. home[s] \in Secure \/ \E m \in out' : m.slot = r
      BY <1>1, <1>2, <2>1, StatusAnswers, Zenon
    <2> QED
      BY <2>2, <2>3, Zenon DEF AnsweredOr, Excused
  <1> QED
    BY <1>3, <1>4, Zenon

LEMMA TransferDrops ==
  ASSUME IInv, NEW s \in Session, NEW i \in SubSlot, Transfer(s, i),
         NEW r \in ReqSlot, queue[r].in_use, ~queue'[r].in_use
  PROVE  AnsweredOr(r, Excused(queue[r].owner))
  <1> DEFINE old == subs[i].owner
  <1>1. /\ queue \in [ReqSlot -> ReqType] /\ link[home[s]] = "open"
        /\ Owns(subs, old, i) /\ SubOK(subs[i]) /\ subs \in [SubSlot -> SubType]
    BY Zenon DEF IInv, TypeOK, SubsOK, Transfer, Caller, MayTransfer, Owns
  <1>2. PICK x \in ReqSlot, o \in OutcomeOn(home[s]) :
          /\ Oldest(queue, old, x)
          /\ subs' = [subs EXCEPT ![i] = [StatusChanged(@, o) EXCEPT !.owner = s]]
          /\ queue' = IF OwnsNone(subs', old) THEN QueueClear(Dequeue(queue, x), old) ELSE Dequeue(queue, x)
          /\ out' = StatusAndReply(i, x, home[s], o, subs[i].retransmit)
    BY ZenonT(60) DEF Transfer
  <1>3. Owns(subs', s, i)
    <2>1. StatusChanged(subs[i], o).in_use /\ StatusChanged(subs[i], o) \in SubType
      BY <1>1, StatusChangedOK, Zenon DEF Owns, SubOK
    <2>2. subs'[i] = [StatusChanged(subs[i], o) EXCEPT !.owner = s]
      BY <1>1, <1>2, Zenon
    <2> QED
      BY <2>1, <2>2 DEF Owns, SubType
  <1>4. Dequeue(queue, x) \in [ReqSlot -> ReqType]
    BY <1>1, QueueFacts, Zenon
  <1> HIDE DEF old
  <1>5. CASE x = r
    <2>1. queue[r].owner = old
      BY <1>2, <1>5, Zenon DEF Oldest, Parked
    <2>2. home[s] \in Secure \/ \E m \in out' : m.slot = r
      BY <1>1, <1>2, <1>5, StatusAnswers, Zenon
    <2> QED
      BY <1>1, <1>3, <2>1, <2>2, Zenon DEF AnsweredOr, Excused
  <1>6. CASE x # r
    <2>1. Dequeue(queue, x)[r] = queue[r]
      BY <1>1, <1>6, DequeueFrees, Zenon
    <2>2. OwnsNone(subs', old) /\ queue[r].owner = old
      <3>1. OwnsNone(subs', old) /\ queue' = QueueClear(Dequeue(queue, x), old)
        BY <1>2, <2>1, Zenon
      <3>2. Dequeue(queue, x)[r].owner = old
        BY <1>4, <2>1, <3>1, QueueClearFrees, Zenon
      <3> QED
        BY <2>1, <3>1, <3>2, Zenon
    <2> QED
      BY <2>2, Zenon DEF AnsweredOr, Excused
  <1> QED
    BY <1>5, <1>6, Zenon

(* A Publish request of a connected Session leaves the queue answered, or     *)
(* because the Session has no Subscription left or has one disabled by        *)
(* SetPublishingMode, or because the channel or the connection of the answer  *)
(* failed: no service, transfer or publishing cycle drops one silently.       *)
THEOREM NothingDropped == Spec => NoSilentDrop
  <1>1. IInv /\ [Next]_vars => [NoSilentDropStep]_vars
    <2> SUFFICES ASSUME IInv, Next, NEW r \in ReqSlot, queue[r].in_use, ~queue'[r].in_use
                 PROVE  AnsweredOr(r, Excused(queue[r].owner))
      BY Zenon DEF NoSilentDropStep, AnsweredOr, Excused
    <2>1. queue \in [ReqSlot -> ReqType]
      BY DEF IInv, TypeOK
    <2>2. ASSUME NEW s \in Session, NEW i \in SubSlot, NEW b \in BOOLEAN, SetPublishingMode(s, i, b)
          PROVE  AnsweredOr(r, Excused(queue[r].owner))
      <3>1. ~b /\ queue' = QueueClear(queue, s)
        BY <2>2, Zenon DEF SetPublishingMode
      <3>2. queue[r].owner = s
        BY <2>1, <3>1, QueueClearFrees, Zenon
      <3>3. NoneParked(queue', s)
        BY <2>1, <3>1, FreeReqFacts DEF NoneParked, Parked, QueueClear
      <3>4. Owns(subs', s, i) /\ ~subs'[i].enabled
        BY <2>2, <3>1 DEF SetPublishingMode, Owns, IInv, TypeOK, SubType
      <3> QED
        BY <3>2, <3>3, <3>4, Zenon DEF AnsweredOr, Excused
    <2>3. ASSUME NEW s \in Session, NEW ack \in SUBSET SubSlot, Publish(s, ack) \/ PublishEvicting(s, ack)
          PROVE  FALSE
      <3>1. PICK x \in ReqSlot : queue' = [queue EXCEPT ![x] = Request(s)]
        BY <2>3, Zenon DEF Publish, PublishEvicting
      <3> QED
        BY <2>1, <3>1 DEF Request
    <2>4. CASE queue' = queue
      BY <2>4, Zenon
    <2> QED
      BY <2>2, <2>3, <2>4, SlotDrops, DeleteDrops, TransferDrops, Zenon
      DEF Next, Connect, Disconnect, OpenSession, CloseSession, CreateSubscription, ModifySubscription,
          ChangeItems, PublishRefused, BeginPublish, SkipSlot
  <1> QED
    BY <1>1, Invariance, PTL DEF Spec, NoSilentDrop
=============================================================================
