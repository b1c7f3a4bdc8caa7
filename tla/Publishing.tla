----------------------------- MODULE Publishing -----------------------------
(***************************************************************************)
(* The publishing engine of the server: the table of Subscriptions, the    *)
(* queue of parked Publish requests they share, keep-alive and lifetime    *)
(* counting, the one-message retransmission slot, and what the services    *)
(* and the poll loop do to them.  It is the build with                     *)
(* MULTIPLE_CONNECTIONS, SESSION_TIMEOUT, SUBSCRIPTION_STANDARD and        *)
(* REDUNDANCY (the "full" profile).                                        *)
(*                                                                         *)
(* The server is one thread.  A request is handled whole, and a poll ends  *)
(* with one pass of publish_due over the table; "cursor" is the index of   *)
(* that loop, 0 when the server is not in it.  Milliseconds are abstracted:*)
(* whether a publishing timer is due, a parked request is past its         *)
(* timeoutHint or a Session is past its timeout is left open, and "now"    *)
(* only orders the arrivals of Publish requests.                           *)
(***************************************************************************)
EXTENDS Integers

CONSTANTS
  Session,      \* SessionIds: one per CreateSession, never reused
  Conn,         \* connections, each with the SecureChannel opened on it
  Secure,       \* the connections whose channel has a security mode other than None
  UserOf,       \* the user identity a Session was activated with
  NoSession,    \* session_id of a free slot
  NoConn,       \* the connection of a Session not yet created
  NSubs,        \* MU_INTERN_MAX_SUBSCRIPTIONS
  NReqs,        \* MU_INTERN_MAX_PUBLISH_REQUESTS
  MaxId,        \* the largest SubscriptionId, 2^32 - 1 in the code
  MaxSeq,       \* the largest sequence number, 2^32 - 1 in the code
  MaxCount,     \* the largest keep-alive or lifetime count, 2^32 - 1 in the code
  Requested,    \* the <<lifetimeCount, maxKeepAliveCount>> pairs clients ask for
  MaxNow        \* bound: the last millisecond at which arrivals are told apart

ASSUME PublishingAssumption ==
  /\ NSubs \in Nat \ {0}
  /\ NReqs \in Nat \ {0}
  /\ MaxId \in Nat \ {0}
  /\ MaxId >= NSubs
  /\ MaxSeq \in Nat \ {0}
  /\ MaxCount \in Nat
  /\ MaxCount >= 3
  /\ Requested \subseteq (0 .. MaxCount) \X (0 .. MaxCount)
  /\ Secure \subseteq Conn
  /\ NoSession \notin Session
  /\ NoConn \notin Conn
  /\ MaxNow \in Nat

VARIABLES
  link,     \* link[c]: "idle" before accept, "open", or "lost"
  state,    \* state[s]: "none" before CreateSession, "active", or "closed"
  home,     \* home[s]: the connection whose SecureChannel the Session is bound to
  subs,     \* mu_subscriptions_t.subscriptions
  nextId,   \* next_subscription_id
  queue,    \* mu_subscriptions_t.publish_queue
  earlier,  \* the pairs <<r, t>> of occupied queue slots, r parked before t (history)
  now,      \* get_tick_ms, as far as enqueued_ms depends on it
  cursor,   \* the slot publish_due is at; 0 outside of it
  out       \* the messages the last step handed to the transport

vars == <<link, state, home, subs, nextId, queue, earlier, now, cursor, out>>

SubSlot == 1 .. NSubs
ReqSlot == 1 .. NReqs

-----------------------------------------------------------------------------
(* State records.  memset(0) turns a slot into its Free form. *)

FreeSub == [in_use |-> FALSE, id |-> 0, owner |-> NoSession, enabled |-> FALSE,
            keepAlive |-> 0, maxKeepAlive |-> 0, lifetime |-> 0, lifetimeCount |-> 0,
            seq |-> 0, retransmit |-> 0, pending |-> FALSE]

SubType == [in_use : BOOLEAN, id : 0 .. MaxId, owner : Session \cup {NoSession},
            enabled : BOOLEAN, keepAlive : 0 .. MaxCount, maxKeepAlive : 0 .. MaxCount,
            lifetime : 0 .. MaxCount, lifetimeCount : 0 .. MaxCount,
            seq : 0 .. MaxSeq, retransmit : 0 .. MaxSeq, pending : BOOLEAN]

FreeReq == [in_use |-> FALSE, owner |-> NoSession, stamp |-> 0]

ReqType == [in_use : BOOLEAN, owner : Session \cup {NoSession}, stamp : 0 .. MaxNow]

(* What is sent: an answer to the Publish request of a queue slot ("data",   *)
(* "keepalive", "status", "fault"), or the reply to a request handled after  *)
(* such an answer ("reply", "garbled" when its header was overwritten).      *)
(* Replies that tell nothing about this state are left out, and so are       *)
(* requests refused without effect.                                          *)
Message == [kind : {"data", "keepalive", "status", "fault", "reply", "garbled"},
            conn : Conn, slot : 0 .. NReqs, sub : 0 .. MaxId, seq : 0 .. MaxSeq]

Answer(kind, c, slot, sub, seq) ==
  [kind |-> kind, conn |-> c, slot |-> slot, sub |-> sub, seq |-> seq]

Reply(c, sub, seq) == Answer("reply", c, 0, sub, seq)

-----------------------------------------------------------------------------
(* Pure helpers *)

AdvanceSeq(n) == IF n = MaxSeq THEN 1 ELSE n + 1

NextIdAfter(id, k) == ((id - 1 + k) % MaxId) + 1

ReviseKeepAlive(ka) ==
  IF ka = 0 THEN 1 ELSE IF ka > MaxCount \div 3 THEN MaxCount \div 3 ELSE ka

(* Mutant: the lifetime count is taken as requested. *)
ReviseLifetimeAsAsked(lt, ka) == lt

ReviseLifetime(lt, ka) ==
  IF lt < 3 * ReviseKeepAlive(ka) THEN 3 * ReviseKeepAlive(ka) ELSE lt

ApplyParameters(sub, req) ==
  [sub EXCEPT !.maxKeepAlive = ReviseKeepAlive(req[2]),
              !.lifetimeCount = ReviseLifetime(req[1], req[2])]

(* mu_subscription_republish finds the notification numbered n. *)
RepublishFinds(sub, n) == n # 0 /\ sub.retransmit = n

IdInUse(id) == \E i \in SubSlot : subs[i].in_use /\ subs[i].id = id

Owns(S, s, i) == S[i].in_use /\ S[i].owner = s

OwnsNone(S, s) == \A i \in SubSlot : ~Owns(S, s, i)

(* Mutant: the request's Session is not compared. *)
ParkedByAnyone(q, s, r) == q[r].in_use

Parked(q, s, r) == q[r].in_use /\ q[r].owner = s

(* publish_request_dequeue picks the least enqueued_ms, the lowest slot of a tie. *)
Oldest(q, s, r) ==
  /\ Parked(q, s, r)
  /\ \A t \in ReqSlot : Parked(q, s, t) =>
       \/ q[r].stamp < q[t].stamp
       \/ q[r].stamp = q[t].stamp /\ r <= t

NoneParked(q, s) == \A r \in ReqSlot : ~Parked(q, s, r)

Dequeue(q, r) == [q EXCEPT ![r] = FreeReq]

QueueClear(q, s) == [r \in ReqSlot |-> IF Parked(q, s, r) THEN FreeReq ELSE q[r]]

DropSubs(S, T) == [i \in SubSlot |-> IF S[i].in_use /\ S[i].owner \in T THEN FreeSub ELSE S[i]]

(* The history of arrivals: what is left of it in queue q, and with a request  *)
(* parked last in slot r.                                                      *)
EarlierIn(q) == {p \in earlier : q[p[1]].in_use /\ q[p[2]].in_use}

EarlierWith(q, r) == {p \in EarlierIn(q) : r \notin {p[1], p[2]}}
                       \cup {<<t, r>> : t \in {u \in ReqSlot \ {r} : q[u].in_use}}

(* The status of a send: "sent", "lost" (the write failed or was short: the    *)
(* connection is closed, the sender sees Good), "unsent" (wrapping the chunk   *)
(* failed, which needs a channel with security).                               *)
LinkAfter(l, c, o) == IF o = "lost" THEN [l EXCEPT ![c] = "lost"] ELSE l

OutcomeOn(c) == IF c \in Secure THEN {"sent", "lost", "unsent"} ELSE {"sent", "lost"}

Emitted(l, o, m) == IF o = "unsent" \/ l[m.conn] # "open" THEN {} ELSE {m}

(* Mutant: the status change does not take its number. *)
StatusKeepsNumber(sub, o) == IF o = "unsent" THEN sub ELSE [sub EXCEPT !.retransmit = sub.seq]

(* issue_status_change_notification, once the request is dequeued: the        *)
(* Subscription keeps the message for Republish and takes the next number.    *)
StatusChanged(sub, o) ==
  IF o = "unsent" THEN sub ELSE [sub EXCEPT !.retransmit = sub.seq, !.seq = AdvanceSeq(@)]

(* The status change for slot i and the reply to the service that caused it.  *)
StatusAndReply(i, r, c, o, seq) ==
  Emitted(link, o, Answer("status", c, r, subs[i].id, subs[i].seq))
    \cup (IF o = "lost" THEN {}
          ELSE {Answer(IF o = "sent" /\ c \notin Secure THEN "garbled" ELSE "reply",
                       c, 0, subs[i].id, seq)})

-----------------------------------------------------------------------------
Init ==
  /\ link = [c \in Conn |-> "idle"]
  /\ state = [s \in Session |-> "none"]
  /\ home = [s \in Session |-> NoConn]
  /\ subs = [i \in SubSlot |-> FreeSub]
  /\ nextId = 1
  /\ queue = [r \in ReqSlot |-> FreeReq]
  /\ earlier = {}
  /\ now = 0
  /\ cursor = 0
  /\ out = {}

-----------------------------------------------------------------------------
(* Services.  A request is dispatched when the Session is activated and its  *)
(* connection is the one being read (active_conn).                           *)

Caller(s) == cursor = 0 /\ state[s] = "active" /\ link[home[s]] = "open"

(* poll_try_accept_multi, HEL and OPN: a connection with a SecureChannel. *)
Connect(c) ==
  /\ cursor = 0
  /\ link[c] = "idle"
  /\ link' = [link EXCEPT ![c] = "open"]
  /\ out' = {}
  /\ UNCHANGED <<state, home, subs, nextId, queue, earlier, now, cursor>>

(* The connection ends: a read or write error, CloseSecureChannel, idleness. *)
Disconnect(c) ==
  /\ cursor = 0
  /\ link[c] = "open"
  /\ link' = [link EXCEPT ![c] = "lost"]
  /\ out' = {}
  /\ UNCHANGED <<state, home, subs, nextId, queue, earlier, now, cursor>>

(* CreateSession and ActivateSession on the channel of connection c. *)
OpenSession(s, c) ==
  /\ cursor = 0
  /\ state[s] = "none"
  /\ link[c] = "open"
  /\ state' = [state EXCEPT ![s] = "active"]
  /\ home' = [home EXCEPT ![s] = c]
  /\ out' = {}
  /\ UNCHANGED <<link, subs, nextId, queue, earlier, now, cursor>>

(* handle_close_session: every Subscription of the Session is deleted, whatever *)
(* deleteSubscriptions says; its parked Publish requests stay.                  *)
CloseSession(s) ==
  /\ Caller(s)
  /\ state' = [state EXCEPT ![s] = "closed"]
  /\ subs' = DropSubs(subs, {s})
  /\ out' = {}
  /\ UNCHANGED <<link, home, nextId, queue, earlier, now, cursor>>

(* handle_create_subscription, a slot and an id found: the first free slot and *)
(* the first of NSubs + 1 successive ids that no Subscription bears.           *)
CreateSubscription(s, req, enabled) ==
  /\ Caller(s)
  /\ \E i \in SubSlot, k \in 0 .. NSubs :
       LET id == NextIdAfter(nextId, k) IN
       /\ ~subs[i].in_use
       /\ \A j \in 1 .. i - 1 : subs[j].in_use
       /\ ~IdInUse(id)
       /\ \A j \in 0 .. k - 1 : IdInUse(NextIdAfter(nextId, j))
       /\ subs' = [subs EXCEPT ![i] =
                     ApplyParameters([FreeSub EXCEPT !.in_use = TRUE, !.id = id, !.owner = s,
                                                     !.enabled = enabled, !.seq = 1], req)]
       /\ nextId' = NextIdAfter(id, 1)
       /\ out' = {}
  /\ UNCHANGED <<link, state, home, queue, earlier, now, cursor>>

(* handle_modify_subscription: the counters are left where they are. *)
ModifySubscription(s, i, req) ==
  /\ Caller(s)
  /\ Owns(subs, s, i)
  /\ subs' = [subs EXCEPT ![i] = ApplyParameters(@, req)]
  /\ out' = {}
  /\ UNCHANGED <<link, state, home, nextId, queue, earlier, now, cursor>>

(* set_publishing_mode_result: enabling resets the lifetime counter, disabling *)
(* drops every parked request of the Session, unanswered.                      *)
SetPublishingMode(s, i, enable) ==
  /\ Caller(s)
  /\ Owns(subs, s, i)
  /\ subs' = [subs EXCEPT ![i].enabled = enable, ![i].lifetime = IF enable THEN 0 ELSE @]
  /\ queue' = IF enable THEN queue ELSE QueueClear(queue, s)
  /\ earlier' = EarlierIn(queue')
  /\ out' = {}
  /\ UNCHANGED <<link, state, home, nextId, now, cursor>>

(* delete_subscription_result: the StatusChangeNotification answers a parked   *)
(* request through the send buffer the reply is being written to, so a reply   *)
(* on a channel without security is overwritten; then the Subscription goes,   *)
(* and with the Session's last one its parked requests.                        *)
DeleteSubscription(s, i) ==
  /\ Caller(s)
  /\ Owns(subs, s, i)
  /\ subs' = [subs EXCEPT ![i] = FreeSub]
  /\ \/ /\ NoneParked(queue, s)
        /\ out' = {}
        /\ UNCHANGED <<queue, link>>
     \/ \E r \in ReqSlot, o \in OutcomeOn(home[s]) :
          /\ Oldest(queue, s, r)
          /\ queue' = IF OwnsNone(subs', s) THEN QueueClear(queue, s) ELSE Dequeue(queue, r)
          /\ link' = LinkAfter(link, home[s], o)
          /\ out' = StatusAndReply(i, r, home[s], o, 0)
  /\ earlier' = EarlierIn(queue')
  /\ UNCHANGED <<state, home, nextId, now, cursor>>

(* handle_publish.  The acknowledgements come first (the slots of ack hold the *)
(* sequence numbers named), then the request is parked in the first free slot. *)
Acknowledge(ack) ==
  [i \in SubSlot |-> IF i \in ack THEN [subs[i] EXCEPT !.retransmit = 0] ELSE subs[i]]

Request(s) == [in_use |-> TRUE, owner |-> s, stamp |-> now]

Publish(s, ack) ==
  /\ Caller(s)
  /\ ~OwnsNone(subs, s)
  /\ \A i \in ack : Owns(subs, s, i) /\ subs[i].retransmit # 0
  /\ subs' = Acknowledge(ack)
  /\ \E r \in ReqSlot :
       /\ ~queue[r].in_use
       /\ \A t \in 1 .. r - 1 : queue[t].in_use
       /\ queue' = [queue EXCEPT ![r] = Request(s)]
       /\ earlier' = EarlierWith(queue, r)
  /\ out' = {}
  /\ UNCHANGED <<link, state, home, nextId, now, cursor>>

(* The queue is full: publish_request_evict_oldest frees a slot of the Session's own. *)
PublishEvicting(s, ack) ==
  /\ Caller(s)
  /\ ~OwnsNone(subs, s)
  /\ \A i \in ack : Owns(subs, s, i) /\ subs[i].retransmit # 0
  /\ \A r \in ReqSlot : queue[r].in_use
  /\ subs' = Acknowledge(ack)
  /\ \E r \in ReqSlot, o \in OutcomeOn(home[s]) :
       /\ Oldest(queue, s, r)
       /\ queue' = [queue EXCEPT ![r] = Request(s)]
       /\ earlier' = EarlierWith(queue, r)
       /\ link' = LinkAfter(link, home[s], o)
       /\ out' = Emitted(link, o, Answer("fault", home[s], r, 0, 0))
  /\ UNCHANGED <<state, home, nextId, now, cursor>>

(* Bad_NoSubscription, or Bad_TooManyPublishRequests with nothing to evict. *)
PublishRefused(s, ack) ==
  /\ Caller(s)
  /\ \A i \in ack : Owns(subs, s, i) /\ subs[i].retransmit # 0
  /\ \/ OwnsNone(subs, s)
     \/ NoneParked(queue, s) /\ \A r \in ReqSlot : queue[r].in_use
  /\ subs' = Acknowledge(ack)
  /\ out' = {}
  /\ UNCHANGED <<link, state, home, nextId, queue, earlier, now, cursor>>

(* handle_transfer_subscriptions: the caller s takes the Subscription of slot i. *)
(* The status change for the old owner goes out on the caller's connection.      *)
MayTransfer(s, i) ==
  /\ subs[i].in_use
  /\ subs[i].owner # s
  /\ state[subs[i].owner] = "closed" \/ UserOf[subs[i].owner] = UserOf[s]

Transfer(s, i) ==
  /\ Caller(s)
  /\ MayTransfer(s, i)
  /\ LET old == subs[i].owner
         clear(S, q) == IF OwnsNone(S, old) THEN QueueClear(q, old) ELSE q
     IN \/ /\ NoneParked(queue, old)
           /\ subs' = [subs EXCEPT ![i].owner = s]
           /\ out' = {Reply(home[s], subs[i].id, subs[i].retransmit)}
           /\ UNCHANGED <<queue, link>>
        \/ \E r \in ReqSlot, o \in OutcomeOn(home[s]) :
             /\ Oldest(queue, old, r)
             /\ subs' = [subs EXCEPT ![i] = [StatusChanged(@, o) EXCEPT !.owner = s]]
             /\ queue' = clear(subs', Dequeue(queue, r))
             /\ link' = LinkAfter(link, home[s], o)
             /\ out' = StatusAndReply(i, r, home[s], o, subs[i].retransmit)
  /\ earlier' = EarlierIn(queue')
  /\ UNCHANGED <<state, home, nextId, now, cursor>>

(* The MonitoredItem services: they make notifications reportable or take them away. *)
ChangeItems(s, i) ==
  /\ Caller(s)
  /\ Owns(subs, s, i)
  /\ subs' = [subs EXCEPT ![i].pending = ~@]
  /\ out' = {}
  /\ UNCHANGED <<link, state, home, nextId, queue, earlier, now, cursor>>

-----------------------------------------------------------------------------
(* mu_server_poll_background: Sessions past their timeout close with their     *)
(* Subscriptions, then mu_subscriptions_tick samples and publish_due begins.   *)
BeginPublish(T, sampled) ==
  /\ cursor = 0
  /\ \A s \in T : state[s] = "active"
  /\ state' = [s \in Session |-> IF s \in T THEN "closed" ELSE state[s]]
  /\ subs' = [i \in SubSlot |->
                LET sub == DropSubs(subs, T)[i]
                IN IF sub.in_use /\ i \in sampled THEN [sub EXCEPT !.pending = TRUE] ELSE sub]
  /\ now' \in {now, now + 1} \cap (0 .. MaxNow)
  /\ cursor' = 1
  /\ out' = {}
  /\ UNCHANGED <<link, home, nextId, queue, earlier>>

AdvanceCursor == cursor' = IF cursor = NSubs THEN 0 ELSE cursor + 1

(* The slot is free, its timer not due, or its Session has no connection. *)
SkipSlot ==
  /\ cursor \in SubSlot
  /\ AdvanceCursor
  /\ out' = {}
  /\ UNCHANGED <<link, state, home, subs, nextId, queue, earlier, now>>

(* select_publish_subscription *)
Reachable(s) == state[s] = "active" /\ link[home[s]] = "open"

Due(i) == cursor = i /\ subs[i].in_use /\ Reachable(subs[i].owner)

HasData(sub) == sub.enabled /\ sub.pending

(* Mutant: the keep-alive counter is not incremented. *)
KeepAliveUncounted(sub) == sub

KeepAliveCounted(sub) ==
  IF HasData(sub) THEN sub
  ELSE [sub EXCEPT !.keepAlive = (@ + 1) % (MaxCount + 1)]

WantsRequest(sub) ==
  HasData(sub) \/ KeepAliveCounted(sub).keepAlive >= sub.maxKeepAlive

(* Mutant: a keep-alive takes a sequence number. *)
KeepAliveTakesNumber(sub, fits, more) ==
  [sub EXCEPT !.keepAlive = 0, !.lifetime = 0, !.pending = HasData(sub) /\ more,
              !.retransmit = IF HasData(sub) THEN IF fits THEN sub.seq ELSE 0 ELSE @,
              !.seq = AdvanceSeq(@)]

(* The record after a response was emitted. *)
Reported(sub, fits, more) ==
  IF HasData(sub)
  THEN [sub EXCEPT !.keepAlive = 0, !.lifetime = 0, !.pending = more,
                   !.retransmit = IF fits THEN sub.seq ELSE 0, !.seq = AdvanceSeq(@)]
  ELSE [sub EXCEPT !.keepAlive = 0, !.lifetime = 0]

(* The end of the cycle for slot i, given what encoding and emitting left:  *)
(* the lifetime counter, and at its limit the status change and the delete. *)
Age(i, sub, q, l, sent) ==
  /\ \/ /\ sub.lifetime + 1 < sub.lifetimeCount
        /\ subs' = [subs EXCEPT ![i] = [sub EXCEPT !.lifetime = @ + 1]]
        /\ queue' = q /\ link' = l /\ out' = sent
     \/ /\ sub.lifetime + 1 >= sub.lifetimeCount
        /\ subs' = [subs EXCEPT ![i] = FreeSub]
        /\ \/ NoneParked(q, sub.owner) /\ queue' = q /\ link' = l /\ out' = sent
           \/ \E r \in ReqSlot, o \in OutcomeOn(home[sub.owner]) :
                /\ Oldest(q, sub.owner, r)
                /\ queue' = Dequeue(q, r)
                /\ link' = LinkAfter(l, home[sub.owner], o)
                /\ out' = sent \cup
                     Emitted(l, o, Answer("status", home[sub.owner], r, sub.id, sub.seq))
  /\ earlier' = EarlierIn(queue')
  /\ AdvanceCursor
  /\ UNCHANGED <<state, home, nextId, now>>

(* Mutant: only a cycle that finds a request counts towards the lifetime. *)
PublishSilentAgeless(i) ==
  /\ Due(i)
  /\ ~WantsRequest(subs[i]) \/ NoneParked(queue, subs[i].owner)
  /\ subs' = [subs EXCEPT ![i] = KeepAliveCounted(@)]
  /\ AdvanceCursor
  /\ out' = {}
  /\ UNCHANGED <<link, state, home, nextId, queue, earlier, now>>

(* Nothing to report and the keep-alive count not reached, or no request parked. *)
PublishSilent(i) ==
  /\ Due(i)
  /\ ~WantsRequest(subs[i]) \/ NoneParked(queue, subs[i].owner)
  /\ Age(i, KeepAliveCounted(subs[i]), queue, link, {})

(* Mutant: a request past its timeoutHint is dropped without the fault. *)
PublishTimedOutUnanswered(i) ==
  /\ Due(i)
  /\ WantsRequest(subs[i])
  /\ \E r \in ReqSlot :
       /\ Oldest(queue, subs[i].owner, r)
       /\ Age(i, KeepAliveCounted(subs[i]), Dequeue(queue, r), link, {})

(* The oldest request had a timeoutHint and is past it: Bad_Timeout, and no *)
(* other request is tried.                                                  *)
PublishTimedOut(i) ==
  /\ Due(i)
  /\ WantsRequest(subs[i])
  /\ \E r \in ReqSlot, o \in OutcomeOn(home[subs[i].owner]) :
       LET c == home[subs[i].owner] IN
       /\ Oldest(queue, subs[i].owner, r)
       /\ Age(i, KeepAliveCounted(subs[i]), Dequeue(queue, r), LinkAfter(link, c, o),
              Emitted(link, o, Answer("fault", c, r, 0, 0)))

(* The notification or the keep-alive is emitted. *)
PublishAnswer(i) ==
  /\ Due(i)
  /\ WantsRequest(subs[i])
  /\ \E r \in ReqSlot, o \in {"sent", "lost"}, fits, more \in BOOLEAN :
       LET c == home[subs[i].owner]
           kind == IF HasData(subs[i]) THEN "data" ELSE "keepalive" IN
       /\ Oldest(queue, subs[i].owner, r)
       /\ Age(i, Reported(subs[i], fits, more), Dequeue(queue, r), LinkAfter(link, c, o),
              {Answer(kind, c, r, subs[i].id, subs[i].seq)})

(* The response is too large (a fault is sent in its place) or cannot be sent: *)
(* the request is spent and the notifications stay.                           *)
PublishFailed(i) ==
  /\ Due(i)
  /\ WantsRequest(subs[i])
  /\ \E r \in ReqSlot, o \in OutcomeOn(home[subs[i].owner]) :
       LET c == home[subs[i].owner] IN
       /\ HasData(subs[i]) \/ o = "unsent"
       /\ Oldest(queue, subs[i].owner, r)
       /\ Age(i, KeepAliveCounted(subs[i]), Dequeue(queue, r), LinkAfter(link, c, o),
              Emitted(link, o, Answer("fault", c, r, 0, 0)))

PublishSlot(i) ==
  PublishSilent(i) \/ PublishTimedOut(i) \/ PublishAnswer(i) \/ PublishFailed(i)

Next ==
  \/ \E c \in Conn : Connect(c) \/ Disconnect(c)
  \/ \E s \in Session, c \in Conn : OpenSession(s, c)
  \/ \E s \in Session : CloseSession(s)
  \/ \E s \in Session, req \in Requested, b \in BOOLEAN : CreateSubscription(s, req, b)
  \/ \E s \in Session, i \in SubSlot, req \in Requested : ModifySubscription(s, i, req)
  \/ \E s \in Session, i \in SubSlot, b \in BOOLEAN : SetPublishingMode(s, i, b)
  \/ \E s \in Session, i \in SubSlot :
       \/ DeleteSubscription(s, i)
       \/ Transfer(s, i)
       \/ ChangeItems(s, i)
  \/ \E s \in Session, ack \in SUBSET SubSlot :
       Publish(s, ack) \/ PublishEvicting(s, ack) \/ PublishRefused(s, ack)
  \/ \E T \in SUBSET Session, sampled \in SUBSET SubSlot : BeginPublish(T, sampled)
  \/ SkipSlot
  \/ \E i \in SubSlot : PublishSlot(i)

Spec == Init /\ [][Next]_vars

-----------------------------------------------------------------------------
(* What the environment of the server guarantees: the application keeps        *)
(* calling mu_server_poll, and time passes, so that a publishing timer that    *)
(* was looked at in every poll is found due again and again.                   *)
Fairness ==
  /\ WF_vars(\E T \in SUBSET Session, sampled \in SUBSET SubSlot : BeginPublish(T, sampled))
  /\ WF_vars(SkipSlot \/ \E i \in SubSlot : PublishSlot(i))
  /\ \A i \in SubSlot : SF_vars(PublishSlot(i))

FairSpec == Spec /\ Fairness

-----------------------------------------------------------------------------
(* Properties *)

(* Every variable stays in its range; in particular the lifetime counter, which  *)
(* publish_due increments and ModifySubscription never resets, does not wrap.    *)
TypeOK ==
  /\ link \in [Conn -> {"idle", "open", "lost"}]
  /\ state \in [Session -> {"none", "active", "closed"}]
  /\ home \in [Session -> Conn \cup {NoConn}]
  /\ subs \in [SubSlot -> SubType]
  /\ nextId \in 1 .. MaxId
  /\ queue \in [ReqSlot -> ReqType]
  /\ earlier \subseteq ReqSlot \X ReqSlot
  /\ now \in 0 .. MaxNow
  /\ cursor \in 0 .. NSubs
  /\ out \subseteq Message

(* allocate_subscription_id hands out no id that a Subscription still bears, even *)
(* after the counter has wrapped, and never 0: an id names one Subscription.      *)
UniqueIds ==
  \A i, j \in SubSlot : subs[i].in_use =>
    subs[i].id # 0 /\ (subs[j].in_use /\ subs[j].id = subs[i].id => i = j)

(* What Republish can return is the notification that was numbered last, across  *)
(* keep-alives (which use the next number without taking it), status changes,    *)
(* transfers, acknowledgements and the wrap of the sequence number.              *)
RetransmitIsLast ==
  \A i \in SubSlot : subs[i].in_use /\ subs[i].retransmit # 0 =>
    AdvanceSeq(subs[i].retransmit) = subs[i].seq

(* A Subscription takes a new sequence number exactly when a notification with  *)
(* the old one was handed to the transport: no gap and no number used twice.    *)
SequenceUnbroken ==
  [][\A i \in SubSlot :
       subs[i].in_use /\ subs'[i].in_use /\ subs'[i].id = subs[i].id =>
         /\ subs'[i].seq # subs[i].seq =>
              /\ subs'[i].seq = AdvanceSeq(subs[i].seq)
              /\ \E m \in out' : m.kind \in {"data", "status"} /\ m.sub = subs[i].id /\ m.seq = subs[i].seq
         /\ \A m \in out' : m.kind \in {"data", "status"} /\ m.sub = subs[i].id =>
              m.seq = subs[i].seq /\ subs'[i].seq # subs[i].seq]_vars

(* A Subscription that answers a Publish request in a cycle is not expired by the *)
(* lifetime check at the end of the same cycle, whatever counts were negotiated.  *)
ServedSurvives ==
  [][\A i \in SubSlot, m \in out' :
       subs[i].in_use /\ m.kind \in {"data", "keepalive"} /\ m.sub = subs[i].id
         => subs'[i].in_use]_vars

(* In the publishing cycle every answer goes to the connection of the Session that *)
(* parked the request. And requests of different milliseconds are answered in the  *)
(* order they came: no older request of the Session stays behind the one that is   *)
(* answered.                                                                       *)
AnsweredInTurn ==
  [][\A m \in out' :
       /\ cursor # 0 => queue[m.slot].in_use /\ home[queue[m.slot].owner] = m.conn
       /\ \A r \in ReqSlot :
            m.slot # 0 /\ queue'[r] = queue[r] /\ Parked(queue, queue[m.slot].owner, r) /\ r # m.slot
              => queue[r].stamp >= queue[m.slot].stamp]_vars

NoSilentDropStep ==
  \A r \in ReqSlot :
    LET s == queue[r].owner IN
    queue[r].in_use /\ ~queue'[r].in_use /\ Reachable(s) /\ ~(\E m \in out' : m.slot = r)
      => \/ OwnsNone(subs', s)
         \/ NoneParked(queue', s) /\ \E i \in SubSlot : Owns(subs', s, i) /\ ~subs'[i].enabled
         \/ home[s] \in Secure
         \/ \E t \in Session, i \in SubSlot : Owns(subs, s, i) /\ Owns(subs', t, i) /\ home[t] \in Secure
         \/ link'[home[s]] # "open"

(* A request of a connected Session leaves the queue without an answer only when   *)
(* the Session has no Subscription left, when SetPublishingMode disables one of    *)
(* its Subscriptions, or when the response could not be secured (on the channel of *)
(* the Session, or of the one its Subscription is transferred to) or its           *)
(* connection was lost in the sending.                                             *)
NoSilentDrop == [][NoSilentDropStep]_vars

(* A Session with a connection, a Subscription and a parked request keeps being    *)
(* answered: by notifications, by keep-alives or by faults.                        *)
KeepsAnswering ==
  \A s \in Session :
    []<>(\/ ~Reachable(s) \/ OwnsNone(subs, s) \/ NoneParked(queue, s)
         \/ \E m \in out : m.slot # 0 /\ m.conn = home[s])

(* Once no client publishes, creates a Subscription or sets the publishing mode,   *)
(* the lifetime counter ends every Subscription of a connected Session.            *)
Sustains == \E s \in Session :
  \/ \E req \in Requested, b \in BOOLEAN : CreateSubscription(s, req, b)
  \/ \E i \in SubSlot, b \in BOOLEAN : SetPublishingMode(s, i, b)
  \/ \E ack \in SUBSET SubSlot : Publish(s, ack) \/ PublishEvicting(s, ack)

LifetimeEnforced ==
  <>[][~Sustains]_vars =>
    <>[](\A i \in SubSlot : subs[i].in_use => ~Reachable(subs[i].owner))

-----------------------------------------------------------------------------
(* What comments and documents of the repository say, and the code does not do *)

(* "Called when SetPublishingMode disables publishing or when the last Subscription *)
(* for a session is deleted" (subscription.h, mu_publish_request_queue_clear): a     *)
(* parked request belongs to a Session that still has a Subscription.                *)
NoStrandedRequest ==
  \A r \in ReqSlot : queue[r].in_use => ~OwnsNone(subs, queue[r].owner)

(* "report the sequence numbers still available for Republish"                       *)
(* (handle_transfer_subscriptions): the number in the reply can be republished.      *)
TransferReportsAvailable ==
  [][\A m \in out', i \in SubSlot :
       m.slot = 0 /\ m.seq # 0 /\ subs'[i].in_use /\ subs'[i].id = m.sub
         => RepublishFinds(subs'[i], m.seq)]_vars

(* "notify the OLD Session" (handle_transfer_subscriptions): an answer to a parked   *)
(* request goes to the connection of the Session that parked it.                     *)
AnswersOwner ==
  [][\A m \in out' : m.slot # 0 => home[queue[m.slot].owner] = m.conn]_vars

(* "Dispatch writes the response body directly into the send buffer past the fixed   *)
(* UASC header, then a finalize step frames the chunk" (handle_data_chunk_plaintext):*)
(* what is framed is the body dispatch wrote.                                        *)
ReplyIntact == \A m \in out : m.kind # "garbled"

(* "evicts the OLDEST parked request" (docs/build-and-gating.md, opc_cu_3143).       *)
EvictsOldest ==
  [][\A r, t \in ReqSlot, m \in out' :
       cursor = 0 /\ m.slot = t /\ m.kind = "fault" /\ Parked(queue, queue[t].owner, r)
         => <<r, t>> \notin earlier]_vars

=============================================================================
