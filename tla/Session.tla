------------------------------ MODULE Session ------------------------------
(* The Session table of a server with several connections: CreateSession,    *)
(* ActivateSession, CloseSession, the checks every other request passes       *)
(* before it is executed, the idle timeout, the Subscriptions that hang on a  *)
(* Session and the two diagnostics counters that follow them.                 *)
(* services/session.c, core/service_dispatch/{dispatch_core,create_session,   *)
(* activate_session,close_session}.c, core/server/poll.c and diagnostics.c.   *)
(*                                                                            *)
(* A request that is refused changes nothing but tallies of refusals, which   *)
(* are left out: it is a stuttering step.                                     *)
EXTENDS Integers, FiniteSets

CONSTANTS
  NSess,       \* MU_INTERN_MAX_SESSIONS
  NSubs,       \* MU_INTERN_MAX_SUBSCRIPTIONS
  Id,          \* values of a SessionId, 0 excepted
  Token,       \* values of an authenticationToken, 0 excepted
  Chan,        \* SecureChannel ids
  User,        \* what mu_session_same_user compares
  MinTimeout,  \* MU_SESSION_TIMEOUT_MIN
  MaxTimeout,  \* MU_SESSION_TIMEOUT_MAX
  Requested,   \* Session timeouts clients ask for
  ChangeUser,  \* MUC_OPCUA_CU_SESSION_CHANGE_USER
  MaxCount     \* bound on current_subscription_count

ASSUME SessionAssumption ==
  /\ NSess \in Nat \ {0}
  /\ NSubs \in Nat
  /\ 0 \notin Id \cup Token \cup Chan \cup User
  /\ MinTimeout \in Nat \ {0}
  /\ MaxTimeout \in Nat
  /\ MinTimeout <= MaxTimeout
  /\ Requested \subseteq Int
  /\ ChangeUser \in BOOLEAN
  /\ MaxCount \in Nat

VARIABLES
  sess,     \* server->sessions
  subs,     \* session_id of each Subscription in use, 0 of a free one
  chans,    \* ids of the open SecureChannels
  told,     \* the nonce each slot's client was last given with a good result
  current,  \* current_session_count and current_subscription_count
  zero      \* get_tick_ms still returns 0

vars == <<sess, subs, chans, told, current, zero>>

Slot == 1 .. NSess

SubSlot == 1 .. NSubs

(* A Session last active at tick 0 has last_activity_ms = 0: stamped is FALSE. *)
(* quiet is the time since then, up to one more than the longest timeout.      *)
SessionType ==
  [state : {"closed", "created", "activated"}, id : Id \cup {0}, token : Token \cup {0},
   chan : Chan \cup {0}, timeout : 0 .. MaxTimeout, quiet : 0 .. MaxTimeout + 1,
   stamped : BOOLEAN, user : User \cup {0}, nonce : {0, 1}]

(* The fields of a closed slot that are overwritten before they are read next *)
(* are cleared here; its token still tells Bad_SessionClosed.                 *)
Closed(token) ==
  [state |-> "closed", id |-> 0, token |-> token, chan |-> 0, timeout |-> 0, quiet |-> 0,
   stamped |-> FALSE, user |-> 0, nonce |-> 0]

Open(s) == sess[s].state # "closed"

OpenSlots == {s \in Slot : Open(s)}

UsedSubs == {j \in SubSlot : subs[j] # 0}

(* One type invariant: an open Session has an id, and a timeout the server    *)
(* grants, whatever was asked for (clamp_timeout_bits), and the counters are  *)
(* those of unsigned integers that never wrapped below 0.                     *)
TypeOK ==
  /\ sess \in [Slot -> SessionType]
  /\ \A s \in Slot : Open(s) => sess[s].timeout >= MinTimeout /\ sess[s].id # 0
  /\ subs \in [SubSlot -> Id \cup {0}]
  /\ chans \subseteq Chan
  /\ told \in [Slot -> {0, 1}]
  /\ current \in [sessions : Nat, subs : Nat]
  /\ zero \in BOOLEAN

Init ==
  /\ sess = [s \in Slot |-> Closed(0)]
  /\ subs = [j \in SubSlot |-> 0]
  /\ chans = {}
  /\ told = [s \in Slot |-> 0]
  /\ current = [sessions |-> 0, subs |-> 0]
  /\ zero \in BOOLEAN

-----------------------------------------------------------------------------
(* Helpers *)

(* mu_session_find_free: the first closed slot. *)
FirstFree(s) == ~Open(s) /\ \A t \in Slot : ~Open(t) => s <= t

(* Mutant: the drawn id is taken as it is. *)
AnyId(i) == i \in Id

(* mu_session_generate_session_id: an id no open Session bears. *)
FreshId(i) == i \in Id /\ \A s \in Slot : Open(s) => sess[s].id # i

(* mu_session_generate_authentication_token. *)
FreshToken(t) == t \in Token /\ \A s \in Slot : Open(s) => sess[s].token # t

(* clamp_timeout_bits *)
Clamp(d) == IF d < MinTimeout THEN MinTimeout ELSE IF d > MaxTimeout THEN MaxTimeout ELSE d

(* mu_session_find_by_token, mu_session_validate_secure_channel. *)
Names(h, t, s) == Open(s) /\ sess[s].token = t /\ sess[s].chan = h

(* mu_service_dispatch executes a request on channel h with token t for s. *)
Executes(h, t, s) == h \in chans /\ Names(h, t, s) /\ sess[s].state = "activated"

(* last_activity_ms = now. *)
Touched(r) == [r EXCEPT !.quiet = 0, !.stamped = ~zero]

(* mu_diagnostics_session_closed and _subscription_closed, k times. *)
Less(n, k) == IF n > k THEN n - k ELSE 0

SubsOf(S) == {j \in UsedSubs : \E s \in S : subs[j] = sess[s].id}

(* Mutant: the Subscriptions of an ended Session are not deleted. *)
EndsOnly(S) ==
  /\ sess' = [s \in Slot |-> IF s \in S THEN Closed(sess[s].token) ELSE sess[s]]
  /\ UNCHANGED subs
  /\ current' = [current EXCEPT !.sessions = Less(@, Cardinality(S))]

(* The Sessions S end, their Subscriptions are deleted, and all are counted.  *)
Ends(S) ==
  /\ sess' = [s \in Slot |-> IF s \in S THEN Closed(sess[s].token) ELSE sess[s]]
  /\ subs' = [j \in SubSlot |-> IF j \in SubsOf(S) THEN 0 ELSE subs[j]]
  /\ current' = [sessions |-> Less(current.sessions, Cardinality(S)),
                 subs |-> Less(current.subs, Cardinality(SubsOf(S)))]

-----------------------------------------------------------------------------
(* Session services *)

(* Mutant: counted as soon as the slot is taken. *)
CountsEarly(ok) == TRUE

(* mu_diagnostics_session_created comes after the last step that can fail. *)
CountsCreated(ok) == ok

(* handle_create_session on channel h: the first free slot, a fresh id and    *)
(* token, a new nonce. When the response cannot be encoded (ok is FALSE) the  *)
(* slot is closed again.                                                      *)
CreateSession(h, d, ok) ==
  \E s \in Slot, i \in Id, t \in Token :
    /\ h \in chans
    /\ FirstFree(s)
    /\ FreshId(i)
    /\ FreshToken(t)
    /\ LET new == [state |-> "created", id |-> i, token |-> t, chan |-> h, timeout |-> Clamp(d),
                   quiet |-> 0, stamped |-> ~zero, user |-> 0, nonce |-> 1 - told[s]]
       IN  sess' = [sess EXCEPT ![s] = IF ok THEN new ELSE Closed(t)]
    /\ told' = [told EXCEPT ![s] = IF ok THEN 1 - @ ELSE @]
    /\ current' = [current EXCEPT !.sessions = IF CountsCreated(ok) THEN @ + 1 ELSE @]
    /\ UNCHANGED <<subs, chans, zero>>

(* Mutant: the new nonce is stored before the response is written. *)
StoresNonce(ok) == TRUE

(* The nonce is copied into the slot after the last write succeeded. *)
KeepsNonce(ok) == ok

(* The nonce of s after an activation, new if it is kept. *)
Nonce(s, ok) == IF KeepsNonce(ok) THEN 1 - sess[s].nonce ELSE sess[s].nonce

(* handle_activate_session, the identity accepted: the Session is activated,  *)
(* whether or not the response with the new nonce can then be written (ok).   *)
ActivateSession(h, t, u, ok) ==
  \E s \in Slot :
    /\ h \in chans
    /\ Names(h, t, s)
    /\ sess[s].state = "created" \/ ChangeUser
    /\ sess' = [sess EXCEPT ![s] =
                  [Touched(@) EXCEPT !.state = "activated", !.user = u, !.nonce = Nonce(s, ok)]]
    /\ told' = [told EXCEPT ![s] = IF ok THEN 1 - @ ELSE @]
    /\ UNCHANGED <<subs, chans, current, zero>>

(* handle_close_session *)
CloseSession(h, t) ==
  \E s \in Slot :
    /\ Executes(h, t, s)
    /\ Ends({s})
    /\ UNCHANGED <<chans, told, zero>>

(* Any service that leaves Sessions and Subscriptions alone. *)
OtherRequest(h, t) ==
  \E s \in Slot :
    /\ Executes(h, t, s)
    /\ sess' = [sess EXCEPT ![s] = Touched(@)]
    /\ UNCHANGED <<subs, chans, told, current, zero>>

-----------------------------------------------------------------------------
(* Subscriptions, as far as Sessions own them *)

(* handle_create_subscription, with a free slot. *)
CreateSubscription(h, t) ==
  \E s \in Slot, j \in SubSlot :
    /\ Executes(h, t, s)
    /\ subs[j] = 0
    /\ \A k \in SubSlot : subs[k] = 0 => j <= k
    /\ current.subs < MaxCount
    /\ subs' = [subs EXCEPT ![j] = sess[s].id]
    /\ current' = [current EXCEPT !.subs = @ + 1]
    /\ sess' = [sess EXCEPT ![s] = Touched(@)]
    /\ UNCHANGED <<chans, told, zero>>

(* Only what mu_subscription_delete found is counted. *)
CountsDelete(s, j) == subs[j] = sess[s].id

(* delete_subscription_result for the id of Subscription j, which may be      *)
(* another Session's or none.                                                 *)
DeleteSubscription(h, t, j) ==
  \E s \in Slot :
    /\ Executes(h, t, s)
    /\ subs' = [subs EXCEPT ![j] = IF @ = sess[s].id THEN 0 ELSE @]
    /\ current' = [current EXCEPT !.subs = IF CountsDelete(s, j) THEN Less(@, 1) ELSE @]
    /\ sess' = [sess EXCEPT ![s] = Touched(@)]
    /\ UNCHANGED <<chans, told, zero>>

(* handle_transfer_subscriptions of one Subscription: refused when its owner  *)
(* is open and of another user, given to the caller otherwise, also when it   *)
(* has no owner.                                                              *)
TransferSubscription(h, t, j) ==
  \E s \in Slot :
    /\ Executes(h, t, s)
    /\ subs[j] \notin {0, sess[s].id}
    /\ \A o \in Slot : Open(o) /\ sess[o].id = subs[j] => sess[o].user = sess[s].user
    /\ subs' = [subs EXCEPT ![j] = sess[s].id]
    /\ sess' = [sess EXCEPT ![s] = Touched(@)]
    /\ UNCHANGED <<chans, told, current, zero>>

(* The lifetime of a Subscription ends (publish_due, which only visits those  *)
(* whose Session has a connection): freed, not counted.                       *)
LifetimeEnds(j) ==
  /\ subs[j] # 0
  /\ \E s \in Slot : Open(s) /\ sess[s].id = subs[j] /\ sess[s].chan \in chans
  /\ subs' = [subs EXCEPT ![j] = 0]
  /\ UNCHANGED <<sess, chans, told, current, zero>>

-----------------------------------------------------------------------------
(* The poll loop and the connections *)

(* Mutant: Sessions that were never activated are passed over. *)
ExpiredActivated ==
  {s \in Slot : sess[s].state = "activated" /\ sess[s].stamped /\ sess[s].quiet > sess[s].timeout}

(* Sessions the background step of a poll finds idle for too long. *)
Expired == {s \in Slot : Open(s) /\ sess[s].stamped /\ sess[s].quiet > sess[s].timeout}

(* mu_server_poll_background: one pass over all Sessions. *)
SessionTimeout ==
  /\ ~zero
  /\ Expired # {}
  /\ Ends(Expired)
  /\ UNCHANGED <<chans, told, zero>>

(* A millisecond passes. *)
Tick ==
  /\ sess' = [s \in Slot |-> IF Open(s) /\ sess[s].quiet <= MaxTimeout
                             THEN [sess[s] EXCEPT !.quiet = @ + 1] ELSE sess[s]]
  /\ zero' = FALSE
  /\ UNCHANGED <<subs, chans, told, current>>

(* OpenSecureChannel on some connection: an id no open channel has. *)
OpenChannel(h) ==
  /\ h \notin chans
  /\ chans' = chans \cup {h}
  /\ UNCHANGED <<sess, subs, told, current, zero>>

(* The channel is closed or its connection lost: Sessions are left as they are. *)
CloseChannel(h) ==
  /\ h \in chans
  /\ chans' = chans \ {h}
  /\ UNCHANGED <<sess, subs, told, current, zero>>

Next ==
  \/ SessionTimeout
  \/ Tick
  \/ \E j \in SubSlot : LifetimeEnds(j)
  \/ \E h \in Chan :
       \/ OpenChannel(h)
       \/ CloseChannel(h)
       \/ \E d \in Requested, ok \in BOOLEAN : CreateSession(h, d, ok)
       \/ \E t \in Token :
            \/ \E u \in User, ok \in BOOLEAN : ActivateSession(h, t, u, ok)
            \/ CloseSession(h, t)
            \/ OtherRequest(h, t)
            \/ CreateSubscription(h, t)
            \/ \E j \in SubSlot : DeleteSubscription(h, t, j) \/ TransferSubscription(h, t, j)

Spec == Init /\ [][Next]_vars

(* Time passes and mu_server_poll keeps being called; clients owe nothing.    *)
FairSpec == Spec /\ WF_vars(Tick) /\ WF_vars(SessionTimeout)

-----------------------------------------------------------------------------
(* Properties *)

(* No two open Sessions share an id or a token, so that mu_session_find_by_   *)
(* token and the search for a Subscription's owner have one answer.           *)
UniqueSessions ==
  \A s, t \in Slot :
    Open(s) /\ Open(t) /\ s # t => sess[s].id # sess[t].id /\ sess[s].token # sess[t].token

(* Every Subscription belongs to an open, activated Session: closing, timing  *)
(* out, transferring and the reuse of slots and ids never leave one without,  *)
(* so the branch of handle_transfer_subscriptions that finds no owner, and    *)
(* compares no users, is never taken.                                         *)
NoOrphanSubscription ==
  \A j \in SubSlot : subs[j] # 0 =>
    \E s \in Slot : sess[s].state = "activated" /\ sess[s].id = subs[j]

(* current_session_count is the number of open Sessions, through late         *)
(* failures of CreateSession and timeouts (create_session.c: "Balanced by     *)
(* mu_diagnostics_session_closed at CloseSession / idle timeout").            *)
SessionsCounted == current.sessions = Cardinality(OpenSlots)

(* current_subscription_count never falls below the number of Subscriptions   *)
(* in use; ends of a lifetime are not counted, so it may exceed it.           *)
SubscriptionsCovered == current.subs >= Cardinality(UsedSubs)

(* The diagnostics counts follow the tables: Sessions exactly, Subscriptions  *)
(* from above.                                                                *)
CountsFollow == SessionsCounted /\ SubscriptionsCovered

(* The nonce the next client signature is checked against is the one the      *)
(* client was last given with a good result, though activation and the        *)
(* writing of its response can fail separately.                               *)
NonceAgrees == \A s \in Slot : Open(s) => sess[s].nonce = told[s]

(* A Session whose client falls silent, or that is never activated, does not  *)
(* keep its slot: again and again it is closed or just used. A Session last   *)
(* active at tick 0 is excepted: last_activity_ms = 0 counts as unset.        *)
IdleEnds ==
  \A s \in Slot : []<>(~Open(s) \/ sess[s].quiet = 0 \/ ~sess[s].stamped)
=============================================================================
