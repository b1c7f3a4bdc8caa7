------------------------------ MODULE Channel ------------------------------
(***************************************************************************)
(* Connections and SecureChannels: the poll loop that accepts, times out   *)
(* and reads connections, the routing of HEL, OPN, MSG, CLO and            *)
(* continuation chunks, sequence and token checks, OpenSecureChannel and   *)
(* its renewal, the numbering of responses, and the chunk assembler the    *)
(* connections share.                                                      *)
(*                                                                         *)
(* On the other end of every connection is a client that follows the       *)
(* protocol: it numbers its chunks, waits for the answer to an             *)
(* OpenSecureChannel before it sends more, and keeps the channel id and    *)
(* token of the last answer.  TCP is reliable and in order, so "wire" and  *)
(* "back" are queues; they vanish with the connection.  Chunks carry no    *)
(* bytes: a continuation is the number of its part of the message.         *)
(***************************************************************************)
EXTENDS Integers, Sequences

CONSTANTS
  NConns,        \* MU_INTERN_MAX_CONNECTIONS
  MultiConn,     \* the build has MUC_OPCUA_CU_MULTIPLE_CONNECTIONS
  Secured,       \* a crypto adapter is configured and clients use a policy other than None
  IdMod,         \* channel ids are taken modulo IdMod, 2^32 in the code
  Stride,        \* the step between candidate ids, 0x9E3779B9 in the code
  TokMod,        \* token ids are taken modulo TokMod, 2^32 in the code
  SeqMod,        \* sequence numbers are taken modulo SeqMod, 2^32 in the code
  WrapFloor,     \* the number above which wrapping is allowed, 4294966271 in the code
  WrapCeil,      \* the number below which wrapping leads, 1024 in the code
  AsmCap,        \* the parts MU_CHUNK_ASSEMBLY_BUFFER_SIZE holds
  ConnectLimit,  \* MU_CONNECT_TIMEOUT_MS
  Lifetime,      \* revised_lifetime
  MaxParts,      \* the chunks a client splits a request into
  CountsAll,     \* clients number continuation chunks too, as OPC 10000-6 6.7.2.4 has it
  Mistakes,      \* clients may misnumber a request, or send one before opening a channel
  MaxQueue,      \* bound: chunks and responses in flight on a connection
  MaxPend,       \* bound: requests a client has outstanding, Publish requests not counted
  MaxAge         \* bound: the ticks counted; no time passes if it is 0

ASSUME ChannelAssumption ==
  /\ NConns \in Nat \ {0}
  /\ MultiConn \in BOOLEAN
  /\ ~MultiConn => NConns = 1
  /\ Secured \in BOOLEAN
  /\ Secured => MaxParts = 1
  /\ IdMod \in Nat \ {0, 1}
  /\ Stride \in Nat
  /\ TokMod \in Nat \ {0}
  /\ SeqMod \in Nat \ {0}
  /\ WrapFloor \in Nat
  /\ WrapCeil \in 0 .. SeqMod
  /\ AsmCap \in Nat
  /\ ConnectLimit \in Nat
  /\ Lifetime \in Nat
  /\ MaxParts \in Nat \ {0}
  /\ CountsAll \in BOOLEAN
  /\ Mistakes \in BOOLEAN
  /\ MaxQueue \in Nat
  /\ MaxPend \in Nat
  /\ MaxAge \in Nat

VARIABLES
  at,       \* where mu_server_poll is: 0 accept, c the connection visited, NConns + 1 background
  rx,       \* whole chunks left in the receive buffer of the connection visited
  live,     \* live[c]: client_handle # NULL
  est,      \* est[c]: tcp_conn.state is ESTABLISHED
  idle,     \* idle[c]: ticks since last_activity_ms
  age,      \* age[c]: ticks since accept, until a channel is opened (history)
  chan,     \* chan[c]: secure_channel
  parked,   \* parked[c]: a Publish request of this channel waits to be answered
  asm,      \* chunk_assembly: the parts collected
  wire,     \* wire[c]: chunks from the client
  back,     \* back[c]: responses to the client
  peer,     \* peer[c]: the client
  aborted,  \* aborted[c]: abort_connection ended the last connection of c (history)
  whole     \* the last request dispatched was the parts of one message in order (history)

vars == <<at, rx, live, est, idle, age, chan, parked, asm, wire, back, peer, aborted, whole>>

Slot == 1 .. NConns
Background == NConns + 1
Id == 0 .. IdMod - 1
Token == 0 .. TokMod - 1
Number == 0 .. SeqMod - 1
None == -1

-----------------------------------------------------------------------------
(* Records *)

(* pol: policy is not None; seen and last: the sequence validator;            *)
(* out: out_sequence_number                                                   *)
NoChan == [open |-> FALSE, id |-> 0, token |-> 0, pol |-> FALSE, seen |-> FALSE,
           last |-> 0, out |-> 0]

ChanType == [open : BOOLEAN, id : Id, token : Token, pol : BOOLEAN, seen : BOOLEAN,
             last : Number, out : Number]

Chunk == [type : {"HEL", "OPN", "MSG", "CON", "ABT", "CLO"}, id : Id, token : Token,
          seq : Number, svc : {"none", "call", "publish", "close"}, part : 1 .. MaxParts,
          bad : BOOLEAN]

(* to: what is answered; an "error" answers nothing *)
Response == [to : {"hello", "error", "open", "call", "publish", "close"}, ok : BOOLEAN,
             id : Id, token : Token, seq : Number]

Ack == [to |-> "hello", ok |-> TRUE, id |-> 0, token |-> 0, seq |-> 0]
Err == [to |-> "error", ok |-> FALSE, id |-> 0, token |-> 0, seq |-> 0]

(* seq: the last number sent; got: the last number received on this channel;  *)
(* part: the parts sent of the current request; pend: requests unanswered,    *)
(* Publish requests not counted                                               *)
NewPeer == [phase |-> "new", id |-> 0, token |-> 0, seq |-> None, got |-> None,
            part |-> 0, pend |-> 0]

PeerType == [phase : {"new", "hello", "ready", "opening", "open", "closing", "done"},
             id : Id, token : Token, seq : Number \cup {None}, got : Number \cup {None},
             part : 0 .. MaxParts - 1, pend : 0 .. MaxPend]

Piece == Slot \X (1 .. MaxParts)

NoAsm == [active |-> FALSE, parts |-> <<>>]

TypeOK ==
  /\ at \in 0 .. Background
  /\ rx \in 0 .. MaxQueue
  /\ live \in [Slot -> BOOLEAN]
  /\ est \in [Slot -> BOOLEAN]
  /\ idle \in [Slot -> 0 .. MaxAge]
  /\ age \in [Slot -> 0 .. MaxAge]
  /\ chan \in [Slot -> ChanType]
  /\ parked \in [Slot -> BOOLEAN]
  /\ asm \in [active : BOOLEAN, parts : Seq(Piece)]
  /\ Len(asm.parts) <= AsmCap
  /\ wire \in [Slot -> Seq(Chunk)]
  /\ back \in [Slot -> Seq(Response)]
  /\ peer \in [Slot -> PeerType]
  /\ aborted \in [Slot -> BOOLEAN]
  /\ whole \in BOOLEAN

Init ==
  /\ at = 0
  /\ rx = 0
  /\ live = [c \in Slot |-> FALSE]
  /\ est = [c \in Slot |-> FALSE]
  /\ idle = [c \in Slot |-> 0]
  /\ age = [c \in Slot |-> 0]
  /\ chan = [c \in Slot |-> NoChan]
  /\ parked = [c \in Slot |-> FALSE]
  /\ asm = NoAsm
  /\ wire = [c \in Slot |-> <<>>]
  /\ back = [c \in Slot |-> <<>>]
  /\ peer = [c \in Slot |-> NewPeer]
  /\ aborted = [c \in Slot |-> FALSE]
  /\ whole = TRUE

-----------------------------------------------------------------------------
(* Sequence numbers, tokens and ids *)

(* The numbers that may follow n; a client starts with any. *)
NextNumbers(n) ==
  IF n = None THEN Number
  ELSE {(n + 1) % SeqMod} \cup (IF n > WrapFloor THEN 0 .. WrapCeil - 1 ELSE {})

(* Mutant: the wrap around is not allowed for. *)
SequenceNoWrap(ch, n) == ~ch.seen \/ n = (ch.last + 1) % SeqMod

(* mu_sequence_validate *)
SequenceOK(ch, n) ==
  \/ ~ch.seen
  \/ n = (ch.last + 1) % SeqMod
  \/ ch.last > WrapFloor /\ n < WrapCeil

(* accept_inbound_chunk *)
AcceptsChunk(ch, k) ==
  /\ k.type # "OPN" => k.id = ch.id /\ k.token = ch.token
  /\ SequenceOK(ch, k.seq)

Sequenced(ch, k) == [ch EXCEPT !.seen = TRUE, !.last = k.seq]

(* secure_channel_id_used_by_other_connection *)
UsedByOther(c, id) == \E d \in Slot \ {c} : live[d] /\ chan[d].open /\ chan[d].id = id

(* The ids generate_channel_id and ensure_unique_secure_channel_id try, from  *)
(* the random number r: 0 is replaced by 1, then steps of Stride.             *)
Candidates(r) ==
  LET NonZero(i) == IF i = 0 THEN 1 ELSE i
      try[n \in 0 .. NConns] ==
        IF n = 0 THEN NonZero(r) ELSE NonZero((try[n - 1] + Stride) % IdMod)
  IN  try

(* Mutant: the id is not compared with those of other connections. *)
FirstDrawn(c, r, id) == id = Candidates(r)[0]

(* id is the first candidate after the random number r that is free. *)
FirstFree(c, r, id) ==
  LET try == Candidates(r) IN
  \E n \in 0 .. NConns :
    /\ id = try[n]
    /\ ~UsedByOther(c, id)
    /\ \A m \in 0 .. n - 1 : UsedByOther(c, try[m])

Exhausted(c, r) == \A n \in 0 .. NConns : UsedByOther(c, Candidates(r)[n])

-----------------------------------------------------------------------------
(* How the handling of a chunk ends *)

(* The connection goes on: the chunk is consumed, the buffer's next one is    *)
(* handled or the visit ends.                                                 *)
Consume(c) ==
  /\ rx' = rx - 1
  /\ at' = IF rx = 1 THEN at + 1 ELSE at
  /\ wire' = [wire EXCEPT ![c] = Tail(@)]
  /\ UNCHANGED <<live, idle, peer, aborted>>

(* close_connection and client_handle = NULL: what was in flight is lost.     *)
(* The channel stays as it is until the slot is accepted into again.          *)
Disconnect(c, abort) ==
  /\ live' = [live EXCEPT ![c] = FALSE]
  /\ idle' = [idle EXCEPT ![c] = 0]
  /\ age' = [age EXCEPT ![c] = 0]
  /\ parked' = [parked EXCEPT ![c] = FALSE]
  /\ wire' = [wire EXCEPT ![c] = <<>>]
  /\ back' = [back EXCEPT ![c] = <<>>]
  /\ peer' = [peer EXCEPT ![c] = NewPeer]
  /\ aborted' = [aborted EXCEPT ![c] = abort]

(* The connection being visited is closed. *)
Closes(c, abort) ==
  /\ Disconnect(c, abort)
  /\ rx' = 0
  /\ at' = at + 1

(* send_buffer_chunk, on a channel that is left as ch: the response is        *)
(* written, or a failed or short write closes the connection.                 *)
Sends(c, r, ch) ==
  \/ /\ Consume(c)
     /\ back' = [back EXCEPT ![c] = Append(@, r)]
     /\ parked' = [parked EXCEPT ![c] = @ /\ ch.open]
     /\ age' = [age EXCEPT ![c] = IF ch.open THEN 0 ELSE @]
  \/ Closes(c, FALSE)

(* Mutant: the incremented number is not stored. *)
NotCounted(ch) == [ch EXCEPT !.out = 0]

(* ++out_sequence_number *)
Counted(ch) == [ch EXCEPT !.out = (@ + 1) % SeqMod]

(* Mutant: the channel of a rejected OPN stays open. *)
KeepsRejected(ch, to, ok) == FALSE

(* opn_rejected && is_open *)
ClosesRejected(ch, to, ok) == to = "open" /\ ~ok /\ ch.open

(* The last steps of handle_data_chunk_plaintext and _secure: number the      *)
(* response, frame it on the channel as dispatch left it, send it, and close  *)
(* the channel of a rejected OPN.  Wrapping a secured response may fail: the  *)
(* number is used and nothing is sent.                                        *)
Answers(c, ch, to, ok) ==
  LET next == Counted(ch)
      r == [to |-> to, ok |-> ok, id |-> ch.id, token |-> ch.token, seq |-> next.out]
      left == IF ClosesRejected(ch, to, ok) THEN NoChan ELSE next
  IN  /\ chan' = [chan EXCEPT ![c] = left]
      /\ \/ Sends(c, r, left)
         \/ /\ Secured
            /\ Consume(c)
            /\ parked' = [parked EXCEPT ![c] = @ /\ left.open]
            /\ age' = [age EXCEPT ![c] = IF left.open THEN 0 ELSE @]
            /\ UNCHANGED back

-----------------------------------------------------------------------------
(* Services of the channel *)

(* handle_open_secure_channel on channel ch, already past its sequence check. *)
OpenSecureChannel(c, ch) ==
  \/ Answers(c, ch, "open", FALSE)     \* refused before the channel is touched
  \/ LET renewed == [ch EXCEPT !.token = (@ + 1) % TokMod] IN
     /\ ch.open
     /\ \/ Answers(c, renewed, "open", TRUE)
        \/ Answers(c, renewed, "open", FALSE)    \* nonce, encoding or keys failed
  \/ \E r, id \in Id :
       LET issued == [ch EXCEPT !.open = TRUE, !.id = id, !.token = 1 % TokMod] IN
       /\ ~ch.open
       /\ FirstFree(c, r, id)
       /\ \/ Answers(c, issued, "open", TRUE)
          \/ Answers(c, issued, "open", FALSE)
  \/ \E r \in Id :
       /\ ~ch.open
       /\ Exhausted(c, r)
       /\ Answers(c, NoChan, "open", FALSE)

(* mu_service_dispatch of a MSG on channel ch: a Publish is parked, the       *)
(* CloseSecureChannel service resets the channel and answers on the reset     *)
(* one, any other service answers; without an open channel all are faults.    *)
Dispatch(c, ch, svc) ==
  \/ ~ch.open /\ Answers(c, ch, svc, FALSE)
  \/ ch.open /\ svc = "call" /\ Answers(c, ch, svc, TRUE)
  \/ ch.open /\ svc = "close" /\ Answers(c, NoChan, svc, TRUE)
  \/ /\ ch.open
     /\ svc = "publish"
     /\ chan' = [chan EXCEPT ![c] = ch]
     /\ parked' = [parked EXCEPT ![c] = TRUE]
     /\ Consume(c)
     /\ UNCHANGED <<age, back>>

-----------------------------------------------------------------------------
(* process_message: the first chunk in the receive buffer of connection c *)

(* ca->length + body_len <= sizeof(ca->buffer) *)
Fits(parts) == Len(parts) < AsmCap

Handling(c) == at = c /\ rx > 0

(* process_message_hello: acknowledged, or refused and the connection closed. *)
HandleHello(c) ==
  /\ Handling(c)
  /\ ~est[c]
  /\ \/ /\ Head(wire[c]).type = "HEL"
        /\ est' = [est EXCEPT ![c] = TRUE]
        /\ Sends(c, Ack, chan[c])
     \/ Closes(c, FALSE) /\ UNCHANGED est
  /\ UNCHANGED <<chan, asm, whole>>

(* secure_unwrap_msg fails without keys for this channel and token: the chunk *)
(* is dropped.                                                                *)
Unwraps(ch, k) == ch.pol => ch.open /\ k.id = ch.id /\ k.token = ch.token

HandleDropped(c) ==
  LET k == Head(wire[c]) IN
  /\ Handling(c)
  /\ est[c]
  /\ k.type = "MSG"
  /\ ~asm.active
  /\ ~Unwraps(chan[c], k)
  /\ Consume(c)
  /\ UNCHANGED <<est, age, chan, parked, asm, back, whole>>

(* abort_connection: the chunk fails accept_inbound_chunk, as a whole message *)
(* or as the final chunk of an assembled one.                                 *)
HandleAbort(c) ==
  LET k == Head(wire[c]) IN
  /\ Handling(c)
  /\ est[c]
  /\ \/ k.type = "OPN"
     \/ k.type = "MSG" /\ ~asm.active /\ Unwraps(chan[c], k)
     \/ k.type = "MSG" /\ asm.active /\ Fits(asm.parts)
  /\ ~AcceptsChunk(chan[c], k)
  /\ Closes(c, TRUE)
  /\ asm' = IF k.type = "MSG" THEN NoAsm ELSE asm
  /\ UNCHANGED <<est, chan, whole>>

(* handle_data_chunk_plaintext or _secure of an OPN. *)
HandleOpen(c) ==
  LET k == Head(wire[c]) IN
  /\ Handling(c)
  /\ est[c]
  /\ k.type = "OPN"
  /\ AcceptsChunk(chan[c], k)
  /\ OpenSecureChannel(c, [Sequenced(chan[c], k) EXCEPT !.pol = Secured])
  /\ UNCHANGED <<est, asm, whole>>

(* handle_data_chunk_plaintext or _secure of a MSG in one chunk. *)
HandleMessage(c) ==
  LET k == Head(wire[c]) IN
  /\ Handling(c)
  /\ est[c]
  /\ k.type = "MSG"
  /\ ~asm.active
  /\ Unwraps(chan[c], k)
  /\ AcceptsChunk(chan[c], k)
  /\ Dispatch(c, Sequenced(chan[c], k), k.svc)
  /\ whole' = (k.part = 1 \/ k.part > AsmCap)
  /\ UNCHANGED <<est, asm>>

(* process_message_multi_chunk_continuation: append, or reset and report an   *)
(* error when the buffer is full.                                             *)
HandleContinuation(c) ==
  LET k == Head(wire[c]) IN
  /\ Handling(c)
  /\ est[c]
  /\ k.type = "CON"
  /\ \/ /\ Fits(asm.parts)
        /\ asm' = [active |-> TRUE, parts |-> Append(asm.parts, <<c, k.part>>)]
        /\ Consume(c)
        /\ UNCHANGED <<age, parked, back>>
     \/ /\ ~Fits(asm.parts)
        /\ asm' = NoAsm
        /\ Sends(c, Err, chan[c])
  /\ UNCHANGED <<est, chan, whole>>

(* process_message on the final chunk of an assembled message that fits.      *)
HandleFinal(c) ==
  LET k == Head(wire[c])
      parts == Append(asm.parts, <<c, k.part>>)
  IN  /\ Handling(c)
      /\ est[c]
      /\ k.type = "MSG"
      /\ asm.active
      /\ Fits(asm.parts)
      /\ AcceptsChunk(chan[c], k)
      /\ Dispatch(c, Sequenced(chan[c], k), k.svc)
      /\ whole' = (parts = [i \in 1 .. k.part |-> <<c, i>>])
      /\ asm' = NoAsm
      /\ UNCHANGED est

(* The final chunk does not fit, or the client abandons its message: the      *)
(* assembler is reset and nothing is answered.                                *)
HandleReset(c) ==
  LET k == Head(wire[c]) IN
  /\ Handling(c)
  /\ est[c]
  /\ \/ k.type = "ABT"
     \/ k.type = "MSG" /\ asm.active /\ ~Fits(asm.parts)
  /\ asm' = NoAsm
  /\ Consume(c)
  /\ UNCHANGED <<est, age, chan, parked, back, whole>>

(* A CLO closes the channel, if it is open, and the connection. *)
HandleClose(c) ==
  /\ Handling(c)
  /\ est[c]
  /\ Head(wire[c]).type = "CLO"
  /\ chan' = [chan EXCEPT ![c] = IF @.open THEN NoChan ELSE @]
  /\ Closes(c, FALSE)
  /\ UNCHANGED <<est, asm, whole>>

-----------------------------------------------------------------------------
(* mu_server_poll *)

(* Only the single-connection build initialises the assembler on accept. *)
AcceptedAssembler == IF MultiConn THEN asm ELSE NoAsm

(* poll_try_accept_multi and _single: a connection waits and slot c is the    *)
(* first free one.                                                            *)
Accept(c) ==
  /\ at = 0
  /\ ~live[c]
  /\ \A d \in Slot : d < c => live[d]
  /\ at' = Background
  /\ live' = [live EXCEPT ![c] = TRUE]
  /\ est' = [est EXCEPT ![c] = FALSE]
  /\ chan' = [chan EXCEPT ![c] = NoChan]
  /\ asm' = AcceptedAssembler
  /\ aborted' = [aborted EXCEPT ![c] = FALSE]
  /\ UNCHANGED <<rx, idle, age, parked, wire, back, peer, whole>>

(* No connection waits, or, with every slot taken in the multi-connection     *)
(* build, one waits and is turned away.  The single-connection build reads    *)
(* only when it has a client.                                                 *)
NoAccept ==
  /\ at = 0
  /\ \/ at' = IF MultiConn \/ live[1] THEN 1 ELSE Background
     \/ MultiConn /\ (\A c \in Slot : live[c]) /\ at' = Background
  /\ UNCHANGED <<rx, live, est, idle, age, chan, parked, asm, wire, back, peer, aborted, whole>>

(* Mutant: the loop ends at the first free slot. *)
StopAtFree(c) ==
  /\ at = c
  /\ ~live[c]
  /\ at' = Background
  /\ UNCHANGED <<rx, live, est, idle, age, chan, parked, asm, wire, back, peer, aborted, whole>>

(* A free slot is passed over. *)
SkipFree(c) ==
  /\ at = c
  /\ ~live[c]
  /\ at' = at + 1
  /\ UNCHANGED <<rx, live, est, idle, age, chan, parked, asm, wire, back, peer, aborted, whole>>

IdleLimit(c) == IF chan[c].open THEN Lifetime ELSE ConnectLimit

(* poll_check_idle_timeout *)
IdleTimeout(c) ==
  /\ at = c
  /\ rx = 0
  /\ live[c]
  /\ idle[c] > IdleLimit(c)
  /\ Closes(c, FALSE)
  /\ UNCHANGED <<est, chan, asm, whole>>

(* Mutant: a read that returns nothing counts as activity. *)
IdleRefreshed(c, n) == [idle EXCEPT ![c] = 0]

IdleAfterRead(c, n) == IF n = 0 THEN idle ELSE [idle EXCEPT ![c] = 0]

(* poll_read_data: n chunks are read; any byte counts as activity.  Or the    *)
(* connection was lost and is closed.                                         *)
Visit(c) ==
  /\ at = c
  /\ rx = 0
  /\ live[c]
  /\ idle[c] <= IdleLimit(c)
  /\ \/ \E n \in 0 .. Len(wire[c]) :
          /\ rx' = n
          /\ at' = IF n = 0 THEN at + 1 ELSE at
          /\ idle' = IdleAfterRead(c, n)
          /\ UNCHANGED <<live, age, parked, wire, back, peer, aborted>>
     \/ Closes(c, FALSE)
  /\ UNCHANGED <<est, chan, asm, whole>>

(* mu_server_emit_message: the background work answers a parked Publish.      *)
Emit(c) ==
  LET next == Counted(chan[c])
      r == [to |-> "publish", ok |-> TRUE, id |-> next.id, token |-> next.token, seq |-> next.out]
  IN  /\ at = Background
      /\ parked[c]
      /\ Len(back[c]) < MaxQueue
      /\ chan' = [chan EXCEPT ![c] = next]
      /\ \/ /\ parked' = [parked EXCEPT ![c] = FALSE]
            /\ \/ back' = [back EXCEPT ![c] = Append(@, r)]
               \/ Secured /\ UNCHANGED back
            /\ UNCHANGED <<live, idle, age, wire, peer, aborted>>
         \/ Disconnect(c, FALSE)
      /\ UNCHANGED <<at, rx, est, asm, whole>>

EndPoll ==
  /\ at = Background
  /\ at' = 0
  /\ UNCHANGED <<rx, live, est, idle, age, chan, parked, asm, wire, back, peer, aborted, whole>>

Handle(c) ==
  \/ HandleHello(c)
  \/ HandleDropped(c)
  \/ HandleAbort(c)
  \/ HandleOpen(c)
  \/ HandleMessage(c)
  \/ HandleContinuation(c)
  \/ HandleFinal(c)
  \/ HandleReset(c)
  \/ HandleClose(c)

(* Time passes. *)
Tick ==
  LET Older(f, c) == IF live[c] /\ f[c] < MaxAge THEN f[c] + 1 ELSE f[c] IN
  /\ MaxAge > 0
  /\ idle' = [c \in Slot |-> Older(idle, c)]
  /\ age' = [c \in Slot |-> IF chan[c].open THEN age[c] ELSE Older(age, c)]
  /\ UNCHANGED <<at, rx, live, est, chan, parked, asm, wire, back, peer, aborted, whole>>

-----------------------------------------------------------------------------
(* Clients *)

ServerVars == <<at, rx, live, est, idle, age, chan, parked, asm, aborted, whole>>

(* Client c sends chunk k and becomes p. *)
ClientSends(c, k, p) ==
  /\ live[c]
  /\ Len(wire[c]) + Len(back[c]) < MaxQueue
  /\ wire' = [wire EXCEPT ![c] = Append(@, k)]
  /\ peer' = [peer EXCEPT ![c] = p]
  /\ UNCHANGED <<back, ServerVars>>

(* A chunk of client c with number n. *)
ChunkOf(c, type, n, svc, part) ==
  [type |-> type, id |-> peer[c].id, token |-> peer[c].token, seq |-> n, svc |-> svc,
   part |-> part, bad |-> n \notin NextNumbers(peer[c].seq)]

ClientHello(c) ==
  /\ peer[c].phase = "new"
  /\ ClientSends(c, ChunkOf(c, "HEL", 0, "none", 1), [peer[c] EXCEPT !.phase = "hello"])

(* The first OpenSecureChannel of a channel, or its renewal. *)
ClientOpens(c) ==
  /\ peer[c].phase \in {"ready", "open"}
  /\ peer[c].part = 0
  /\ peer[c].pend < MaxPend
  /\ \E n \in NextNumbers(peer[c].seq) :
       ClientSends(c, ChunkOf(c, "OPN", n, "none", 1),
                   [peer[c] EXCEPT !.phase = "opening", !.seq = n, !.pend = @ + 1])

(* The only or the last chunk of a request. *)
ClientRequests(c) ==
  \E n \in IF Mistakes /\ peer[c].phase = "open" THEN Number ELSE NextNumbers(peer[c].seq) :
  \E svc \in {"call", "publish", "close"} :
    /\ peer[c].pend < MaxPend
    /\ \/ peer[c].phase = "open"
       \/ Mistakes /\ peer[c].phase = "ready" /\ svc = "call"
    /\ ClientSends(c, ChunkOf(c, "MSG", n, svc, peer[c].part + 1),
                   [peer[c] EXCEPT !.seq = n, !.part = 0,
                                   !.phase = IF svc = "close" THEN "closing" ELSE @,
                                   !.pend = IF svc = "publish" THEN @ ELSE @ + 1])

(* An earlier chunk of a request, or the chunk that abandons one. *)
ClientContinues(c) ==
  \E n \in Number :
    /\ peer[c].phase = "open"
    /\ IF CountsAll THEN Mistakes \/ n \in NextNumbers(peer[c].seq) ELSE n = peer[c].seq
    /\ \/ /\ peer[c].part + 1 < MaxParts
          /\ ClientSends(c, ChunkOf(c, "CON", n, "none", peer[c].part + 1),
                         [peer[c] EXCEPT !.seq = n, !.part = @ + 1])
       \/ /\ peer[c].part > 0
          /\ ClientSends(c, ChunkOf(c, "ABT", n, "none", peer[c].part + 1),
                         [peer[c] EXCEPT !.seq = n, !.part = 0])

ClientCloses(c) ==
  /\ peer[c].phase = "open"
  /\ \E n \in NextNumbers(peer[c].seq) :
       ClientSends(c, ChunkOf(c, "CLO", n, "none", 1), [peer[c] EXCEPT !.phase = "done", !.seq = n])

(* What a response does to the client: an answer to OpenSecureChannel gives   *)
(* it the channel and token to use, a refusal leaves it without a channel.    *)
Informed(p, r) ==
  LET lost == [p EXCEPT !.phase = "ready", !.id = 0, !.token = 0, !.got = None, !.pend = @ - 1]
  IN  CASE r.to = "hello" -> [p EXCEPT !.phase = "ready"]
        [] r.to = "error" -> [p EXCEPT !.phase = "done"]
        [] r.to = "open" /\ r.ok -> [p EXCEPT !.phase = "open", !.id = r.id, !.token = r.token,
                                             !.got = r.seq, !.pend = @ - 1]
        [] r.to = "open" /\ ~r.ok -> lost
        [] r.to = "close" -> lost
        [] r.to = "call" -> [p EXCEPT !.got = r.seq, !.pend = @ - 1]
        [] r.to = "publish" -> [p EXCEPT !.got = r.seq]

ClientReceives(c) ==
  /\ back[c] # <<>>
  /\ peer' = [peer EXCEPT ![c] = Informed(@, Head(back[c]))]
  /\ back' = [back EXCEPT ![c] = Tail(@)]
  /\ UNCHANGED <<wire, ServerVars>>

Client(c) ==
  \/ ClientHello(c)
  \/ ClientOpens(c)
  \/ ClientRequests(c)
  \/ ClientContinues(c)
  \/ ClientCloses(c)
  \/ ClientReceives(c)

-----------------------------------------------------------------------------
Next ==
  \/ NoAccept
  \/ EndPoll
  \/ Tick
  \/ \E c \in Slot :
       \/ Accept(c)
       \/ SkipFree(c)
       \/ IdleTimeout(c)
       \/ Visit(c)
       \/ Handle(c)
       \/ Emit(c)
       \/ Client(c)

Spec == Init /\ [][Next]_vars

(* mu_server_poll is called again and again and never waits; time passes; a   *)
(* new connection does not wait at every poll; and what a client has sent     *)
(* arrives at last.                                                           *)
Polls ==
  \/ NoAccept
  \/ EndPoll
  \/ \E c \in Slot : SkipFree(c) \/ IdleTimeout(c) \/ Visit(c) \/ Handle(c)

Reads(c) == Visit(c) /\ rx' > 0

FairSpec ==
  /\ Spec
  /\ WF_vars(Polls)
  /\ WF_vars(Tick)
  /\ SF_vars(NoAccept /\ at' = 1)
  /\ \A c \in Slot : SF_vars(Reads(c))

-----------------------------------------------------------------------------
(* Properties *)

(* No two live connections have open channels with the same id, so that       *)
(* mu_server_emit_message and the session checks, which look a connection up  *)
(* by its channel id, find one connection.                                    *)
UniqueChannels ==
  \A c, d \in Slot :
    /\ live[c] /\ chan[c].open
    /\ live[d] /\ chan[d].open
    /\ chan[c].id = chan[d].id
    => c = d

(* Whenever the client of a live connection has no OpenSecureChannel and no   *)
(* CloseSecureChannel outstanding, it and the server hold the same channel id *)
(* and token, through refused, failed and renewed channels.                   *)
Agreement ==
  \A c \in Slot :
    /\ live[c]
    /\ peer[c].phase \in {"ready", "open"}
    => chan[c].id = peer[c].id /\ chan[c].token = peer[c].token

(* A client that numbers its chunks as OPC 10000-6 6.7.2.4 has it and uses    *)
(* the token of the last answer is never aborted by accept_inbound_chunk.     *)
NoFalseAbort == \A c \in Slot : ~aborted[c]

AbortOnViolationStep ==
  \A c \in Slot : Handling(c) /\ Head(wire[c]).bad /\ wire'[c] = Tail(wire[c]) => ~live'[c]

(* A chunk whose number repeats or skips one closes the connection: the chunk *)
(* is never handled as if it were in order.                                   *)
AbortOnViolation == [][AbortOnViolationStep]_vars

ResponsesFollowStep ==
  \A c \in Slot :
    LET r == Head(back[c]) IN
    /\ back[c] # <<>>
    /\ live'[c]
    /\ back'[c] = Tail(back[c])
    /\ r.to \in {"open", "call", "publish"}
    => r.seq \in NextNumbers(peer[c].got)

(* On one channel the numbers of the responses a client receives, answers to  *)
(* its requests and Publish responses sent later alike, follow one another as *)
(* the receiver's own validator demands.                                      *)
ResponsesFollow == [][ResponsesFollowStep]_vars

(* Every request of a live connection is on its way to the server, or its     *)
(* answer is on its way back: the server never drops one silently.            *)
AlwaysAnswered ==
  \A c \in Slot :
    LET asked == SelectSeq(wire[c], LAMBDA k : k.type = "OPN" \/ (k.type = "MSG" /\ k.svc # "publish"))
        told == SelectSeq(back[c], LAMBDA r : r.to \in {"open", "call", "close"})
    IN  live[c] => peer[c].pend = Len(asked) + Len(told)

(* What mu_service_dispatch is given for a message that fits the assembly     *)
(* buffer is that message, all its chunks in order and nothing else, whatever *)
(* other connections send meanwhile.                                          *)
DispatchedWhole == whole

(* A connection that has not opened a channel within MU_CONNECT_TIMEOUT_MS of *)
(* being accepted is not left in its slot by the next visit of the poll loop. *)
ConnectWindow ==
  [][\A c \in Slot :
       Visit(c) /\ live'[c] /\ ~chan[c].open => age[c] <= ConnectLimit]_vars

(* A connection whose client falls silent does not keep its slot: again and   *)
(* again it is either gone or has something to read.                          *)
QuietDropped == \A c \in Slot : []<>(~live[c] \/ wire[c] # <<>>)

(* A request is answered or its connection ends, whatever the other           *)
(* connections do: the poll loop gets round to every connection.              *)
Served == \A c \in Slot : peer[c].pend > 0 ~> back[c] # <<>> \/ ~live[c]
=============================================================================
