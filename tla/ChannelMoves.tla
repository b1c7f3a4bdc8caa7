---------------------------- MODULE ChannelMoves ----------------------------
(* What a step does to one connection, for any number of connections, ids,    *)
(* tokens and sequence numbers: a step of the poll loop or of a client        *)
(* changes one connection at most, and what it does to it is one of a few     *)
(* moves (StepMoves). Each of them keeps the state typed (StepTyped).         *)
EXTENDS Channel, TLAPS

-----------------------------------------------------------------------------
(* One connection and its moves *)

View(c) == [live |-> live[c], chan |-> chan[c], parked |-> parked[c], wire |-> wire[c],
            back |-> back[c], peer |-> peer[c]]

(* A client, but for the bounds on what it counts. *)
PeerShape == [phase : {"new", "hello", "ready", "opening", "open", "closing", "done"},
              id : Id, token : Token, seq : Number \cup {None}, got : Number \cup {None},
              part : 0 .. MaxParts - 1, pend : Int]

(* A chunk that a client sends: a MSG names a service. *)
Request == {k \in Chunk : k.type = "MSG" => k.svc # "none"}

(* A slot without a connection is accepted into. *)
Accepted(u, v) ==
  /\ ~u.live /\ v.live
  /\ v.chan = NoChan
  /\ v.parked = u.parked /\ v.wire = u.wire /\ v.back = u.back /\ v.peer = u.peer

(* A channel that is not open has no id and no token, or those it had before. *)
Succeeds(ch, next) ==
  \/ next.open
  \/ next.id = 0 /\ next.token = 0
  \/ ~ch.open /\ next.id = ch.id /\ next.token = ch.token

(* The connection ends and takes along what was in flight. *)
Ended(u, v) ==
  /\ u.live /\ ~v.live
  /\ ~v.parked /\ v.wire = <<>> /\ v.back = <<>> /\ v.peer = NewPeer
  /\ v.chan \in ChanType
  /\ Succeeds(u.chan, v.chan)

(* A chunk is taken, and answered with what is then in b. *)
Taken(u, v, ch, b) ==
  /\ v.live /\ v.wire = Tail(u.wire) /\ v.peer = u.peer
  /\ v.chan = ch
  /\ v.back = b

(* A chunk is taken and nothing comes of it. *)
Passed(u, v, assembling) ==
  LET k == Head(u.wire) IN
  /\ \/ k.type \in {"CON", "ABT"}
     \/ k.type = "MSG" /\ (assembling \/ ~Unwraps(u.chan, k))
  /\ Taken(u, v, u.chan, u.back)
  /\ v.parked = u.parked

(* A chunk is taken and answered below the channel: r is Ack or Err. *)
Noted(u, v, r) ==
  /\ Taken(u, v, u.chan, Append(u.back, r))
  /\ v.parked <=> u.parked /\ u.chan.open

(* The answer on channel ch, and the channel that is left. *)
Reply(ch, to, ok) ==
  [to |-> to, ok |-> ok, id |-> ch.id, token |-> ch.token, seq |-> Counted(ch).out]
LeftBy(ch, to, ok) == IF ClosesRejected(ch, to, ok) THEN NoChan ELSE Counted(ch)

(* A chunk is taken and answered on channel ch; a secured answer may fail.    *)
Answered(u, v, ch, to, ok) ==
  /\ \/ Taken(u, v, LeftBy(ch, to, ok), Append(u.back, Reply(ch, to, ok)))
     \/ Secured /\ Taken(u, v, LeftBy(ch, to, ok), u.back)
  /\ v.parked <=> u.parked /\ LeftBy(ch, to, ok).open

(* The answers to an OPN. *)
Renewed(ch) == [ch EXCEPT !.token = (@ + 1) % TokMod]
Issued(ch, id) == [ch EXCEPT !.open = TRUE, !.id = id, !.token = 1 % TokMod]

Opened(u, v, used) ==
  LET k == Head(u.wire)
      ch == [Sequenced(u.chan, k) EXCEPT !.pol = Secured]
  IN  /\ k.type = "OPN"
      /\ AcceptsChunk(u.chan, k)
      /\ \/ Answered(u, v, ch, "open", FALSE)
         \/ u.chan.open /\ \E ok \in BOOLEAN : Answered(u, v, Renewed(ch), "open", ok)
         \/ /\ ~u.chan.open
            /\ \E ok \in BOOLEAN, id \in Id \ used : Answered(u, v, Issued(ch, id), "open", ok)
         \/ ~u.chan.open /\ Answered(u, v, NoChan, "open", FALSE)

(* The answers to a MSG, and a Publish that is parked. *)
Dispatched(u, v) ==
  LET k == Head(u.wire)
      ch == Sequenced(u.chan, k)
  IN  /\ k.type = "MSG"
      /\ AcceptsChunk(u.chan, k)
      /\ \/ ~u.chan.open /\ Answered(u, v, ch, k.svc, FALSE)
         \/ u.chan.open /\ k.svc = "call" /\ Answered(u, v, ch, k.svc, TRUE)
         \/ u.chan.open /\ k.svc = "close" /\ Answered(u, v, NoChan, k.svc, TRUE)
         \/ u.chan.open /\ k.svc = "publish" /\ Taken(u, v, ch, u.back) /\ v.parked

(* The first chunk in the receive buffer is handled. *)
Handled(u, v, used, assembling) ==
  /\ u.live
  /\ u.wire # <<>>
  /\ \/ Head(u.wire).type = "HEL" /\ Noted(u, v, Ack)
     \/ Head(u.wire).type = "CON" /\ Noted(u, v, Err)
     \/ Passed(u, v, assembling)
     \/ Opened(u, v, used)
     \/ Dispatched(u, v)

(* A parked Publish request is answered. *)
Emitted(u, v) ==
  /\ u.parked
  /\ v.live = u.live /\ v.wire = u.wire /\ v.peer = u.peer
  /\ v.chan = Counted(u.chan)
  /\ ~v.parked
  /\ \/ v.back = Append(u.back, Reply(u.chan, "publish", TRUE))
     \/ Secured /\ v.back = u.back

(* The client sends chunk k and becomes p. *)
Sent(u, v, k, p) ==
  /\ u.live /\ v.live
  /\ Len(u.wire) + Len(u.back) < MaxQueue
  /\ v.chan = u.chan /\ v.parked = u.parked /\ v.back = u.back
  /\ v.wire = Append(u.wire, k)
  /\ v.peer = p

ChunkFrom(p, type, n, svc, part) ==
  [type |-> type, id |-> p.id, token |-> p.token, seq |-> n, svc |-> svc, part |-> part,
   bad |-> n \notin NextNumbers(p.seq)]

AskedHello(u, v, p) ==
  /\ p.phase = "new"
  /\ Sent(u, v, ChunkFrom(p, "HEL", 0, "none", 1), [p EXCEPT !.phase = "hello"])

AskedOpen(u, v, p) ==
  /\ p.phase \in {"ready", "open"}
  /\ p.part = 0
  /\ p.pend < MaxPend
  /\ \E n \in NextNumbers(p.seq) :
       Sent(u, v, ChunkFrom(p, "OPN", n, "none", 1),
            [p EXCEPT !.phase = "opening", !.seq = n, !.pend = @ + 1])

AskedService(u, v, p) ==
  \E n \in IF Mistakes /\ p.phase = "open" THEN Number ELSE NextNumbers(p.seq) :
  \E svc \in {"call", "publish", "close"} :
    /\ p.pend < MaxPend
    /\ p.phase = "open" \/ (Mistakes /\ p.phase = "ready" /\ svc = "call")
    /\ Sent(u, v, ChunkFrom(p, "MSG", n, svc, p.part + 1),
            [p EXCEPT !.seq = n, !.part = 0,
                           !.phase = IF svc = "close" THEN "closing" ELSE @,
                           !.pend = IF svc = "publish" THEN @ ELSE @ + 1])

AskedPart(u, v, p) ==
  \E n \in Number :
    /\ p.phase = "open"
    /\ IF CountsAll THEN Mistakes \/ n \in NextNumbers(p.seq) ELSE n = p.seq
    /\ \/ /\ p.part + 1 < MaxParts
          /\ Sent(u, v, ChunkFrom(p, "CON", n, "none", p.part + 1),
                  [p EXCEPT !.seq = n, !.part = @ + 1])
       \/ /\ p.part > 0
          /\ Sent(u, v, ChunkFrom(p, "ABT", n, "none", p.part + 1),
                  [p EXCEPT !.seq = n, !.part = 0])

AskedClose(u, v, p) ==
  /\ p.phase = "open"
  /\ \E n \in NextNumbers(p.seq) :
       Sent(u, v, ChunkFrom(p, "CLO", n, "none", 1), [p EXCEPT !.phase = "done", !.seq = n])

(* The client sends a chunk. *)
Asked(u, v) ==
  LET p == u.peer IN
  \/ AskedHello(u, v, p)
  \/ AskedOpen(u, v, p)
  \/ AskedService(u, v, p)
  \/ AskedPart(u, v, p)
  \/ AskedClose(u, v, p)

(* The client receives a response. *)
Got(u, v) ==
  /\ u.back # <<>>
  /\ v.live = u.live /\ v.chan = u.chan /\ v.parked = u.parked /\ v.wire = u.wire
  /\ v.peer = Informed(u.peer, Head(u.back))
  /\ v.back = Tail(u.back)

Moved(u, v, used, assembling) ==
  \/ v = u
  \/ Accepted(u, v)
  \/ Ended(u, v)
  \/ Handled(u, v, used, assembling)
  \/ Emitted(u, v)
  \/ Asked(u, v)
  \/ Got(u, v)

Used(c) == {id \in Id : UsedByOther(c, id)}

(* Without a connection nothing is in flight; a channel that is not open has  *)
(* no id and no token, and no Publish request waits on it.                    *)
AtRest(u) ==
  /\ ~u.live => u.peer = NewPeer /\ u.wire = <<>> /\ u.back = <<>> /\ ~u.parked
  /\ ~u.chan.open => u.chan.id = 0 /\ u.chan.token = 0 /\ ~u.parked

-----------------------------------------------------------------------------
(* Types *)

Typed ==
  /\ at \in 0 .. Background
  /\ rx \in Nat
  /\ live \in [Slot -> BOOLEAN]
  /\ est \in [Slot -> BOOLEAN]
  /\ chan \in [Slot -> ChanType]
  /\ parked \in [Slot -> BOOLEAN]
  /\ asm \in [active : BOOLEAN, parts : Seq(Piece)]
  /\ wire \in [Slot -> Seq(Request)]
  /\ back \in [Slot -> Seq(Response)]
  /\ peer \in [Slot -> PeerShape]

(* The chunks counted in the receive buffer are those of a live connection. *)
Buffered ==
  /\ rx > 0 => at \in Slot
  /\ at \in Slot /\ rx > 0 => live[at] /\ rx <= Len(wire[at])

(* The tables have an entry for every connection. *)
Table(f) == f = [c \in Slot |-> f[c]]
Tables ==
  /\ live \in [Slot -> BOOLEAN] /\ parked \in [Slot -> BOOLEAN]
  /\ Table(chan) /\ Table(wire) /\ Table(back) /\ Table(peer)

(* Nothing happens to the connections other than d. *)
Elsewhere(d) == Tables' /\ \A c \in Slot \ {d} : View(c)' = View(c)

(* A connection that is dropped ends its view, and touches no other. *)
LEMMA DisconnectView ==
  ASSUME Typed, NEW d \in Slot, NEW abort, live[d], Disconnect(d, abort), NEW ch,
         chan' = [chan EXCEPT ![d] = ch], ch \in ChanType, Succeeds(chan[d], ch)
  PROVE  Ended(View(d), View(d)') /\ Elsewhere(d)
<1>1. Ended(View(d), View(d)')
  BY DEF Typed, Disconnect, Ended, View
<1>2. Elsewhere(d)
  <2>1. \A c \in Slot \ {d} : View(c)' = View(c)
    BY DEF Typed, Disconnect, View
  <2>2. Tables'
    BY Zenon DEF Typed, Disconnect, Tables, Table
  <2> QED
    BY <2>1, <2>2 DEF Elsewhere
<1> QED
  BY <1>1, <1>2

(* A chunk that was read leaves the stream of its connection; channel,        *)
(* answers and parked request become what the handler made of them.           *)
LEMMA ConsumeView ==
  ASSUME Typed, Buffered, NEW d \in Slot, Handling(d), Consume(d),
         NEW ch, NEW b, NEW p \in BOOLEAN,
         chan' = [chan EXCEPT ![d] = ch],
         back' = [back EXCEPT ![d] = b],
         parked' = [parked EXCEPT ![d] = p]
  PROVE  /\ Taken(View(d), View(d)', ch, b) /\ View(d)'.parked = p
         /\ Elsewhere(d)
         /\ View(d).live /\ View(d).wire # <<>>
<1>1. Taken(View(d), View(d)', ch, b) /\ View(d)'.parked = p
  BY DEF Typed, Buffered, Handling, Consume, Taken, View
<1>2. Elsewhere(d)
  <2>1. \A c \in Slot \ {d} : View(c)' = View(c)
    BY DEF Typed, Consume, View
  <2>2. Tables'
    BY Zenon DEF Typed, Consume, Tables, Table
  <2> QED
    BY <2>1, <2>2 DEF Elsewhere
<1>3. View(d).live /\ View(d).wire # <<>>
  BY DEF Typed, Buffered, Handling, View
<1> QED
  BY <1>1, <1>2, <1>3

(* A handler that answers either loses its connection or adds one response to *)
(* the stream of its client.                                                  *)
LEMMA SendsView ==
  ASSUME Typed, Buffered, NEW d \in Slot, Handling(d), NEW r, NEW ch, Sends(d, r, ch),
         chan' = [chan EXCEPT ![d] = ch], ch \in ChanType, Succeeds(chan[d], ch)
  PROVE  /\ \/ Ended(View(d), View(d)')
            \/ /\ Taken(View(d), View(d)', ch, Append(View(d).back, r))
               /\ View(d)'.parked <=> View(d).parked /\ ch.open
         /\ Elsewhere(d)
         /\ View(d).live /\ View(d).wire # <<>>
<1>1. View(d).live /\ View(d).wire # <<>>
  BY DEF Typed, Buffered, Handling, View
<1>2. CASE Closes(d, FALSE)
  <2>1. live[d]  BY <1>1 DEF View
  <2> QED  BY <1>1, <1>2, <2>1, DisconnectView, Zenon DEF Closes
<1>3. CASE /\ Consume(d)
           /\ back' = [back EXCEPT ![d] = Append(@, r)]
           /\ parked' = [parked EXCEPT ![d] = @ /\ ch.open]
  <2>1. /\ Taken(View(d), View(d)', ch, Append(back[d], r))
        /\ View(d)'.parked = (parked[d] /\ ch.open)
        /\ Elsewhere(d)
    BY <1>3, ConsumeView, Zenon
  <2>2. View(d).back = back[d] /\ View(d).parked = parked[d]
    BY DEF View
  <2> QED
    BY <1>1, <2>1, <2>2, Zenon
<1> QED
  BY <1>2, <1>3, Zenon DEF Sends

(* What the assumptions on the constants say of ids, tokens and numbers. *)
LEMMA Constants ==
  /\ NConns \in Nat \ {0} /\ IdMod \in Nat /\ IdMod > 1 /\ TokMod \in Nat \ {0}
  /\ SeqMod \in Nat \ {0} /\ MaxParts \in Nat \ {0} /\ Secured \in BOOLEAN
  /\ 0 \in Id /\ 0 \in Token /\ 0 \in Number
  /\ 1 % TokMod \in Token
  /\ \A n \in Int : n % TokMod \in Token /\ n % SeqMod \in Number
BY ChannelAssumption DEF Id, Token, Number

(* A channel that was reset is closed and has neither id nor token. *)
LEMMA NoChanType == NoChan \in ChanType /\ ~NoChan.open /\ NoChan.id = 0 /\ NoChan.token = 0
BY Constants DEF NoChan, ChanType

(* A rejected OpenSecureChannel closes the channel it was for; any other      *)
(* answer changes only the number of the next response.                       *)
LEMMA LeftByFields ==
  ASSUME NEW ch \in ChanType, NEW to, NEW ok \in BOOLEAN
  PROVE  /\ LeftBy(ch, to, ok) \in ChanType
         /\ \/ LeftBy(ch, to, ok) = NoChan /\ to = "open" /\ ~ok
            \/ /\ to = "open" => ok \/ ~ch.open
               /\ LeftBy(ch, to, ok).open = ch.open
               /\ LeftBy(ch, to, ok).id = ch.id
               /\ LeftBy(ch, to, ok).token = ch.token
<1>1. /\ Counted(ch) \in ChanType /\ Counted(ch).open = ch.open
      /\ Counted(ch).id = ch.id /\ Counted(ch).token = ch.token
  <2>1. ch.out + 1 \in Int
    BY Constants DEF ChanType, Number
  <2>2. (ch.out + 1) % SeqMod \in Number
    BY <2>1, Constants
  <2> QED
    BY <2>2 DEF Counted, ChanType
<1> QED
  BY <1>1, NoChanType DEF LeftBy, ClosesRejected

(* send_response seen from the connection it answers. *)
LEMMA AnswersView ==
  ASSUME Typed, Buffered, NEW d \in Slot, Handling(d), NEW ch \in ChanType, NEW to,
         NEW ok \in BOOLEAN, Answers(d, ch, to, ok), Succeeds(chan[d], LeftBy(ch, to, ok))
  PROVE  /\ \/ Ended(View(d), View(d)')
            \/ Answered(View(d), View(d)', ch, to, ok)
         /\ Elsewhere(d)
         /\ View(d).live /\ View(d).wire # <<>>
<1> DEFINE left == LeftBy(ch, to, ok)
           r == Reply(ch, to, ok)
<1>1. chan' = [chan EXCEPT ![d] = left]
  BY DEF Answers, LeftBy
<1>2. \/ Sends(d, r, left)
      \/ /\ Secured
         /\ Consume(d)
         /\ parked' = [parked EXCEPT ![d] = @ /\ left.open]
         /\ UNCHANGED back
  BY DEF Answers, LeftBy, Reply
<1> HIDE DEF left, r
<1>3. Succeeds(chan[d], left) /\ left \in ChanType
  BY LeftByFields DEF left
<1>4. CASE Sends(d, r, left)
  BY <1>1, <1>3, <1>4, SendsView, Zenon DEF Answered, left, r
<1>5. CASE /\ Secured
           /\ Consume(d)
           /\ parked' = [parked EXCEPT ![d] = @ /\ left.open]
           /\ UNCHANGED back
  <2>1. back' = [back EXCEPT ![d] = back[d]]
    BY <1>5 DEF Typed
  <2>2. /\ Taken(View(d), View(d)', left, back[d])
        /\ View(d)'.parked = (parked[d] /\ left.open)
        /\ Elsewhere(d)
        /\ View(d).live /\ View(d).wire # <<>>
    BY <1>1, <1>5, <2>1, ConsumeView, Zenon
  <2>3. View(d).back = back[d] /\ View(d).parked = parked[d]
    BY DEF View
  <2> QED
    BY <1>5, <2>2, <2>3, Zenon DEF Answered, left
<1> QED
  BY <1>2, <1>4, <1>5

(* Accepting a chunk only notes its number. *)
LEMMA SequencedType ==
  ASSUME NEW ch \in ChanType, NEW k \in Chunk
  PROVE  /\ Sequenced(ch, k) \in ChanType
         /\ [Sequenced(ch, k) EXCEPT !.pol = Secured] \in ChanType
         /\ Sequenced(ch, k).open = ch.open /\ Sequenced(ch, k).id = ch.id
         /\ Sequenced(ch, k).token = ch.token
         /\ [Sequenced(ch, k) EXCEPT !.pol = Secured].open = ch.open
         /\ [Sequenced(ch, k) EXCEPT !.pol = Secured].id = ch.id
         /\ [Sequenced(ch, k) EXCEPT !.pol = Secured].token = ch.token
BY Constants, Zenon DEF Sequenced, ChanType, Chunk

(* Renewal keeps the id of an open channel, issue sets it. *)
LEMMA OpenedType ==
  ASSUME NEW ch \in ChanType, NEW id \in Id
  PROVE  /\ Renewed(ch) \in ChanType /\ Issued(ch, id) \in ChanType
         /\ Renewed(ch).open = ch.open /\ Renewed(ch).id = ch.id
         /\ Issued(ch, id).open /\ Issued(ch, id).id = id
<1>1. 1 % TokMod \in Token
  BY Constants
<1>2. ch.token + 1 \in Int
  BY Constants DEF ChanType, Token
<1>3. (ch.token + 1) % TokMod \in Token
  BY <1>2, Constants
<1> QED
  BY <1>1, <1>3, Zenon DEF Renewed, Issued, ChanType

(* The chunk that is handled is the first one of a live connection's stream. *)
LEMMA HeadType ==
  ASSUME Typed, Buffered, NEW d \in Slot, Handling(d)
  PROVE  /\ Head(wire[d]) \in Request /\ Head(wire[d]) \in Chunk /\ chan[d] \in ChanType
         /\ View(d).live /\ View(d).wire # <<>>
         /\ Head(View(d).wire) = Head(wire[d]) /\ View(d).chan = chan[d]
<1>1. /\ wire[d] \in Seq(Request) /\ wire[d] # <<>> /\ live[d] /\ chan[d] \in ChanType
  BY DEF Typed, Buffered, Handling
<1>2. Head(wire[d]) \in Request
  BY <1>1
<1> QED
  BY <1>1, <1>2 DEF View, Request

(* A service request is answered, parked, or costs the connection. *)
LEMMA DispatchView ==
  ASSUME Typed, Buffered, NEW d \in Slot, Handling(d), Head(wire[d]).type = "MSG",
         AcceptsChunk(chan[d], Head(wire[d])),
         Dispatch(d, Sequenced(chan[d], Head(wire[d])), Head(wire[d]).svc)
  PROVE  /\ \/ Ended(View(d), View(d)')
            \/ Dispatched(View(d), View(d)')
         /\ Elsewhere(d)
<1> DEFINE k == Head(wire[d])
           ch == Sequenced(chan[d], k)
<1>1. /\ ch \in ChanType /\ ch.open = chan[d].open /\ ch.id = chan[d].id /\ ch.token = chan[d].token
      /\ Head(View(d).wire) = k /\ View(d).chan = chan[d]
      /\ chan[d] \in ChanType /\ k \in Chunk
  BY HeadType, SequencedType, ZenonT(60)
<1>2. /\ k.type = "MSG" /\ AcceptsChunk(chan[d], k)
      /\ Dispatch(d, ch, k.svc)
  OBVIOUS
<1>a. ch.open \in BOOLEAN
  BY <1>1 DEF ChanType
<1>b. Dispatched(View(d), View(d)') <=>
        \/ ~chan[d].open /\ Answered(View(d), View(d)', ch, k.svc, FALSE)
        \/ chan[d].open /\ k.svc = "call" /\ Answered(View(d), View(d)', ch, k.svc, TRUE)
        \/ chan[d].open /\ k.svc = "close" /\ Answered(View(d), View(d)', NoChan, k.svc, TRUE)
        \/ /\ chan[d].open /\ k.svc = "publish" /\ Taken(View(d), View(d)', ch, View(d).back)
           /\ View(d)'.parked
  BY <1>1, <1>2, Zenon DEF Dispatched
<1> HIDE DEF k, ch
<1>3. CASE ~ch.open /\ Answers(d, ch, k.svc, FALSE)
  <2>1. Succeeds(chan[d], LeftBy(ch, k.svc, FALSE))
    BY <1>1, <1>3, LeftByFields, NoChanType, Zenon DEF Succeeds
  <2> QED
    BY <1>1, <1>3, <1>b, <2>1, AnswersView, Zenon
<1>4. CASE ch.open /\ k.svc = "call" /\ Answers(d, ch, k.svc, TRUE)
  <2>1. Succeeds(chan[d], LeftBy(ch, k.svc, TRUE))
    BY <1>1, <1>4, LeftByFields, NoChanType, Zenon DEF Succeeds
  <2> QED
    BY <1>1, <1>4, <1>b, <2>1, AnswersView, Zenon
<1>5. CASE ch.open /\ k.svc = "close" /\ Answers(d, NoChan, k.svc, TRUE)
  <2>1. Succeeds(chan[d], LeftBy(NoChan, k.svc, TRUE))
    <3>1. LeftBy(NoChan, k.svc, TRUE).id = 0 /\ LeftBy(NoChan, k.svc, TRUE).token = 0
      BY <1>5 DEF LeftBy, ClosesRejected, Counted, NoChan
    <3> QED
      BY <3>1, Zenon DEF Succeeds
  <2> QED
    BY <1>1, <1>5, <1>b, <2>1, AnswersView, NoChanType, Zenon
<1>6. CASE /\ ch.open
           /\ k.svc = "publish"
           /\ chan' = [chan EXCEPT ![d] = ch]
           /\ parked' = [parked EXCEPT ![d] = TRUE]
           /\ Consume(d)
           /\ UNCHANGED <<age, back>>
  <2>1. back' = [back EXCEPT ![d] = back[d]] /\ View(d).back = back[d]
    BY <1>6 DEF Typed, View
  <2>2. Taken(View(d), View(d)', ch, back[d]) /\ View(d)'.parked
    BY <1>6, <2>1 DEF Typed, Buffered, Handling, Consume, Taken, View
  <2>3. Elsewhere(d)
    <3>1. \A c \in Slot \ {d} : View(c)' = View(c)
      BY <1>6 DEF Typed, Consume, View
    <3>2. Tables'
      BY <1>6, Zenon DEF Typed, Consume, Tables, Table
    <3> QED
      BY <3>1, <3>2 DEF Elsewhere
  <2> QED
    BY <1>1, <1>6, <1>b, <2>1, <2>2, <2>3
<1> QED
  BY <1>2, <1>3, <1>4, <1>5, <1>6, Zenon DEF Dispatch

(* The id that is issued is borne by no other live connection. *)
LEMMA FirstFreeUnused ==
  ASSUME NEW d \in Slot, NEW r, NEW id \in Id, FirstFree(d, r, id)
  PROVE  id \in Id \ Used(d)
BY DEF FirstFree, Used

(* OpenSecureChannel issues, renews or refuses, or costs the connection. *)
LEMMA OpenView ==
  ASSUME Typed, Buffered, NEW d \in Slot, HandleOpen(d)
  PROVE  /\ \/ Ended(View(d), View(d)')
            \/ Opened(View(d), View(d)', Used(d))
         /\ Elsewhere(d)
<1> DEFINE k == Head(wire[d])
           ch == [Sequenced(chan[d], k) EXCEPT !.pol = Secured]
           u == View(d)
           v == View(d)'
<1>0. Handling(d)
  BY DEF HandleOpen
<1>1. /\ ch \in ChanType /\ ch.open = chan[d].open /\ ch.id = chan[d].id /\ ch.token = chan[d].token
      /\ Head(u.wire) = k /\ u.chan = chan[d]
      /\ chan[d] \in ChanType /\ k \in Chunk
  BY <1>0, HeadType, SequencedType
<1>2. /\ k.type = "OPN" /\ AcceptsChunk(chan[d], k)
      /\ OpenSecureChannel(d, ch)
  BY DEF HandleOpen
<1>a. Opened(u, v, Used(d)) <=>
        \/ Answered(u, v, ch, "open", FALSE)
        \/ chan[d].open /\ \E ok \in BOOLEAN : Answered(u, v, Renewed(ch), "open", ok)
        \/ /\ ~chan[d].open
           /\ \E ok \in BOOLEAN, id \in Id \ Used(d) : Answered(u, v, Issued(ch, id), "open", ok)
        \/ ~chan[d].open /\ Answered(u, v, NoChan, "open", FALSE)
  BY <1>1, <1>2, Zenon DEF Opened
<1>b. /\ \/ Answers(d, ch, "open", FALSE)
         \/ ch.open /\ \E ok \in BOOLEAN : Answers(d, Renewed(ch), "open", ok)
         \/ ~ch.open /\ \E ok \in BOOLEAN, r, id \in Id :
              FirstFree(d, r, id) /\ Answers(d, Issued(ch, id), "open", ok)
         \/ ~ch.open /\ Answers(d, NoChan, "open", FALSE)
  BY <1>2, Zenon DEF OpenSecureChannel, Renewed, Issued
<1>c. ch.open \in BOOLEAN
  BY <1>1 DEF ChanType
<1> HIDE DEF k, ch
<1>3. CASE Answers(d, ch, "open", FALSE)
  <2>1. Succeeds(chan[d], LeftBy(ch, "open", FALSE))
    BY <1>1, <1>c, LeftByFields, NoChanType, Zenon DEF Succeeds
  <2>2. (Ended(u, v) \/ Answered(u, v, ch, "open", FALSE)) /\ Elsewhere(d)
    BY <1>0, <1>1, <1>3, <2>1, AnswersView, Zenon
  <2> QED
    BY <1>a, <2>2, Zenon
<1>4. ASSUME ch.open, NEW ok \in BOOLEAN, Answers(d, Renewed(ch), "open", ok)
      PROVE  (Ended(u, v) \/ Opened(u, v, Used(d))) /\ Elsewhere(d)
  <2>0. Renewed(ch) \in ChanType /\ Renewed(ch).open = ch.open
    BY <1>1, Constants, OpenedType
  <2>1. Succeeds(chan[d], LeftBy(Renewed(ch), "open", ok))
    <3>1. Renewed(ch).open
      BY <1>4, <2>0
    <3> QED
      BY <2>0, <3>1, LeftByFields, NoChanType DEF Succeeds
  <2>2. (Ended(u, v) \/ Answered(u, v, Renewed(ch), "open", ok)) /\ Elsewhere(d)
    BY <1>0, <1>4, <2>0, <2>1, AnswersView
  <2> QED
    BY <1>1, <1>4, <1>a, <2>2, Zenon
<1>5. ASSUME ~ch.open, NEW ok \in BOOLEAN, NEW r \in Id, NEW id \in Id, FirstFree(d, r, id),
             Answers(d, Issued(ch, id), "open", ok)
      PROVE  (Ended(u, v) \/ Opened(u, v, Used(d))) /\ Elsewhere(d)
  <2>0. Issued(ch, id) \in ChanType /\ Issued(ch, id).open
    BY <1>1, OpenedType
  <2>1. Succeeds(chan[d], LeftBy(Issued(ch, id), "open", ok))
    BY <2>0, LeftByFields, NoChanType DEF Succeeds
  <2>2. (Ended(u, v) \/ Answered(u, v, Issued(ch, id), "open", ok)) /\ Elsewhere(d)
    BY <1>0, <1>5, <2>0, <2>1, AnswersView
  <2>3. id \in Id \ Used(d)
    BY <1>5, FirstFreeUnused
  <2> QED
    BY <1>1, <1>5, <1>a, <2>2, <2>3, Zenon
<1>6. CASE ~ch.open /\ Answers(d, NoChan, "open", FALSE)
  <2>1. LeftBy(NoChan, "open", FALSE).id = 0 /\ LeftBy(NoChan, "open", FALSE).token = 0
    BY DEF LeftBy, ClosesRejected, Counted, NoChan
  <2>2. Succeeds(chan[d], LeftBy(NoChan, "open", FALSE))
    BY <2>1, Zenon DEF Succeeds
  <2>3. (Ended(u, v) \/ Answered(u, v, NoChan, "open", FALSE)) /\ Elsewhere(d)
    BY <1>0, <1>6, <2>2, NoChanType, AnswersView, Zenon
  <2> QED
    BY <1>1, <1>6, <1>a, <2>3, Zenon
<1> QED
  BY <1>b, <1>3, <1>4, <1>5, <1>6, Zenon

(* Every handler of the receive buffer's first chunk. *)
LEMMA HandleMoves ==
  ASSUME Typed, Buffered, NEW d \in Slot, Handle(d)
  PROVE  /\ \/ Ended(View(d), View(d)')
            \/ Handled(View(d), View(d)', Used(d), asm.active)
         /\ Elsewhere(d)
<1> DEFINE k == Head(wire[d])
           u == View(d)
           v == View(d)'
<1>0. Handling(d)
  BY Zenon DEF Handle, HandleHello, HandleDropped, HandleAbort, HandleOpen, HandleMessage,
         HandleContinuation, HandleFinal, HandleReset, HandleClose
<1>1. /\ u.live /\ live[d] /\ u.wire # <<>> /\ Head(u.wire) = k /\ u.chan = chan[d]
      /\ k \in Chunk /\ chan[d] \in ChanType /\ u.back = back[d] /\ u.parked = parked[d]
  BY <1>0, HeadType DEF View
<1>2. Succeeds(chan[d], chan[d])
  BY <1>1 DEF Succeeds, ChanType
<1>3. ASSUME UNCHANGED chan
      PROVE  chan' = [chan EXCEPT ![d] = chan[d]]
  BY <1>3 DEF Typed
<1>4. ASSUME UNCHANGED chan, NEW abort, Closes(d, abort)
      PROVE  Ended(u, v) /\ Elsewhere(d)
  BY <1>1, <1>2, <1>3, <1>4, DisconnectView DEF Closes
<1>5. ASSUME Consume(d), UNCHANGED <<chan, parked, back>>
      PROVE  Taken(u, v, u.chan, u.back) /\ v.parked = u.parked /\ Elsewhere(d)
  <2>1. Taken(u, v, chan[d], back[d]) /\ v.parked = parked[d]
    BY <1>1, <1>5 DEF Typed, Consume, Taken, View
  <2>2. \A c \in Slot \ {d} : View(c)' = View(c)
    BY <1>5 DEF Typed, Consume, View
  <2>3. Tables'
    BY <1>5, Zenon DEF Typed, Consume, Tables, Table
  <2> QED
    BY <1>1, <2>1, <2>2, <2>3 DEF Elsewhere
<1>6. ASSUME UNCHANGED chan, NEW r, Sends(d, r, chan[d])
      PROVE  (Ended(u, v) \/ Noted(u, v, r)) /\ Elsewhere(d)
  <2>1. /\ \/ Ended(u, v)
           \/ /\ Taken(u, v, chan[d], Append(u.back, r))
              /\ v.parked <=> u.parked /\ chan[d].open
        /\ Elsewhere(d)
    BY <1>0, <1>1, <1>2, <1>3, <1>6, SendsView
  <2> QED
    BY <1>1, <2>1 DEF Noted
<1> HIDE DEF k
<1>7. CASE HandleHello(d)
  <2>1. CASE k.type = "HEL" /\ Sends(d, Ack, chan[d])
    BY <1>1, <1>6, <1>7, <2>1 DEF HandleHello, Handled
  <2>2. CASE Closes(d, FALSE)
    BY <1>4, <1>7, <2>2, Zenon DEF HandleHello
  <2> QED
    BY <1>7, <2>1, <2>2, Zenon DEF HandleHello, k
<1>8. CASE HandleDropped(d)
  <2>1. k.type = "MSG" /\ ~Unwraps(u.chan, k) /\ Consume(d) /\ UNCHANGED <<chan, parked, back>>
    BY <1>1, <1>8 DEF HandleDropped, k
  <2> QED
    BY <1>1, <1>5, <2>1, Zenon DEF Handled, Passed
<1>9. CASE HandleAbort(d)
  BY <1>4, <1>9, ZenonT(60) DEF HandleAbort
<1>10. CASE HandleOpen(d)
  BY <1>1, <1>10, OpenView DEF Handled
<1>11. CASE HandleMessage(d) \/ HandleFinal(d)
  <2>1. /\ k.type = "MSG" /\ AcceptsChunk(chan[d], k)
        /\ Dispatch(d, Sequenced(chan[d], k), k.svc)
    BY <1>11, ZenonT(60) DEF HandleMessage, HandleFinal, k
  <2> QED
    BY <1>0, <1>1, <2>1, DispatchView DEF Handled, k
<1>12. CASE HandleContinuation(d)
  <2>1. k.type = "CON" /\ UNCHANGED chan
    BY <1>12 DEF HandleContinuation, k
  <2>2. CASE Consume(d) /\ UNCHANGED <<age, parked, back>>
    BY <1>1, <1>5, <2>1, <2>2 DEF Handled, Passed
  <2>3. CASE Sends(d, Err, chan[d])
    BY <1>1, <1>6, <2>1, <2>3 DEF Handled
  <2> QED
    BY <1>12, <2>2, <2>3 DEF HandleContinuation
<1>13. CASE HandleReset(d)
  <2>1. /\ k.type = "ABT" \/ (k.type = "MSG" /\ asm.active)
        /\ Consume(d) /\ UNCHANGED <<chan, parked, back>>
    BY <1>13 DEF HandleReset, k
  <2> QED
    BY <1>1, <1>5, <2>1 DEF Handled, Passed
<1>14. CASE HandleClose(d)
  <2> DEFINE ch == IF chan[d].open THEN NoChan ELSE chan[d]
  <2>1. chan' = [chan EXCEPT ![d] = ch] /\ Disconnect(d, FALSE)
    BY <1>14, Zenon DEF HandleClose, Closes
  <2>2. ch \in ChanType /\ Succeeds(chan[d], ch)
    BY <1>1, NoChanType DEF Succeeds
  <2> QED
    BY <1>1, <2>1, <2>2, DisconnectView, Zenon
<1> QED
  BY <1>7, <1>8, <1>9, <1>10, <1>11, <1>12, <1>13, <1>14 DEF Handle

(* Every action of a client. *)
LEMMA ClientMoves ==
  ASSUME Typed, NEW d \in Slot, Client(d)
  PROVE  /\ Asked(View(d), View(d)') \/ Got(View(d), View(d)')
         /\ Elsewhere(d)
<1> DEFINE u == View(d)
           v == View(d)'
<1>1. /\ u.live = live[d] /\ u.chan = chan[d] /\ u.parked = parked[d] /\ u.wire = wire[d]
      /\ u.back = back[d] /\ u.peer = peer[d]
  BY DEF View
<1>2. /\ v.live = live'[d] /\ v.chan = chan'[d] /\ v.parked = parked'[d] /\ v.wire = wire'[d]
      /\ v.back = back'[d] /\ v.peer = peer'[d]
  BY DEF View
<1> HIDE DEF u, v
<1>3. ASSUME NEW k, NEW p, ClientSends(d, k, p)
      PROVE  Sent(u, v, k, p) /\ Elsewhere(d)
  <2>1. Sent(u, v, k, p)
    BY <1>1, <1>2, <1>3 DEF Typed, ClientSends, ServerVars, Sent
  <2>2. \A c \in Slot \ {d} : View(c)' = View(c)
    BY <1>3 DEF Typed, ClientSends, ServerVars, View
  <2>3. Tables'
    BY <1>3, Zenon DEF Typed, ClientSends, ServerVars, Tables, Table
  <2> QED
    BY <2>1, <2>2, <2>3 DEF Elsewhere
<1>5. CASE ClientHello(d)
  <2>1. Sent(u, v, ChunkOf(d, "HEL", 0, "none", 1), [peer[d] EXCEPT !.phase = "hello"]) /\ Elsewhere(d)
    BY <1>3, <1>5 DEF ClientHello
  <2>2. AskedHello(u, v, peer[d])
    BY <1>5, <2>1 DEF ClientHello, AskedHello, ChunkOf, ChunkFrom
  <2> QED
    BY <1>1, <2>1, <2>2 DEF Asked, u, v
<1>6. CASE ClientOpens(d)
  <2>1. PICK n \in NextNumbers(peer[d].seq) :
          ClientSends(d, ChunkOf(d, "OPN", n, "none", 1),
                      [peer[d] EXCEPT !.phase = "opening", !.seq = n, !.pend = @ + 1])
    BY <1>6, Zenon DEF ClientOpens
  <2>2. /\ Sent(u, v, ChunkOf(d, "OPN", n, "none", 1),
                [peer[d] EXCEPT !.phase = "opening", !.seq = n, !.pend = @ + 1])
        /\ Elsewhere(d)
    BY <1>3, <2>1
  <2>3. AskedOpen(u, v, peer[d])
    BY <1>6, <2>2, Zenon DEF ClientOpens, AskedOpen, ChunkOf, ChunkFrom
  <2> QED
    BY <1>1, <2>2, <2>3 DEF Asked, u, v
<1>7. CASE ClientRequests(d)
  <2> DEFINE P(n, svc) == [peer[d] EXCEPT !.seq = n, !.part = 0,
                                   !.phase = IF svc = "close" THEN "closing" ELSE @,
                                   !.pend = IF svc = "publish" THEN @ ELSE @ + 1]
  <2>1. PICK n \in IF Mistakes /\ peer[d].phase = "open" THEN Number ELSE NextNumbers(peer[d].seq),
             svc \in {"call", "publish", "close"} :
          /\ peer[d].pend < MaxPend
          /\ \/ peer[d].phase = "open"
             \/ Mistakes /\ peer[d].phase = "ready" /\ svc = "call"
          /\ ClientSends(d, ChunkOf(d, "MSG", n, svc, peer[d].part + 1), P(n, svc))
    BY <1>7, Zenon DEF ClientRequests
  <2>2. Sent(u, v, ChunkOf(d, "MSG", n, svc, peer[d].part + 1), P(n, svc)) /\ Elsewhere(d)
    BY <1>3, <2>1
  <2>3. AskedService(u, v, peer[d])
    BY <2>1, <2>2, ZenonT(60) DEF AskedService, ChunkOf, ChunkFrom
  <2> QED
    BY <1>1, <2>2, <2>3 DEF Asked, u, v
<1>8. CASE ClientContinues(d)
  <2>1. PICK n \in Number :
          /\ peer[d].phase = "open"
          /\ IF CountsAll THEN Mistakes \/ n \in NextNumbers(peer[d].seq) ELSE n = peer[d].seq
          /\ \/ /\ peer[d].part + 1 < MaxParts
                /\ ClientSends(d, ChunkOf(d, "CON", n, "none", peer[d].part + 1),
                               [peer[d] EXCEPT !.seq = n, !.part = @ + 1])
             \/ /\ peer[d].part > 0
                /\ ClientSends(d, ChunkOf(d, "ABT", n, "none", peer[d].part + 1),
                               [peer[d] EXCEPT !.seq = n, !.part = 0])
    BY <1>8, Zenon DEF ClientContinues
  <2>2. /\ \/ /\ peer[d].part + 1 < MaxParts
              /\ Sent(u, v, ChunkOf(d, "CON", n, "none", peer[d].part + 1),
                      [peer[d] EXCEPT !.seq = n, !.part = @ + 1])
           \/ /\ peer[d].part > 0
              /\ Sent(u, v, ChunkOf(d, "ABT", n, "none", peer[d].part + 1),
                      [peer[d] EXCEPT !.seq = n, !.part = 0])
        /\ Elsewhere(d)
    BY <1>3, <2>1
  <2>3. AskedPart(u, v, peer[d])
    BY <2>1, <2>2, Zenon DEF AskedPart, ChunkOf, ChunkFrom
  <2> QED
    BY <1>1, <2>2, <2>3 DEF Asked, u, v
<1>9. CASE ClientCloses(d)
  <2>1. PICK n \in NextNumbers(peer[d].seq) :
          ClientSends(d, ChunkOf(d, "CLO", n, "none", 1), [peer[d] EXCEPT !.phase = "done", !.seq = n])
    BY <1>9, Zenon DEF ClientCloses
  <2>2. /\ Sent(u, v, ChunkOf(d, "CLO", n, "none", 1), [peer[d] EXCEPT !.phase = "done", !.seq = n])
        /\ Elsewhere(d)
    BY <1>3, <2>1
  <2>3. AskedClose(u, v, peer[d])
    BY <1>9, <2>2, Zenon DEF ClientCloses, AskedClose, ChunkOf, ChunkFrom
  <2> QED
    BY <1>1, <2>2, <2>3 DEF Asked, u, v
<1>10. CASE ClientReceives(d)
  <2>1. Got(u, v)
    BY <1>1, <1>2, <1>10 DEF Typed, ClientReceives, ServerVars, Got
  <2>2. \A c \in Slot \ {d} : View(c)' = View(c)
    BY <1>10 DEF Typed, ClientReceives, ServerVars, View
  <2>3. Tables'
    BY <1>10, Zenon DEF Typed, ClientReceives, ServerVars, Tables, Table
  <2> QED
    BY <2>1, <2>2, <2>3 DEF Elsewhere, u, v
<1> QED
  BY <1>5, <1>6, <1>7, <1>8, <1>9, <1>10 DEF Client

(* The poll loop and time. *)
LEMMA PollMoves ==
  ASSUME Typed, Buffered, NEW d \in Slot, AtRest(View(d)),
         Accept(d) \/ SkipFree(d) \/ IdleTimeout(d) \/ Visit(d) \/ Emit(d)
  PROVE  /\ \/ View(d)' = View(d)
            \/ Accepted(View(d), View(d)')
            \/ Ended(View(d), View(d)')
            \/ Emitted(View(d), View(d)')
         /\ Elsewhere(d)
<1>1. chan[d] \in ChanType /\ Succeeds(chan[d], chan[d])
  BY DEF Typed, Succeeds, ChanType
<1>2. ASSUME UNCHANGED <<live, chan, parked, wire, back, peer>>
      PROVE  View(d)' = View(d) /\ Elsewhere(d)
  BY <1>2 DEF Typed, Elsewhere, Tables, Table, View
<1>3. ASSUME live[d], Disconnect(d, FALSE), UNCHANGED chan
      PROVE  Ended(View(d), View(d)') /\ Elsewhere(d)
  <2>1. chan' = [chan EXCEPT ![d] = chan[d]]
    BY <1>3 DEF Typed
  <2> QED
    BY <1>1, <1>3, <2>1, DisconnectView, Zenon
<1>4. CASE Accept(d)
  <2>1. Accepted(View(d), View(d)')
    BY <1>4 DEF Typed, Accept, Accepted, View
  <2>2. \A c \in Slot \ {d} : View(c)' = View(c)
    BY <1>4 DEF Typed, Accept, View
  <2>3. Tables'
    BY <1>4, Zenon DEF Typed, Accept, Tables, Table
  <2> QED
    BY <2>1, <2>2, <2>3 DEF Elsewhere
<1>5. CASE SkipFree(d)
  BY <1>2, <1>5 DEF SkipFree
<1>6. CASE IdleTimeout(d)
  BY <1>3, <1>6 DEF IdleTimeout, Closes
<1>7. CASE Visit(d)
  <2>1. CASE Closes(d, FALSE)
    BY <1>3, <1>7, <2>1 DEF Visit, Closes
  <2>2. CASE UNCHANGED <<live, age, parked, wire, back, peer, aborted>>
    BY <1>2, <1>7, <2>2 DEF Visit
  <2> QED
    BY <1>7, <2>1, <2>2, Zenon DEF Visit
<1>8. CASE Emit(d)
  <2> DEFINE next == Counted(chan[d])
             r == [to |-> "publish", ok |-> TRUE, id |-> next.id, token |-> next.token, seq |-> next.out]
  <2>1. /\ next \in ChanType /\ next.id = chan[d].id /\ next.token = chan[d].token
        /\ next.open = chan[d].open /\ r = Reply(chan[d], "publish", TRUE)
    <3>1. chan[d].out + 1 \in Int
      BY <1>1, Constants, SMTT(30) DEF ChanType, Number
    <3>2. (chan[d].out + 1) % SeqMod \in Number
      BY <3>1, Constants
    <3> QED
      BY <1>1, <3>2 DEF Counted, ChanType, Reply
  <2>2. /\ parked[d] /\ chan' = [chan EXCEPT ![d] = next]
        /\ \/ /\ parked' = [parked EXCEPT ![d] = FALSE]
              /\ \/ back' = [back EXCEPT ![d] = Append(@, r)]
                 \/ Secured /\ UNCHANGED back
              /\ UNCHANGED <<live, wire, peer>>
           \/ Disconnect(d, FALSE)
    BY <1>8, Zenon DEF Emit
  <2> HIDE DEF next, r
  <2>3. CASE Disconnect(d, FALSE)
    <3>1. Succeeds(chan[d], next)
      BY <1>1, <2>1 DEF Succeeds, ChanType
    <3>2. live[d]
      BY <2>2, Zenon DEF AtRest, View
    <3> QED
      BY <2>1, <2>2, <2>3, <3>1, <3>2, DisconnectView, ZenonT(60)
  <2>4. CASE /\ parked' = [parked EXCEPT ![d] = FALSE]
             /\ \/ back' = [back EXCEPT ![d] = Append(@, r)]
                \/ Secured /\ UNCHANGED back
             /\ UNCHANGED <<live, wire, peer>>
    <3>1. Emitted(View(d), View(d)')
      BY <2>1, <2>2, <2>4, Zenon DEF Typed, Emitted, View, next
    <3>2. \A c \in Slot \ {d} : View(c)' = View(c)
      BY <2>2, <2>4 DEF Typed, View
    <3>3. Tables'
      BY <2>2, <2>4, Zenon DEF Typed, Tables, Table
    <3> QED
      BY <3>1, <3>2, <3>3 DEF Elsewhere
  <2> QED
    BY <2>2, <2>3, <2>4, Zenon
<1> QED
  BY <1>4, <1>5, <1>6, <1>7, <1>8

(* A step of the poll loop, of a client or of time is a move of every         *)
(* connection: of the one it is about, the others are left alone.             *)
LEMMA StepMoves ==
  ASSUME Typed, Buffered, \A c \in Slot : AtRest(View(c)), [Next]_vars
  PROVE  /\ Tables'
         /\ \A c \in Slot : Moved(View(c), View(c)', Used(c), asm.active)
         /\ \/ \A c \in Slot : View(c)' = View(c)
            \/ \E d \in Slot : Elsewhere(d)
<1>1. ASSUME UNCHANGED <<live, chan, parked, wire, back, peer>>
      PROVE  Tables' /\ \A c \in Slot : View(c)' = View(c)
  BY <1>1 DEF Typed, Tables, Table, View
<1>2. ASSUME NEW d \in Slot, Moved(View(d), View(d)', Used(d), asm.active), Elsewhere(d)
      PROVE  /\ Tables' /\ \A c \in Slot : Moved(View(c), View(c)', Used(c), asm.active)
             /\ \E e \in Slot : Elsewhere(e)
  BY <1>2 DEF Elsewhere, Moved
<1>3. CASE NoAccept \/ EndPoll \/ Tick \/ UNCHANGED vars
  <2>1. UNCHANGED <<live, chan, parked, wire, back, peer>>
    BY <1>3 DEF NoAccept, EndPoll, Tick, vars
  <2> QED
    BY <1>1, <2>1 DEF Moved
<1>4. ASSUME NEW d \in Slot, Accept(d) \/ SkipFree(d) \/ IdleTimeout(d) \/ Visit(d) \/ Emit(d)
      PROVE  Moved(View(d), View(d)', Used(d), asm.active) /\ Elsewhere(d)
  BY <1>4, PollMoves DEF Moved
<1>5. ASSUME NEW d \in Slot, Handle(d)
      PROVE  Moved(View(d), View(d)', Used(d), asm.active) /\ Elsewhere(d)
  BY <1>5, HandleMoves DEF Moved
<1>6. ASSUME NEW d \in Slot, Client(d)
      PROVE  Moved(View(d), View(d)', Used(d), asm.active) /\ Elsewhere(d)
  BY <1>6, ClientMoves DEF Moved
<1>7. CASE \E d \in Slot : \/ Accept(d) \/ SkipFree(d) \/ IdleTimeout(d) \/ Visit(d)
                           \/ Handle(d) \/ Emit(d) \/ Client(d)
  <2>1. PICK d \in Slot : \/ Accept(d) \/ SkipFree(d) \/ IdleTimeout(d) \/ Visit(d)
                          \/ Handle(d) \/ Emit(d) \/ Client(d)
    BY <1>7
  <2>2. Moved(View(d), View(d)', Used(d), asm.active) /\ Elsewhere(d)
    BY <1>4, <1>5, <1>6, <2>1
  <2> QED
    BY <1>2, <2>2
<1> QED
  BY <1>3, <1>7 DEF Next

-----------------------------------------------------------------------------
(* Types are kept *)

FieldsTyped(v) ==
  /\ v.live \in BOOLEAN /\ v.chan \in ChanType /\ v.parked \in BOOLEAN
  /\ v.wire \in Seq(Request) /\ v.back \in Seq(Response) /\ v.peer \in PeerShape

(* In a typed state every view is typed. *)
LEMMA TypedViews ==
  ASSUME NEW c \in Slot, Typed
  PROVE  FieldsTyped(View(c))
BY DEF Typed, View, FieldsTyped

(* A number that may follow is a number. *)
LEMMA NextNumbersType ==
  ASSUME NEW n \in Number \cup {None}
  PROVE  NextNumbers(n) \subseteq Number
<1>1. n + 1 \in Int
  BY Constants DEF Number, None
<1>2. (n + 1) % SeqMod \in Number
  BY <1>1, Constants
<1> QED
  BY <1>2, ChannelAssumption DEF NextNumbers, Number

(* A response is one. *)
LEMMA ReplyType ==
  ASSUME NEW ch \in ChanType, NEW to \in {"open", "call", "publish", "close"}, NEW ok \in BOOLEAN
  PROVE  Reply(ch, to, ok) \in Response
<1>1. ch.out + 1 \in Int
  BY Constants DEF ChanType, Number
<1>2. (ch.out + 1) % SeqMod \in Number
  BY <1>1, Constants
<1>3. Counted(ch).out \in Number
  BY <1>2 DEF Counted, ChanType
<1> QED
  BY <1>3 DEF Reply, ChanType, Response

(* A client that has just connected. *)
LEMMA NewPeerType == NewPeer \in PeerShape
BY Constants DEF NewPeer, PeerShape, None

(* What a response of each kind tells the client. *)
LEMMA InformedIs ==
  ASSUME NEW p, NEW r \in Response
  PROVE  /\ r.to = "hello" => Informed(p, r) = [p EXCEPT !.phase = "ready"]
         /\ r.to = "error" => Informed(p, r) = [p EXCEPT !.phase = "done"]
         /\ r.to = "call" => Informed(p, r) = [p EXCEPT !.got = r.seq, !.pend = @ - 1]
         /\ r.to = "publish" => Informed(p, r) = [p EXCEPT !.got = r.seq]
         /\ r.to = "open" /\ r.ok =>
              Informed(p, r) = [p EXCEPT !.phase = "open", !.id = r.id, !.token = r.token,
                                         !.got = r.seq, !.pend = @ - 1]
         /\ r.to = "close" \/ (r.to = "open" /\ ~r.ok) =>
              Informed(p, r) = [p EXCEPT !.phase = "ready", !.id = 0, !.token = 0, !.got = None,
                                         !.pend = @ - 1]
BY DEF Informed, Response

(* A response leaves the client in one of its phases. *)
LEMMA InformedType ==
  ASSUME NEW p \in PeerShape, NEW r \in Response
  PROVE  Informed(p, r) \in PeerShape
<1>1. r.ok \in BOOLEAN /\ r.id \in Id /\ r.token \in Token /\ r.seq \in Number
  BY DEF Response
<1>a. p.pend - 1 \in Int /\ 0 \in Id /\ 0 \in Token
  BY Constants DEF PeerShape
<1>2. CASE r.to = "hello"
  <2>1. Informed(p, r) = [p EXCEPT !.phase = "ready"]
    BY <1>2, InformedIs, Zenon
  <2> QED
    BY <2>1 DEF PeerShape
<1>3. CASE r.to = "error"
  <2>1. Informed(p, r) = [p EXCEPT !.phase = "done"]
    BY <1>3, InformedIs, Zenon
  <2> QED
    BY <2>1 DEF PeerShape
<1>4. CASE r.to = "call"
  <2>1. Informed(p, r) = [p EXCEPT !.got = r.seq, !.pend = @ - 1]
    BY <1>4, InformedIs, Zenon
  <2> QED
    BY <1>1, <1>a, <2>1, Zenon DEF PeerShape
<1>5. CASE r.to = "publish"
  <2>1. Informed(p, r) = [p EXCEPT !.got = r.seq]
    BY <1>5, InformedIs, Zenon
  <2> QED
    BY <1>1, <2>1 DEF PeerShape
<1>6. CASE r.to = "open" /\ r.ok
  <2>1. Informed(p, r) = [p EXCEPT !.phase = "open", !.id = r.id, !.token = r.token, !.got = r.seq,
                                   !.pend = @ - 1]
    BY <1>6, InformedIs, Zenon
  <2> QED
    BY <1>1, <1>a, <2>1, Zenon DEF PeerShape
<1>7. CASE r.to = "close" \/ (r.to = "open" /\ ~r.ok)
  <2>1. Informed(p, r) = [p EXCEPT !.phase = "ready", !.id = 0, !.token = 0, !.got = None, !.pend = @ - 1]
    BY <1>7, InformedIs, Zenon
  <2> QED
    BY <1>a, <2>1, Zenon DEF PeerShape
<1> QED
  BY <1>1, <1>2, <1>3, <1>4, <1>5, <1>6, <1>7 DEF Response

(* What a client sends is a request. *)
LEMMA ChunkFromType ==
  ASSUME NEW p \in PeerShape, NEW type \in {"HEL", "OPN", "MSG", "CON", "ABT", "CLO"},
         NEW n \in Number, NEW svc \in {"none", "call", "publish", "close"},
         NEW part \in 1 .. MaxParts, type = "MSG" => svc # "none"
  PROVE  ChunkFrom(p, type, n, svc, part) \in Request
BY DEF ChunkFrom, PeerShape, Chunk, Request

(* A client that sends something sends one request, and stays typed. *)
LEMMA AskedType ==
  ASSUME NEW u, NEW v, FieldsTyped(u), Asked(u, v)
  PROVE  /\ FieldsTyped(v)
         /\ \E k \in Request : Sent(u, v, k, v.peer)
<1> DEFINE p == u.peer
<1>1. /\ p \in PeerShape /\ u.wire \in Seq(Request) /\ u.back \in Seq(Response) /\ p.pend \in Int
      /\ p.part \in 0 .. MaxParts - 1 /\ p.part + 1 \in 1 .. MaxParts /\ 1 \in 1 .. MaxParts
      /\ p.seq \in Number \cup {None} /\ 0 \in 0 .. MaxParts - 1 /\ p.pend + 1 \in Int
      /\ p.part + 1 < MaxParts => p.part + 1 \in 0 .. MaxParts - 1
  <2>1. p \in PeerShape /\ u.wire \in Seq(Request) /\ u.back \in Seq(Response)
    BY DEF FieldsTyped
  <2>2. p.pend \in Int /\ p.part \in 0 .. MaxParts - 1 /\ p.seq \in Number \cup {None}
    BY <2>1 DEF PeerShape
  <2> HIDE DEF p
  <2>3. /\ p.part + 1 \in 1 .. MaxParts /\ 1 \in 1 .. MaxParts /\ 0 \in 0 .. MaxParts - 1
        /\ p.part + 1 < MaxParts => p.part + 1 \in 0 .. MaxParts - 1
        /\ p.pend + 1 \in Int
    BY <2>2, ChannelAssumption
  <2> QED
    BY <2>1, <2>2, <2>3
<1>2. NextNumbers(p.seq) \subseteq Number
  BY <1>1, NextNumbersType
<1>3. ASSUME NEW k \in Request, NEW q \in PeerShape, Sent(u, v, k, q)
      PROVE  FieldsTyped(v) /\ \E kk \in Request : Sent(u, v, kk, v.peer)
  <2>1. v.peer = q /\ v.wire = Append(u.wire, k) /\ FieldsTyped(u)
    BY <1>3 DEF Sent
  <2>2. v.wire \in Seq(Request)
    BY <1>1, <1>3, <2>1
  <2>3. FieldsTyped(v)
    BY <1>3, <2>1, <2>2 DEF Sent, FieldsTyped
  <2> QED
    BY <1>3, <2>1, <2>3
<1> HIDE DEF p
<1>4. CASE AskedHello(u, v, p)
  <2> DEFINE q == [p EXCEPT !.phase = "hello"]
  <2>1. q \in PeerShape
    BY <1>1 DEF PeerShape
  <2>2. ChunkFrom(p, "HEL", 0, "none", 1) \in Request
    BY <1>1, Constants, ChunkFromType
  <2>3. Sent(u, v, ChunkFrom(p, "HEL", 0, "none", 1), q)
    BY <1>4 DEF AskedHello
  <2> HIDE DEF q
  <2> QED
    BY <1>3, <2>1, <2>2, <2>3
<1>5. CASE AskedOpen(u, v, p)
  <2>1. PICK n \in NextNumbers(p.seq) :
          Sent(u, v, ChunkFrom(p, "OPN", n, "none", 1),
               [p EXCEPT !.phase = "opening", !.seq = n, !.pend = @ + 1])
    BY <1>5, Zenon DEF AskedOpen
  <2> DEFINE q == [p EXCEPT !.phase = "opening", !.seq = n, !.pend = @ + 1]
  <2>2. n \in Number
    BY <1>2
  <2>3. q \in PeerShape
    BY <1>1, <2>2, Zenon DEF PeerShape
  <2>4. ChunkFrom(p, "OPN", n, "none", 1) \in Request
    BY <1>1, <2>2, ChunkFromType
  <2> HIDE DEF q
  <2> QED
    BY <1>3, <2>1, <2>3, <2>4 DEF q
<1>6. CASE AskedService(u, v, p)
  <2> DEFINE Q(n, svc) == [p EXCEPT !.seq = n, !.part = 0,
                                   !.phase = IF svc = "close" THEN "closing" ELSE @,
                                   !.pend = IF svc = "publish" THEN @ ELSE @ + 1]
  <2>1. PICK n \in IF Mistakes /\ p.phase = "open" THEN Number ELSE NextNumbers(p.seq),
             svc \in {"call", "publish", "close"} :
          Sent(u, v, ChunkFrom(p, "MSG", n, svc, p.part + 1), Q(n, svc))
    BY <1>6, Zenon DEF AskedService
  <2>2. n \in Number
    BY <1>2
  <2>3. Q(n, svc) \in PeerShape
    BY <1>1, <2>2, Zenon DEF PeerShape
  <2>4. ChunkFrom(p, "MSG", n, svc, p.part + 1) \in Request
    BY <1>1, <2>2, ChunkFromType
  <2> HIDE DEF Q
  <2> QED
    BY <1>3, <2>1, <2>3, <2>4
<1>7. CASE AskedPart(u, v, p)
  <2>1. PICK n \in Number :
          \/ /\ p.part + 1 < MaxParts
             /\ Sent(u, v, ChunkFrom(p, "CON", n, "none", p.part + 1), [p EXCEPT !.seq = n, !.part = @ + 1])
          \/ Sent(u, v, ChunkFrom(p, "ABT", n, "none", p.part + 1), [p EXCEPT !.seq = n, !.part = 0])
    BY <1>7, Zenon DEF AskedPart
  <2>2. [p EXCEPT !.seq = n, !.part = 0] \in PeerShape
    BY <1>1, Zenon DEF PeerShape
  <2>3. p.part + 1 < MaxParts => [p EXCEPT !.seq = n, !.part = @ + 1] \in PeerShape
    BY <1>1, Zenon DEF PeerShape
  <2>4. /\ ChunkFrom(p, "CON", n, "none", p.part + 1) \in Request
        /\ ChunkFrom(p, "ABT", n, "none", p.part + 1) \in Request
    BY <1>1, ChunkFromType
  <2> QED
    BY <1>3, <2>1, <2>2, <2>3, <2>4
<1>8. CASE AskedClose(u, v, p)
  <2>1. PICK n \in NextNumbers(p.seq) :
          Sent(u, v, ChunkFrom(p, "CLO", n, "none", 1), [p EXCEPT !.phase = "done", !.seq = n])
    BY <1>8, Zenon DEF AskedClose
  <2>2. n \in Number
    BY <1>2
  <2>3. [p EXCEPT !.phase = "done", !.seq = n] \in PeerShape
    BY <1>1, <2>2, Zenon DEF PeerShape
  <2>4. ChunkFrom(p, "CLO", n, "none", 1) \in Request
    BY <1>1, <2>2, ChunkFromType
  <2> QED
    BY <1>3, <2>1, <2>3, <2>4
<1> QED
  BY <1>4, <1>5, <1>6, <1>7, <1>8 DEF Asked, p

(* The first chunk of a typed stream is one, and the rest is a stream. *)
LEMMA HeadRequest ==
  ASSUME NEW u, FieldsTyped(u), u.wire # <<>>
  PROVE  /\ Head(u.wire) \in Chunk
         /\ Head(u.wire).type = "MSG" => Head(u.wire).svc \in {"call", "publish", "close"}
         /\ Tail(u.wire) \in Seq(Request)
<1>1. Head(u.wire) \in Request /\ Tail(u.wire) \in Seq(Request)
  BY DEF FieldsTyped
<1> QED
  BY <1>1 DEF Request, Chunk

(* A view from which a chunk was taken stays typed. *)
LEMMA TakenType ==
  ASSUME NEW u, NEW v, FieldsTyped(u), u.wire # <<>>, NEW ch \in ChanType, NEW b \in Seq(Response),
         Taken(u, v, ch, b), v.parked \in BOOLEAN
  PROVE  FieldsTyped(v)
BY HeadRequest DEF Taken, FieldsTyped

(* A view whose client was answered stays typed. *)
LEMMA AnsweredType ==
  ASSUME NEW u, NEW v, FieldsTyped(u), u.wire # <<>>, NEW ch \in ChanType,
         NEW to \in {"open", "call", "publish", "close"}, NEW ok \in BOOLEAN,
         Answered(u, v, ch, to, ok), v.parked \in BOOLEAN
  PROVE  FieldsTyped(v)
<1>1. LeftBy(ch, to, ok) \in ChanType /\ Reply(ch, to, ok) \in Response
  BY LeftByFields, ReplyType
<1>2. u.back \in Seq(Response)
  BY DEF FieldsTyped
<1>3. Append(u.back, Reply(ch, to, ok)) \in Seq(Response)
  BY <1>1, <1>2
<1> QED
  BY <1>1, <1>2, <1>3, TakenType, Zenon DEF Answered

(* Every move keeps a view typed. *)
LEMMA MovedType ==
  ASSUME NEW u, NEW v, NEW used, NEW assembling, FieldsTyped(u), Moved(u, v, used, assembling),
         v.parked \in BOOLEAN, v.live \in BOOLEAN
  PROVE  FieldsTyped(v)
<1>0. CASE v = u
  BY <1>0
<1>a. CASE Accepted(u, v)
  BY <1>a, NoChanType DEF Accepted, FieldsTyped
<1>1. CASE Ended(u, v)
  <2>1. <<>> \in Seq(Request) /\ <<>> \in Seq(Response)
    OBVIOUS
  <2> QED
    BY <1>1, <2>1, NewPeerType DEF Ended, FieldsTyped
<1>2. CASE Handled(u, v, used, assembling)
  <2>1. u.wire # <<>> /\ u.chan \in ChanType /\ u.back \in Seq(Response) /\ Head(u.wire) \in Chunk
    BY <1>2, HeadRequest, Zenon DEF Handled, FieldsTyped
  <2> DEFINE ks == Sequenced(u.chan, Head(u.wire))
             ch == [ks EXCEPT !.pol = Secured]
  <2>2. ks \in ChanType /\ ch \in ChanType
    BY <2>1, SequencedType
  <2>3. CASE Noted(u, v, Ack) \/ Noted(u, v, Err)
    <3>1. Ack \in Response /\ Err \in Response
      BY Constants DEF Ack, Err, Response
    <3>2. Append(u.back, Ack) \in Seq(Response) /\ Append(u.back, Err) \in Seq(Response)
      BY <2>1, <3>1
    <3> QED
      BY <2>1, <2>3, <3>2, TakenType, Zenon DEF Noted
  <2>4. CASE Passed(u, v, assembling)
    BY <2>1, <2>4, TakenType DEF Passed
  <2>5. CASE Opened(u, v, used)
    <3> HIDE DEF ks
    <3>1. \/ Answered(u, v, ch, "open", FALSE)
          \/ \E ok \in BOOLEAN : Answered(u, v, Renewed(ch), "open", ok)
          \/ \E ok \in BOOLEAN, id \in Id : Answered(u, v, Issued(ch, id), "open", ok)
          \/ Answered(u, v, NoChan, "open", FALSE)
      BY <2>5, Zenon DEF Opened, ks
    <3> HIDE DEF ch
    <3>2. Renewed(ch) \in ChanType /\ \A id \in Id : Issued(ch, id) \in ChanType
      BY <2>2, Constants, OpenedType, ZenonT(60)
    <3> QED
      BY <2>1, <2>2, <3>1, <3>2, NoChanType, AnsweredType, Zenon
  <2>6. CASE Dispatched(u, v)
    <3> HIDE DEF ks
    <3>1. Head(u.wire).svc \in {"open", "call", "publish", "close"}
      BY <2>1, <2>6, HeadRequest DEF Dispatched
    <3>2. \/ Answered(u, v, ks, Head(u.wire).svc, FALSE)
          \/ Answered(u, v, ks, Head(u.wire).svc, TRUE)
          \/ Answered(u, v, NoChan, Head(u.wire).svc, TRUE)
          \/ Taken(u, v, ks, u.back)
      BY <2>6, Zenon DEF Dispatched, ks
    <3> QED
      BY <2>1, <2>2, <3>1, <3>2, NoChanType, AnsweredType, TakenType, Zenon
  <2> QED
    BY <1>2, <2>3, <2>4, <2>5, <2>6 DEF Handled
<1>3. CASE Emitted(u, v)
  <2>1. u.chan \in ChanType /\ u.back \in Seq(Response)
    BY DEF FieldsTyped
  <2>2. Counted(u.chan) \in ChanType
    BY <2>1, LeftByFields, Zenon DEF LeftBy, ClosesRejected
  <2> DEFINE r == Reply(u.chan, "publish", TRUE)
  <2>a. r \in Response
    BY <2>1, ReplyType, Zenon
  <2> HIDE DEF r
  <2>3. Append(u.back, r) \in Seq(Response)
    BY <2>1, <2>a
  <2> QED
    BY <1>3, <2>1, <2>2, <2>3, Zenon DEF Emitted, FieldsTyped, r
<1>4. CASE Asked(u, v)
  BY <1>4, AskedType
<1>5. CASE Got(u, v)
  <2>1. u.back \in Seq(Response) /\ Head(u.back) \in Response /\ Tail(u.back) \in Seq(Response)
    BY <1>5 DEF FieldsTyped, Got
  <2>2. Informed(u.peer, Head(u.back)) \in PeerShape
    BY <2>1, InformedType DEF FieldsTyped
  <2> QED
    BY <1>5, <2>1, <2>2 DEF Got, FieldsTyped
<1> QED
  BY <1>0, <1>a, <1>1, <1>2, <1>3, <1>4, <1>5 DEF Moved

Place ==
  /\ at \in 0 .. Background
  /\ rx \in Nat
  /\ est \in [Slot -> BOOLEAN]
  /\ asm \in [active : BOOLEAN, parts : Seq(Piece)]

(* Every slot is a place the poll can be at, and so is the next. *)
LEMMA SlotPlace ==
  ASSUME NEW d \in Slot
  PROVE  d \in Nat /\ d > 0 /\ d \in 0 .. Background /\ d + 1 \in 0 .. Background
BY Constants DEF Slot, Background

(* After a chunk the poll is at a place it can be at. *)
LEMMA ConsumePlace ==
  ASSUME Typed, Buffered, NEW d \in Slot, Handling(d), Consume(d)
  PROVE  at' \in 0 .. Background /\ rx' \in Nat /\ Buffered'
<1>1. at = d /\ rx > 0 /\ rx \in Nat /\ live[d] /\ rx <= Len(wire[d]) /\ wire[d] \in Seq(Request)
  BY DEF Handling, Typed, Buffered
<1>2. rx' = rx - 1 /\ live' = live /\ wire' = [wire EXCEPT ![d] = Tail(@)] /\ at' \in {d, d + 1}
  BY <1>1 DEF Consume
<1>3. rx' \in Nat /\ at' \in 0 .. Background
  BY <1>1, <1>2, SlotPlace
<1>4. CASE rx = 1
  <2>1. rx' = 0
    BY <1>2, <1>4
  <2> QED
    BY <1>3, <2>1 DEF Buffered
<1>5. CASE rx > 1
  <2>1. at' = d
    BY <1>1, <1>5 DEF Consume
  <2>2. wire'[d] = Tail(wire[d])
    BY <1>2 DEF Typed
  <2>3. Len(Tail(wire[d])) = Len(wire[d]) - 1
    BY <1>1, <1>5
  <2>4. rx' <= Len(wire'[d])
    BY <1>1, <1>2, <2>2, <2>3
  <2> QED
    BY <1>1, <1>2, <1>3, <2>1, <2>4 DEF Buffered
<1> QED
  BY <1>1, <1>3, <1>4, <1>5

(* The same after a connection was closed. *)
LEMMA ClosesPlace ==
  ASSUME Typed, NEW d \in Slot, at = d, NEW abort, Closes(d, abort)
  PROVE  at' \in 0 .. Background /\ rx' \in Nat /\ Buffered'
BY SlotPlace DEF Closes, Buffered

(* Every step keeps the poll at a place, and a message in assembly on a live  *)
(* connection.                                                                *)
LEMMA StepPlace ==
  ASSUME Typed, Buffered, [Next]_vars
  PROVE  Place' /\ Buffered'
<1>0. Place /\ NoAsm \in [active : BOOLEAN, parts : Seq(Piece)]
  BY DEF Typed, Place, NoAsm
<1>1. CASE UNCHANGED vars
  BY <1>0, <1>1 DEF vars, Place, Buffered
<1>2. CASE NoAccept
  <2>1. at = 0 /\ 0 \notin Slot /\ UNCHANGED <<rx, est, asm>> /\ at' \in {1, Background}
    BY <1>2 DEF NoAccept, Slot
  <2>2. rx = 0
    BY <1>0, <2>1 DEF Place, Buffered
  <2>3. at' \in 0 .. Background
    BY <2>1, Constants DEF Background
  <2> QED
    BY <1>0, <2>1, <2>2, <2>3 DEF Place, Buffered
<1>3. CASE EndPoll
  BY <1>0, <1>3, Constants DEF EndPoll, Place, Buffered, Background, Slot
<1>4. CASE Tick
  BY <1>0, <1>4 DEF Tick, Place, Buffered
<1>5. ASSUME NEW d \in Slot, Accept(d)
      PROVE  Place' /\ Buffered'
  BY <1>0, <1>5, Constants DEF Accept, AcceptedAssembler, Place, Buffered, Background, Slot
<1>6. ASSUME NEW d \in Slot, SkipFree(d)
      PROVE  Place' /\ Buffered'
  <2>1. rx = 0 /\ rx' = 0
    BY <1>0, <1>6 DEF SkipFree, Buffered, Place
  <2> QED
    BY <1>0, <1>6, <2>1, SlotPlace DEF SkipFree, Place, Buffered
<1>7. ASSUME NEW d \in Slot, IdleTimeout(d)
      PROVE  Place' /\ Buffered'
  BY <1>0, <1>7, ClosesPlace, Zenon DEF IdleTimeout, Place
<1>8. ASSUME NEW d \in Slot, Visit(d)
      PROVE  Place' /\ Buffered'
  <2>1. CASE Closes(d, FALSE)
    BY <1>0, <1>8, <2>1, ClosesPlace, Zenon DEF Visit, Place
  <2>2. ASSUME NEW n \in 0 .. Len(wire[d]), rx' = n, at' = IF n = 0 THEN at + 1 ELSE at,
               UNCHANGED <<live, wire>>
        PROVE  Place' /\ Buffered'
    <3>1. Len(wire[d]) \in Nat
      BY DEF Typed
    <3>2. n \in Nat /\ n <= Len(wire[d]) /\ at = d /\ live[d]
      BY <1>8, <3>1 DEF Visit
    <3>3. at' \in 0 .. Background /\ (n > 0 => at' = d)
      BY <2>2, <3>2, SlotPlace
    <3>4. Buffered'
      BY <2>2, <3>2, <3>3 DEF Buffered
    <3> QED
      BY <1>0, <1>8, <2>2, <3>2, <3>3, <3>4 DEF Visit, Place
  <2> QED
    BY <1>8, <2>1, <2>2, Zenon DEF Visit
<1>9. ASSUME NEW d \in Slot, Emit(d)
      PROVE  Place' /\ Buffered'
  <2>1. at = NConns + 1 /\ at \notin Slot /\ UNCHANGED <<at, rx, est, asm>>
    BY <1>9, Constants DEF Emit, Background, Slot
  <2>2. rx = 0
    BY <1>0, <2>1 DEF Place, Buffered
  <2> QED
    BY <1>0, <2>1, <2>2 DEF Place, Buffered
<1>10. ASSUME NEW d \in Slot, Client(d)
       PROVE  Place' /\ Buffered'
  <2>1. /\ UNCHANGED <<at, rx, live, est, asm>>
        /\ UNCHANGED wire \/ \E k : wire' = [wire EXCEPT ![d] = Append(@, k)]
    BY <1>10, Zenon DEF Client, ClientHello, ClientOpens, ClientRequests, ClientContinues, ClientCloses,
                 ClientReceives, ClientSends, ServerVars
  <2>2. ASSUME NEW c \in Slot
        PROVE  Len(wire[c]) \in Nat /\ Len(wire'[c]) \in Nat /\ Len(wire'[c]) >= Len(wire[c])
    <3>1. wire[c] \in Seq(Request)
      BY DEF Typed
    <3>2. wire'[c] = wire[c] \/ \E k : wire'[c] = Append(wire[c], k)
      BY <2>1, ZenonT(60) DEF Typed
    <3>3. ASSUME NEW k
          PROVE  Len(Append(wire[c], k)) = Len(wire[c]) + 1
      BY <3>1
    <3>4. Len(wire[c]) \in Nat
      BY <3>1
    <3> QED
      BY <3>2, <3>3, <3>4
  <2> QED
    BY <1>0, <2>1, <2>2 DEF Place, Buffered
<1>11. ASSUME NEW d \in Slot, Handle(d)
       PROVE  Place' /\ Buffered'
  <2>1. Handling(d) /\ at = d
    BY <1>11, Zenon DEF Handle, HandleHello, HandleDropped, HandleAbort, HandleOpen, HandleMessage,
                 HandleContinuation, HandleFinal, HandleReset, HandleClose, Handling
  <2>2. Consume(d) \/ \E abort : Closes(d, abort)
    BY <1>11, ZenonT(60) DEF Handle, HandleHello, HandleDropped, HandleAbort, HandleOpen, HandleMessage,
                 HandleContinuation, HandleFinal, HandleReset, HandleClose, Sends, Answers,
                 Dispatch, OpenSecureChannel
  <2>3. at' \in 0 .. Background /\ rx' \in Nat /\ Buffered'
    BY <2>1, <2>2, ConsumePlace, ClosesPlace
  <2>4. est' \in [Slot -> BOOLEAN]
    BY <1>0, <1>11, Zenon DEF Handle, HandleHello, HandleDropped, HandleAbort, HandleOpen, HandleMessage,
                 HandleContinuation, HandleFinal, HandleReset, HandleClose, Place
  <2>5. asm' \in [active : BOOLEAN, parts : Seq(Piece)]
    <3>1. \/ asm' = asm \/ asm' = NoAsm
          \/ asm' = [active |-> TRUE, parts |-> Append(asm.parts, <<d, Head(wire[d]).part>>)]
      BY <1>11, Zenon DEF Handle, HandleHello, HandleDropped, HandleAbort, HandleOpen, HandleMessage,
                   HandleContinuation, HandleFinal, HandleReset, HandleClose
    <3>2. Head(wire[d]) \in Chunk
      BY <2>1, HeadType
    <3>3. <<d, Head(wire[d]).part>> \in Piece
      BY <3>2 DEF Chunk, Piece
    <3>4. Append(asm.parts, <<d, Head(wire[d]).part>>) \in Seq(Piece)
      BY <1>0, <3>3 DEF Place
    <3>5. [active |-> TRUE, parts |-> Append(asm.parts, <<d, Head(wire[d]).part>>)]
            \in [active : BOOLEAN, parts : Seq(Piece)]
      BY <3>4, SMTT(30)
    <3> QED
      BY <1>0, <3>1, <3>5, Zenon DEF Place
  <2> QED
    BY <2>3, <2>4, <2>5 DEF Place
<1> QED
  BY <1>1, <1>2, <1>3, <1>4, <1>5, <1>6, <1>7, <1>8, <1>9, <1>10, <1>11 DEF Next

(* Every step keeps the state typed. *)
LEMMA StepTyped ==
  ASSUME Typed, Buffered, \A c \in Slot : AtRest(View(c)), [Next]_vars
  PROVE  Typed' /\ Buffered' /\ \A c \in Slot : FieldsTyped(View(c)')
<1>1. Place' /\ Buffered'
  BY StepPlace
<1>2. Tables' /\ \A c \in Slot : Moved(View(c), View(c)', Used(c), asm.active)
  BY StepMoves
<1>3. ASSUME NEW c \in Slot
      PROVE  FieldsTyped(View(c)')
  <2>1. View(c)'.live \in BOOLEAN /\ View(c)'.parked \in BOOLEAN
    BY <1>2, ZenonT(60) DEF Tables, View
  <2> QED
    BY <1>2, <2>1, TypedViews, MovedType, ZenonT(60)
<1>4. \A c \in Slot : /\ chan'[c] \in ChanType /\ wire'[c] \in Seq(Request)
                      /\ back'[c] \in Seq(Response) /\ peer'[c] \in PeerShape
  BY <1>3, ZenonT(60) DEF FieldsTyped, View
<1>5. /\ chan' \in [Slot -> ChanType] /\ wire' \in [Slot -> Seq(Request)]
      /\ back' \in [Slot -> Seq(Response)] /\ peer' \in [Slot -> PeerShape]
  BY <1>2, <1>4 DEF Tables, Table
<1> QED
  BY <1>1, <1>2, <1>3, <1>5, ZenonT(60) DEF Place, Tables, Typed
=============================================================================
