--------------------------- MODULE ChannelProofs ---------------------------
(* The invariants of connections and SecureChannels: on which channel both    *)
(* ends agree, and how responses and chunks are numbered on it. They are      *)
(* about one connection at a time, and are kept by every move that a step can *)
(* make (ChannelMoves).                                                       *)
EXTENDS ChannelMoves

-----------------------------------------------------------------------------
(* What holds of one connection *)

(* A chunk, a response that may change the channel id or the token. *)
Switches(k) == k.type = "OPN" \/ (k.type = "MSG" /\ k.svc = "close")
Switched(r) == r.to \in {"open", "close"}

(* The Hello is the first thing on a connection, and is there once. *)
Greeting(u) ==
  /\ u.peer.phase = "new" => u.wire = <<>> /\ u.back = <<>>
  /\ u.peer.phase = "hello" => Len(u.wire) + Len(u.back) <= 1
  /\ \A i \in 1 .. Len(u.wire) : u.wire[i].type = "HEL" <=> u.peer.phase = "hello"
  /\ \A i \in 1 .. Len(u.back) : u.back[i].to = "hello" <=> u.peer.phase = "hello"

(* The client waits while its channel may change: the chunk that asks for it  *)
(* is the last one sent, its answer is the only one of its kind and tells the *)
(* channel the server has.                                                    *)
Waiting(u) == u.peer.phase \in {"opening", "closing", "done"}

Tells(r, ch) ==
  IF r.to = "open" /\ r.ok THEN ch.open /\ r.id = ch.id /\ r.token = ch.token ELSE ~ch.open

Waits(u) ==
  /\ \A i \in 1 .. Len(u.wire) : Switches(u.wire[i]) => i = Len(u.wire) /\ Waiting(u)
  /\ \A j \in 1 .. Len(u.back) :
       Switched(u.back[j]) =>
         /\ u.wire = <<>> /\ Waiting(u) /\ Tells(u.back[j], u.chan)
         /\ \A m \in 1 .. Len(u.back) : Switched(u.back[m]) => m = j

(* Client and server agree on the channel while the client does not wait. *)
Agrees(u) ==
  /\ u.live /\ u.peer.phase \in {"new", "hello", "ready"} =>
       ~u.chan.open /\ u.peer.id = 0 /\ u.peer.token = 0
  /\ u.peer.phase = "open" => u.chan.id = u.peer.id /\ u.chan.token = u.peer.token

Settled(u) == AtRest(u) /\ Greeting(u) /\ Waits(u) /\ Agrees(u)

-----------------------------------------------------------------------------
(* Every move keeps Settled *)

(* The tail of a sequence, index by index. *)
LEMMA TailFacts ==
  ASSUME NEW S, NEW s \in Seq(S), s # <<>>
  PROVE  /\ Len(s) \in Nat /\ Len(s) > 0 /\ Head(s) = s[1] /\ Tail(s) \in Seq(S)
         /\ Len(Tail(s)) = Len(s) - 1
         /\ \A i \in 1 .. Len(Tail(s)) : i + 1 \in 1 .. Len(s) /\ Tail(s)[i] = s[i + 1]
OBVIOUS

(* An appended sequence, index by index. *)
LEMMA AppendFacts ==
  ASSUME NEW S, NEW s \in Seq(S), NEW x
  PROVE  /\ Len(s) \in Nat /\ Len(Append(s, x)) = Len(s) + 1
         /\ Append(s, x)[Len(s) + 1] = x
         /\ \A i \in 1 .. Len(Append(s, x)) :
              (i \in 1 .. Len(s) /\ Append(s, x)[i] = s[i]) \/ (i = Len(s) + 1 /\ Append(s, x)[i] = x)
OBVIOUS

(* Only the empty sequence has no length. *)
LEMMA EmptyFacts ==
  ASSUME NEW S, NEW s \in Seq(S)
  PROVE  Len(s) \in Nat /\ (Len(s) = 0 <=> s = <<>>)
OBVIOUS

(* A connection that was just accepted is settled. *)
LEMMA AcceptedSettled ==
  ASSUME NEW u, NEW v, Settled(u), Accepted(u, v)
  PROVE  Settled(v)
<1>1. /\ v.live /\ v.peer = NewPeer /\ v.wire = <<>> /\ v.back = <<>> /\ ~v.parked
      /\ v.chan = NoChan
  BY DEF Settled, AtRest, Accepted
<1>2. /\ NewPeer.phase = "new" /\ NewPeer.id = 0 /\ NewPeer.token = 0
  BY DEF NewPeer
<1> QED
  BY <1>1, <1>2, NoChanType DEF Settled, AtRest, Greeting, Waits, Agrees

(* A connection that was lost is settled, whatever its client still believes. *)
LEMMA EndedSettled ==
  ASSUME NEW u, NEW v, Settled(u), Ended(u, v)
  PROVE  Settled(v)
<1>1. /\ ~v.live /\ v.peer = NewPeer /\ v.wire = <<>> /\ v.back = <<>> /\ ~v.parked
      /\ Succeeds(u.chan, v.chan) /\ AtRest(u)
  BY DEF Settled, Ended
<1>2. /\ NewPeer.phase = "new" /\ NewPeer.id = 0 /\ NewPeer.token = 0
  BY DEF NewPeer
<1>3. AtRest(v)
  BY <1>1 DEF AtRest, Succeeds
<1> QED
  BY <1>1, <1>2, <1>3 DEF Settled, Greeting, Waits, Agrees

(* A chunk that does not ask for another channel is taken; what is answered,  *)
(* if anything is, tells of none, and the channel has the id it had.          *)
LEMMA TakenSettled ==
  ASSUME NEW u, NEW v, FieldsTyped(u), Settled(u), u.live, u.wire # <<>>,
         NEW ch, NEW b, Taken(u, v, ch, b),
         ch.open = u.chan.open, ch.id = u.chan.id, ch.token = u.chan.token,
         v.parked => ch.open,
         b = u.back \/ \E r : b = Append(u.back, r) /\ ~Switched(r) /\ (r.to = "hello" <=> u.peer.phase = "hello")
  PROVE  Settled(v)
<1>1. /\ v.live /\ v.wire = Tail(u.wire) /\ v.peer = u.peer /\ v.chan = ch /\ v.back = b
  BY DEF Taken
<1>2. /\ Len(u.wire) \in Nat /\ Len(u.wire) > 0
      /\ Len(v.wire) = Len(u.wire) - 1 /\ Len(v.wire) \in Nat
      /\ \A i \in 1 .. Len(v.wire) : i + 1 \in 1 .. Len(u.wire) /\ v.wire[i] = u.wire[i + 1]
  BY <1>1, TailFacts DEF FieldsTyped
<1>3. /\ Len(u.back) \in Nat /\ Len(v.back) \in Nat
      /\ Len(v.back) <= Len(u.back) + 1
      /\ \A j \in 1 .. Len(v.back) :
           \/ j \in 1 .. Len(u.back) /\ v.back[j] = u.back[j]
           \/ ~Switched(v.back[j]) /\ (v.back[j].to = "hello" <=> u.peer.phase = "hello")
  <2>1. u.back \in Seq(Response)
    BY DEF FieldsTyped
  <2>2. CASE b = u.back
    BY <1>1, <2>1, <2>2, EmptyFacts
  <2>3. CASE \E r : b = Append(u.back, r) /\ ~Switched(r) /\ (r.to = "hello" <=> u.peer.phase = "hello")
    BY <1>1, <2>1, <2>3, AppendFacts
  <2> QED
    BY <2>2, <2>3
<1>4. \A j \in 1 .. Len(u.back) : ~Switched(u.back[j])
  BY DEF Settled, Waits
<1>5. AtRest(v)
  BY <1>1 DEF Settled, AtRest
<1>6. Greeting(v)
  <2>1. u.peer.phase # "new"
    BY DEF Settled, Greeting
  <2>2. u.peer.phase = "hello" => Len(v.wire) + Len(v.back) <= 1
    <3>1. u.peer.phase = "hello" => Len(u.wire) + Len(u.back) <= 1
      BY Zenon DEF Settled, Greeting
    <3>2. /\ Len(u.wire) \in Nat /\ Len(v.wire) = Len(u.wire) - 1
          /\ Len(u.back) \in Nat /\ Len(v.back) \in Nat /\ Len(v.back) <= Len(u.back) + 1
      BY <1>2, <1>3
    <3>3. \A k, m, n, o \in Nat : k + m <= 1 /\ n = k - 1 /\ o <= m + 1 => n + o <= 1
      OBVIOUS
    <3>4. Len(v.wire) \in Nat
      BY <1>2
    <3> QED
      BY <3>1, <3>2, <3>3, <3>4, Zenon
  <2>3. \A i \in 1 .. Len(v.wire) : v.wire[i].type = "HEL" <=> u.peer.phase = "hello"
    BY <1>2, ZenonT(60) DEF Settled, Greeting
  <2>4. \A j \in 1 .. Len(v.back) : v.back[j].to = "hello" <=> u.peer.phase = "hello"
    BY <1>3 DEF Settled, Greeting
  <2> QED
    BY <1>1, <2>1, <2>2, <2>3, <2>4 DEF Greeting
<1>7. Waits(v)
  <2>1. \A i \in 1 .. Len(v.wire) : Switches(v.wire[i]) => i = Len(v.wire) /\ Waiting(v)
    BY <1>1, <1>2 DEF Settled, Waits, Waiting
  <2>2. \A j \in 1 .. Len(v.back) : ~Switched(v.back[j])
    BY <1>3, <1>4
  <2> QED
    BY <2>1, <2>2 DEF Waits
<1>8. Agrees(v)
  BY <1>1 DEF Settled, Agrees
<1> QED
  BY <1>5, <1>6, <1>7, <1>8 DEF Settled

(* The chunk that asks for another channel is taken, and what is answered, if *)
(* anything is, tells of the one the server then has.                         *)
LEMMA SwitchedSettled ==
  ASSUME NEW u, NEW v, FieldsTyped(u), Settled(u), u.live, u.wire # <<>>, Switches(Head(u.wire)),
         NEW ch, NEW b, Taken(u, v, ch, b),
         ~ch.open => ch.id = 0 /\ ch.token = 0,
         v.parked => ch.open,
         b = u.back \/ \E r : b = Append(u.back, r) /\ r.to # "hello" /\ Tells(r, ch)
  PROVE  Settled(v)
<1>1. /\ v.live /\ v.wire = Tail(u.wire) /\ v.peer = u.peer /\ v.chan = ch /\ v.back = b
  BY DEF Taken
<1>2. /\ Len(u.wire) = 1 /\ Waiting(u) /\ Head(u.wire) = u.wire[1]
  <2>1. Len(u.wire) \in Nat /\ Len(u.wire) > 0 /\ Head(u.wire) = u.wire[1]
    BY TailFacts DEF FieldsTyped
  <2>2. 1 \in 1 .. Len(u.wire)
    BY <2>1
  <2> QED
    BY <2>1, <2>2, Zenon DEF Settled, Waits
<1>3. v.wire = <<>>
  <2>1. v.wire \in Seq(Request) /\ Len(v.wire) = Len(u.wire) - 1
    BY <1>1, TailFacts DEF FieldsTyped
  <2> QED
    BY <1>2, <2>1, EmptyFacts
<1>4. \A j \in 1 .. Len(u.back) : ~Switched(u.back[j]) /\ u.back[j].to # "hello"
  BY <1>2, Zenon DEF Settled, Waits, Greeting, Waiting
<1>5. /\ Len(u.back) \in Nat
      /\ \A j \in 1 .. Len(v.back) :
           /\ v.back[j].to # "hello"
           /\ Switched(v.back[j]) => j = Len(u.back) + 1 /\ Tells(v.back[j], ch)
  <2>1. u.back \in Seq(Response)
    BY DEF FieldsTyped
  <2>2. CASE b = u.back
    BY <1>1, <1>4, <2>1, <2>2, EmptyFacts
  <2>3. CASE \E r : b = Append(u.back, r) /\ r.to # "hello" /\ Tells(r, ch)
    BY <1>1, <1>4, <2>1, <2>3, AppendFacts
  <2> QED
    BY <2>2, <2>3
<1>6. AtRest(v)
  BY <1>1 DEF AtRest
<1>7. Greeting(v)
  BY <1>1, <1>2, <1>3, <1>5 DEF Greeting, Waiting
<1>8. Waits(v)
  <2>1. Len(v.wire) = 0 /\ Waiting(v)
    BY <1>1, <1>2, <1>3 DEF Waiting
  <2>2. \A i \in 1 .. Len(v.wire) : Switches(v.wire[i]) => i = Len(v.wire) /\ Waiting(v)
    BY <2>1
  <2>3. \A j \in 1 .. Len(v.back) :
          Switched(v.back[j]) => \A m \in 1 .. Len(v.back) : Switched(v.back[m]) => m = j
    BY <1>5
  <2> QED
    BY <1>1, <1>3, <1>5, <2>1, <2>2, <2>3, Zenon DEF Waits
<1>9. Agrees(v)
  BY <1>1, <1>2 DEF Agrees, Waiting
<1> QED
  BY <1>6, <1>7, <1>8, <1>9 DEF Settled

(* A response carries the id and the token of the channel it was sent on. *)
LEMMA ReplyFields ==
  ASSUME NEW ch, NEW to, NEW ok
  PROVE  /\ Reply(ch, to, ok).to = to /\ Reply(ch, to, ok).ok = ok
         /\ Reply(ch, to, ok).id = ch.id /\ Reply(ch, to, ok).token = ch.token
BY DEF Reply

(* An OpenSecureChannel that was handled leaves the two ends settled: what    *)
(* the client does not know yet is in its response.                           *)
LEMMA OpenedSettled ==
  ASSUME NEW u, NEW v, FieldsTyped(u), Settled(u), u.live, u.wire # <<>>, NEW used, Opened(u, v, used)
  PROVE  Settled(v)
<1> DEFINE ch == [Sequenced(u.chan, Head(u.wire)) EXCEPT !.pol = Secured]
<1>1. /\ ch \in ChanType /\ ch.open = u.chan.open /\ ch.id = u.chan.id /\ ch.token = u.chan.token
  BY HeadRequest, SequencedType, ZenonT(60) DEF FieldsTyped
<1>2. Switches(Head(u.wire))
  BY DEF Opened, Switches
<1>3. ~u.chan.open => u.chan.id = 0 /\ u.chan.token = 0
  BY DEF Settled, AtRest
<1>4. ASSUME NEW c \in ChanType, NEW ok \in BOOLEAN, Answered(u, v, c, "open", ok),
             ok => c.open, ~c.open => c.id = 0 /\ c.token = 0
      PROVE  Settled(v)
  <2> DEFINE left == LeftBy(c, "open", ok)
             r == Reply(c, "open", ok)
  <2>1. \/ left = NoChan /\ ~ok
        \/ left.open = c.open /\ left.id = c.id /\ left.token = c.token /\ (ok \/ ~c.open)
    BY LeftByFields
  <2>2. r.to = "open" /\ r.ok = ok /\ r.id = c.id /\ r.token = c.token
    BY ReplyFields
  <2>3. /\ Taken(u, v, left, Append(u.back, r)) \/ Taken(u, v, left, u.back)
        /\ v.parked => left.open
    BY <1>4 DEF Answered
  <2> HIDE DEF left, r
  <2>4. Tells(r, left) /\ (~left.open => left.id = 0 /\ left.token = 0)
    BY <1>4, <2>1, <2>2, NoChanType DEF Tells
  <2> QED
    BY <1>2, <2>2, <2>3, <2>4, SwitchedSettled, ZenonT(60)
<1>5. \/ Answered(u, v, ch, "open", FALSE)
      \/ u.chan.open /\ \E ok \in BOOLEAN : Answered(u, v, Renewed(ch), "open", ok)
      \/ \E ok \in BOOLEAN, id \in Id : Answered(u, v, Issued(ch, id), "open", ok)
      \/ Answered(u, v, NoChan, "open", FALSE)
  BY Zenon DEF Opened
<1> HIDE DEF ch
<1>6. CASE Answered(u, v, ch, "open", FALSE)
  BY <1>1, <1>3, <1>4, <1>6, ZenonT(60)
<1>7. ASSUME u.chan.open, NEW ok \in BOOLEAN, Answered(u, v, Renewed(ch), "open", ok)
      PROVE  Settled(v)
  <2>1. Renewed(ch) \in ChanType /\ Renewed(ch).open
    BY <1>1, <1>7, Constants, OpenedType, Zenon
  <2> QED
    BY <1>4, <1>7, <2>1
<1>8. ASSUME NEW ok \in BOOLEAN, NEW id \in Id, Answered(u, v, Issued(ch, id), "open", ok)
      PROVE  Settled(v)
  <2>1. Issued(ch, id) \in ChanType /\ Issued(ch, id).open
    BY <1>1, OpenedType, Zenon
  <2> QED
    BY <1>4, <1>8, <2>1
<1>9. CASE Answered(u, v, NoChan, "open", FALSE)
  BY <1>4, <1>9, NoChanType, Zenon
<1> QED
  BY <1>5, <1>6, <1>7, <1>8, <1>9, Zenon

(* So does every other chunk. *)
LEMMA HandledSettled ==
  ASSUME NEW u, NEW v, FieldsTyped(u), Settled(u), NEW used, NEW assembling,
         Handled(u, v, used, assembling)
  PROVE  Settled(v)
<1> DEFINE k == Head(u.wire)
           ch == Sequenced(u.chan, k)
<1>1. /\ u.live /\ u.wire # <<>> /\ u.chan \in ChanType /\ k \in Chunk
      /\ k.type = "MSG" => k.svc \in {"call", "publish", "close"}
  BY HeadRequest, Zenon DEF Handled, FieldsTyped
<1>2. /\ ch \in ChanType /\ ch.open = u.chan.open /\ ch.id = u.chan.id /\ ch.token = u.chan.token
  BY <1>1, SequencedType, Zenon
<1>3. /\ k.type = "HEL" <=> u.peer.phase = "hello"
      /\ u.parked => u.chan.open
  <2>1. 1 \in 1 .. Len(u.wire) /\ k = u.wire[1]
    BY <1>1, TailFacts DEF FieldsTyped
  <2> QED
    BY <2>1 DEF Settled, Greeting, AtRest
<1>a. ~u.chan.open => u.chan.id = 0 /\ u.chan.token = 0
  BY DEF Settled, AtRest
<1> HIDE DEF k, ch
<1>4. CASE k.type = "HEL" /\ Noted(u, v, Ack)
  <2>1. ~Switched(Ack) /\ Ack.to = "hello"
    BY DEF Ack, Switched
  <2>2. Taken(u, v, u.chan, Append(u.back, Ack)) /\ (v.parked => u.chan.open)
    BY <1>4 DEF Noted
  <2> QED
    BY <1>1, <1>3, <1>4, <2>1, <2>2, TakenSettled, Zenon
<1>5. CASE k.type = "CON" /\ Noted(u, v, Err)
  <2>1. ~Switched(Err) /\ Err.to # "hello"
    BY DEF Err, Switched
  <2>2. Taken(u, v, u.chan, Append(u.back, Err)) /\ (v.parked => u.chan.open)
    BY <1>5 DEF Noted
  <2> QED
    BY <1>1, <1>3, <1>5, <2>1, <2>2, TakenSettled, Zenon
<1>6. CASE Passed(u, v, assembling)
  <2>1. Taken(u, v, u.chan, u.back) /\ (v.parked => u.chan.open)
    BY <1>3, <1>6 DEF Passed
  <2> QED
    BY <1>1, <2>1, TakenSettled
<1>7. CASE Opened(u, v, used)
  BY <1>1, <1>7, OpenedSettled
<1>8. CASE Dispatched(u, v)
  <2>1. /\ k.type = "MSG"
        /\ \/ ~u.chan.open /\ Answered(u, v, ch, k.svc, FALSE)
           \/ u.chan.open /\ k.svc = "call" /\ Answered(u, v, ch, k.svc, TRUE)
           \/ u.chan.open /\ k.svc = "close" /\ Answered(u, v, NoChan, k.svc, TRUE)
           \/ u.chan.open /\ k.svc = "publish" /\ Taken(u, v, ch, u.back)
    BY <1>8, Zenon DEF Dispatched, k, ch
  <2>2. ASSUME k.svc # "close", NEW ok \in BOOLEAN, Answered(u, v, ch, k.svc, ok)
        PROVE  Settled(v)
    <3> DEFINE left == LeftBy(ch, k.svc, ok)
               r == Reply(ch, k.svc, ok)
    <3>1. left.open = u.chan.open /\ left.id = u.chan.id /\ left.token = u.chan.token
      BY <1>1, <1>2, <2>1, LeftByFields
    <3>2. ~Switched(r) /\ r.to # "hello"
      BY <1>1, <2>1, <2>2, ReplyFields DEF Switched
    <3>3. /\ Taken(u, v, left, Append(u.back, r)) \/ Taken(u, v, left, u.back)
          /\ v.parked => left.open
      BY <2>2 DEF Answered
    <3> HIDE DEF left, r
    <3>4. u.peer.phase # "hello"
      BY <1>3, <2>1
    <3> QED
      BY <1>1, <3>1, <3>2, <3>3, <3>4, TakenSettled, ZenonT(60)
  <2>3. ASSUME k.svc = "close", NEW c \in ChanType, ~c.open, c.id = 0, c.token = 0,
               NEW ok \in BOOLEAN, Answered(u, v, c, k.svc, ok)
        PROVE  Settled(v)
    <3> DEFINE left == LeftBy(c, k.svc, ok)
               r == Reply(c, k.svc, ok)
    <3>1. ~left.open /\ left.id = 0 /\ left.token = 0
      BY <2>3, LeftByFields, NoChanType
    <3>2. r.to = "close"
      BY <2>3, ReplyFields
    <3>3. /\ Taken(u, v, left, Append(u.back, r)) \/ Taken(u, v, left, u.back)
          /\ v.parked => left.open
      BY <2>3 DEF Answered
    <3> HIDE DEF left, r
    <3>4. Switches(Head(u.wire))
      BY <2>1, <2>3 DEF Switches, k
    <3>5. Tells(r, left)
      BY <3>1, <3>2 DEF Tells
    <3> QED
      BY <1>1, <3>1, <3>2, <3>3, <3>4, <3>5, SwitchedSettled, Zenon
  <2>4. CASE ~u.chan.open /\ Answered(u, v, ch, k.svc, FALSE)
    BY <1>2, <1>a, <2>2, <2>3, <2>4, Zenon
  <2>5. CASE u.chan.open /\ k.svc = "call" /\ Answered(u, v, ch, k.svc, TRUE)
    BY <2>2, <2>5, Zenon
  <2>6. CASE u.chan.open /\ k.svc = "close" /\ Answered(u, v, NoChan, k.svc, TRUE)
    BY <2>3, <2>6, NoChanType, Zenon
  <2>7. CASE u.chan.open /\ k.svc = "publish" /\ Taken(u, v, ch, u.back)
    BY <1>1, <1>2, <2>7, TakenSettled, Zenon
  <2> QED
    BY <2>1, <2>4, <2>5, <2>6, <2>7, ZenonT(60)
<1> QED
  BY <1>4, <1>5, <1>6, <1>7, <1>8 DEF Handled, k

(* So does a Publish response that is sent later. *)
LEMMA EmittedSettled ==
  ASSUME NEW u, NEW v, FieldsTyped(u), Settled(u), Emitted(u, v)
  PROVE  Settled(v)
<1>1. /\ u.live /\ u.parked /\ u.chan.open /\ u.chan \in ChanType /\ u.back \in Seq(Response)
      /\ u.peer.phase \notin {"new", "hello", "ready"}
  BY DEF Settled, AtRest, Agrees, Emitted, FieldsTyped
<1> DEFINE r == Reply(u.chan, "publish", TRUE)
<1>2. /\ v.live = u.live /\ v.wire = u.wire /\ v.peer = u.peer /\ ~v.parked
      /\ v.back = Append(u.back, r) \/ v.back = u.back
      /\ v.chan = Counted(u.chan)
  BY ZenonT(60) DEF Emitted
<1>3. r.to = "publish"
  BY DEF Reply
<1> HIDE DEF r
<1>4. v.chan.open /\ v.chan.id = u.chan.id /\ v.chan.token = u.chan.token
  BY <1>1, <1>2 DEF Counted, ChanType
<1>5. /\ Len(u.back) \in Nat
      /\ \A j \in 1 .. Len(v.back) :
           \/ j \in 1 .. Len(u.back) /\ v.back[j] = u.back[j]
           \/ ~Switched(v.back[j]) /\ v.back[j].to # "hello"
  <2>1. CASE v.back = u.back
    BY <1>1, <2>1, EmptyFacts
  <2>2. CASE v.back = Append(u.back, r)
    BY <1>1, <1>3, <2>2, AppendFacts DEF Switched
  <2> QED
    BY <1>2, <2>1, <2>2
<1>6. AtRest(v)
  BY <1>1, <1>2, <1>4 DEF AtRest
<1>7. Greeting(v)
  BY <1>1, <1>2, <1>5, ZenonT(60) DEF Settled, Greeting
<1>8. Waits(v)
  <2>1. \A i \in 1 .. Len(v.wire) : Switches(v.wire[i]) => i = Len(v.wire) /\ Waiting(v)
    BY <1>2, Zenon DEF Settled, Waits, Waiting
  <2>2. ASSUME NEW j \in 1 .. Len(v.back), Switched(v.back[j])
        PROVE  /\ v.wire = <<>> /\ Waiting(v) /\ Tells(v.back[j], v.chan)
               /\ \A m \in 1 .. Len(v.back) : Switched(v.back[m]) => m = j
    <3>1. j \in 1 .. Len(u.back) /\ v.back[j] = u.back[j]
      BY <1>5, <2>2
    <3>2. /\ u.wire = <<>> /\ Waiting(u) /\ Tells(u.back[j], u.chan)
          /\ \A m \in 1 .. Len(u.back) : Switched(u.back[m]) => m = j
      BY <2>2, <3>1 DEF Settled, Waits
    <3>3. Tells(v.back[j], v.chan)
      BY <1>1, <1>4, <3>1, <3>2, Zenon DEF Tells
    <3>4. \A m \in 1 .. Len(v.back) : Switched(v.back[m]) => m = j
      BY <1>5, <3>2, Zenon
    <3> QED
      BY <1>2, <3>2, <3>3, <3>4 DEF Waiting
  <2> QED
    BY <2>1, <2>2 DEF Waits
<1>9. Agrees(v)
  BY <1>1, <1>2, <1>4 DEF Settled, Agrees
<1> QED
  BY <1>6, <1>7, <1>8, <1>9 DEF Settled

(* So does a client's first message. *)
LEMMA HelloSettled ==
  ASSUME NEW u, NEW v, FieldsTyped(u), Settled(u), AskedHello(u, v, u.peer)
  PROVE  Settled(v)
<1> DEFINE k == ChunkFrom(u.peer, "HEL", 0, "none", 1)
           p == [u.peer EXCEPT !.phase = "hello"]
<1>1. Sent(u, v, k, p) /\ u.peer.phase = "new" /\ u.peer \in PeerShape
  BY DEF AskedHello, FieldsTyped
<1>2. k.type = "HEL" /\ p.phase = "hello" /\ p.id = u.peer.id /\ p.token = u.peer.token
  BY <1>1 DEF ChunkFrom, PeerShape
<1> HIDE DEF k, p
<1>3. /\ u.live /\ v.live /\ v.chan = u.chan /\ v.parked = u.parked /\ v.back = <<>>
      /\ v.peer = p /\ v.wire = Append(<<>>, k)
  BY <1>1, Zenon DEF Sent, Settled, Greeting
<1>4. Len(v.wire) = 1 /\ v.wire[1] = k
  BY <1>3
<1>5. ~Switches(k)
  BY <1>2 DEF Switches
<1>6. AtRest(v)
  BY <1>3 DEF Settled, AtRest
<1>7. Greeting(v)
  BY <1>2, <1>3, <1>4 DEF Greeting
<1>8. Waits(v)
  BY <1>3, <1>4, <1>5 DEF Waits
<1>9. Agrees(v)
  BY <1>1, <1>2, <1>3, Zenon DEF Settled, Agrees
<1> QED
  BY <1>6, <1>7, <1>8, <1>9 DEF Settled

(* So does a request that does not switch the channel, or after which the     *)
(* client waits.                                                              *)
LEMMA SentSettled ==
  ASSUME NEW u, NEW v, FieldsTyped(u), Settled(u), NEW k, NEW p, Sent(u, v, k, p),
         u.peer.phase \in {"ready", "open"}, k.type # "HEL",
         \/ p.phase \in {"opening", "closing", "done"}
         \/ /\ ~Switches(k) /\ p.phase = u.peer.phase
            /\ p.id = u.peer.id /\ p.token = u.peer.token
  PROVE  Settled(v)
<1>1. /\ u.live /\ v.live /\ v.chan = u.chan /\ v.parked = u.parked /\ v.back = u.back
      /\ v.peer = p /\ v.wire = Append(u.wire, k)
  BY DEF Sent
<1>2. /\ Len(u.wire) \in Nat /\ Len(v.wire) = Len(u.wire) + 1
      /\ \A i \in 1 .. Len(v.wire) :
           (i \in 1 .. Len(u.wire) /\ v.wire[i] = u.wire[i]) \/ (i = Len(v.wire) /\ v.wire[i] = k)
  BY <1>1, AppendFacts DEF FieldsTyped
<1>3. /\ \A i \in 1 .. Len(u.wire) : ~Switches(u.wire[i]) /\ u.wire[i].type # "HEL"
      /\ \A j \in 1 .. Len(u.back) : ~Switched(u.back[j]) /\ u.back[j].to # "hello"
  BY DEF Settled, Waits, Waiting, Greeting
<1>4. p.phase \notin {"new", "hello"}
  OBVIOUS
<1>5. AtRest(v)
  BY <1>1 DEF Settled, AtRest
<1>6. Greeting(v)
  BY <1>1, <1>2, <1>3, <1>4, ZenonT(60) DEF Greeting
<1>7. Waits(v)
  BY <1>1, <1>2, <1>3, Zenon DEF Waits, Waiting
<1>8. Agrees(v)
  BY <1>1 DEF Settled, Agrees
<1> QED
  BY <1>5, <1>6, <1>7, <1>8 DEF Settled

(* So does whatever a client sends. *)
LEMMA AskedSettled ==
  ASSUME NEW u, NEW v, FieldsTyped(u), Settled(u), Asked(u, v)
  PROVE  Settled(v)
<1> DEFINE p == u.peer
<1>1. p \in PeerShape
  BY DEF FieldsTyped
<1>2. CASE AskedHello(u, v, p)
  BY <1>2, HelloSettled
<1>3. CASE AskedOpen(u, v, p)
  <2>1. PICK n : Sent(u, v, ChunkFrom(p, "OPN", n, "none", 1),
                      [p EXCEPT !.phase = "opening", !.seq = n, !.pend = @ + 1])
    BY <1>3, Zenon DEF AskedOpen
  <2> DEFINE q == [p EXCEPT !.phase = "opening", !.seq = n, !.pend = @ + 1]
             k == ChunkFrom(p, "OPN", n, "none", 1)
  <2>2. q.phase = "opening" /\ k.type = "OPN" /\ p.phase \in {"ready", "open"}
    BY <1>1, <1>3, ZenonT(60) DEF PeerShape, ChunkFrom, AskedOpen
  <2> HIDE DEF q, k
  <2> QED
    BY <2>1, <2>2, SentSettled, Zenon DEF q, k
<1>4. CASE AskedService(u, v, p)
  <2> DEFINE Q(n, svc) == [p EXCEPT !.seq = n, !.part = 0,
                                   !.phase = IF svc = "close" THEN "closing" ELSE @,
                                   !.pend = IF svc = "publish" THEN @ ELSE @ + 1]
  <2>1. PICK n, svc : Sent(u, v, ChunkFrom(p, "MSG", n, svc, p.part + 1), Q(n, svc))
    BY <1>4, Zenon DEF AskedService
  <2> DEFINE k == ChunkFrom(p, "MSG", n, svc, p.part + 1)
  <2>2. /\ k.type = "MSG" /\ k.svc = svc /\ p.phase \in {"ready", "open"}
        /\ Q(n, svc).phase = (IF svc = "close" THEN "closing" ELSE p.phase)
        /\ Q(n, svc).id = p.id /\ Q(n, svc).token = p.token
    BY <1>1, <1>4 DEF PeerShape, ChunkFrom, AskedService
  <2>3. svc # "close" => ~Switches(k)
    BY <2>2, Zenon DEF Switches
  <2> HIDE DEF Q, k
  <2> QED
    BY <2>1, <2>2, <2>3, SentSettled, Zenon DEF k
<1>5. CASE AskedPart(u, v, p)
  <2>1. PICK n : \/ Sent(u, v, ChunkFrom(p, "CON", n, "none", p.part + 1), [p EXCEPT !.seq = n, !.part = @ + 1])
                 \/ Sent(u, v, ChunkFrom(p, "ABT", n, "none", p.part + 1), [p EXCEPT !.seq = n, !.part = 0])
    BY <1>5, Zenon DEF AskedPart
  <2> DEFINE K(t) == ChunkFrom(p, t, n, "none", p.part + 1)
             Q(m) == [p EXCEPT !.seq = n, !.part = m]
  <2>a. /\ \A t : K(t).type = t
        /\ \A m : Q(m).phase = p.phase /\ Q(m).id = p.id /\ Q(m).token = p.token
    BY <1>1 DEF PeerShape, ChunkFrom
  <2>b. Sent(u, v, K("CON"), Q(p.part + 1)) \/ Sent(u, v, K("ABT"), Q(0))
    BY <2>1
  <2> HIDE DEF K, Q
  <2>2. PICK k, q : Sent(u, v, k, q) /\ k.type \in {"CON", "ABT"} /\ q.phase = p.phase
                    /\ q.id = p.id /\ q.token = p.token
    BY <2>a, <2>b
  <2>3. p.phase \in {"ready", "open"} /\ ~Switches(k) /\ k.type # "HEL"
    BY <1>5, <2>2 DEF Switches, AskedPart
  <2> QED
    BY <2>2, <2>3, SentSettled
<1>6. CASE AskedClose(u, v, p)
  <2>1. PICK n : Sent(u, v, ChunkFrom(p, "CLO", n, "none", 1), [p EXCEPT !.phase = "done", !.seq = n])
    BY <1>6, Zenon DEF AskedClose
  <2> DEFINE k == ChunkFrom(p, "CLO", n, "none", 1)
             q == [p EXCEPT !.phase = "done", !.seq = n]
  <2>2. Sent(u, v, k, q) /\ k.type = "CLO" /\ q.phase = "done"
    BY <1>1, <2>1 DEF PeerShape, ChunkFrom
  <2> HIDE DEF k, q
  <2>3. p.phase \in {"ready", "open"}
    BY <1>6 DEF AskedClose
  <2> QED
    BY <2>2, <2>3, SentSettled
<1> QED
  BY <1>2, <1>3, <1>4, <1>5, <1>6 DEF Asked

(* So does a response that the client takes. *)
LEMMA GotSettled ==
  ASSUME NEW u, NEW v, FieldsTyped(u), Settled(u), Got(u, v)
  PROVE  Settled(v)
<1> DEFINE r == Head(u.back)
           p == u.peer
<1>1. /\ v.live = u.live /\ v.chan = u.chan /\ v.parked = u.parked /\ v.wire = u.wire
      /\ v.peer = Informed(p, r) /\ v.back = Tail(u.back)
      /\ p \in PeerShape /\ u.back \in Seq(Response) /\ u.back # <<>> /\ r \in Response
  BY DEF Got, FieldsTyped
<1>2. /\ Len(u.back) \in Nat /\ Len(u.back) > 0 /\ r = u.back[1] /\ Len(v.back) = Len(u.back) - 1
      /\ \A i \in 1 .. Len(v.back) : i + 1 \in 1 .. Len(u.back) /\ v.back[i] = u.back[i + 1]
      /\ 1 \in 1 .. Len(u.back)
  BY <1>1, TailFacts
<1>3. /\ r.to = "hello" <=> p.phase = "hello"
      /\ p.phase # "new" /\ u.live
      /\ Switched(r) => /\ u.wire = <<>> /\ Waiting(u) /\ Tells(r, u.chan)
                        /\ \A m \in 1 .. Len(u.back) : Switched(u.back[m]) => m = 1
  BY <1>1, <1>2, ZenonT(60) DEF Settled, Greeting, Waits, AtRest
<1>4. AtRest(v)
  BY <1>1, <1>3, Zenon DEF Settled, AtRest
<1> HIDE DEF r, p
<1>5. CASE r.to = "hello"
  <2>1. v.peer = [p EXCEPT !.phase = "ready"]
    BY <1>1, <1>5, InformedIs, Zenon
  <2>2. v.peer.phase = "ready" /\ v.peer.id = p.id /\ v.peer.token = p.token
    BY <1>1, <2>1 DEF PeerShape
  <2>3. Len(u.wire) = 0 /\ Len(v.back) = 0
    <3>1. Len(u.wire) + Len(u.back) <= 1 /\ Len(u.wire) \in Nat
      BY <1>3, <1>5, EmptyFacts, Zenon DEF Settled, Greeting, FieldsTyped, p
    <3>2. \A k, m, n \in Int : k \in Nat /\ k + m <= 1 /\ m > 0 /\ n = m - 1 /\ n \in Nat => k = 0 /\ n = 0
      OBVIOUS
    <3>3. Len(u.wire) \in Int /\ Len(u.back) \in Int /\ Len(v.back) \in Int /\ Len(v.back) \in Nat
      BY <1>2, <3>1
    <3> QED
      BY <1>2, <3>1, <3>2, <3>3, Zenon
  <2>4. Greeting(v) /\ Waits(v)
    <3>0. \A i \in 1 .. 0 : FALSE
      OBVIOUS
    <3>1. /\ \A i \in 1 .. Len(v.wire) : FALSE
          /\ \A i \in 1 .. Len(v.back) : FALSE
      BY <1>1, <2>3, <3>0, Zenon
    <3>2. "ready" # "new" /\ "ready" # "hello"
      OBVIOUS
    <3>3. Greeting(v)
      BY <2>2, <3>1, <3>2, Zenon DEF Greeting
    <3>4. Waits(v)
      BY <3>1, Zenon DEF Waits
    <3> QED
      BY <3>3, <3>4
  <2>5. Agrees(v)
    BY <1>1, <1>3, <1>5, <2>2, ZenonT(60) DEF Settled, Agrees, p
  <2> QED
    BY <1>4, <2>4, <2>5 DEF Settled
<1>6. CASE Switched(r)
  <2>1. ASSUME NEW j \in 1 .. Len(v.back)
        PROVE  ~Switched(v.back[j])
    <3>1. j + 1 \in 1 .. Len(u.back) /\ v.back[j] = u.back[j + 1] /\ j + 1 # 1
      BY <1>2
    <3> QED
      BY <1>3, <1>6, <3>1, ZenonT(60)
  <2>2. v.wire = <<>> /\ Len(v.wire) = 0
    BY <1>1, <1>3, <1>6
  <2>3. /\ \/ v.peer.phase = "open" /\ v.peer.id = u.chan.id /\ v.peer.token = u.chan.token
           \/ v.peer.phase = "ready" /\ ~u.chan.open /\ v.peer.id = 0 /\ v.peer.token = 0
    <3>1. CASE r.to = "open" /\ r.ok
      <4>1. v.peer = [p EXCEPT !.phase = "open", !.id = r.id, !.token = r.token, !.got = r.seq, !.pend = @ - 1]
        BY <1>1, <3>1, InformedIs, ZenonT(60)
      <4>2. v.peer.phase = "open" /\ v.peer.id = r.id /\ v.peer.token = r.token
        BY <1>1, <4>1 DEF PeerShape
      <4> QED
        BY <1>3, <1>6, <3>1, <4>2 DEF Tells
    <3>2. CASE ~(r.to = "open" /\ r.ok)
      <4>1. v.peer = [p EXCEPT !.phase = "ready", !.id = 0, !.token = 0, !.got = None, !.pend = @ - 1]
        BY <1>1, <1>6, <3>2, InformedIs, ZenonT(60) DEF Switched
      <4>2. v.peer.phase = "ready" /\ v.peer.id = 0 /\ v.peer.token = 0
        BY <1>1, <4>1 DEF PeerShape
      <4> QED
        BY <1>3, <1>6, <3>2, <4>2 DEF Tells
    <3> QED
      BY <3>1, <3>2, Zenon
  <2>4. \A j \in 1 .. Len(v.back) : v.back[j].to # "hello"
    BY <1>2, <1>3, <1>6, SMTT(30) DEF Settled, Greeting, Switched, p
  <2>5. Greeting(v)
    BY <2>2, <2>3, <2>4 DEF Greeting
  <2>6. Waits(v)
    BY <2>1, <2>2 DEF Waits
  <2>7. Agrees(v)
    BY <1>1, <2>3 DEF Agrees
  <2> QED
    BY <1>4, <2>5, <2>6, <2>7 DEF Settled
<1>7. CASE r.to \in {"error", "call", "publish"}
  <2>1. /\ v.peer.id = p.id /\ v.peer.token = p.token
        /\ v.peer.phase = p.phase \/ v.peer.phase = "done"
    <3>1. \/ v.peer = [p EXCEPT !.phase = "done"]
          \/ v.peer = [p EXCEPT !.got = r.seq, !.pend = @ - 1]
          \/ v.peer = [p EXCEPT !.got = r.seq]
      BY <1>1, <1>7, InformedIs, ZenonT(60)
    <3> QED
      BY <1>1, <3>1, Zenon DEF PeerShape
  <2>2. p.phase \notin {"new", "hello"}
    BY <1>3, <1>7
  <2>3. Greeting(v)
    BY <1>1, <1>2, <2>1, <2>2, ZenonT(60) DEF Settled, Greeting, p
  <2>4. Waits(v)
    <3>1. \A i \in 1 .. Len(v.wire) : Switches(v.wire[i]) => i = Len(v.wire) /\ Waiting(v)
      BY <1>1, <2>1, Zenon DEF Settled, Waits, Waiting, p
    <3>2. ASSUME NEW j \in 1 .. Len(v.back), Switched(v.back[j])
          PROVE  /\ v.wire = <<>> /\ Waiting(v) /\ Tells(v.back[j], v.chan)
                 /\ \A m \in 1 .. Len(v.back) : Switched(v.back[m]) => m = j
      <4>1. j + 1 \in 1 .. Len(u.back) /\ v.back[j] = u.back[j + 1]
        BY <1>2, Zenon
      <4>2. /\ u.wire = <<>> /\ Waiting(u) /\ Tells(u.back[j + 1], u.chan)
            /\ \A m \in 1 .. Len(u.back) : Switched(u.back[m]) => m = j + 1
        BY <3>2, <4>1 DEF Settled, Waits
      <4>3. ASSUME NEW m \in 1 .. Len(v.back), Switched(v.back[m])
            PROVE  m = j
        <5>1. m + 1 \in 1 .. Len(u.back) /\ Switched(u.back[m + 1])
          BY <1>2, <4>3, Zenon
        <5>2. m + 1 = j + 1
          BY <4>2, <5>1
        <5>3. m \in Int /\ j \in Int
          BY <1>2
        <5> QED
          BY <5>2, <5>3
      <4> QED
        BY <1>1, <2>1, <4>1, <4>2, <4>3 DEF Waiting, p
    <3> QED
      BY <3>1, <3>2 DEF Waits
  <2>5. Agrees(v)
    BY <1>1, <2>1 DEF Settled, Agrees, p
  <2> QED
    BY <1>4, <2>3, <2>4, <2>5 DEF Settled
<1> QED
  BY <1>1, <1>5, <1>6, <1>7 DEF Switched, Response

(* Every move keeps a view settled. *)
LEMMA MovedSettled ==
  ASSUME NEW u, NEW v, NEW used, NEW assembling, FieldsTyped(u), Settled(u),
         Moved(u, v, used, assembling)
  PROVE  Settled(v)
BY AcceptedSettled, EndedSettled, HandledSettled, EmittedSettled, AskedSettled, GotSettled DEF Moved

-----------------------------------------------------------------------------
(* The agreement of client and server *)

AllSettled == Typed /\ Buffered /\ \A c \in Slot : Settled(View(c))

(* At the start nobody is connected. *)
LEMMA InitSettled == Init => AllSettled
<1> SUFFICES ASSUME Init PROVE AllSettled
  BY Zenon
<1>1. Typed
  <2>1. <<>> \in Seq(Request) /\ <<>> \in Seq(Response) /\ <<>> \in Seq(Piece)
    OBVIOUS
  <2>2. 0 \in 0 .. Background
    BY Constants DEF Background
  <2> QED
    BY <2>1, <2>2, NoChanType, NewPeerType DEF Init, Typed, NoAsm
<1>2. Buffered
  BY DEF Init, Buffered
<1>3. ASSUME NEW c \in Slot
      PROVE  Settled(View(c))
  <2>1. /\ ~View(c).live /\ View(c).chan = NoChan /\ ~View(c).parked /\ View(c).wire = <<>>
        /\ View(c).back = <<>> /\ View(c).peer = NewPeer
    BY DEF Init, View
  <2>2. NewPeer.phase = "new"
    BY DEF NewPeer
  <2>3. AtRest(View(c)) /\ Agrees(View(c))
    BY <2>1, <2>2, NoChanType DEF AtRest, Agrees
  <2>4. /\ \A i \in 1 .. Len(View(c).wire) : FALSE
        /\ \A i \in 1 .. Len(View(c).back) : FALSE
    BY <2>1
  <2>5. Greeting(View(c))
    BY <2>1, <2>2, <2>4 DEF Greeting
  <2>6. Waits(View(c))
    BY <2>4, Zenon DEF Waits
  <2> QED
    BY <2>3, <2>5, <2>6, Zenon DEF Settled
<1> QED
  BY <1>1, <1>2, <1>3 DEF AllSettled

(* Every step keeps all views settled. *)
LEMMA StepSettled ==
  ASSUME AllSettled, [Next]_vars
  PROVE  AllSettled'
<1>1. Typed /\ Buffered /\ \A c \in Slot : AtRest(View(c))
  BY DEF AllSettled, Settled
<1>2. Typed' /\ Buffered'
  BY <1>1, StepTyped
<1>3. \A c \in Slot : Moved(View(c), View(c)', Used(c), asm.active)
  BY <1>1, StepMoves
<1>4. ASSUME NEW c \in Slot
      PROVE  Settled(View(c)')
  BY <1>1, <1>3, TypedViews, MovedSettled DEF AllSettled
<1>5. \A c \in Slot : Settled(View(c))'
  BY <1>4, Zenon DEF Settled, AtRest, Greeting, Waits, Agrees, Waiting, Tells, Switches, Switched, View
<1> QED
  BY <1>2, <1>5 DEF AllSettled

(* On every connection the two ends hold the same channel id and token, or    *)
(* the client waits and what it does not know is still on its way.            *)
THEOREM AlwaysSettled == Spec => []AllSettled
BY InitSettled, StepSettled, PTL DEF Spec

(* Whenever the client of a live connection has no OpenSecureChannel and no   *)
(* CloseSecureChannel outstanding, client and server hold the same channel id *)
(* and token.                                                                 *)
THEOREM ChannelsAgree == Spec => []Agreement
<1>1. AllSettled => Agreement
  <2> SUFFICES ASSUME AllSettled, NEW c \in Slot, live[c], peer[c].phase \in {"ready", "open"}
               PROVE  chan[c].id = peer[c].id /\ chan[c].token = peer[c].token
    BY ZenonT(60) DEF Agreement
  <2>1. AtRest(View(c)) /\ Agrees(View(c))
    BY ZenonT(60) DEF AllSettled, Settled
  <2> QED
    BY <2>1, ZenonT(60) DEF AtRest, Agrees, View
<1> QED
  BY <1>1, AlwaysSettled, PTL

-----------------------------------------------------------------------------
(* Channel ids *)

(* An open channel has the id it had, or one that no other connection has.    *)
Keeps(u, v, used) ==
  v.live /\ v.chan.open =>
    \/ u.live /\ u.chan.open /\ v.chan.id = u.chan.id
    \/ v.chan.id \notin used

(* An answer leaves an open channel under an id that it had or that was free. *)
LEMMA AnsweredKeeps ==
  ASSUME NEW u, NEW v, NEW used, u.live, NEW ch \in ChanType, NEW to, NEW ok \in BOOLEAN,
         Answered(u, v, ch, to, ok),
         ch.open => (u.chan.open /\ ch.id = u.chan.id) \/ ch.id \notin used
  PROVE  Keeps(u, v, used)
<1>1. v.chan = LeftBy(ch, to, ok)
  BY DEF Answered, Taken
<1> QED
  BY <1>1, LeftByFields, NoChanType DEF Keeps

(* So does every move. *)
LEMMA MovedKeeps ==
  ASSUME NEW u, NEW v, NEW used, NEW assembling, FieldsTyped(u), AtRest(u),
         Moved(u, v, used, assembling)
  PROVE  Keeps(u, v, used)
<1>1. CASE v = u
  BY <1>1, Zenon DEF Keeps
<1>2. CASE Accepted(u, v) \/ Ended(u, v)
  BY <1>2, NoChanType DEF Accepted, Ended, Keeps
<1>3. CASE Handled(u, v, used, assembling)
  <2> DEFINE ks == Sequenced(u.chan, Head(u.wire))
             ch == [ks EXCEPT !.pol = Secured]
  <2>1. /\ u.live /\ u.chan \in ChanType /\ Head(u.wire) \in Chunk
        /\ ks \in ChanType /\ ks.open = u.chan.open /\ ks.id = u.chan.id
        /\ ch \in ChanType /\ ch.open = u.chan.open /\ ch.id = u.chan.id
    BY <1>3, HeadRequest, SequencedType, Zenon DEF Handled, FieldsTyped
  <2>2. CASE Noted(u, v, Ack) \/ Noted(u, v, Err) \/ Passed(u, v, assembling)
    BY <2>1, <2>2 DEF Noted, Passed, Taken, Keeps
  <2>3. CASE Opened(u, v, used)
    <3>1. \/ Answered(u, v, ch, "open", FALSE)
          \/ \E ok \in BOOLEAN : Answered(u, v, Renewed(ch), "open", ok)
          \/ \E ok \in BOOLEAN, id \in Id \ used : Answered(u, v, Issued(ch, id), "open", ok)
          \/ Answered(u, v, NoChan, "open", FALSE)
      BY <2>3, Zenon DEF Opened
    <3> HIDE DEF ch, ks
    <3>2. /\ Renewed(ch) \in ChanType /\ Renewed(ch).open = u.chan.open /\ Renewed(ch).id = u.chan.id
          /\ \A id \in Id : Issued(ch, id) \in ChanType /\ Issued(ch, id).id = id
      BY <2>1, Constants, OpenedType
    <3> QED
      BY <2>1, <3>1, <3>2, NoChanType, AnsweredKeeps, Zenon
  <2>4. CASE Dispatched(u, v)
    <3>1. \/ Answered(u, v, ks, Head(u.wire).svc, FALSE)
          \/ Answered(u, v, ks, Head(u.wire).svc, TRUE)
          \/ Answered(u, v, NoChan, Head(u.wire).svc, TRUE)
          \/ Taken(u, v, ks, u.back)
      BY <2>4, Zenon DEF Dispatched
    <3> HIDE DEF ks
    <3>2. CASE Taken(u, v, ks, u.back)
      BY <2>1, <3>2 DEF Taken, Keeps
    <3> QED
      BY <2>1, <3>1, <3>2, NoChanType, AnsweredKeeps, Zenon
  <2> QED
    BY <1>3, <2>2, <2>3, <2>4, Zenon DEF Handled
<1>4. CASE Emitted(u, v)
  BY <1>4 DEF Emitted, AtRest, Keeps, Counted, FieldsTyped, ChanType
<1>5. CASE Asked(u, v)
  BY <1>5, AskedType, Zenon DEF Sent, Keeps
<1>6. CASE Got(u, v)
  BY <1>6, Zenon DEF Got, Keeps
<1> QED
  BY <1>1, <1>2, <1>3, <1>4, <1>5, <1>6 DEF Moved

(* No two live connections have open channels with the same id.               *)
THEOREM ChannelsUnique == Spec => []UniqueChannels
<1>1. Init => UniqueChannels
  BY DEF Init, UniqueChannels
<1>2. AllSettled /\ UniqueChannels /\ [Next]_vars => UniqueChannels'
  <2> SUFFICES ASSUME AllSettled, UniqueChannels, [Next]_vars,
                      NEW a \in Slot, NEW b \in Slot, a # b,
                      live'[a], chan'[a].open, live'[b], chan'[b].open, chan'[a].id = chan'[b].id
               PROVE  FALSE
    BY Zenon DEF UniqueChannels
  <2>1. Typed /\ Buffered /\ \A c \in Slot : AtRest(View(c)) /\ FieldsTyped(View(c))
    BY TypedViews DEF AllSettled, Settled
  <2>2. /\ \A c \in Slot : Moved(View(c), View(c)', Used(c), asm.active)
        /\ (\A c \in Slot : View(c)' = View(c)) \/ \E d \in Slot : Elsewhere(d)
    BY <2>1, StepMoves, ZenonT(60)
  <2>3. \A c \in Slot : Keeps(View(c), View(c)', Used(c))
    BY <2>1, <2>2, MovedKeeps, ZenonT(60)
  <2>4. ASSUME NEW c \in Slot, NEW d \in Slot, c # d, View(d)' = View(d),
               live'[c], chan'[c].open, live'[d], chan'[d].open, chan'[c].id = chan'[d].id
        PROVE  FALSE
    <3>1. live[d] /\ chan[d].open /\ chan[d].id = chan'[c].id
      BY <2>4, ZenonT(60) DEF View
    <3>2. chan[d].id \in Id
      BY <2>1, ZenonT(60) DEF Typed, ChanType
    <3>3. chan'[c].id \in Used(c)
      BY <2>4, <3>1, <3>2 DEF Used, UsedByOther
    <3>4. live[c] /\ chan[c].open /\ chan'[c].id = chan[c].id
      BY <2>3, <2>4, <3>3, ZenonT(60) DEF Keeps, View
    <3> QED
      BY <2>4, <3>1, <3>4 DEF UniqueChannels
  <2>5. View(a)' = View(a) \/ View(b)' = View(b)
    BY <2>2 DEF Elsewhere
  <2> QED
    BY <2>4, <2>5
<1> QED
  BY <1>1, <1>2, AlwaysSettled, PTL DEF Spec

-----------------------------------------------------------------------------
(* The numbers of responses *)

(* A response that carries a number, and one after which the client has no    *)
(* channel.                                                                   *)
Bears(r) == r.to \in {"open", "call", "publish", "close"}
Final(r) == r.to = "close" \/ (r.to = "open" /\ ~r.ok)

(* A client that does not make mistakes has sent a request only on an open    *)
(* channel, and nothing follows the response that leaves it without one.      *)
Stands(u) ==
  /\ u.peer.phase = "open" => u.chan.open
  /\ \A i \in 1 .. Len(u.wire) : u.wire[i].type = "MSG" => u.chan.open
  /\ u.peer.phase \in {"new", "hello", "ready"} => u.peer.got = None
  /\ u.peer.phase = "ready" => u.wire = <<>> /\ u.back = <<>>
  /\ \A j \in 1 .. Len(u.back) : Final(u.back[j]) => j = Len(u.back)

(* The responses on their way, after the last one received, which has the     *)
(* index 0; those from i to j carry no number.                                *)
Has(u, i) == IF i = 0 THEN u.peer.got # None ELSE Bears(u.back[i])
No(u, i) == IF i = 0 THEN u.peer.got ELSE u.back[i].seq
Gap(u, i, j) == \A m \in 1 .. Len(u.back) : i < m /\ m < j => ~Bears(u.back[m])

(* Each number follows the one before it, and the channel has the last one;   *)
(* a channel that is not open has sent nothing, or has sent its last.         *)
Chained(u) ==
  \A i \in 0 .. Len(u.back), j \in 1 .. Len(u.back) :
    /\ i < j /\ Has(u, i) /\ Bears(u.back[j]) /\ Gap(u, i, j)
    /\ u.back[j].to # "close"
    => u.back[j].seq = (No(u, i) + 1) % SeqMod

Counting(u) ==
  \A i \in 0 .. Len(u.back) :
    /\ Has(u, i) /\ Gap(u, i, Len(u.back) + 1)
    /\ i > 0 => ~Final(u.back[i])
    => u.chan.out = No(u, i)

Silent(u) ==
  ~u.chan.open => \/ \A i \in 0 .. Len(u.back) : ~Has(u, i)
                  \/ \E i \in 1 .. Len(u.back) : Final(u.back[i])

Numbered(u) == Chained(u) /\ Counting(u) /\ Silent(u)

(* What the server does to the responses on their way and to its number.      *)
Speaks(u, v) ==
  \/ v.back = u.back /\ (Secured \/ (v.chan.open = u.chan.open /\ v.chan.out = u.chan.out))
  \/ \E r \in Response :
       /\ v.back = Append(u.back, r)
       /\ \/ ~Bears(r) /\ v.chan.open = u.chan.open /\ v.chan.out = u.chan.out
          \/ /\ Bears(r)
             /\ r.to = "close" \/ ~u.chan.open \/ r.seq = (u.chan.out + 1) % SeqMod
             /\ Final(r) \/ (v.chan.open /\ v.chan.out = r.seq)

(* An answer has the number after that of the channel, which is then counted. *)
LEMMA ReplyNumber ==
  ASSUME NEW ch \in ChanType, NEW to, NEW ok
  PROVE  /\ Reply(ch, to, ok).seq = (ch.out + 1) % SeqMod
         /\ Counted(ch).out = (ch.out + 1) % SeqMod /\ Counted(ch).open = ch.open
BY DEF Reply, Counted, ChanType

(* The number of a channel is not touched by the validator, a renewal or an id. *)
LEMMA SameNumber ==
  ASSUME NEW ch \in ChanType, NEW k \in Chunk, NEW id
  PROVE  /\ Sequenced(ch, k).out = ch.out
         /\ [Sequenced(ch, k) EXCEPT !.pol = Secured].out = ch.out
         /\ Renewed(ch).out = ch.out /\ Issued(ch, id).out = ch.out
BY DEF Sequenced, Renewed, Issued, ChanType

(* An answer on an open channel, a refusal of OpenSecureChannel or a close    *)
(* speaks.                                                                    *)
LEMMA AnsweredSpeaks ==
  ASSUME NEW u, NEW v, FieldsTyped(u), NEW ch \in ChanType,
         NEW to \in {"open", "call", "publish", "close"}, NEW ok \in BOOLEAN,
         Answered(u, v, ch, to, ok),
         to = "close" \/ ~u.chan.open \/ ch.out = u.chan.out,
         ch.open \/ to = "close" \/ (to = "open" /\ ~ok)
  PROVE  Speaks(u, v)
<1> DEFINE r == Reply(ch, to, ok)
<1>1. /\ r \in Response /\ r.to = to /\ r.ok = ok /\ r.seq = (ch.out + 1) % SeqMod
  BY ReplyType, ReplyFields, ReplyNumber
<1>2. Bears(r) /\ (Final(r) <=> to = "close" \/ (to = "open" /\ ~ok))
  BY <1>1 DEF Bears, Final
<1>3. Final(r) \/ (LeftBy(ch, to, ok).open /\ LeftBy(ch, to, ok).out = r.seq)
  BY <1>1, <1>2, ReplyNumber DEF LeftBy, ClosesRejected
<1>4. /\ v.chan = LeftBy(ch, to, ok)
      /\ v.back = Append(u.back, r) \/ (Secured /\ v.back = u.back)
  BY Zenon DEF Answered, Taken
<1> HIDE DEF r
<1> QED
  BY <1>1, <1>2, <1>3, <1>4 DEF Speaks

(* So does every chunk that is handled; only one that switches the channel    *)
(* opens or closes it.                                                        *)
LEMMA HandledSpeaks ==
  ASSUME NEW u, NEW v, NEW used, NEW assembling, FieldsTyped(u), Stands(u),
         Handled(u, v, used, assembling)
  PROVE  /\ v.peer = u.peer /\ v.wire = Tail(u.wire) /\ u.wire # <<>>
         /\ v.chan.open = u.chan.open \/ Switches(Head(u.wire))
         /\ Speaks(u, v)
<1> DEFINE k == Head(u.wire)
           ks == Sequenced(u.chan, k)
           ch == [ks EXCEPT !.pol = Secured]
<1>1. /\ u.live /\ u.wire # <<>> /\ u.chan \in ChanType /\ k \in Chunk
      /\ k.type = "MSG" => k.svc \in {"call", "publish", "close"}
  BY HeadRequest, Zenon DEF Handled, FieldsTyped
<1>2. /\ ks \in ChanType /\ ks.open = u.chan.open /\ ks.out = u.chan.out
      /\ ch \in ChanType /\ ch.open = u.chan.open /\ ch.out = u.chan.out
  BY <1>1, SequencedType, SameNumber, Zenon
<1>3. k.type = "MSG" => u.chan.open
  <2>1. 1 \in 1 .. Len(u.wire) /\ k = u.wire[1]
    BY <1>1, TailFacts DEF FieldsTyped
  <2> QED
    BY <2>1, Zenon DEF Stands
<1>4. CASE Noted(u, v, Ack) \/ Noted(u, v, Err)
  <2>1. /\ v.peer = u.peer /\ v.wire = Tail(u.wire) /\ v.chan = u.chan
        /\ \E r \in {Ack, Err} : v.back = Append(u.back, r)
    BY <1>4, Zenon DEF Noted, Taken
  <2>2. /\ Ack \in Response /\ ~Bears(Ack)
        /\ Err \in Response /\ ~Bears(Err)
    BY Constants DEF Ack, Err, Response, Bears
  <2> QED
    BY <1>1, <2>1, <2>2, Zenon DEF Speaks
<1>5. CASE Passed(u, v, assembling)
  BY <1>1, <1>5, Zenon DEF Passed, Taken, Speaks
<1>6. CASE Opened(u, v, used)
  <2>1. /\ Switches(k)
        /\ \/ Answered(u, v, ch, "open", FALSE)
           \/ u.chan.open /\ \E ok \in BOOLEAN : Answered(u, v, Renewed(ch), "open", ok)
           \/ \E ok \in BOOLEAN, id \in Id : Answered(u, v, Issued(ch, id), "open", ok)
           \/ ~u.chan.open /\ Answered(u, v, NoChan, "open", FALSE)
    BY <1>6, Zenon DEF Opened, Switches
  <2> HIDE DEF ch, ks, k
  <2>2. /\ Renewed(ch) \in ChanType /\ Renewed(ch).open = u.chan.open
        /\ Renewed(ch).out = u.chan.out
        /\ \A id \in Id : /\ Issued(ch, id) \in ChanType /\ Issued(ch, id).open
                          /\ Issued(ch, id).out = u.chan.out
    BY <1>1, <1>2, Constants, OpenedType, SameNumber, Zenon
  <2>3. Speaks(u, v)
    BY <2>1, <2>2, <1>2, NoChanType, AnsweredSpeaks, Zenon
  <2>4. v.peer = u.peer /\ v.wire = Tail(u.wire)
    BY <2>1, Zenon DEF Answered, Taken
  <2> QED
    BY <1>1, <2>1, <2>3, <2>4, Zenon DEF k
<1>7. CASE Dispatched(u, v)
  <2>1. /\ k.type = "MSG"
        /\ \/ k.svc = "call" /\ Answered(u, v, ks, k.svc, TRUE)
           \/ k.svc = "close" /\ Answered(u, v, NoChan, k.svc, TRUE)
           \/ Taken(u, v, ks, u.back)
    BY <1>3, <1>7, Zenon DEF Dispatched
  <2> HIDE DEF ch, ks, k
  <2>2. CASE Taken(u, v, ks, u.back)
    BY <1>1, <1>2, <2>2, Zenon DEF Taken, Speaks
  <2>3. CASE k.svc = "call" /\ Answered(u, v, ks, k.svc, TRUE)
    <3>1. Speaks(u, v)
      BY <1>2, <1>3, <2>1, <2>3, AnsweredSpeaks, Zenon
    <3>2. v.peer = u.peer /\ v.wire = Tail(u.wire) /\ v.chan = LeftBy(ks, "call", TRUE)
      BY <2>3, Zenon DEF Answered, Taken
    <3>3. v.chan.open = u.chan.open
      BY <1>2, <3>2, ReplyNumber, ZenonT(60) DEF LeftBy, ClosesRejected
    <3> QED
      BY <1>1, <3>1, <3>2, <3>3, Zenon
  <2>4. CASE k.svc = "close" /\ Answered(u, v, NoChan, k.svc, TRUE)
    <3>1. Speaks(u, v)
      BY <2>4, NoChanType, AnsweredSpeaks, Zenon
    <3>2. v.peer = u.peer /\ v.wire = Tail(u.wire)
      BY <2>4, Zenon DEF Answered, Taken
    <3> QED
      BY <1>1, <2>1, <2>4, <3>1, <3>2 DEF Switches, k
  <2> QED
    BY <2>1, <2>2, <2>3, <2>4, Zenon
<1> QED
  BY <1>4, <1>5, <1>6, <1>7, Zenon DEF Handled

(* So does a Publish response that is sent later. *)
LEMMA EmittedSpeaks ==
  ASSUME NEW u, NEW v, FieldsTyped(u), AtRest(u), Emitted(u, v)
  PROVE  /\ v.peer = u.peer /\ v.wire = u.wire /\ v.chan.open /\ u.chan.open
         /\ Speaks(u, v)
<1> DEFINE r == Reply(u.chan, "publish", TRUE)
<1>1. u.chan.open /\ u.chan \in ChanType
  BY DEF AtRest, Emitted, FieldsTyped
<1>2. /\ r \in Response /\ r.to = "publish" /\ r.seq = (u.chan.out + 1) % SeqMod
  <2>1. r \in Response
    BY <1>1, ReplyType, Zenon
  <2>2. r.to = "publish"
    BY DEF Reply
  <2>3. r.seq = (u.chan.out + 1) % SeqMod
    BY <1>1 DEF Reply, Counted, ChanType
  <2> QED
    BY <2>1, <2>2, <2>3, Zenon
<1>3. Bears(r)
  BY <1>2, Zenon DEF Bears
<1>4. /\ v.peer = u.peer /\ v.wire = u.wire /\ v.chan = Counted(u.chan)
      /\ v.back = Append(u.back, r) \/ (Secured /\ v.back = u.back)
  BY Zenon DEF Emitted
<1>5. v.chan.open /\ v.chan.out = r.seq
  BY <1>1, <1>2, <1>4, ReplyNumber, Zenon
<1> HIDE DEF r
<1> QED
  BY <1>1, <1>2, <1>3, <1>4, <1>5, Zenon DEF Speaks

(* What a client that makes no mistakes sends, and what becomes of it. *)
Orderly(p, k, q) ==
  /\ q.got = p.got
  /\ \/ k.type = "HEL" /\ p.phase = "new" /\ q.phase = "hello"
     \/ /\ k.type \in {"CON", "ABT"} /\ MaxParts # 1
        /\ p.phase = "open" /\ q.phase = "open"
     \/ /\ k.type = "OPN" /\ p.phase \in {"ready", "open"} /\ q.phase = "opening"
        /\ k.seq = q.seq /\ k.seq \in NextNumbers(p.seq)
     \/ /\ k.type = "MSG" /\ p.phase = "open" /\ q.phase \in {"open", "closing"}
        /\ k.seq = q.seq /\ k.seq \in NextNumbers(p.seq)
        /\ k.id = p.id /\ k.token = p.token
     \/ /\ k.type = "CLO" /\ p.phase = "open" /\ q.phase = "done"
        /\ k.seq = q.seq /\ k.seq \in NextNumbers(p.seq)
        /\ k.id = p.id /\ k.token = p.token

(* The fields of a chunk. *)
LEMMA ChunkFields ==
  ASSUME NEW p, NEW type, NEW n, NEW svc, NEW part
  PROVE  /\ ChunkFrom(p, type, n, svc, part).type = type
         /\ ChunkFrom(p, type, n, svc, part).seq = n
         /\ ChunkFrom(p, type, n, svc, part).id = p.id
         /\ ChunkFrom(p, type, n, svc, part).token = p.token
BY DEF ChunkFrom

(* A client that makes no mistakes is orderly. *)
LEMMA AskedOrderly ==
  ASSUME NEW u, NEW v, FieldsTyped(u), ~Mistakes, Asked(u, v)
  PROVE  \E k, q : Sent(u, v, k, q) /\ Orderly(u.peer, k, q)
<1> DEFINE p == u.peer
<1>1. p \in PeerShape
  BY DEF FieldsTyped
<1> HIDE DEF p
<1>2. CASE AskedHello(u, v, p)
  <2> DEFINE k == ChunkFrom(p, "HEL", 0, "none", 1)
             q == [p EXCEPT !.phase = "hello"]
  <2>1. Sent(u, v, k, q) /\ p.phase = "new"
    BY <1>2, Zenon DEF AskedHello
  <2>2. k.type = "HEL" /\ q.phase = "hello" /\ q.got = p.got
    BY <1>1, ChunkFields DEF PeerShape
  <2> HIDE DEF k, q
  <2>3. Orderly(p, k, q)
    BY <2>1, <2>2 DEF Orderly
  <2> QED
    BY <2>1, <2>3, Zenon DEF p
<1>3. CASE AskedOpen(u, v, p)
  <2>1. PICK n \in NextNumbers(p.seq) :
          Sent(u, v, ChunkFrom(p, "OPN", n, "none", 1),
               [p EXCEPT !.phase = "opening", !.seq = n, !.pend = @ + 1])
    BY <1>3, Zenon DEF AskedOpen
  <2> DEFINE k == ChunkFrom(p, "OPN", n, "none", 1)
             q == [p EXCEPT !.phase = "opening", !.seq = n, !.pend = @ + 1]
  <2>2. k.type = "OPN" /\ k.seq = n /\ q.phase = "opening" /\ q.got = p.got /\ q.seq = n
    BY <1>1, ChunkFields DEF PeerShape
  <2>3. Sent(u, v, k, q) /\ p.phase \in {"ready", "open"}
    BY <1>3, <2>1, Zenon DEF AskedOpen
  <2> HIDE DEF k, q
  <2>4. Orderly(p, k, q)
    BY <2>2, <2>3, Zenon DEF Orderly
  <2> QED
    BY <2>3, <2>4, Zenon DEF p
<1>4. CASE AskedService(u, v, p)
  <2> DEFINE K(n, svc) == ChunkFrom(p, "MSG", n, svc, p.part + 1)
             Q(n, svc) == [p EXCEPT !.seq = n, !.part = 0,
                                   !.phase = IF svc = "close" THEN "closing" ELSE @,
                                   !.pend = IF svc = "publish" THEN @ ELSE @ + 1]
  <2>1. PICK n \in NextNumbers(p.seq), svc \in {"call", "publish", "close"} :
          p.phase = "open" /\ Sent(u, v, K(n, svc), Q(n, svc))
    BY <1>4, Zenon DEF AskedService
  <2>2. /\ K(n, svc).type = "MSG" /\ K(n, svc).seq = n
        /\ K(n, svc).id = p.id /\ K(n, svc).token = p.token
    BY ChunkFields
  <2>3. /\ Q(n, svc).phase = (IF svc = "close" THEN "closing" ELSE p.phase)
        /\ Q(n, svc).got = p.got /\ Q(n, svc).seq = n
    BY <1>1 DEF PeerShape
  <2> HIDE DEF K, Q
  <2>4. Orderly(p, K(n, svc), Q(n, svc))
    BY <2>1, <2>2, <2>3, Zenon DEF Orderly
  <2> QED
    BY <2>1, <2>4, Zenon DEF p
<1>5. CASE AskedPart(u, v, p)
  <2> DEFINE K(n, t) == ChunkFrom(p, t, n, "none", p.part + 1)
             Q(n, m) == [p EXCEPT !.seq = n, !.part = m]
  <2>1. PICK n \in Number :
          /\ p.phase = "open"
          /\ \/ p.part + 1 < MaxParts /\ Sent(u, v, K(n, "CON"), Q(n, p.part + 1))
             \/ p.part > 0 /\ Sent(u, v, K(n, "ABT"), Q(n, 0))
    BY <1>5, Zenon DEF AskedPart
  <2>2. \A t : K(n, t).type = t
    BY ChunkFields
  <2>3. \A m : Q(n, m).phase = p.phase /\ Q(n, m).got = p.got
    BY <1>1 DEF PeerShape
  <2>4. p.part \in 0 .. MaxParts - 1
    BY <1>1 DEF PeerShape
  <2>5. p.part + 1 < MaxParts \/ p.part > 0 => MaxParts # 1
    BY <2>4
  <2> HIDE DEF K, Q
  <2>6. \E k, q : Sent(u, v, k, q) /\ k.type \in {"CON", "ABT"} /\ MaxParts # 1
                  /\ p.phase = "open" /\ q.phase = "open" /\ q.got = p.got
    <3>1. CASE Sent(u, v, K(n, "CON"), Q(n, p.part + 1)) /\ MaxParts # 1
      BY <2>1, <2>2, <2>3, <3>1, SMTT(30)
    <3>2. CASE Sent(u, v, K(n, "ABT"), Q(n, 0)) /\ MaxParts # 1
      BY <2>1, <2>2, <2>3, <3>2
    <3> QED
      BY <2>1, <2>5, <3>1, <3>2, Zenon
  <2> QED
    BY <2>6, Zenon DEF Orderly, p
<1>6. CASE AskedClose(u, v, p)
  <2>1. PICK n \in NextNumbers(p.seq) :
          Sent(u, v, ChunkFrom(p, "CLO", n, "none", 1), [p EXCEPT !.phase = "done", !.seq = n])
    BY <1>6, Zenon DEF AskedClose
  <2> DEFINE k == ChunkFrom(p, "CLO", n, "none", 1)
             q == [p EXCEPT !.phase = "done", !.seq = n]
  <2>2. /\ k.type = "CLO" /\ k.seq = n /\ k.id = p.id /\ k.token = p.token
        /\ q.phase = "done" /\ q.got = p.got /\ q.seq = n
    BY <1>1, ChunkFields DEF PeerShape
  <2>3. Sent(u, v, k, q) /\ p.phase = "open"
    BY <1>6, <2>1, Zenon DEF AskedClose
  <2> HIDE DEF k, q
  <2>4. Orderly(p, k, q)
    BY <2>2, <2>3 DEF Orderly
  <2> QED
    BY <2>3, <2>4, Zenon DEF p
<1> QED
  BY <1>2, <1>3, <1>4, <1>5, <1>6, Zenon DEF Asked, p

(* Nothing Final is on its way while the server has something to handle, or   *)
(* while its channel is open.                                                 *)
LEMMA NothingFinal ==
  ASSUME NEW u, Settled(u), u.wire # <<>> \/ u.chan.open \/ ~Waiting(u)
  PROVE  \A j \in 1 .. Len(u.back) : ~Final(u.back[j])
<1> SUFFICES ASSUME NEW j \in 1 .. Len(u.back), Final(u.back[j]) PROVE FALSE
  OBVIOUS
<1>1. Switched(u.back[j]) /\ ~(u.back[j].to = "open" /\ u.back[j].ok)
  BY DEF Final, Switched
<1>2. u.wire = <<>> /\ Waiting(u) /\ Tells(u.back[j], u.chan)
  BY <1>1, Zenon DEF Settled, Waits
<1> QED
  BY <1>1, <1>2, Zenon DEF Tells

(* What the server says is last on its way. *)
LEMMA SpeaksLast ==
  ASSUME NEW u, NEW v, FieldsTyped(u), Speaks(u, v), \A j \in 1 .. Len(u.back) : ~Final(u.back[j])
  PROVE  \A j \in 1 .. Len(v.back) : Final(v.back[j]) => j = Len(v.back)
<1>1. u.back \in Seq(Response)
  BY DEF FieldsTyped
<1>2. CASE v.back = u.back
  BY <1>2, Zenon
<1>3. CASE \E r : v.back = Append(u.back, r)
  BY <1>1, <1>3, AppendFacts
<1> QED
  BY <1>2, <1>3, Zenon DEF Speaks


(* Every move of a client that makes no mistakes, and of its server, keeps    *)
(* Stands.                                                                    *)
LEMMA MovedStands ==
  ASSUME NEW u, NEW v, NEW used, NEW assembling, FieldsTyped(u), Settled(u), Stands(u), ~Mistakes,
         Moved(u, v, used, assembling)
  PROVE  Stands(v)
<1>0. u.wire \in Seq(Request) /\ u.back \in Seq(Response) /\ u.peer \in PeerShape
  BY DEF FieldsTyped
<1>1. CASE v = u
  BY <1>1, Zenon
<1>2. CASE Accepted(u, v) \/ Ended(u, v)
  <2>1. v.peer = NewPeer /\ v.wire = <<>> /\ v.back = <<>>
    BY <1>2, Zenon DEF Accepted, Ended, Settled, AtRest
  <2>2. NewPeer.phase = "new" /\ NewPeer.got = None
    BY DEF NewPeer
  <2> QED
    BY <2>1, <2>2 DEF Stands
<1>3. CASE Handled(u, v, used, assembling)
  <2>1. /\ v.peer = u.peer /\ v.wire = Tail(u.wire) /\ u.wire # <<>>
        /\ v.chan.open = u.chan.open \/ Switches(Head(u.wire))
        /\ Speaks(u, v)
    BY <1>3, HandledSpeaks, Zenon
  <2>2. \A j \in 1 .. Len(v.back) : Final(v.back[j]) => j = Len(v.back)
    BY <2>1, NothingFinal, SpeaksLast, Zenon
  <2>3. /\ Len(u.wire) \in Nat /\ Len(u.wire) > 0 /\ Head(u.wire) = u.wire[1]
        /\ Len(v.wire) = Len(u.wire) - 1
        /\ \A i \in 1 .. Len(v.wire) : i + 1 \in 1 .. Len(u.wire) /\ v.wire[i] = u.wire[i + 1]
    BY <1>0, <2>1, TailFacts
  <2>4. Switches(Head(u.wire)) => Len(u.wire) = 1 /\ Waiting(u)
    <3>1. 1 \in 1 .. Len(u.wire)
      BY <2>3
    <3> QED
      BY <2>3, <3>1, Zenon DEF Settled, Waits
  <2>5. \A i \in 1 .. Len(v.wire) : v.chan.open = u.chan.open
    <3>1. \A i \in 1 .. Len(v.wire) : Len(u.wire) # 1
      BY <2>3
    <3> QED
      BY <2>1, <2>4, <3>1, Zenon
  <2>6. \A i \in 1 .. Len(v.wire) : v.wire[i].type = "MSG" => v.chan.open
    BY <2>3, <2>5, ZenonT(60) DEF Stands
  <2>7. u.peer.phase = "open" => v.chan.open
    BY <2>1, <2>4, SMTT(30) DEF Stands, Waiting
  <2> QED
    BY <2>1, <2>2, <2>6, <2>7, Zenon DEF Stands
<1>4. CASE Emitted(u, v)
  <2>1. /\ v.peer = u.peer /\ v.wire = u.wire /\ v.chan.open /\ u.chan.open
        /\ Speaks(u, v)
    BY <1>4, EmittedSpeaks, Zenon DEF Settled
  <2>2. \A j \in 1 .. Len(v.back) : Final(v.back[j]) => j = Len(v.back)
    BY <2>1, NothingFinal, SpeaksLast, Zenon
  <2>3. u.peer.phase # "ready"
    BY <1>4, <2>1, ZenonT(60) DEF Settled, AtRest, Agrees, Emitted
  <2> QED
    BY <2>1, <2>2, <2>3 DEF Stands
<1>5. CASE Asked(u, v)
  <2>1. PICK k, q : Sent(u, v, k, q) /\ Orderly(u.peer, k, q)
    BY <1>5, AskedOrderly, Zenon
  <2>2. /\ v.chan = u.chan /\ v.back = u.back /\ v.peer = q /\ v.wire = Append(u.wire, k)
    BY <2>1, Zenon DEF Sent
  <2>3. /\ q.got = u.peer.got /\ q.phase # "ready"
        /\ q.phase \in {"new", "hello"} => u.peer.phase = "new"
        /\ q.phase = "open" \/ k.type = "MSG" => u.peer.phase = "open"
    BY <2>1, ZenonT(60) DEF Orderly
  <2>4. \A i \in 1 .. Len(v.wire) : (i \in 1 .. Len(u.wire) /\ v.wire[i] = u.wire[i]) \/ v.wire[i] = k
    <3>1. u.wire \in Seq(Request)
      BY <1>0, Zenon
    <3> QED
      BY <2>2, <3>1, AppendFacts
  <2>5. \A i \in 1 .. Len(v.wire) : v.wire[i].type = "MSG" => v.chan.open
    BY <2>2, <2>3, <2>4, Zenon DEF Stands
  <2> QED
    BY <2>2, <2>3, <2>5, Zenon DEF Stands
<1>6. CASE Got(u, v)
  <2> DEFINE r == Head(u.back)
             p == u.peer
  <2>1. /\ v.chan = u.chan /\ v.wire = u.wire /\ v.peer = Informed(p, r) /\ v.back = Tail(u.back)
        /\ u.back # <<>> /\ p \in PeerShape /\ r \in Response
    BY <1>0, <1>6 DEF Got
  <2>2. /\ Len(u.back) \in Nat /\ Len(u.back) > 0 /\ r = u.back[1] /\ Len(v.back) = Len(u.back) - 1
        /\ \A i \in 1 .. Len(v.back) : i + 1 \in 1 .. Len(u.back) /\ v.back[i] = u.back[i + 1]
        /\ 1 \in 1 .. Len(u.back) /\ v.back \in Seq(Response)
    BY <1>0, <2>1, TailFacts
  <2> HIDE DEF r, p
  <2>3. \A j \in 1 .. Len(v.back) : Final(v.back[j]) => j = Len(v.back)
    <3> SUFFICES ASSUME NEW j \in 1 .. Len(v.back), Final(v.back[j]) PROVE j = Len(v.back)
      OBVIOUS
    <3>1. j + 1 = Len(u.back)
      BY <2>2, Zenon DEF Stands
    <3> QED
      BY <2>2, <3>1
  <2>4. p.phase # "ready" /\ p.phase # "new"
    BY <2>1, Zenon DEF Stands, Settled, Greeting, p
  <2>5. CASE r.to = "hello"
    <3>1. p.phase = "hello"
      BY <2>2, <2>5, Zenon DEF Settled, Greeting, p
    <3>2. Len(u.wire) + Len(u.back) <= 1 /\ Len(u.wire) \in Nat
      BY <1>0, <3>1, EmptyFacts, ZenonT(60) DEF Settled, Greeting, p
    <3>3. u.wire = <<>> /\ v.back = <<>>
      <4>a. \A k, m, n \in Int : k \in Nat /\ k + m <= 1 /\ m > 0 /\ n = m - 1 => k = 0 /\ n = 0
        OBVIOUS
      <4>b. Len(u.wire) \in Int /\ Len(u.back) \in Int /\ Len(v.back) \in Int
        BY <2>2, <3>2
      <4>1. Len(u.wire) = 0 /\ Len(v.back) = 0
        BY <2>2, <3>2, <4>a, <4>b, Zenon
      <4> QED
        BY <1>0, <2>2, <4>1, EmptyFacts
    <3>4. v.peer = [p EXCEPT !.phase = "ready"]
      BY <2>1, <2>5, InformedIs, Zenon
    <3>5. v.peer.phase = "ready" /\ v.peer.got = None
      BY <2>1, <3>1, <3>4 DEF PeerShape, Stands, p
    <3> QED
      BY <2>1, <2>3, <3>3, <3>5, ZenonT(60) DEF Stands
  <2>6. CASE Final(r)
    <3>1. u.wire = <<>>
      BY <2>2, <2>6, NothingFinal, Zenon
    <3>2. 1 = Len(u.back)
      BY <2>2, <2>6, Zenon DEF Stands
    <3>3. v.back = <<>>
      BY <2>2, <3>2, EmptyFacts
    <3>4. v.peer = [p EXCEPT !.phase = "ready", !.id = 0, !.token = 0, !.got = None, !.pend = @ - 1]
      BY <2>1, <2>6, InformedIs, Zenon DEF Final
    <3>5. v.peer.phase = "ready" /\ v.peer.got = None
      BY <2>1, <3>4 DEF PeerShape
    <3> QED
      BY <2>1, <2>3, <3>1, <3>3, <3>5, ZenonT(60) DEF Stands
  <2>7. CASE r.to = "open" /\ r.ok
    <3>1. Tells(r, u.chan)
      BY <2>2, <2>7, Zenon DEF Settled, Waits, Switched
    <3>2. v.peer = [p EXCEPT !.phase = "open", !.id = r.id, !.token = r.token, !.got = r.seq, !.pend = @ - 1]
      BY <2>1, <2>7, InformedIs, ZenonT(60)
    <3>3. v.peer.phase = "open" /\ v.chan.open
      BY <2>1, <2>7, <3>1, <3>2 DEF PeerShape, Tells
    <3> QED
      BY <2>1, <2>3, <3>3, Zenon DEF Stands
  <2>8. CASE r.to \in {"error", "call", "publish"}
    <3>1. \/ v.peer = [p EXCEPT !.phase = "done"]
          \/ v.peer = [p EXCEPT !.got = r.seq, !.pend = @ - 1]
          \/ v.peer = [p EXCEPT !.got = r.seq]
      BY <2>1, <2>8, InformedIs, ZenonT(60)
    <3>2. v.peer.phase = "done" \/ v.peer.phase = p.phase
      BY <2>1, <3>1, Zenon DEF PeerShape
    <3>3. p.phase # "hello"
      BY <2>2, <2>8 DEF Settled, Greeting, p
    <3>4. v.peer.phase \notin {"new", "hello", "ready"} /\ (v.peer.phase = "open" => u.peer.phase = "open")
      BY <2>4, <3>2, <3>3 DEF p
    <3> QED
      BY <2>1, <2>3, <3>4, Zenon DEF Stands
  <2> QED
    BY <2>1, <2>5, <2>6, <2>7, <2>8 DEF Response, Final
<1> QED
  BY <1>1, <1>2, <1>3, <1>4, <1>5, <1>6, Zenon DEF Moved


(* Responses that are only numbered later change nothing between two that     *)
(* were on their way before.                                                  *)
LEMMA Longer ==
  ASSUME NEW u, NEW v, FieldsTyped(u), NEW r, v.back = Append(u.back, r), v.peer.got = u.peer.got
  PROVE  /\ Len(u.back) \in Nat /\ Len(v.back) = Len(u.back) + 1 /\ v.back[Len(v.back)] = r
         /\ \A i \in 1 .. Len(u.back) : v.back[i] = u.back[i]
         /\ \A i \in 0 .. Len(u.back) : Has(v, i) = Has(u, i) /\ No(v, i) = No(u, i)
         /\ \A i \in 0 .. Len(u.back), j \in 1 .. Len(u.back) + 1 : Gap(v, i, j) => Gap(u, i, j)
         /\ \A i \in 0 .. Len(u.back) : Gap(v, i, Len(v.back) + 1) => Gap(u, i, Len(v.back)) /\ ~Bears(r)
<1>1. u.back \in Seq(Response)
  BY DEF FieldsTyped
<1>2. /\ Len(u.back) \in Nat /\ Len(v.back) = Len(u.back) + 1 /\ v.back[Len(v.back)] = r
      /\ \A i \in 1 .. Len(u.back) : i \in 1 .. Len(v.back) /\ v.back[i] = u.back[i]
  BY <1>1
<1>3. \A i \in 0 .. Len(u.back) : Has(v, i) = Has(u, i) /\ No(v, i) = No(u, i)
  BY <1>2 DEF Has, No
<1>4. \A i \in 0 .. Len(u.back), j \in 1 .. Len(u.back) + 1 : Gap(v, i, j) => Gap(u, i, j)
  BY <1>2 DEF Gap
<1>5. ASSUME NEW i \in 0 .. Len(u.back), Gap(v, i, Len(v.back) + 1)
      PROVE  Gap(u, i, Len(v.back)) /\ ~Bears(r)
  <2>1. Len(v.back) \in 1 .. Len(v.back) /\ i < Len(v.back) /\ Len(v.back) < Len(v.back) + 1
    BY <1>2
  <2>2. ~Bears(r)
    BY <1>2, <1>5, <2>1 DEF Gap
  <2>3. Gap(u, i, Len(v.back))
    BY <1>2, <1>5 DEF Gap
  <2> QED
    BY <2>2, <2>3
<1> QED
  BY <1>2, <1>3, <1>4, <1>5

(* What the server says is numbered after what it said before. *)
LEMMA SpeaksNumbered ==
  ASSUME NEW u, NEW v, FieldsTyped(u), Numbered(u), Speaks(u, v), ~Secured,
         v.peer.got = u.peer.got, \A j \in 1 .. Len(u.back) : ~Final(u.back[j])
  PROVE  Numbered(v)
<1>1. CASE v.back = u.back /\ v.chan.open = u.chan.open /\ v.chan.out = u.chan.out
  <2>1. \A i : Has(v, i) = Has(u, i) /\ No(v, i) = No(u, i)
    BY <1>1 DEF Has, No
  <2>2. \A i, j : Gap(v, i, j) = Gap(u, i, j)
    BY <1>1 DEF Gap
  <2>3. Chained(v)
    BY <1>1, <2>1, <2>2, Zenon DEF Numbered, Chained
  <2>4. Counting(v)
    BY <1>1, <2>1, <2>2, Zenon DEF Numbered, Counting
  <2>5. Silent(v)
    BY <1>1, <2>1, <2>2, Zenon DEF Numbered, Silent
  <2> QED
    BY <2>3, <2>4, <2>5 DEF Numbered
<1>2. ASSUME NEW r \in Response, v.back = Append(u.back, r), ~Bears(r),
             v.chan.open = u.chan.open, v.chan.out = u.chan.out
      PROVE  Numbered(v)
  <2>1. /\ Len(u.back) \in Nat /\ Len(v.back) = Len(u.back) + 1 /\ v.back[Len(v.back)] = r
        /\ \A i \in 1 .. Len(u.back) : v.back[i] = u.back[i]
        /\ \A i \in 0 .. Len(u.back) : Has(v, i) = Has(u, i) /\ No(v, i) = No(u, i)
        /\ \A i \in 0 .. Len(u.back), j \in 1 .. Len(u.back) + 1 : Gap(v, i, j) => Gap(u, i, j)
        /\ \A i \in 0 .. Len(u.back) : Gap(v, i, Len(v.back) + 1) => Gap(u, i, Len(v.back)) /\ ~Bears(r)
    BY <1>2, Longer, ZenonT(60)
  <2>2. ~Has(v, Len(v.back))
    BY <1>2, <2>1 DEF Has
  <2>3. Chained(v)
    <3> SUFFICES ASSUME NEW i \in 0 .. Len(v.back), NEW j \in 1 .. Len(v.back), i < j,
                        Has(v, i), Bears(v.back[j]), Gap(v, i, j), v.back[j].to # "close"
                 PROVE  v.back[j].seq = (No(v, i) + 1) % SeqMod
      BY Zenon DEF Chained
    <3>1. j \in 1 .. Len(u.back) /\ i \in 0 .. Len(u.back) /\ j \in 1 .. Len(u.back) + 1
      BY <1>2, <2>1
    <3> QED
      BY <2>1, <3>1, Zenon DEF Numbered, Chained
  <2>4. Counting(v)
    <3> SUFFICES ASSUME NEW i \in 0 .. Len(v.back), Has(v, i), Gap(v, i, Len(v.back) + 1),
                        i > 0 => ~Final(v.back[i])
                 PROVE  v.chan.out = No(v, i)
      BY DEF Counting
    <3>1. i \in 0 .. Len(u.back) /\ (i > 0 => i \in 1 .. Len(u.back))
      BY <2>1, <2>2
    <3>2. Has(u, i) /\ Gap(u, i, Len(u.back) + 1) /\ (i > 0 => ~Final(u.back[i]))
      BY <2>1, <3>1, Zenon
    <3> QED
      BY <1>2, <2>1, <3>1, <3>2, Zenon DEF Numbered, Counting
  <2>5. Silent(v)
    <3> SUFFICES ASSUME ~v.chan.open, NEW i \in 0 .. Len(v.back), Has(v, i) PROVE FALSE
      BY DEF Silent
    <3>1. i \in 0 .. Len(u.back)
      BY <2>1, <2>2
    <3>2. Has(u, i) /\ ~u.chan.open
      BY <1>2, <2>1, <3>1, ZenonT(60)
    <3> QED
      BY <3>1, <3>2, Zenon DEF Numbered, Silent
  <2> QED
    BY <2>3, <2>4, <2>5 DEF Numbered
<1>3. ASSUME NEW r \in Response, v.back = Append(u.back, r), Bears(r),
             r.to = "close" \/ ~u.chan.open \/ r.seq = (u.chan.out + 1) % SeqMod,
             Final(r) \/ (v.chan.open /\ v.chan.out = r.seq)
      PROVE  Numbered(v)
  <2>1. /\ Len(u.back) \in Nat /\ Len(v.back) = Len(u.back) + 1 /\ v.back[Len(v.back)] = r
        /\ \A i \in 1 .. Len(u.back) : v.back[i] = u.back[i]
        /\ \A i \in 0 .. Len(u.back) : Has(v, i) = Has(u, i) /\ No(v, i) = No(u, i)
        /\ \A i \in 0 .. Len(u.back), j \in 1 .. Len(u.back) + 1 : Gap(v, i, j) => Gap(u, i, j)
        /\ \A i \in 0 .. Len(u.back) : Gap(v, i, Len(v.back) + 1) => Gap(u, i, Len(v.back)) /\ ~Bears(r)
    BY <1>3, Longer, ZenonT(60)
  <2>2. No(v, Len(v.back)) = r.seq
    BY <1>3, <2>1, SMTT(30) DEF No
  <2>3. Chained(v)
    <3> SUFFICES ASSUME NEW i \in 0 .. Len(v.back), NEW j \in 1 .. Len(v.back), i < j,
                        Has(v, i), Bears(v.back[j]), Gap(v, i, j), v.back[j].to # "close"
                 PROVE  v.back[j].seq = (No(v, i) + 1) % SeqMod
      BY DEF Chained
    <3>1. i \in 0 .. Len(u.back) /\ j \in 1 .. Len(u.back) + 1
      BY <2>1
    <3>2. Has(u, i) /\ No(v, i) = No(u, i) /\ Gap(u, i, j)
      BY <2>1, <3>1, Zenon
    <3>3. CASE j \in 1 .. Len(u.back)
      BY <2>1, <3>1, <3>2, <3>3, Zenon DEF Numbered, Chained
    <3>4. CASE j = Len(u.back) + 1
      <4>1. v.back[j] = r
        BY <2>1, <3>4
      <4>2. u.chan.open
        BY <3>1, <3>2, Zenon DEF Numbered, Silent
      <4>3. i > 0 => ~Final(u.back[i])
        BY <3>1
      <4>4. u.chan.out = No(u, i)
        BY <3>1, <3>2, <3>4, <4>3, Zenon DEF Numbered, Counting
      <4> QED
        BY <1>3, <3>2, <4>1, <4>2, <4>4, ZenonT(60)
    <3> QED
      BY <2>1, <3>1, <3>3, <3>4, SMTT(30)
  <2>4. Counting(v)
    <3> SUFFICES ASSUME NEW i \in 0 .. Len(v.back), Has(v, i), Gap(v, i, Len(v.back) + 1),
                        i > 0 => ~Final(v.back[i])
                 PROVE  v.chan.out = No(v, i)
      BY DEF Counting
    <3>1. i = Len(v.back) /\ i > 0
      BY <1>3, <2>1
    <3> QED
      BY <1>3, <2>1, <2>2, <3>1, ZenonT(60)
  <2>5. Silent(v)
    <3>1. Len(v.back) \in 1 .. Len(v.back)
      BY <2>1
    <3> QED
      BY <1>3, <2>1, <3>1, Zenon DEF Silent
  <2> QED
    BY <2>3, <2>4, <2>5 DEF Numbered
<1> QED
  BY <1>1, <1>2, <1>3, Zenon DEF Speaks

(* When a response is received, the others move up by one; one that carries a *)
(* number takes the place of the last one received.                           *)
LEMMA GotNumbered ==
  ASSUME NEW u, NEW v, FieldsTyped(u), Settled(u), Stands(u), Stands(v), Numbered(u), Got(u, v)
  PROVE  Numbered(v)
<1> DEFINE r == Head(u.back)
           p == u.peer
<1>0. u.wire \in Seq(Request) /\ u.back \in Seq(Response) /\ u.peer \in PeerShape
  BY DEF FieldsTyped
<1>1. /\ v.chan = u.chan /\ v.peer = Informed(p, r) /\ v.back = Tail(u.back)
      /\ u.back # <<>> /\ p \in PeerShape /\ r \in Response
  BY <1>0 DEF Got
<1>2. /\ Len(u.back) \in Nat /\ Len(u.back) > 0 /\ r = u.back[1] /\ Len(v.back) = Len(u.back) - 1
      /\ \A i \in 1 .. Len(v.back) : i + 1 \in 1 .. Len(u.back) /\ v.back[i] = u.back[i + 1]
      /\ 1 \in 1 .. Len(u.back) /\ v.back \in Seq(Response)
  BY <1>0, <1>1, TailFacts
<1> HIDE DEF r, p
<1>3. CASE v.peer.phase = "ready"
  <2>1. v.back = <<>> /\ v.peer.got = None
    BY <1>3, Zenon DEF Stands
  <2>2. Len(v.back) = 0
    BY <2>1
  <2>3. \A i \in 0 .. Len(v.back) : ~Has(v, i)
    BY <2>1, <2>2 DEF Has
  <2>4. \A j \in 1 .. Len(v.back) : FALSE
    BY <2>2
  <2> QED
    BY <2>3, <2>4, Zenon DEF Numbered, Chained, Counting, Silent
<1>4. ASSUME NEW f, \A i \in 0 .. Len(v.back) : f[i] = IF i = 0 THEN f[0] ELSE i + 1,
             f[0] \in {0, 1}, Has(v, 0) <=> Has(u, f[0]), No(v, 0) = No(u, f[0]),
             f[0] = 0 => ~Bears(r), ~Final(r)
      PROVE  Numbered(v)
  <2>1. \A i \in 0 .. Len(v.back) :
          f[i] \in 0 .. Len(u.back) /\ (Has(v, i) <=> Has(u, f[i])) /\ No(v, i) = No(u, f[i])
    <3> SUFFICES ASSUME NEW i \in 0 .. Len(v.back)
                 PROVE  f[i] \in 0 .. Len(u.back) /\ (Has(v, i) <=> Has(u, f[i])) /\ No(v, i) = No(u, f[i])
      OBVIOUS
    <3>1. CASE i = 0
      <4>1. f[0] \in 0 .. Len(u.back)
        BY <1>2, <1>4
      <4> QED
        BY <1>4, <3>1, <4>1, Zenon
    <3>2. CASE i # 0
      <4>1. f[i] = i + 1 /\ i + 1 # 0 /\ i \in 1 .. Len(v.back) /\ i + 1 \in 0 .. Len(u.back)
        BY <1>2, <1>4, <3>2
      <4>2. v.back[i] = u.back[i + 1]
        BY <1>2, <4>1, Zenon
      <4> QED
        BY <3>2, <4>1, <4>2, Zenon DEF Has, No
    <3> QED
      BY <3>1, <3>2
  <2>2. \A i \in 0 .. Len(v.back), j \in 1 .. Len(v.back) + 1 : Gap(v, i, j) => Gap(u, f[i], j + 1)
    <3> SUFFICES ASSUME NEW i \in 0 .. Len(v.back), NEW j \in 1 .. Len(v.back) + 1, Gap(v, i, j),
                        NEW m \in 1 .. Len(u.back), f[i] < m, m < j + 1, Bears(u.back[m])
                 PROVE  FALSE
      BY ZenonT(60) DEF Gap
    <3>1. m # 1
      BY <1>2, <1>4
    <3>2. m - 1 \in 1 .. Len(v.back) /\ i < m - 1 /\ m - 1 < j /\ v.back[m - 1] = u.back[m]
      BY <1>2, <1>4, <3>1
    <3> QED
      BY <3>2, Zenon DEF Gap
  <2>3. Chained(v)
    <3> SUFFICES ASSUME NEW i \in 0 .. Len(v.back), NEW j \in 1 .. Len(v.back), i < j,
                        Has(v, i), Bears(v.back[j]), Gap(v, i, j), v.back[j].to # "close"
                 PROVE  v.back[j].seq = (No(v, i) + 1) % SeqMod
      BY Zenon DEF Chained
    <3>1. /\ j + 1 \in 1 .. Len(u.back) /\ v.back[j] = u.back[j + 1] /\ f[i] \in 0 .. Len(u.back)
          /\ f[i] < j + 1 /\ j \in 1 .. Len(v.back) + 1
      BY <1>2, <1>4, <2>1
    <3>2. Has(u, f[i]) /\ No(v, i) = No(u, f[i]) /\ Gap(u, f[i], j + 1)
      BY <2>1, <2>2, <3>1, Zenon
    <3> QED
      BY <3>1, <3>2, Zenon DEF Numbered, Chained
  <2>4. Counting(v)
    <3> SUFFICES ASSUME NEW i \in 0 .. Len(v.back), Has(v, i), Gap(v, i, Len(v.back) + 1),
                        i > 0 => ~Final(v.back[i])
                 PROVE  v.chan.out = No(v, i)
      BY DEF Counting
    <3>1. /\ Len(v.back) + 1 \in 1 .. Len(v.back) + 1 /\ Len(v.back) + 1 + 1 = Len(u.back) + 1
          /\ f[i] \in 0 .. Len(u.back)
      BY <1>2, <2>1
    <3>2. Has(u, f[i]) /\ No(v, i) = No(u, f[i]) /\ Gap(u, f[i], Len(u.back) + 1)
      BY <2>1, <2>2, <3>1, Zenon
    <3>3. f[i] > 0 => ~Final(u.back[f[i]])
      <4>1. CASE i = 0
        BY <1>2, <1>4, <4>1
      <4>2. CASE i # 0
        <5>1. i \in 1 .. Len(v.back) /\ i > 0 /\ f[i] = i + 1
          BY <1>2, <1>4, <4>2
        <5> QED
          BY <1>2, <5>1, ZenonT(60)
      <4> QED
        BY <4>1, <4>2
    <3> QED
      BY <1>1, <3>1, <3>2, <3>3, ZenonT(60) DEF Numbered, Counting
  <2>5. Silent(v)
    <3> SUFFICES ASSUME ~v.chan.open, NEW i \in 0 .. Len(v.back), Has(v, i)
                 PROVE  \E j \in 1 .. Len(v.back) : Final(v.back[j])
      BY DEF Silent
    <3>1. PICK j \in 1 .. Len(u.back) : Final(u.back[j])
      BY <1>1, <2>1, Zenon DEF Numbered, Silent
    <3>2. j # 1
      BY <1>2, <1>4, <3>1
    <3>3. j - 1 \in 1 .. Len(v.back) /\ v.back[j - 1] = u.back[j]
      BY <1>2, <3>2
    <3> QED
      BY <3>1, <3>3, Zenon
  <2> QED
    BY <2>3, <2>4, <2>5 DEF Numbered
<1>5. CASE r.to = "error"
  <2> DEFINE f == [i \in Int |-> IF i = 0 THEN 0 ELSE i + 1]
  <2>1. v.peer = [p EXCEPT !.phase = "done"]
    BY <1>1, <1>5, InformedIs, Zenon
  <2>2. v.peer.got = u.peer.got
    BY <1>1, <2>1 DEF PeerShape, p
  <2>3. /\ f[0] = 0 /\ \A i \in 0 .. Len(v.back) : f[i] = IF i = 0 THEN f[0] ELSE i + 1
    BY <1>2
  <2>4. (Has(v, 0) <=> Has(u, 0)) /\ No(v, 0) = No(u, 0) /\ ~Bears(r) /\ ~Final(r)
    BY <1>5, <2>2 DEF Has, No, Bears, Final
  <2> HIDE DEF f
  <2> QED
    BY <1>4, <2>3, <2>4
<1>6. CASE r.to \in {"call", "publish"} \/ (r.to = "open" /\ r.ok)
  <2> DEFINE f == [i \in Int |-> i + 1]
  <2>1. \/ v.peer = [p EXCEPT !.phase = "open", !.id = r.id, !.token = r.token, !.got = r.seq, !.pend = @ - 1]
        \/ v.peer = [p EXCEPT !.got = r.seq, !.pend = @ - 1]
        \/ v.peer = [p EXCEPT !.got = r.seq]
    BY <1>1, <1>6, InformedIs, ZenonT(60)
  <2>2. v.peer.got = r.seq
    BY <1>1, <2>1, Zenon DEF PeerShape
  <2>3. /\ f[0] = 1 /\ \A i \in 0 .. Len(v.back) : f[i] = IF i = 0 THEN f[0] ELSE i + 1
    BY <1>2
  <2>4. r.seq # None
    BY <1>1, Constants DEF Response, Number, None
  <2>5. (Has(v, 0) <=> Has(u, 1)) /\ No(v, 0) = No(u, 1) /\ ~Final(r)
    <3>1. Bears(r) /\ ~Final(r)
      BY <1>6 DEF Bears, Final
    <3>2. Has(v, 0) /\ No(v, 0) = r.seq
      BY <2>2, <2>4 DEF Has, No
    <3>3. Has(u, 1) /\ No(u, 1) = r.seq
      BY <1>2, <3>1 DEF Has, No
    <3> QED
      BY <3>1, <3>2, <3>3, Zenon
  <2> HIDE DEF f
  <2> QED
    BY <1>4, <2>3, <2>5
<1>7. CASE r.to = "hello" \/ Final(r)
  <2>1. \/ v.peer = [p EXCEPT !.phase = "ready"]
        \/ v.peer = [p EXCEPT !.phase = "ready", !.id = 0, !.token = 0, !.got = None, !.pend = @ - 1]
    BY <1>1, <1>7, InformedIs, Zenon DEF Final
  <2>2. v.peer.phase = "ready"
    BY <1>1, <2>1, Zenon DEF PeerShape
  <2> QED
    BY <1>3, <2>2
<1> QED
  BY <1>1, <1>5, <1>6, <1>7 DEF Response, Final


(* Every move keeps the responses numbered. *)
LEMMA MovedNumbered ==
  ASSUME NEW u, NEW v, NEW used, NEW assembling, FieldsTyped(u), Settled(u), Stands(u), Stands(v),
         Numbered(u), ~Mistakes, ~Secured, Moved(u, v, used, assembling)
  PROVE  Numbered(v)
<1>1. CASE v = u
  BY <1>1, Zenon
<1>2. CASE Accepted(u, v) \/ Ended(u, v)
  <2>1. v.peer = NewPeer /\ v.back = <<>>
    BY <1>2, Zenon DEF Accepted, Ended, Settled, AtRest
  <2>2. v.peer.got = None /\ Len(v.back) = 0
    BY <2>1 DEF NewPeer
  <2>3. \A i \in 0 .. Len(v.back) : ~Has(v, i)
    BY <2>2 DEF Has
  <2>4. \A j \in 1 .. Len(v.back) : FALSE
    BY <2>2
  <2> QED
    BY <2>3, <2>4, Zenon DEF Numbered, Chained, Counting, Silent
<1>3. CASE Handled(u, v, used, assembling)
  <2>1. v.peer = u.peer /\ u.wire # <<>> /\ Speaks(u, v)
    BY <1>3, HandledSpeaks, Zenon
  <2> QED
    BY <2>1, NothingFinal, SpeaksNumbered, Zenon
<1>4. CASE Emitted(u, v)
  <2>1. v.peer = u.peer /\ u.chan.open /\ Speaks(u, v)
    BY <1>4, EmittedSpeaks, Zenon DEF Settled
  <2> QED
    BY <2>1, NothingFinal, SpeaksNumbered, Zenon
<1>5. CASE Asked(u, v)
  <2>1. PICK k, q : Sent(u, v, k, q) /\ Orderly(u.peer, k, q)
    BY <1>5, AskedOrderly, Zenon
  <2>2. v.peer.got = u.peer.got /\ Speaks(u, v)
    BY <2>1, Zenon DEF Sent, Orderly, Speaks
  <2>3. ~Waiting(u)
    BY <2>1, Zenon DEF Orderly, Waiting
  <2> QED
    BY <2>2, <2>3, NothingFinal, SpeaksNumbered, Zenon
<1>6. CASE Got(u, v)
  BY <1>6, GotNumbered, Zenon
<1> QED
  BY <1>1, <1>2, <1>3, <1>4, <1>5, <1>6, Zenon DEF Moved

AllStand == \A c \in Slot : Stands(View(c))
AllNumbered == AllStand /\ \A c \in Slot : Numbered(View(c))

(* At the start there is nothing to number. *)
LEMMA InitNumbered == Init => AllNumbered
<1> SUFFICES ASSUME Init, NEW c \in Slot PROVE Stands(View(c)) /\ Numbered(View(c))
  BY Zenon DEF AllNumbered, AllStand
<1>1. View(c).wire = <<>> /\ View(c).back = <<>> /\ View(c).peer = NewPeer
  BY DEF Init, View
<1>2. NewPeer.phase = "new" /\ NewPeer.got = None
  BY SMTT(30) DEF NewPeer
<1>3. Stands(View(c))
  BY <1>1, <1>2 DEF Stands
<1>4. Len(View(c).back) = 0 /\ View(c).peer.got = None
  BY <1>1, <1>2
<1>5. \A i \in 0 .. Len(View(c).back) : ~Has(View(c), i)
  BY <1>4 DEF Has
<1>6. \A j \in 1 .. Len(View(c).back) : FALSE
  BY <1>4
<1>7. Numbered(View(c))
  BY <1>5, <1>6, Zenon DEF Numbered, Chained, Counting, Silent
<1> QED
  BY <1>3, <1>7

(* Every step keeps what the clients know of their channels. *)
LEMMA StepStands ==
  ASSUME AllSettled, AllStand, [Next]_vars, ~Mistakes
  PROVE  AllStand' /\ \A c \in Slot : Stands(View(c)')
<1>1. Typed /\ Buffered /\ \A c \in Slot : AtRest(View(c)) /\ Settled(View(c)) /\ FieldsTyped(View(c))
  BY TypedViews DEF AllSettled, Settled
<1>2. \A c \in Slot : Moved(View(c), View(c)', Used(c), asm.active)
  BY <1>1, StepMoves
<1>3. ASSUME NEW c \in Slot PROVE Stands(View(c)')
  BY <1>1, <1>2, MovedStands, Zenon DEF AllStand
<1>4. \A c \in Slot : Stands(View(c))'
  BY <1>3, Zenon DEF Stands, Final, View
<1> QED
  BY <1>3, <1>4 DEF AllStand

(* Every step keeps the responses of every connection numbered. *)
LEMMA StepNumbered ==
  ASSUME AllSettled, AllNumbered, [Next]_vars, ~Mistakes, ~Secured
  PROVE  AllNumbered'
<1>1. Typed /\ Buffered /\ \A c \in Slot : AtRest(View(c)) /\ Settled(View(c)) /\ FieldsTyped(View(c))
  BY TypedViews DEF AllSettled, Settled
<1>2. \A c \in Slot : Moved(View(c), View(c)', Used(c), asm.active)
  BY <1>1, StepMoves
<1>3. AllStand' /\ \A c \in Slot : Stands(View(c)')
  BY StepStands, Zenon DEF AllNumbered
<1>4. ASSUME NEW c \in Slot PROVE Numbered(View(c)')
  BY <1>1, <1>2, <1>3, MovedNumbered, Zenon DEF AllNumbered, AllStand
<1>5. \A c \in Slot : Numbered(View(c))'
  BY <1>4, Zenon DEF Numbered, Chained, Counting, Silent, Has, No, Gap, Bears, Final, View
<1> QED
  BY <1>3, <1>5 DEF AllNumbered

(* While responses are numbered, the first on its way has a number that the   *)
(* client's validator accepts.                                                *)
LEMMA NumberedFollows ==
  ASSUME AllSettled, AllNumbered, NEW c \in Slot, back[c] # <<>>,
         Head(back[c]).to \in {"open", "call", "publish"}
  PROVE  Head(back[c]).seq \in NextNumbers(peer[c].got)
<1> DEFINE u == View(c)
           r == Head(back[c])
<1>1. u.back = back[c] /\ u.peer = peer[c] /\ back[c] \in Seq(Response) /\ peer[c] \in PeerShape
  BY DEF View, AllSettled, Typed
<1>2. /\ r = u.back[1] /\ Len(u.back) \in Nat /\ 1 \in 1 .. Len(u.back) /\ 0 \in 0 .. Len(u.back)
      /\ r \in Response
  BY <1>1, TailFacts
<1>3. Numbered(u)
  BY DEF AllNumbered
<1>4. peer[c].got \in Number \cup {None} /\ r.seq \in Number
  BY <1>1, <1>2 DEF PeerShape, Response
<1> HIDE DEF u, r
<1>5. CASE peer[c].got = None
  BY <1>4, <1>5 DEF NextNumbers, r
<1>6. CASE peer[c].got # None
  <2>1. Has(u, 0) /\ No(u, 0) = peer[c].got
    BY <1>1, <1>6 DEF Has, No
  <2>2. Bears(u.back[1]) /\ u.back[1].to # "close" /\ Gap(u, 0, 1)
    BY <1>2 DEF Bears, Gap, r
  <2>3. 0 < 1
    OBVIOUS
  <2>4. r.seq = (peer[c].got + 1) % SeqMod
    BY <1>2, <1>3, <2>1, <2>2, <2>3, Zenon DEF Numbered, Chained
  <2> QED
    BY <1>6, <2>4 DEF NextNumbers, r
<1> QED
  BY <1>5, <1>6

(* Where no response is lost to a failed wrapping (SecurityPolicy None) and   *)
(* the client makes no mistakes, the numbers of the responses it receives on  *)
(* a channel, answers and Publish responses sent later alike, follow one      *)
(* another, for any number of connections and requests, through renewed,      *)
(* refused and closed channels.                                               *)
THEOREM NumbersFollow == ASSUME ~Mistakes, ~Secured PROVE Spec => ResponsesFollow
<1>1. AllSettled /\ AllNumbered /\ [Next]_vars => AllNumbered'
  BY StepNumbered
<1>2. AllSettled /\ AllNumbered => ResponsesFollowStep
  BY NumberedFollows, Zenon DEF ResponsesFollowStep
<1>3. AllSettled /\ AllNumbered => [ResponsesFollowStep]_vars
  BY <1>2
<1> QED
  BY <1>1, <1>3, InitNumbered, AlwaysSettled, PTL DEF Spec, ResponsesFollow

-----------------------------------------------------------------------------
(* The numbers of requests *)

(* The number validated last, and the one before chunk i on its way. *)
Validated(ch) == IF ch.seen THEN ch.last ELSE None
Before(u, i) == IF i = 1 THEN Validated(u.chan) ELSE u.wire[i - 1].seq

(* Each chunk on its way has a number that may follow the one before, and the *)
(* id and the token of the channel; the last one has the client's number.     *)
Whole(u) == \A i \in 1 .. Len(u.wire) : u.wire[i].type \notin {"CON", "ABT"}

InOrder(u) == \A i \in 1 .. Len(u.wire) : u.wire[i].seq \in NextNumbers(Before(u, i))

Addressed(u) ==
  \A i \in 1 .. Len(u.wire) :
    u.wire[i].type = "MSG" => u.wire[i].id = u.chan.id /\ u.wire[i].token = u.chan.token

Latest(u) ==
  u.live => IF u.peer.phase \in {"new", "hello"} THEN ~u.chan.seen
            ELSE Before(u, Len(u.wire) + 1) \in {None, u.peer.seq}

Queued(u) == Whole(u) /\ InOrder(u) /\ Addressed(u) /\ Latest(u)

(* The absence of a number is not one. *)
LEMMA NoneIsNone == \A n \in Number : n # None
BY Constants DEF Number, None

(* The validator remembers the chunk that was accepted, through renewals and  *)
(* the counting of responses.                                                 *)
LEMMA Remembered ==
  ASSUME NEW ch \in ChanType, NEW k, NEW id
  PROVE  /\ Sequenced(ch, k).seen /\ Sequenced(ch, k).last = k.seq
         /\ [Sequenced(ch, k) EXCEPT !.pol = Secured].last = k.seq
         /\ Renewed(ch).last = ch.last /\ Issued(ch, id).last = ch.last
         /\ Counted(ch).seen = ch.seen /\ Counted(ch).last = ch.last
         /\ Counted(ch).id = ch.id /\ Counted(ch).token = ch.token
BY DEF Sequenced, Renewed, Issued, Counted, ChanType

(* An answer leaves the validator as it was, or the channel is reset. *)
LEMMA LeftValidated ==
  ASSUME NEW u, NEW v, NEW ch \in ChanType, NEW n, ch.seen => ch.last = n, NEW to, NEW ok,
         Answered(u, v, ch, to, ok)
  PROVE  Validated(v.chan) \in {None, n}
<1>1. v.chan = NoChan \/ v.chan = Counted(ch)
  BY Zenon DEF Answered, Taken, LeftBy
<1>2. v.chan.seen => v.chan.last = n
  <2>1. Counted(ch).seen = ch.seen /\ Counted(ch).last = ch.last
    BY Remembered
  <2>2. ~NoChan.seen
    BY DEF NoChan
  <2> QED
    BY <1>1, <2>1, <2>2
<1> QED
  BY <1>2, Zenon DEF Validated

(* A chunk that is handled is the first; the one after it follows it. *)
LEMMA HandledQueued ==
  ASSUME NEW u, NEW v, NEW used, FieldsTyped(u), Settled(u), Stands(u), Queued(u),
         Handled(u, v, used, FALSE)
  PROVE  Queued(v)
<1> DEFINE k == Head(u.wire)
           ks == Sequenced(u.chan, k)
           ch == [ks EXCEPT !.pol = Secured]
<1>1. /\ u.live /\ u.wire # <<>> /\ u.chan \in ChanType /\ k \in Chunk
      /\ u.wire \in Seq(Request)
      /\ k.type = "MSG" => k.svc \in {"call", "publish", "close"}
  BY HeadRequest, Zenon DEF Handled, FieldsTyped
<1>2. v.peer = u.peer /\ v.wire = Tail(u.wire) /\ v.live
  <2>1. v.peer = u.peer /\ v.wire = Tail(u.wire)
    BY HandledSpeaks, Zenon
  <2>2. v.live
    BY Zenon DEF Handled, Noted, Passed, Opened, Dispatched, Answered, Taken
  <2> QED
    BY <2>1, <2>2
<1>3. /\ Len(u.wire) \in Nat /\ Len(u.wire) > 0 /\ k = u.wire[1] /\ 1 \in 1 .. Len(u.wire)
      /\ Len(v.wire) = Len(u.wire) - 1 /\ v.wire \in Seq(Request)
      /\ \A i \in 1 .. Len(v.wire) : i + 1 \in 1 .. Len(u.wire) /\ v.wire[i] = u.wire[i + 1]
  BY <1>1, <1>2, TailFacts, SMTT(30)
<1>4. k.seq # None /\ k.seq \in Number
  BY <1>1, NoneIsNone DEF Chunk
<1>5. Whole(v)
  BY <1>3, Zenon DEF Queued, Whole
<1>6. ASSUME Len(u.wire) = 1, u.peer.phase \notin {"new", "hello"}, Validated(v.chan) \in {None, k.seq}
      PROVE  Queued(v)
  <2>1. Len(v.wire) = 0
    BY <1>3, <1>6
  <2>2. \A i \in 1 .. Len(v.wire) : FALSE
    BY <2>1, SMTT(30)
  <2>3. Before(u, Len(u.wire) + 1) = k.seq
    BY <1>3, <1>6, SMTT(30) DEF Before
  <2>4. k.seq = u.peer.seq
    BY <1>1, <1>4, <1>6, <2>3, SMTT(30) DEF Queued, Latest
  <2>5. Before(v, Len(v.wire) + 1) = Validated(v.chan)
    BY <2>1 DEF Before
  <2> QED
    BY <1>2, <1>6, <2>2, <2>4, <2>5, ZenonT(60) DEF Queued, Whole, InOrder, Addressed, Latest
<1>7. ASSUME u.peer.phase \notin {"new", "hello"}, Validated(v.chan) = k.seq,
             v.chan.id = u.chan.id, v.chan.token = u.chan.token
      PROVE  Queued(v)
  <2>1. \A i \in 1 .. Len(v.wire) + 1 : Before(v, i) = Before(u, i + 1)
    <3> SUFFICES ASSUME NEW i \in 1 .. Len(v.wire) + 1 PROVE Before(v, i) = Before(u, i + 1)
      OBVIOUS
    <3>1. CASE i = 1
      BY <1>3, <1>7, <3>1, SMTT(30) DEF Before
    <3>2. CASE i # 1
      <4>1. i - 1 \in 1 .. Len(v.wire) /\ (i - 1) + 1 = i /\ (i + 1) - 1 = i /\ i + 1 # 1
        BY <1>3, <3>2
      <4> QED
        BY <1>3, <3>2, <4>1 DEF Before
    <3> QED
      BY <3>1, <3>2
  <2>2. InOrder(v)
    <3> SUFFICES ASSUME NEW i \in 1 .. Len(v.wire) PROVE v.wire[i].seq \in NextNumbers(Before(v, i))
      BY DEF InOrder
    <3>1. i \in 1 .. Len(v.wire) + 1
      BY <1>3
    <3> QED
      BY <1>3, <2>1, <3>1, Zenon DEF Queued, InOrder
  <2>3. Addressed(v)
    BY <1>3, <1>7, ZenonT(60) DEF Queued, Addressed
  <2>4. Latest(v)
    <3>1. /\ Len(v.wire) + 1 \in 1 .. Len(v.wire) + 1
          /\ (Len(v.wire) + 1) + 1 = Len(u.wire) + 1
      BY <1>3
    <3>2. Before(v, Len(v.wire) + 1) = Before(u, Len(u.wire) + 1)
      BY <2>1, <3>1, ZenonT(60)
    <3> QED
      BY <1>1, <1>2, <1>7, <3>2, Zenon DEF Queued, Latest
  <2> QED
    BY <1>5, <2>2, <2>3, <2>4 DEF Queued
<1>8. k.type = "HEL" <=> u.peer.phase = "hello"
  <2>1. 1 \in 1 .. Len(u.wire) /\ k = u.wire[1]
    BY <1>3
  <2> QED
    BY <2>1 DEF Settled, Greeting
<1>9. u.peer.phase # "new" /\ (Switches(k) => Len(u.wire) = 1)
  BY <1>1, <1>3, Zenon DEF Settled, Greeting, Waits
<1>10. CASE k.type = "HEL" /\ Noted(u, v, Ack)
  <2>1. v.chan = u.chan /\ u.peer.phase = "hello"
    BY <1>8, <1>10, Zenon DEF Noted, Taken
  <2>2. ~v.chan.seen
    BY <1>1, <2>1, Zenon DEF Queued, Latest
  <2>3. Len(u.wire) + Len(u.back) <= 1 /\ Len(u.back) \in Nat
    BY <2>1, EmptyFacts, Zenon DEF Settled, Greeting, FieldsTyped
  <2>4. Len(v.wire) = 0
    <3>1. \A m, n, o \in Int : m + n <= 1 /\ n \in Nat /\ m > 0 /\ o = m - 1 => o = 0
      OBVIOUS
    <3>2. Len(u.wire) \in Int /\ Len(u.back) \in Int /\ Len(v.wire) \in Int
      BY <1>3, <2>3
    <3> QED
      BY <1>3, <2>3, <3>1, <3>2, Zenon
  <2>5. \A i \in 1 .. Len(v.wire) : FALSE
    BY <2>4
  <2> QED
    BY <1>2, <2>1, <2>2, <2>5, Zenon DEF Queued, Whole, InOrder, Addressed, Latest
<1>11. k.type \notin {"CON", "ABT"}
  BY <1>3, Zenon DEF Queued, Whole
<1>12. k.type = "MSG" => u.chan.open /\ k.id = u.chan.id /\ k.token = u.chan.token
  BY <1>3, Zenon DEF Stands, Queued, Addressed
<1>13. ~Passed(u, v, FALSE)
  BY <1>11, <1>12, Zenon DEF Passed, Unwraps
<1>14. CASE Opened(u, v, used)
  <2>1. /\ k.type = "OPN"
        /\ \/ Answered(u, v, ch, "open", FALSE)
           \/ \E ok \in BOOLEAN : Answered(u, v, Renewed(ch), "open", ok)
           \/ \E ok \in BOOLEAN, id \in Id : Answered(u, v, Issued(ch, id), "open", ok)
           \/ Answered(u, v, NoChan, "open", FALSE)
    BY <1>14, Zenon DEF Opened
  <2>2. /\ ch \in ChanType /\ ch.last = k.seq
    BY <1>1, SequencedType, Remembered, Zenon
  <2>3. Validated(v.chan) \in {None, k.seq}
    <3> HIDE DEF ch
    <3>1. /\ Renewed(ch) \in ChanType /\ Renewed(ch).last = k.seq
          /\ \A id \in Id : Issued(ch, id) \in ChanType /\ Issued(ch, id).last = k.seq
          /\ NoChan \in ChanType /\ ~NoChan.seen
      <4>1. Renewed(ch) \in ChanType /\ Renewed(ch).last = k.seq
        BY <2>2, Constants, OpenedType, Remembered, Zenon
      <4>2. \A id \in Id : Issued(ch, id) \in ChanType /\ Issued(ch, id).last = k.seq
        BY <2>2, OpenedType, Remembered, Zenon
      <4>3. NoChan \in ChanType /\ ~NoChan.seen
        BY NoChanType DEF NoChan
      <4> QED
        BY <4>1, <4>2, <4>3
    <3> QED
      BY <2>1, <2>2, <3>1, LeftValidated, ZenonT(60)
  <2> QED
    BY <1>6, <1>8, <1>9, <2>1, <2>3 DEF Switches
<1>15. CASE Dispatched(u, v)
  <2>1. /\ k.type = "MSG"
        /\ \/ k.svc = "call" /\ Answered(u, v, ks, k.svc, TRUE)
           \/ k.svc = "close" /\ Answered(u, v, NoChan, k.svc, TRUE)
           \/ Taken(u, v, ks, u.back)
    BY <1>12, <1>15, Zenon DEF Dispatched
  <2>2. CASE k.svc = "close" /\ Answered(u, v, NoChan, k.svc, TRUE)
    <3>1. NoChan \in ChanType /\ ~NoChan.seen
      BY NoChanType DEF NoChan
    <3>2. Validated(v.chan) \in {None, k.seq}
      BY <2>2, <3>1, LeftValidated, Zenon
    <3> QED
      BY <1>6, <1>8, <1>9, <2>1, <2>2, <3>2, Zenon DEF Switches
  <2>3. CASE (k.svc = "call" /\ Answered(u, v, ks, k.svc, TRUE)) \/ Taken(u, v, ks, u.back)
    <3>1. v.chan = Counted(ks) \/ v.chan = ks
      BY <2>3, Zenon DEF Answered, Taken, LeftBy, ClosesRejected
    <3>2. /\ ks.seen /\ ks.last = k.seq /\ ks.id = u.chan.id /\ ks.token = u.chan.token
          /\ ks \in ChanType
      BY <1>1, SequencedType, Zenon DEF Sequenced, ChanType
    <3> HIDE DEF ks
    <3>3. /\ v.chan.seen /\ v.chan.last = k.seq /\ v.chan.id = u.chan.id
          /\ v.chan.token = u.chan.token
      BY <3>1, <3>2 DEF Counted, ChanType
    <3> QED
      BY <1>7, <1>8, <1>9, <2>1, <3>3, ZenonT(60) DEF Validated
  <2> QED
    BY <2>1, <2>2, <2>3, Zenon
<1> QED
  BY <1>10, <1>11, <1>13, <1>14, <1>15, Zenon DEF Handled


(* Every move of a client that makes no mistakes and sends a request in one   *)
(* chunk, and of its server, keeps the chunks in order.                       *)
LEMMA MovedQueued ==
  ASSUME NEW u, NEW v, NEW used, FieldsTyped(u), FieldsTyped(v), Settled(u), Stands(u), Queued(u),
         ~Mistakes, MaxParts = 1, Moved(u, v, used, FALSE)
  PROVE  Queued(v)
<1>0. /\ u.wire \in Seq(Request) /\ u.back \in Seq(Response) /\ u.peer \in PeerShape
      /\ u.chan \in ChanType /\ v.wire \in Seq(Request)
  BY Zenon DEF FieldsTyped
<1>1. CASE v = u
  BY <1>1, Zenon
<1>2. CASE Accepted(u, v) \/ Ended(u, v)
  <2>1. v.wire = <<>> /\ (v.live => v.chan = NoChan) /\ v.peer = NewPeer
    BY <1>2, Zenon DEF Accepted, Ended, Settled, AtRest
  <2>2. /\ \A i \in 1 .. Len(v.wire) : FALSE
        /\ ~NoChan.seen /\ NewPeer.phase = "new"
    <3>1. \A s : s = <<>> => \A i \in 1 .. Len(s) : FALSE
      OBVIOUS
    <3>2. ~NoChan.seen /\ NewPeer.phase = "new"
      BY DEF NoChan, NewPeer
    <3> QED
      BY <2>1, <3>1, <3>2, Zenon
  <2> QED
    BY <2>1, <2>2, Zenon DEF Queued, Whole, InOrder, Addressed, Latest
<1>3. CASE Handled(u, v, used, FALSE)
  BY <1>3, HandledQueued, Zenon
<1>4. CASE Emitted(u, v)
  <2>1. v.peer = u.peer /\ v.wire = u.wire /\ v.live = u.live /\ v.chan = Counted(u.chan)
    BY <1>4, Zenon DEF Emitted
  <2>2. /\ v.chan.seen = u.chan.seen /\ v.chan.last = u.chan.last /\ v.chan.id = u.chan.id
        /\ v.chan.token = u.chan.token
    BY <1>0, <2>1 DEF Counted, ChanType
  <2>3. \A i : Before(v, i) = Before(u, i)
    BY <2>1, <2>2, Zenon DEF Before, Validated
  <2> QED
    BY <2>1, <2>2, <2>3, Zenon DEF Queued, Whole, InOrder, Addressed, Latest
<1>5. CASE Asked(u, v)
  <2>1. PICK k, q : Sent(u, v, k, q) /\ Orderly(u.peer, k, q)
    BY <1>5, AskedOrderly, Zenon
  <2>2. u.live /\ v.live /\ v.chan = u.chan /\ v.peer = q /\ v.wire = Append(u.wire, k)
    BY <2>1, Zenon DEF Sent
  <2> DEFINE n == Len(u.wire)
  <2>3. /\ n \in Nat /\ Len(v.wire) = n + 1 /\ v.wire[n + 1] = k
        /\ \A i \in 1 .. Len(v.wire) : (i \in 1 .. n /\ v.wire[i] = u.wire[i]) \/ (i = n + 1 /\ v.wire[i] = k)
        /\ \A i \in 1 .. n : v.wire[i] = u.wire[i]
    <3>1. /\ n \in Nat /\ Len(v.wire) = n + 1 /\ v.wire[n + 1] = k
          /\ \A i \in 1 .. Len(v.wire) : (i \in 1 .. n /\ v.wire[i] = u.wire[i]) \/ (i = n + 1 /\ v.wire[i] = k)
      <4>1. u.wire \in Seq(Request)
        BY <1>0, Zenon
      <4> QED
        BY <2>2, <4>1, AppendFacts
    <3>2. \A m \in Nat : \A i \in 1 .. m : i \in 1 .. m + 1 /\ i # m + 1
      OBVIOUS
    <3> HIDE DEF n
    <3> QED
      BY <3>1, <3>2, Zenon
  <2>4. k.seq \in Number
    <3>1. n + 1 \in 1 .. Len(v.wire)
      BY <2>3
    <3>2. k \in Request
      BY <1>0, <2>3, <3>1
    <3> QED
      BY <3>2 DEF Request, Chunk
  <2> HIDE DEF n
  <2>5. \A i \in 1 .. n + 1 : Before(v, i) = Before(u, i)
    <3> SUFFICES ASSUME NEW i \in 1 .. n + 1 PROVE Before(v, i) = Before(u, i)
      OBVIOUS
    <3>1. i # 1 => i - 1 \in 1 .. n
      BY <2>3
    <3> QED
      BY <2>2, <2>3, <3>1, Zenon DEF Before
  <2>6. Before(v, Len(v.wire) + 1) = k.seq
    <3>1. (Len(v.wire) + 1) - 1 = n + 1 /\ Len(v.wire) + 1 # 1
      BY <2>3
    <3> QED
      BY <2>3, <3>1, Zenon DEF Before
  <2>7. k.type \notin {"CON", "ABT"}
    BY <2>1, Zenon DEF Orderly
  <2>8. Whole(v)
    BY <2>3, <2>7, Zenon DEF Queued, Whole, n
  <2>9. k.seq \in NextNumbers(Before(u, n + 1))
    <3>1. CASE k.type = "HEL"
      <4>1. u.peer.phase = "new"
        BY <2>1, <3>1, ZenonT(60) DEF Orderly
      <4>2. u.wire = <<>> /\ ~u.chan.seen
        BY <2>2, <4>1, ZenonT(60) DEF Settled, Greeting, Queued, Latest
      <4>3. n = 0
        BY <4>2 DEF n
      <4>4. Before(u, n + 1) = None
        <5>1. n + 1 = 1
          BY <4>3
        <5> QED
          BY <4>2, <5>1, Zenon DEF Before, Validated
      <4> QED
        BY <2>4, <4>4 DEF NextNumbers
    <3>2. CASE k.type # "HEL"
      <4>1. k.seq \in NextNumbers(u.peer.seq) /\ u.peer.phase \notin {"new", "hello"}
        BY <2>1, <2>7, <3>2, Zenon DEF Orderly
      <4>2. Before(u, n + 1) \in {None, u.peer.seq}
        BY <2>2, <4>1, Zenon DEF Queued, Latest, n
      <4>3. NextNumbers(None) = Number
        BY DEF NextNumbers
      <4> QED
        BY <2>4, <4>1, <4>2, <4>3, Zenon
    <3> QED
      BY <3>1, <3>2
  <2>10. InOrder(v)
    <3> SUFFICES ASSUME NEW i \in 1 .. Len(v.wire) PROVE v.wire[i].seq \in NextNumbers(Before(v, i))
      BY ZenonT(60) DEF InOrder
    <3>1. i \in 1 .. n + 1
      BY <2>3
    <3> QED
      BY <2>3, <2>5, <2>9, <3>1, Zenon DEF Queued, InOrder, n
  <2>11. Addressed(v)
    <3>1. k.type = "MSG" => k.id = u.chan.id /\ k.token = u.chan.token
      <4>1. k.type = "MSG" => u.peer.phase = "open" /\ k.id = u.peer.id /\ k.token = u.peer.token
        BY <2>1, Zenon DEF Orderly
      <4>2. u.peer.phase = "open" => u.chan.id = u.peer.id /\ u.chan.token = u.peer.token
        BY Zenon DEF Settled, Agrees
      <4> QED
        BY <4>1, <4>2
    <3> QED
      BY <2>2, <2>3, <3>1, ZenonT(60) DEF Queued, Addressed, n
  <2>12. Latest(v)
    <3>1. CASE k.type = "HEL"
      <4>1. u.peer.phase = "new" /\ q.phase = "hello"
        BY <2>1, <3>1, ZenonT(60) DEF Orderly
      <4> QED
        BY <2>2, <4>1, ZenonT(60) DEF Queued, Latest
    <3>2. CASE k.type # "HEL"
      <4>1. k.seq = q.seq /\ q.phase \notin {"new", "hello"}
        BY <2>1, <2>7, <3>2, ZenonT(60) DEF Orderly
      <4> QED
        BY <2>2, <2>6, <4>1 DEF Latest
    <3> QED
      BY <3>1, <3>2
  <2> QED
    BY <2>8, <2>10, <2>11, <2>12 DEF Queued
<1>6. CASE Got(u, v)
  <2> DEFINE r == Head(u.back)
             p == u.peer
  <2>1. /\ v.chan = u.chan /\ v.wire = u.wire /\ v.live = u.live /\ v.peer = Informed(p, r)
        /\ u.back # <<>> /\ p \in PeerShape /\ r \in Response
    BY <1>0, <1>6 DEF Got
  <2>2. r = u.back[1] /\ 1 \in 1 .. Len(u.back) /\ Len(u.back) \in Nat
    BY <1>0, <2>1, TailFacts
  <2>3. /\ p.phase # "new" /\ (r.to = "hello" <=> p.phase = "hello")
    BY <2>1, <2>2, Zenon DEF Settled, Greeting
  <2> HIDE DEF r, p
  <2>4. v.peer.seq = p.seq /\ v.peer.phase \in {"ready", "done", "open", p.phase}
    <3>1. \/ v.peer = [p EXCEPT !.phase = "ready"]
          \/ v.peer = [p EXCEPT !.phase = "done"]
          \/ v.peer = [p EXCEPT !.got = r.seq, !.pend = @ - 1]
          \/ v.peer = [p EXCEPT !.got = r.seq]
          \/ v.peer = [p EXCEPT !.phase = "open", !.id = r.id, !.token = r.token, !.got = r.seq, !.pend = @ - 1]
          \/ v.peer = [p EXCEPT !.phase = "ready", !.id = 0, !.token = 0, !.got = None, !.pend = @ - 1]
      <4>1. \/ r.to \in {"hello", "error", "call", "publish", "close"}
            \/ r.to = "open" /\ r.ok
            \/ r.to = "open" /\ ~r.ok
        BY <2>1 DEF Response
      <4> QED
        BY <2>1, <4>1, InformedIs, ZenonT(60)
    <3> QED
      BY <2>1, <3>1, Zenon DEF PeerShape
  <2>5. Before(v, Len(v.wire) + 1) = Before(u, Len(u.wire) + 1)
    BY <2>1, Zenon DEF Before
  <2>6. CASE r.to = "hello"
    <3>1. Len(u.wire) + Len(u.back) <= 1 /\ Len(u.wire) \in Nat
      BY <1>0, <2>3, <2>6, EmptyFacts, Zenon DEF Settled, Greeting, p
    <3>2. Len(u.wire) = 0
      <4>1. \A k, m \in Int : k \in Nat /\ k + m <= 1 /\ m > 0 => k = 0
        OBVIOUS
      <4>2. Len(u.wire) \in Int /\ Len(u.back) \in Int /\ Len(u.back) > 0
        BY <2>2, <3>1, SMTT(30)
      <4> QED
        BY <3>1, <4>1, <4>2, Zenon
    <3>3. u.live => ~u.chan.seen
      BY <2>3, <2>6, SMTT(30) DEF Queued, Latest, p
    <3>4. u.live => Before(u, Len(u.wire) + 1) = None
      BY <3>2, <3>3 DEF Before, Validated
    <3>5. v.peer = [p EXCEPT !.phase = "ready"]
      BY <2>1, <2>6, InformedIs, Zenon
    <3>6. v.peer.phase = "ready"
      BY <2>1, <3>5, SMTT(30) DEF PeerShape
    <3>7. Latest(v)
      BY <2>1, <2>5, <3>4, <3>6, Zenon DEF Latest
    <3> QED
      BY <2>1, <3>7, Zenon DEF Queued, Whole, InOrder, Addressed, Before
  <2>7. CASE r.to # "hello"
    <3>1. v.peer.phase \notin {"new", "hello"} /\ p.phase \notin {"new", "hello"}
      BY <2>3, <2>4, <2>7
    <3>2. Latest(v)
      BY <2>1, <2>4, <2>5, <3>1, Zenon DEF Queued, Latest, p
    <3> QED
      BY <2>1, <3>2, Zenon DEF Queued, Whole, InOrder, Addressed, Before
  <2> QED
    BY <2>6, <2>7, Zenon
<1> QED
  BY <1>1, <1>2, <1>3, <1>4, <1>5, <1>6, Zenon DEF Moved

(* The first chunk on its way passes the checks of accept_inbound_chunk. *)
LEMMA QueuedAccepted ==
  ASSUME NEW u, FieldsTyped(u), Queued(u), u.wire # <<>>
  PROVE  /\ Head(u.wire).type \notin {"CON", "ABT"}
         /\ Head(u.wire).type \in {"OPN", "MSG"} => AcceptsChunk(u.chan, Head(u.wire))
<1> DEFINE k == Head(u.wire)
<1>1. /\ k = u.wire[1] /\ 1 \in 1 .. Len(u.wire) /\ u.chan \in ChanType /\ k \in Chunk
  BY HeadRequest, TailFacts DEF FieldsTyped
<1>2. /\ k.type \notin {"CON", "ABT"} /\ k.seq \in NextNumbers(Before(u, 1))
      /\ k.type = "MSG" => k.id = u.chan.id /\ k.token = u.chan.token
  BY <1>1, Zenon DEF Queued, Whole, InOrder, Addressed
<1>3. Before(u, 1) = Validated(u.chan)
  BY DEF Before
<1> HIDE DEF k
<1>4. SequenceOK(u.chan, k.seq)
  <2>1. CASE ~u.chan.seen
    BY <2>1 DEF SequenceOK
  <2>2. CASE u.chan.seen
    <3>1. Validated(u.chan) = u.chan.last /\ u.chan.last \in Number
      BY <1>1, <2>2 DEF Validated, ChanType
    <3>2. u.chan.last # None
      BY <3>1, NoneIsNone
    <3>3. k.seq = (u.chan.last + 1) % SeqMod \/ (u.chan.last > WrapFloor /\ k.seq \in 0 .. WrapCeil - 1)
      BY <1>2, <1>3, <3>1, <3>2 DEF NextNumbers
    <3>4. k.seq \in 0 .. WrapCeil - 1 => k.seq < WrapCeil
      BY ChannelAssumption
    <3> QED
      BY <3>3, <3>4 DEF SequenceOK
  <2> QED
    BY <2>1, <2>2
<1> QED
  BY <1>2, <1>4 DEF AcceptsChunk, k


(* No connection was aborted, and no message is being assembled. *)
Unaborted == aborted = [c \in Slot |-> FALSE] /\ ~asm.active

(* A connection that is dropped without an abort is not marked as aborted. *)
LEMMA ClosesUnaborted ==
  ASSUME aborted = [c \in Slot |-> FALSE], NEW d \in Slot, Disconnect(d, FALSE)
  PROVE  aborted' = [c \in Slot |-> FALSE]
BY Zenon DEF Disconnect

(* A handler that answers does not abort. *)
LEMMA AnswersUnaborted ==
  ASSUME aborted = [c \in Slot |-> FALSE], NEW d \in Slot, NEW ch, NEW to, NEW ok,
         Answers(d, ch, to, ok)
  PROVE  aborted' = [c \in Slot |-> FALSE]
BY ClosesUnaborted, Zenon DEF Answers, Sends, Closes, Consume

(* Where the first chunk of every connection passes the checks, no step       *)
(* aborts a connection or starts to assemble a message.                       *)
LEMMA StepUnaborted ==
  ASSUME Unaborted, [Next]_vars,
         \A c \in Slot : Handling(c) =>
           /\ Head(wire[c]).type # "CON"
           /\ Head(wire[c]).type \in {"OPN", "MSG"} => AcceptsChunk(chan[c], Head(wire[c]))
  PROVE  Unaborted'
<1>0. aborted = [c \in Slot |-> FALSE] /\ ~asm.active /\ ~NoAsm.active
  BY DEF Unaborted, NoAsm
<1>1. CASE UNCHANGED <<aborted, asm>>
  BY <1>0, <1>1 DEF Unaborted
<1>2. CASE NoAccept \/ EndPoll \/ Tick \/ UNCHANGED vars
  BY <1>1, <1>2, Zenon DEF NoAccept, EndPoll, Tick, vars
<1>3. ASSUME NEW c \in Slot, Accept(c) PROVE Unaborted'
  <2>1. aborted' = [aborted EXCEPT ![c] = FALSE] /\ (asm' = asm \/ asm' = NoAsm)
    BY <1>3, Zenon DEF Accept, AcceptedAssembler
  <2> QED
    BY <1>0, <2>1, ZenonT(60) DEF Unaborted
<1>4. ASSUME NEW c \in Slot, SkipFree(c) \/ Client(c) PROVE Unaborted'
  BY <1>1, <1>4, Zenon DEF SkipFree, Client, ClientHello, ClientOpens, ClientRequests, ClientContinues,
                    ClientCloses, ClientReceives, ClientSends, ServerVars
<1>5. ASSUME NEW c \in Slot, IdleTimeout(c) \/ Visit(c) \/ Emit(c) PROVE Unaborted'
  <2>1. asm' = asm /\ (aborted' = aborted \/ Disconnect(c, FALSE))
    BY <1>5, Zenon DEF IdleTimeout, Visit, Emit, Closes
  <2> QED
    BY <1>0, <2>1, ClosesUnaborted, ZenonT(60) DEF Unaborted
<1>6. ASSUME NEW c \in Slot, Handle(c) PROVE Unaborted'
  <2>1. CASE HandleHello(c)
    <3>1. asm' = asm /\ (aborted' = aborted \/ Disconnect(c, FALSE))
      BY <2>1, Zenon DEF HandleHello, Sends, Closes, Consume
    <3> QED
      BY <1>0, <3>1, ClosesUnaborted, Zenon DEF Unaborted
  <2>2. CASE HandleDropped(c)
    BY <1>1, <2>2, Zenon DEF HandleDropped, Consume
  <2>3. CASE HandleAbort(c)
    <3>1. FALSE
      BY <2>3, Zenon DEF HandleAbort
    <3> QED
      BY <3>1
  <2>4. CASE HandleOpen(c)
    <3>1. asm' = asm /\ \E ch, to, ok : Answers(c, ch, to, ok)
      BY <2>4, Zenon DEF HandleOpen, OpenSecureChannel
    <3> QED
      BY <1>0, <3>1, AnswersUnaborted DEF Unaborted
  <2>5. CASE HandleMessage(c)
    <3>1. asm' = asm /\ (aborted' = aborted \/ \E ch, to, ok : Answers(c, ch, to, ok))
      BY <2>5, Zenon DEF HandleMessage, Dispatch, Consume
    <3> QED
      BY <1>0, <3>1, AnswersUnaborted DEF Unaborted
  <2>6. CASE HandleContinuation(c)
    <3>1. FALSE
      BY <2>6, Zenon DEF HandleContinuation
    <3> QED
      BY <3>1
  <2>7. CASE HandleFinal(c)
    <3>1. FALSE
      BY <1>0, <2>7, Zenon DEF HandleFinal
    <3> QED
      BY <3>1
  <2>8. CASE HandleReset(c)
    BY <1>0, <2>8 DEF HandleReset, Consume, Unaborted
  <2>9. CASE HandleClose(c)
    <3>1. asm' = asm /\ Disconnect(c, FALSE)
      BY <2>9, Zenon DEF HandleClose, Closes
    <3> QED
      BY <1>0, <3>1, ClosesUnaborted, Zenon DEF Unaborted
  <2> QED
    BY <1>6, <2>1, <2>2, <2>3, <2>4, <2>5, <2>6, <2>7, <2>8, <2>9, ZenonT(60) DEF Handle
<1> QED
  BY <1>2, <1>3, <1>4, <1>5, <1>6, Zenon DEF Next

AllQueued == AllStand /\ Unaborted /\ \A c \in Slot : Queued(View(c))

(* At the start nothing was sent. *)
LEMMA InitQueued == Init => AllQueued
<1> SUFFICES ASSUME Init PROVE AllQueued
  BY Zenon
<1>1. AllStand
  BY InitNumbered, Zenon DEF AllNumbered
<1>2. Unaborted
  BY DEF Init, Unaborted, NoAsm
<1>3. ASSUME NEW c \in Slot PROVE Queued(View(c))
  <2>1. View(c).wire = <<>> /\ ~View(c).live
    BY DEF Init, View
  <2>2. \A i \in 1 .. Len(View(c).wire) : FALSE
    BY <2>1
  <2> QED
    BY <2>1, <2>2, Zenon DEF Queued, Whole, InOrder, Addressed, Latest
<1> QED
  BY <1>1, <1>2, <1>3 DEF AllQueued

(* Every step keeps the chunks of every connection in order, and aborts none. *)
LEMMA StepQueued ==
  ASSUME AllSettled, AllQueued, [Next]_vars, ~Mistakes, MaxParts = 1
  PROVE  AllQueued'
<1>1. Typed /\ Buffered /\ \A c \in Slot : AtRest(View(c)) /\ Settled(View(c)) /\ FieldsTyped(View(c))
  BY TypedViews DEF AllSettled, Settled
<1>2. \A c \in Slot : Moved(View(c), View(c)', Used(c), FALSE)
  <2>1. \A c \in Slot : Moved(View(c), View(c)', Used(c), asm.active)
    BY <1>1, StepMoves
  <2>2. asm.active = FALSE
    BY <1>1 DEF AllQueued, Unaborted, Typed
  <2> QED
    BY <2>1, <2>2, Zenon
<1>3. AllStand'
  BY StepStands, Zenon DEF AllQueued
<1>4. \A c \in Slot : FieldsTyped(View(c)')
  <2>1. Typed'
    BY <1>1, StepTyped
  <2> QED
    BY <2>1 DEF Typed, View, FieldsTyped
<1>5. ASSUME NEW c \in Slot PROVE Queued(View(c)')
  BY <1>1, <1>2, <1>4, MovedQueued, Zenon DEF AllQueued, AllStand
<1>6. \A c \in Slot : Queued(View(c))'
  BY <1>5, Zenon DEF Queued, Whole, InOrder, Addressed, Latest, Before, Validated, NextNumbers, View
<1>7. ASSUME NEW c \in Slot, Handling(c)
      PROVE  /\ Head(wire[c]).type # "CON"
             /\ Head(wire[c]).type \in {"OPN", "MSG"} => AcceptsChunk(chan[c], Head(wire[c]))
  <2>1. View(c).wire = wire[c] /\ View(c).chan = chan[c]
    BY ZenonT(60) DEF View
  <2>2. wire[c] # <<>>
    BY <1>1, <1>7 DEF Buffered, Handling, Typed
  <2>3. FieldsTyped(View(c)) /\ Queued(View(c))
    BY <1>1 DEF AllQueued
  <2> QED
    BY <2>1, <2>2, <2>3, QueuedAccepted, Zenon
<1>8. Unaborted'
  BY <1>7, StepUnaborted, Zenon DEF AllQueued
<1> QED
  BY <1>3, <1>6, <1>8 DEF AllQueued

(* A client that sends each request in one chunk, numbers its chunks as the   *)
(* protocol has it and uses the token of the last answer is never aborted by  *)
(* accept_inbound_chunk, whatever the channel goes through and however the    *)
(* numbers wrap around.                                                       *)
THEOREM NeverFalselyAborted == ASSUME ~Mistakes, MaxParts = 1 PROVE Spec => []NoFalseAbort
<1>1. AllSettled /\ AllQueued /\ [Next]_vars => AllQueued'
  BY StepQueued
<1>2. AllQueued => NoFalseAbort
  BY DEF AllQueued, Unaborted, NoFalseAbort
<1> QED
  BY <1>1, <1>2, InitQueued, AlwaysSettled, PTL DEF Spec
=============================================================================
