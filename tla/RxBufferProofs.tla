--------------------------- MODULE RxBufferProofs ---------------------------
(* The receive buffer holds the stream, for every buffer size, header size *)
(* and slack: RxBuffer's invariants and the order of its messages.         *)
EXTENDS RxBuffer, TLAPS

(* The unread cells lie inside the buffer and inside the stream. *)
Bounds ==
  /\ readPos + rxLen <= BufSize
  /\ base + rxLen <= StreamLen

(* A connection that is closed holds no bytes; the loop runs on an open one. *)
Idle ==
  /\ pc = "process" => open
  /\ pc = "read" => consumed = 0
  /\ ~open => rxLen = 0 /\ readPos = 0

(* The next message starts behind the last one. *)
Behind ==
  open => base + consumed = IF msg = <<>> THEN 0 ELSE msg[Len(msg)] + 1

IInv == TypeOK /\ BufferHoldsStream /\ RoomToRead /\ Bounds /\ Idle /\ Behind

(* Where the buffer holds the stream, poll_msg_size reads the size field of *)
(* the message at the front and nothing else.                               *)
LEMMA SizeReadIsSize ==
  ASSUME IInv, HeaderThere
  PROVE  SizeRead(readPos + consumed) = {size}
<1>1. \A i \in 0 .. Hdr - 1 : buf[readPos + consumed + i] = base + consumed + i
  <2> SUFFICES ASSUME NEW i \in 0 .. Hdr - 1
               PROVE  buf[readPos + consumed + i] = base + consumed + i
    OBVIOUS
  <2>1. consumed + i \in 0 .. rxLen - 1
    BY RxAssumption DEF IInv, TypeOK, HeaderThere, remaining
  <2>2. buf[readPos + (consumed + i)] = base + (consumed + i)
    BY <2>1 DEF IInv, BufferHoldsStream
  <2> QED BY <2>2, RxAssumption DEF IInv, TypeOK
<1> QED BY <1>1 DEF SizeRead

(* A closed connection satisfies the invariant whatever it held. *)
LEMMA CloseStep ==
  ASSUME IInv, Close, msg' \in Seq(0 .. StreamLen)
  PROVE  IInv'
<1>1. TypeOK'
  <2>1. readPos' \in 0 .. BufSize /\ rxLen' \in 0 .. BufSize /\ consumed' \in 0 .. rxLen'
    BY RxAssumption DEF Close
  <2>2. /\ open' \in BOOLEAN
        /\ pc' \in {"read", "process"}
        /\ buf' \in [Cell -> 0 .. StreamLen]
        /\ base' \in 0 .. StreamLen
        /\ size' \in Sizes
    BY Zenon DEF IInv, TypeOK, Close
  <2> QED BY <2>1, <2>2 DEF TypeOK
<1>2. BufferHoldsStream' /\ RoomToRead' /\ Bounds' /\ Idle' /\ Behind'
  BY RxAssumption DEF IInv, TypeOK, Close, BufferHoldsStream, RoomToRead, Bounds, Idle,
     Behind, writePos
<1> QED BY <1>1, <1>2 DEF IInv

(* A read appends the next bytes of the stream behind the unread ones. *)
LEMMA ReadStep ==
  ASSUME IInv, NEW n \in 0 .. BufSize, Read(n)
  PROVE  IInv'
<1> USE RxAssumption
<1>1. TypeOK'
  <2>1. rxLen + n \in 0 .. BufSize /\ consumed \in 0 .. rxLen + n
    BY DEF IInv, TypeOK, Read, writePos
  <2>2. buf' \in [Cell -> 0 .. StreamLen]
    <3>1. ASSUME NEW p \in Cell, p \in writePos .. writePos + n - 1
          PROVE  base + rxLen + (p - writePos) \in 0 .. StreamLen
      BY <3>1 DEF IInv, TypeOK, Read, writePos, Cell
    <3>2. ASSUME NEW p \in Cell
          PROVE  buf[p] \in 0 .. StreamLen
      BY DEF IInv, TypeOK
    <3> QED BY <3>1, <3>2 DEF Read
  <2> QED BY <2>1, <2>2 DEF IInv, TypeOK, Read
<1>2. BufferHoldsStream'
  <2>0. rxLen' = rxLen + n /\ readPos' = readPos /\ base' = base
    BY DEF Read
  <2> SUFFICES ASSUME NEW i \in 0 .. rxLen' - 1
               PROVE  buf'[readPos' + i] = base' + i
    BY DEF BufferHoldsStream
  <2> USE <2>0
  <2>1. readPos + i \in Cell
    BY DEF IInv, TypeOK, Read, writePos, Cell
  <2>2. CASE i < rxLen
    <3>1. readPos + i \notin writePos .. writePos + n - 1
      BY <2>2 DEF IInv, TypeOK, writePos
    <3>2. buf[readPos + i] = base + i
      BY <2>2 DEF IInv, TypeOK, BufferHoldsStream
    <3> QED BY <2>1, <3>1, <3>2 DEF Read
  <2>3. CASE i >= rxLen
    <3>1. readPos + i \in writePos .. writePos + n - 1
      BY <2>3 DEF IInv, TypeOK, writePos
    <3>2. base + rxLen + ((readPos + i) - writePos) = base + i
      BY DEF IInv, TypeOK, writePos
    <3> QED BY <2>1, <3>1, <3>2 DEF Read
  <2> QED BY <2>2, <2>3 DEF IInv, TypeOK
<1>3. RoomToRead' /\ Bounds' /\ Idle' /\ Behind'
  BY DEF IInv, TypeOK, Read, RoomToRead, Bounds, Idle, Behind, writePos
<1> QED BY <1>1, <1>2, <1>3 DEF IInv

(* What Deliver hands over is the run of size bytes at the front. *)
LEMMA DeliverFacts ==
  ASSUME IInv, Deliver
  PROVE  /\ size \in Hdr .. remaining
         /\ msg' = [i \in 1 .. size |-> base + consumed + i - 1]
         /\ msg' \in Seq(0 .. StreamLen)
         /\ \/ Close
            \/ /\ consumed' = consumed + size
               /\ size' \in Sizes
               /\ UNCHANGED <<open, readPos, rxLen, buf, base, pc>>
<1> USE RxAssumption
<1>1. SizeRead(readPos + consumed) = {size}
  BY SizeReadIsSize DEF Deliver
<1>2. /\ size \in Hdr .. remaining
      /\ msg' = [i \in 1 .. size |-> buf[readPos + consumed + i - 1]]
      /\ \/ Close
         \/ /\ consumed' = consumed + size
            /\ size' \in Sizes
            /\ UNCHANGED <<open, readPos, rxLen, buf, base, pc>>
  BY <1>1 DEF Deliver
<1>3. ASSUME NEW i \in 1 .. size
      PROVE  /\ buf[readPos + consumed + i - 1] = base + consumed + i - 1
             /\ base + consumed + i - 1 \in 0 .. StreamLen
  <2>1. consumed + i - 1 \in 0 .. rxLen - 1
    BY <1>2 DEF IInv, TypeOK, remaining
  <2>2. buf[readPos + (consumed + i - 1)] = base + (consumed + i - 1)
    BY <2>1 DEF IInv, BufferHoldsStream
  <2>3. readPos + (consumed + i - 1) = readPos + consumed + i - 1
    BY <1>2 DEF IInv, TypeOK, remaining
  <2>4. base + (consumed + i - 1) = base + consumed + i - 1
    BY <1>2 DEF IInv, TypeOK, remaining
  <2>5. base + consumed + i - 1 \in 0 .. StreamLen
    BY <2>1 DEF IInv, TypeOK, Bounds
  <2> QED BY <2>2, <2>3, <2>4, <2>5
<1>4. msg' = [i \in 1 .. size |-> base + consumed + i - 1]
  BY <1>2, <1>3
<1>5. msg' \in Seq(0 .. StreamLen)
  <2>1. size \in Nat
    BY <1>2
  <2> QED BY <1>4, <1>3, <2>1
<1> QED BY <1>2, <1>4, <1>5, Zenon

(* Handing over the message at the front keeps the rest in place. *)
LEMMA DeliverStep ==
  ASSUME IInv, Deliver
  PROVE  IInv'
<1> USE RxAssumption
<1>1. CASE Close
  BY <1>1, DeliverFacts, CloseStep
<1>2. CASE /\ consumed' = consumed + size
           /\ size' \in Sizes
           /\ UNCHANGED <<open, readPos, rxLen, buf, base, pc>>
  <2>1. TypeOK'
    BY <1>2, DeliverFacts DEF IInv, TypeOK, remaining
  <2>2. BufferHoldsStream' /\ RoomToRead' /\ Bounds' /\ Idle'
    BY <1>2, DeliverFacts DEF IInv, TypeOK, BufferHoldsStream, RoomToRead, Bounds, Idle,
       writePos, Deliver, HeaderThere
  <2>3. Behind'
    <3>1. size \in Nat /\ size >= 1
      BY DeliverFacts DEF IInv, TypeOK, remaining
    <3>2. Len(msg') = size /\ msg' # <<>>
      BY <3>1, DeliverFacts
    <3>3. msg'[size] = base + consumed + size - 1
      BY <3>1, DeliverFacts
    <3> QED BY <1>2, <3>1, <3>2, <3>3 DEF Behind, IInv, TypeOK
  <2> QED BY <2>1, <2>2, <2>3 DEF IInv
<1> QED BY <1>1, <1>2, DeliverFacts

(* The end of a poll, with or without the move to the front. *)
LEMMA FinishStep ==
  ASSUME IInv, Finish
  PROVE  IInv'
<1> USE RxAssumption
<1> DEFINE pos == readPos + consumed
           compact == remaining > 0 /\ NearlyFull(pos)
<1>1. /\ rxLen' = remaining
      /\ readPos' = IF remaining = 0 \/ compact THEN 0 ELSE pos
      /\ buf' = IF compact THEN Moved(pos) ELSE buf
      /\ base' = base + consumed
      /\ consumed' = 0
      /\ pc' = "read"
      /\ UNCHANGED <<open, size, msg>>
      /\ open
  BY DEF Finish
<1>2. /\ remaining \in 0 .. BufSize
      /\ pos + remaining <= BufSize
      /\ pos \in 0 .. BufSize
      /\ base + consumed + remaining <= StreamLen
      /\ base + consumed \in 0 .. StreamLen
  BY DEF IInv, TypeOK, Bounds, remaining
<1>3. remaining < BufSize
  <2>1. CASE remaining < Hdr
    BY <2>1, <1>2
  <2>2. CASE remaining >= Hdr
    <3>1. SizeRead(readPos + consumed) = {size}
      BY <2>2, SizeReadIsSize DEF Finish, HeaderThere
    <3> QED BY <2>2, <3>1, <1>2 DEF Finish, LoopEnds
  <2> QED BY <2>1, <2>2, <1>2
<1>4. TypeOK'
  <2>1. Moved(pos) \in [Cell -> 0 .. StreamLen]
    <3>1. ASSUME NEW p \in Cell, p < remaining
          PROVE  buf[pos + p] \in 0 .. StreamLen
      <4>1. pos + p \in Cell
        BY <1>2, <3>1 DEF Cell
      <4> QED BY <4>1 DEF IInv, TypeOK
    <3>2. ASSUME NEW p \in Cell
          PROVE  buf[p] \in 0 .. StreamLen
      BY DEF IInv, TypeOK
    <3> QED BY <3>1, <3>2 DEF Moved
  <2> QED BY <1>1, <1>2, <2>1 DEF IInv, TypeOK
<1>5. BufferHoldsStream'
  <2> SUFFICES ASSUME NEW i \in 0 .. remaining - 1
               PROVE  buf'[readPos' + i] = base + consumed + i
    BY <1>1 DEF BufferHoldsStream
  <2>1. buf[pos + i] = base + consumed + i
    <3>1. consumed + i \in 0 .. rxLen - 1
      BY DEF IInv, TypeOK, remaining
    <3>2. buf[readPos + (consumed + i)] = base + (consumed + i)
      BY <3>1 DEF IInv, BufferHoldsStream
    <3> QED BY <3>2 DEF IInv, TypeOK
  <2>2. remaining > 0 /\ i \in Cell /\ i < remaining
    BY <1>2 DEF Cell
  <2>3. CASE compact
    <3>1. readPos' = 0 /\ buf' = Moved(pos)
      BY <1>1, <2>3
    <3>2. Moved(pos)[i] = buf[pos + i]
      BY <2>2 DEF Moved
    <3> QED BY <3>1, <3>2, <2>1
  <2>4. CASE ~compact
    <3>1. readPos' = pos /\ buf' = buf
      BY <1>1, <2>2, <2>4
    <3> QED BY <3>1, <2>1
  <2> QED BY <2>3, <2>4
<1>6. RoomToRead' /\ Bounds'
  BY <1>1, <1>2, <1>3 DEF RoomToRead, Bounds, writePos, NearlyFull, IInv, TypeOK
<1>7. Idle' /\ Behind'
  BY <1>1, <1>2 DEF Idle, Behind, IInv, TypeOK
<1> QED BY <1>4, <1>5, <1>6, <1>7 DEF IInv

(* Init => IInv: a server that has accepted nothing has nothing unread. *)
LEMMA InitIInv == Init => IInv
<1> SUFFICES ASSUME Init
             PROVE  IInv
  OBVIOUS
<1>1. TypeOK
  <2>1. 0 \in 0 .. StreamLen /\ 0 \in 0 .. BufSize
    BY RxAssumption
  <2>2. buf \in [Cell -> 0 .. StreamLen]
    BY <2>1 DEF Init
  <2>3. msg \in Seq(0 .. StreamLen)
    BY DEF Init
  <2>4. consumed \in 0 .. rxLen
    BY DEF Init
  <2> QED BY <2>1, <2>2, <2>3, <2>4, Zenon DEF Init, TypeOK
<1>2. BufferHoldsStream /\ RoomToRead /\ Bounds /\ Idle /\ Behind
  BY RxAssumption DEF Init, BufferHoldsStream, RoomToRead, Bounds, Idle, Behind, writePos
<1> QED BY <1>1, <1>2 DEF IInv

(* IInv /\ [Next]_vars => IInv': one step per action. *)
LEMMA NextIInv == IInv /\ [Next]_vars => IInv'
<1> SUFFICES ASSUME IInv, [Next]_vars
             PROVE  IInv'
  OBVIOUS
<1>1. CASE Accept
  BY <1>1, RxAssumption DEF Accept, IInv, TypeOK, BufferHoldsStream, RoomToRead, Bounds,
     Idle, Behind, writePos
<1>2. CASE Drop
  BY <1>2, CloseStep DEF Drop, IInv, TypeOK
<1>3. CASE \E n \in 0 .. BufSize : Read(n)
  BY <1>3, ReadStep
<1>4. CASE RefuseSize
  BY <1>4, CloseStep DEF RefuseSize, IInv, TypeOK
<1>5. CASE Deliver
  BY <1>5, DeliverStep
<1>6. CASE Finish
  BY <1>6, FinishStep
<1>7. CASE UNCHANGED vars
  BY <1>7 DEF vars, IInv, TypeOK, BufferHoldsStream, RoomToRead, Bounds, Idle, Behind,
     writePos
<1> QED BY <1>1, <1>2, <1>3, <1>4, <1>5, <1>6, <1>7 DEF Next

(* The inductive invariant holds in every reachable state. *)
THEOREM Invariance == Spec => []IInv
BY InitIInv, NextIInv, PTL DEF Spec

(* The poll never comes to read with a full buffer (poll_read_data). *)
THEOREM AlwaysRoom == Spec => []RoomToRead
<1>1. IInv => RoomToRead
  BY DEF IInv
<1> QED BY <1>1, Invariance, PTL

(* The unread cells hold the peer's stream through reads and moves. *)
THEOREM HoldsStream == Spec => []BufferHoldsStream
<1>1. IInv => BufferHoldsStream
  BY DEF IInv
<1> QED BY <1>1, Invariance, PTL

(* process_message is given the stream in order, without loss or repetition. *)
THEOREM InOrder == Spec => MessagesInOrder
<1>1. IInv /\ [Next]_vars => [Deliver => Continues(msg, msg')]_vars
  <2> SUFFICES ASSUME IInv, Deliver
               PROVE  Continues(msg, msg')
    OBVIOUS
  <2>1. base + consumed = IF msg = <<>> THEN 0 ELSE msg[Len(msg)] + 1
    BY DEF IInv, Behind, Deliver, HeaderThere
  <2>2. msg' = [i \in 1 .. size |-> base + consumed + i - 1] /\ size \in Nat
    BY DeliverFacts, RxAssumption DEF IInv, TypeOK, remaining
  <2>3. Len(msg') = size
    BY <2>2
  <2>4. ASSUME NEW i \in 1 .. size
        PROVE  msg'[i] = (base + consumed) + (i - 1)
    BY <2>2, RxAssumption DEF IInv, TypeOK
  <2> QED BY <2>1, <2>3, <2>4 DEF Continues
<1> QED BY <1>1, Invariance, PTL DEF Spec, MessagesInOrder
=============================================================================
