------------------------------ MODULE RxBuffer ------------------------------
(***************************************************************************)
(* Receiving on one connection: poll_read_data appends what the transport  *)
(* has to the receive buffer, poll_process_buffer cuts whole messages out  *)
(* of it and hands them to process_message, and what is left is moved to   *)
(* the front only when the buffer is nearly full.                          *)
(*                                                                         *)
(* A byte is identified with its offset in the peer's stream, so that the  *)
(* buffer says which byte of the stream each cell holds.  The size field   *)
(* of the message at the front is "size"; it can be read from the buffer   *)
(* only where the cells hold the header of that message.                   *)
(***************************************************************************)
EXTENDS Integers, Sequences

CONSTANTS
  BufSize,     \* the size of rx_buffer
  Hdr,         \* the bytes of a message header, 8 in the code
  Slack,       \* the free bytes below which the rest is moved, 64 in the code
  Sizes,       \* the size fields a peer may write
  StreamLen    \* bound: the bytes a peer sends over one connection

ASSUME RxAssumption ==
  /\ Hdr \in Nat \ {0}
  /\ BufSize \in Nat
  /\ BufSize > Hdr
  /\ Slack \in Nat \ {0}
  /\ Sizes \subseteq Nat
  /\ StreamLen \in Nat

VARIABLES
  open,      \* client_handle # NULL
  readPos,   \* rx_read_pos
  rxLen,     \* rx_len
  buf,       \* rx_buffer: the stream offset of the byte in each cell
  base,      \* the stream offset of the byte at rx_read_pos (history)
  size,      \* the size field of the message at stream offset base + consumed
  consumed,  \* the local of poll_process_buffer
  pc,        \* "read", or "process" while poll_process_buffer runs
  msg        \* the last message process_message was given

vars == <<open, readPos, rxLen, buf, base, size, consumed, pc, msg>>

Cell == 0 .. BufSize - 1

TypeOK ==
  /\ open \in BOOLEAN
  /\ readPos \in 0 .. BufSize
  /\ rxLen \in 0 .. BufSize
  /\ buf \in [Cell -> 0 .. StreamLen]
  /\ base \in 0 .. StreamLen
  /\ size \in Sizes
  /\ consumed \in 0 .. rxLen
  /\ pc \in {"read", "process"}
  /\ msg \in Seq(0 .. StreamLen)

Init ==
  /\ open = FALSE
  /\ readPos = 0
  /\ rxLen = 0
  /\ buf = [p \in Cell |-> 0]
  /\ base = 0
  /\ size \in Sizes
  /\ consumed = 0
  /\ pc = "read"
  /\ msg = <<>>

(* A new connection is accepted into the slot; the old bytes stay in the buffer. *)
Accept ==
  /\ ~open
  /\ pc = "read"
  /\ open' = TRUE
  /\ readPos' = 0
  /\ rxLen' = 0
  /\ base' = 0
  /\ size' \in Sizes
  /\ msg' = <<>>
  /\ UNCHANGED <<buf, consumed, pc>>

(* poll_close_connection, and what poll_process_buffer does after process_message closed. *)
Close ==
  /\ open' = FALSE
  /\ readPos' = 0
  /\ rxLen' = 0
  /\ consumed' = 0
  /\ pc' = "read"
  /\ UNCHANGED <<buf, base, size>>

(* The idle timeout expired or the transport reported an error. *)
Drop ==
  /\ open
  /\ pc = "read"
  /\ Close
  /\ UNCHANGED msg

writePos == readPos + rxLen

(* The transport returns n bytes, no more than there is room for behind write_pos. *)
Read(n) ==
  /\ open
  /\ pc = "read"
  /\ writePos + n <= BufSize
  /\ base + rxLen + n <= StreamLen
  /\ buf' = [p \in Cell |-> IF p \in writePos .. writePos + n - 1
                            THEN base + rxLen + (p - writePos) ELSE buf[p]]
  /\ rxLen' = rxLen + n
  /\ pc' = "process"
  /\ UNCHANGED <<open, readPos, base, size, consumed, msg>>

(* poll_msg_size: the size field, if the cells hold the header it belongs to. *)
SizeRead(p) ==
  IF \A i \in 0 .. Hdr - 1 : buf[p + i] = base + consumed + i THEN {size} ELSE Sizes

remaining == rxLen - consumed

HeaderThere == open /\ pc = "process" /\ remaining >= Hdr

(* The size field is below a header or above the buffer: the connection is closed. *)
RefuseSize ==
  /\ HeaderThere
  /\ \E s \in SizeRead(readPos + consumed) : s < Hdr \/ s > BufSize
  /\ Close
  /\ UNCHANGED msg

(* Mutant: the first message of a poll is handed over at every turn. *)
DeliverFirst ==
  /\ HeaderThere
  /\ \E s \in SizeRead(readPos + consumed) :
       /\ s \in Hdr .. remaining
       /\ msg' = [i \in 1 .. s |-> buf[readPos + i - 1]]
       /\ \/ Close
          \/ /\ consumed' = consumed + s
             /\ size' \in Sizes
             /\ UNCHANGED <<open, readPos, rxLen, buf, base, pc>>

(* One turn of the loop: a whole message goes to process_message, which may close. *)
Deliver ==
  /\ HeaderThere
  /\ \E s \in SizeRead(readPos + consumed) :
       /\ s \in Hdr .. remaining
       /\ msg' = [i \in 1 .. s |-> buf[readPos + consumed + i - 1]]
       /\ \/ Close
          \/ /\ consumed' = consumed + s
             /\ size' \in Sizes
             /\ UNCHANGED <<open, readPos, rxLen, buf, base, pc>>

(* Mutant: a header with no body behind it is taken for incomplete. *)
LoopEndsAtHeader ==
  \/ remaining <= Hdr
  \/ /\ remaining >= Hdr
     /\ \E s \in SizeRead(readPos + consumed) : s \in Hdr .. BufSize /\ s > remaining

(* The loop ends: no header, or a message that is not complete yet. *)
LoopEnds ==
  \/ remaining < Hdr
  \/ /\ remaining >= Hdr
     /\ \E s \in SizeRead(readPos + consumed) : s \in Hdr .. BufSize /\ s > remaining

(* Mutant: what is left of the stream is never moved to the front. *)
NeverCompact(pos) == FALSE

(* The rest is moved when fewer than Slack cells are free behind it. *)
NearlyFull(pos) == pos + remaining + Slack > BufSize

(* memmove of the rest to the front *)
Moved(pos) ==
  [p \in Cell |-> IF p < remaining THEN buf[pos + p] ELSE buf[p]]

Finish ==
  LET pos == readPos + consumed
      compact == remaining > 0 /\ NearlyFull(pos)
  IN /\ open
     /\ pc = "process"
     /\ LoopEnds
     /\ rxLen' = remaining
     /\ readPos' = IF remaining = 0 \/ compact THEN 0 ELSE pos
     /\ buf' = IF compact THEN Moved(pos) ELSE buf
     /\ base' = base + consumed
     /\ consumed' = 0
     /\ pc' = "read"
     /\ UNCHANGED <<open, size, msg>>

ReadSome == \E n \in 1 .. BufSize : Read(n)

Next ==
  \/ Accept
  \/ Drop
  \/ \E n \in 0 .. BufSize : Read(n)
  \/ RefuseSize
  \/ Deliver
  \/ Finish

Spec == Init /\ [][Next]_vars

(* The application keeps polling an open connection, and a transport that  *)
(* has bytes does not return none of them for ever.                        *)
FairSpec ==
  /\ Spec
  /\ WF_vars(RefuseSize \/ Deliver \/ Finish)
  /\ SF_vars(ReadSome)

-----------------------------------------------------------------------------
(* The cells between rx_read_pos and write_pos hold the stream from base   *)
(* on, whatever was read, cut out and moved before.                        *)
BufferHoldsStream ==
  \A i \in 0 .. rxLen - 1 : buf[readPos + i] = base + i

(* Whenever the poll comes to read there is room for a byte: the early     *)
(* return of poll_read_data on a full buffer is never taken, so no         *)
(* connection is stuck with a message it can neither complete nor process. *)
RoomToRead ==
  pc = "read" => writePos < BufSize

(* process_message is given the stream in order: each message starts at    *)
(* the byte behind the last one and is a run of consecutive bytes, none    *)
(* lost, repeated or left over from an earlier connection.                 *)
Continues(m, n) ==
  \A i \in 1 .. Len(n) :
     n[i] = (IF m = <<>> THEN 0 ELSE m[Len(m)] + 1) + (i - 1)

MessagesInOrder ==
  [][Deliver => Continues(msg, msg')]_vars

(* A message of legal size that the peer has sent whole is given to        *)
(* process_message, unless the connection closes.                          *)
Received ==
  \A o \in 0 .. StreamLen :
     (open /\ base + consumed = o /\ size \in Hdr .. BufSize /\ o + size <= StreamLen)
       ~> (~open \/ base + consumed # o)
=============================================================================
