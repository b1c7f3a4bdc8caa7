----------------------------- MODULE ReportRing -----------------------------
(* The ring in which a MonitoredItem keeps the reports its client has not yet *)
(* been sent: queue[], queue_head, queue_tail, queue_count, queue_size and    *)
(* discard_oldest of mu_monitored_item_t, and the functions of                *)
(* subscription_monitor.c and deadband.c that move them.                      *)
EXTENDS Integers, Sequences

CONSTANT Depth   \* MU_INTERN_MONITORED_QUEUE_DEPTH

ASSUME DepthAssumption == Depth \in Nat \ {0}

Cells == 0 .. Depth - 1

(* A cell no report was ever written to. *)
NoReport == [v |-> -2, st |-> "good", ovf |-> FALSE]

(* A revised queueSize lies between 1 and the depth of the array. *)
ClampQueueSize(n) == IF n = 0 THEN 1 ELSE IF n > Depth THEN Depth ELSE n

EmptyRing(n, discard) ==
  [cell |-> [c \in Cells |-> NoReport], head |-> 0, tail |-> 0, count |-> 0,
   size |-> ClampQueueSize(n), discard |-> discard]

(* An index or a count that no longer fits the size is pulled back to it. *)
Effective(r) ==
  [r EXCEPT !.head = IF r.head >= r.size THEN 0 ELSE r.head,
            !.tail = IF r.tail >= r.size THEN 0 ELSE r.tail,
            !.count = IF r.count > r.size THEN r.size ELSE r.count]

NextIndex(i, n) == IF i + 1 >= n THEN 0 ELSE i + 1

PreviousIndex(i, n) == IF i = 0 THEN n - 1 ELSE i - 1

MarkOverflow(cell, i) == [cell EXCEPT ![i] = [cell[i] EXCEPT !.ovf = TRUE]]

(* Mutant: the oldest report is overwritten and stays the head of the ring. *)
MakeRoomNot(e) == e.head

MakeRoom(e) == NextIndex(e.head, e.size)

(* The report goes behind the others; in a full ring it costs the oldest or   *)
(* takes the place of the newest, and the overflow bit tells which was lost.  *)
EnqueueReport(r, report) ==
  LET e == Effective(r)
      put == [e.cell EXCEPT ![e.tail] = report]
      newest == PreviousIndex(e.tail, e.size)
  IN IF e.count < e.size
     THEN [e EXCEPT !.cell = put, !.tail = NextIndex(e.tail, e.size), !.count = e.count + 1]
     ELSE IF e.discard
     THEN [e EXCEPT !.head = MakeRoom(e), !.tail = NextIndex(e.tail, e.size),
                    !.cell = MarkOverflow(put, MakeRoom(e))]
     ELSE [e EXCEPT !.cell = MarkOverflow([e.cell EXCEPT ![newest] = report], newest)]

Drained(e, k) == IF k < e.count THEN k ELSE e.count

(* Where j calls of NextIndex lead from index h. *)
Walk(h, j, n) ==
  IF j = 0 THEN h
  ELSE IF h + j < n THEN h + j
  ELSE (j - (IF h >= n THEN 1 ELSE n - h)) % n

(* Up to k reports leave the ring at its head; an empty ring starts over. *)
DrainReported(r, k) ==
  LET e == Effective(r)
      n == Drained(e, k)
  IN IF n = e.count
     THEN [e EXCEPT !.head = 0, !.tail = 0, !.count = 0]
     ELSE [e EXCEPT !.head = Walk(e.head, n, e.size), !.count = e.count - n]

(* The reports as write_data_change_notification walks them, from the head,   *)
(* with neither the head nor the count pulled back to the size first.         *)
Reports(r) == [j \in 1 .. r.count |-> r.cell[Walk(r.head, j - 1, r.size)]]
=============================================================================
