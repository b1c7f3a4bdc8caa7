---------------------------- MODULE ReportProofs ----------------------------
(* The reports of a MonitoredItem, for every depth, size, discard policy,     *)
(* number of items and link limit. The ring: its indices stay inside the      *)
(* array whatever is done to it, and as long as it is not resized under its   *)
(* reports it behaves as a list of bounded length. Then the inductive         *)
(* invariant of MonitoredItems, what each operation makes of one item, and    *)
(* that sampling and preparing keep the invariant.                            *)
EXTENDS MonitoredItems, TLAPS

-----------------------------------------------------------------------------
(* Indices *)

(* What a cell may hold, written or not. *)
Kept == [v : Int, st : {"good", "bad"}, ovf : BOOLEAN]

RingType == [cell : [Cells -> Kept], head : Cells, tail : Cells, count : 0 .. Depth,
             size : 1 .. Depth, discard : BOOLEAN]

(* The cell j places behind cell h of a ring of n cells. *)
Behind(h, j, n) == IF h + j < n THEN h + j ELSE h + j - n

(* The indices and the count describe one stretch of the ring. *)
Sound(r) ==
  /\ r.head < r.size
  /\ r.count <= r.size
  /\ r.tail = Behind(r.head, r.count, r.size)
  /\ r.count = 0 => r.head = 0

(* A number below the modulus is its own remainder. *)
LEMMA SmallRemainder ==
  ASSUME NEW n \in Nat \ {0}, NEW x \in 0 .. n - 1
  PROVE  x % n = x
  OBVIOUS

(* monitored_item_queue_next, called j times. *)
LEMMA WalkIsBehind ==
  ASSUME NEW n \in Nat \ {0}, NEW h \in 0 .. n - 1, NEW j \in 0 .. n
  PROVE  Walk(h, j, n) = Behind(h, j, n) /\ Behind(h, j, n) \in 0 .. n - 1
  <1>1. CASE h + j < n
    BY <1>1 DEF Walk, Behind
  <1>2. CASE h + j >= n /\ j # 0
    <2>1. h + j - n \in 0 .. n - 1
      BY <1>2
    <2>2. (h + j - n) % n = h + j - n
      BY <2>1, SmallRemainder
    <2>3. j - (n - h) = h + j - n
      OBVIOUS
    <2> QED
      BY <1>2, <2>1, <2>2, <2>3 DEF Walk, Behind
  <1> QED
    BY <1>1, <1>2

(* Different distances from the head are different cells. *)
LEMMA BehindApart ==
  ASSUME NEW n \in Nat \ {0}, NEW h \in 0 .. n - 1, NEW i \in 0 .. n - 1, NEW j \in 0 .. n - 1, i # j
  PROVE  Behind(h, i, n) # Behind(h, j, n)
  BY DEF Behind

(* One cell further round is one further behind the head. *)
LEMMA NextBehind ==
  ASSUME NEW n \in Nat \ {0}, NEW h \in 0 .. n - 1, NEW j \in 0 .. n - 1
  PROVE  /\ NextIndex(Behind(h, j, n), n) = Behind(h, j + 1, n)
         /\ Behind(NextIndex(h, n), j, n) = Behind(h, j + 1, n)
         /\ NextIndex(h, n) \in 0 .. n - 1
         /\ PreviousIndex(h, n) = Behind(h, n - 1, n)
  BY DEF Behind, NextIndex, PreviousIndex

(* Distances add up. *)
LEMMA BehindBehind ==
  ASSUME NEW n \in Nat \ {0}, NEW h \in 0 .. n - 1, NEW i \in 0 .. n, NEW j \in 0 .. n, i + j <= n
  PROVE  Behind(Behind(h, i, n), j, n) = Behind(h, i + j, n)
  BY DEF Behind

(* Of what comes in portions, one of e behind a others, the first R take n. *)
LEMMA Portions ==
  ASSUME NEW R \in Nat, NEW a \in Nat, NEW b \in Nat, NEW e \in Nat, NEW n,
         b = a + e, n = IF a < R THEN R - a ELSE 0
  PROVE  /\ (IF R <= a THEN 0 ELSE IF R <= b THEN R - a ELSE b - a) = (IF n < e THEN n ELSE e)
         /\ n > 0 /\ ~(n < e) /\ e > 0 => a < b /\ b <= R
         /\ n < e => n \in 0 .. e /\ e - n > 0
         /\ ~(n < e) => ~(e - e > 0)
  OBVIOUS

-----------------------------------------------------------------------------
(* Fields of a ring *)

(* The fields of a ring and their ranges. *)
LEMMA RingFields ==
  ASSUME NEW r \in RingType
  PROVE  /\ r.cell \in [Cells -> Kept] /\ r.head \in Cells /\ r.tail \in Cells
         /\ r.count \in 0 .. Depth /\ r.size \in 1 .. Depth /\ r.discard \in BOOLEAN
         /\ r.count \in Nat /\ r.size \in Nat \ {0} /\ r.head \in Nat /\ r.tail \in Nat
         /\ 0 .. r.size - 1 \subseteq Cells
  BY DepthAssumption DEF RingType, Cells

(* monitored_item_effective_queue_size pulls every index into the ring. *)
LEMMA EffectiveFields ==
  ASSUME NEW r \in RingType
  PROVE  /\ Effective(r) \in RingType
         /\ Effective(r).cell = r.cell
         /\ Effective(r).head = IF r.head >= r.size THEN 0 ELSE r.head
         /\ Effective(r).tail = IF r.tail >= r.size THEN 0 ELSE r.tail
         /\ Effective(r).count = IF r.count > r.size THEN r.size ELSE r.count
         /\ Effective(r).size = r.size
         /\ Effective(r).discard = r.discard
  <1> DEFINE h == IF r.head >= r.size THEN 0 ELSE r.head
             t == IF r.tail >= r.size THEN 0 ELSE r.tail
             c == IF r.count > r.size THEN r.size ELSE r.count
  <1>1. h \in Cells /\ t \in Cells /\ c \in 0 .. Depth
    BY RingFields, DepthAssumption DEF Cells
  <1>2. Effective(r) = [r EXCEPT !.head = h, !.tail = t, !.count = c]
    BY DEF Effective
  <1> HIDE DEF h, t, c
  <1>3. /\ Effective(r) \in RingType
        /\ Effective(r).cell = r.cell /\ Effective(r).head = h /\ Effective(r).tail = t
        /\ Effective(r).count = c /\ Effective(r).size = r.size /\ Effective(r).discard = r.discard
    BY <1>1, <1>2, Zenon DEF RingType
  <1> QED
    BY <1>3 DEF h, t, c

(* The indices the code works with lie inside the ring. *)
LEMMA EffectiveInside ==
  ASSUME NEW r \in RingType
  PROVE  /\ Effective(r).head \in 0 .. r.size - 1
         /\ Effective(r).tail \in 0 .. r.size - 1
         /\ Effective(r).count \in 0 .. r.size
  BY RingFields, EffectiveFields DEF Cells

(* A ring that is sound needs no pulling. *)
LEMMA EffectiveSound ==
  ASSUME NEW r \in RingType, Sound(r)
  PROVE  /\ Effective(r).head = r.head
         /\ Effective(r).tail = r.tail
         /\ Effective(r).count = r.count
         /\ r.head \in 0 .. r.size - 1 /\ r.tail \in 0 .. r.size - 1 /\ r.count \in 0 .. r.size
  <1>1. r.size \in Nat \ {0} /\ r.head \in 0 .. r.size - 1 /\ r.count \in 0 .. r.size
    BY RingFields DEF Sound
  <1>2. r.tail \in 0 .. r.size - 1
    BY <1>1, WalkIsBehind DEF Sound
  <1> QED
    BY <1>1, <1>2, EffectiveFields

-----------------------------------------------------------------------------
(* A report is added *)

(* The list s with report x behind it, in a queue of n reports. *)
AddedTo(s, x, n, discard) ==
  IF Len(s) < n THEN Append(s, x)
  ELSE IF Len(s) = 1 THEN <<[x EXCEPT !.ovf = TRUE]>>
  ELSE IF discard THEN <<[s[2] EXCEPT !.ovf = TRUE]>> \o Append(SubSeq(s, 3, Len(s)), x)
  ELSE [s EXCEPT ![Len(s)] = [x EXCEPT !.ovf = TRUE]]

(* monitored_item_enqueue_report makes q of the ring r, pulled into its size  *)
(* as e: with room, in a full ring that loses its oldest report, and in one   *)
(* that loses its newest.                                                     *)
AddsAs(r, e, x, q) ==
  /\ q.size = r.size /\ q.discard = r.discard
  /\ e.count < r.size =>
       /\ q.cell = [r.cell EXCEPT ![e.tail] = x] /\ q.head = e.head
       /\ q.tail = NextIndex(e.tail, r.size) /\ q.count = e.count + 1
  /\ e.count >= r.size /\ r.discard =>
       /\ q.cell = MarkOverflow([r.cell EXCEPT ![e.tail] = x], NextIndex(e.head, r.size))
       /\ q.head = NextIndex(e.head, r.size)
       /\ q.tail = NextIndex(e.tail, r.size) /\ q.count = e.count
  /\ e.count >= r.size /\ ~r.discard =>
       /\ q.cell = MarkOverflow([r.cell EXCEPT ![PreviousIndex(e.tail, r.size)] = x],
                                PreviousIndex(e.tail, r.size))
       /\ q.head = e.head /\ q.tail = e.tail /\ q.count = e.count

(* The ring stays inside its array, whatever state it was in. *)
LEMMA EnqueueFields ==
  ASSUME NEW r \in RingType, NEW x \in Kept
  PROVE  /\ AddsAs(r, Effective(r), x, EnqueueReport(r, x))
         /\ EnqueueReport(r, x) \in RingType
         /\ EnqueueReport(r, x).count > 0
  <1> DEFINE e == Effective(r)
             q == EnqueueReport(r, x)
  <1> SUFFICES AddsAs(r, e, x, q) /\ q \in RingType /\ q.count > 0
    OBVIOUS
  <1>1. /\ e \in RingType /\ e.cell = r.cell /\ e.size = r.size /\ e.discard = r.discard
        /\ e.head \in 0 .. r.size - 1 /\ e.tail \in 0 .. r.size - 1 /\ e.count \in 0 .. r.size
    BY EffectiveFields, EffectiveInside
  <1>2. /\ r.cell \in [Cells -> Kept] /\ r.size \in 1 .. Depth /\ r.size \in Nat \ {0}
        /\ 0 .. r.size - 1 \subseteq Cells
    BY RingFields
  <1> DEFINE nh == NextIndex(e.head, r.size)
             nt == NextIndex(e.tail, r.size)
             pt == PreviousIndex(e.tail, r.size)
             put == [r.cell EXCEPT ![e.tail] = x]
             last == [r.cell EXCEPT ![pt] = x]
  <1>3. nh \in 0 .. r.size - 1 /\ nt \in 0 .. r.size - 1 /\ pt \in 0 .. r.size - 1
    BY <1>1, <1>2 DEF NextIndex, PreviousIndex
  <1>4. \A cell \in [Cells -> Kept], i \in Cells : MarkOverflow(cell, i) \in [Cells -> Kept]
    BY Zenon DEF MarkOverflow, Kept
  <1>5. put \in [Cells -> Kept] /\ last \in [Cells -> Kept] /\ nh \in Cells /\ nt \in Cells /\ pt \in Cells
    BY <1>1, <1>2, <1>3
  <1>6. MarkOverflow(put, nh) \in [Cells -> Kept] /\ MarkOverflow(last, pt) \in [Cells -> Kept]
    BY <1>4, <1>5, Zenon
  <1> HIDE DEF e, q, nh, nt, pt, put, last
  <1>7. q = IF e.count < e.size
            THEN [e EXCEPT !.cell = put, !.tail = nt, !.count = e.count + 1]
            ELSE IF e.discard
            THEN [e EXCEPT !.head = nh, !.tail = nt, !.cell = MarkOverflow(put, nh)]
            ELSE [e EXCEPT !.cell = MarkOverflow(last, pt)]
    BY <1>1 DEF EnqueueReport, MakeRoom, e, q, nh, nt, pt, put, last
  <1>8. CASE e.count < r.size
    <2>1. e.count + 1 \in 0 .. Depth /\ e.count + 1 > 0
      BY <1>1, <1>2, <1>8, DepthAssumption
    <2>2. q = [e EXCEPT !.cell = put, !.tail = nt, !.count = e.count + 1]
      BY <1>1, <1>7, <1>8
    <2>3. /\ q \in RingType /\ q.size = r.size /\ q.discard = r.discard /\ q.cell = put
          /\ q.head = e.head /\ q.tail = nt /\ q.count = e.count + 1
      BY <1>1, <1>5, <2>1, <2>2, Zenon DEF RingType
    <2> QED
      BY <1>1, <1>2, <1>8, <2>1, <2>3 DEF AddsAs, put, nt
  <1>9. CASE ~(e.count < r.size) /\ r.discard
    <2>1. q = [e EXCEPT !.head = nh, !.tail = nt, !.cell = MarkOverflow(put, nh)]
      BY <1>1, <1>7, <1>9
    <2>2. /\ q \in RingType /\ q.size = r.size /\ q.discard = r.discard /\ q.cell = MarkOverflow(put, nh)
          /\ q.head = nh /\ q.tail = nt /\ q.count = e.count
      BY <1>1, <1>5, <1>6, <2>1, Zenon DEF RingType
    <2> QED
      BY <1>1, <1>2, <1>9, <2>2 DEF AddsAs, put, nh, nt
  <1>10. CASE ~(e.count < r.size) /\ ~r.discard
    <2>1. q = [e EXCEPT !.cell = MarkOverflow(last, pt)]
      BY <1>1, <1>7, <1>10
    <2>2. /\ q \in RingType /\ q.size = r.size /\ q.discard = r.discard /\ q.cell = MarkOverflow(last, pt)
          /\ q.head = e.head /\ q.tail = e.tail /\ q.count = e.count
      BY <1>1, <1>6, <2>1 DEF RingType
    <2> QED
      BY <1>1, <1>2, <1>10, <2>2 DEF AddsAs, last, pt
  <1> QED
    BY <1>8, <1>9, <1>10

(* Two lists with the same reports are the same. *)
LEMMA SameList ==
  ASSUME NEW a \in Seq(Kept), NEW b \in Seq(Kept), Len(a) = Len(b),
         \A j \in 1 .. Len(a) : a[j] = b[j]
  PROVE  a = b
  OBVIOUS

(* The list a ring holds. *)
LEMMA ReportsFacts ==
  ASSUME NEW r \in RingType, Sound(r)
  PROVE  /\ Reports(r) \in Seq(Kept) /\ Len(Reports(r)) = r.count
         /\ \A j \in 1 .. r.count : Reports(r)[j] = r.cell[Behind(r.head, j - 1, r.size)]
         /\ \A j \in 1 .. r.count : Reports(r)[j] \in Kept
  <1>1. /\ r.size \in Nat \ {0} /\ r.head \in 0 .. r.size - 1 /\ r.count \in 0 .. r.size
        /\ r.cell \in [Cells -> Kept] /\ 0 .. r.size - 1 \subseteq Cells
    BY RingFields, EffectiveSound
  <1>2. ASSUME NEW j \in 1 .. r.count
        PROVE  /\ Walk(r.head, j - 1, r.size) = Behind(r.head, j - 1, r.size)
               /\ Walk(r.head, j - 1, r.size) \in Cells
    <2>1. j - 1 \in 0 .. r.size
      BY <1>1
    <2> QED
      BY <1>1, <2>1, WalkIsBehind, Zenon
  <1>3. \A j \in 1 .. r.count : r.cell[Walk(r.head, j - 1, r.size)] \in Kept
    BY <1>1, <1>2
  <1>4. Reports(r) \in [1 .. r.count -> Kept]
    BY <1>3 DEF Reports
  <1> QED
    BY <1>1, <1>2, <1>4 DEF Reports

(* Adding to a sound ring leaves it sound. *)
LEMMA EnqueueSound ==
  ASSUME NEW r \in RingType, NEW x \in Kept, Sound(r)
  PROVE  Sound(EnqueueReport(r, x))
  <1> DEFINE e == Effective(r)
             q == EnqueueReport(r, x)
  <1>1. /\ r.size \in Nat \ {0} /\ r.head \in 0 .. r.size - 1 /\ r.tail \in 0 .. r.size - 1
        /\ r.count \in 0 .. r.size
        /\ e.head = r.head /\ e.tail = r.tail /\ e.count = r.count
    BY RingFields, EffectiveSound
  <1>2. r.tail = Behind(r.head, r.count, r.size)
    BY DEF Sound
  <1> HIDE DEF e, q
  <1>3. /\ q.size = r.size
        /\ e.count < r.size =>
             q.head = e.head /\ q.tail = NextIndex(e.tail, r.size) /\ q.count = e.count + 1
        /\ e.count >= r.size /\ r.discard =>
             /\ q.head = NextIndex(e.head, r.size)
             /\ q.tail = NextIndex(e.tail, r.size) /\ q.count = e.count
        /\ e.count >= r.size /\ ~r.discard =>
             q.head = e.head /\ q.tail = e.tail /\ q.count = e.count
    <2>1. AddsAs(r, e, x, q)
      BY EnqueueFields DEF e, q
    <2> QED
      BY <2>1 DEF AddsAs
  <1>4. CASE r.count < r.size
    <2>1. q.head = r.head /\ q.tail = NextIndex(r.tail, r.size) /\ q.count = r.count + 1
      BY <1>1, <1>3, <1>4
    <2>2. NextIndex(r.tail, r.size) = Behind(r.head, r.count + 1, r.size)
      BY <1>1, <1>2, <1>4, NextBehind
    <2> QED
      BY <1>1, <1>3, <1>4, <2>1, <2>2 DEF Sound, q
  <1>5. CASE r.count >= r.size /\ r.discard
    <2>1. q.head = NextIndex(r.head, r.size) /\ q.tail = NextIndex(r.tail, r.size) /\ q.count = r.count
      BY <1>1, <1>3, <1>5
    <2>2. r.count = r.size
      BY <1>1, <1>5
    <2>3. r.tail = r.head
      BY <1>1, <1>2, <2>2 DEF Behind
    <2>4. NextIndex(r.head, r.size) \in 0 .. r.size - 1
      BY <1>1 DEF NextIndex
    <2>5. Behind(NextIndex(r.head, r.size), r.size, r.size) = NextIndex(r.head, r.size)
      BY <1>1, <2>4 DEF Behind
    <2> QED
      BY <1>1, <1>3, <2>1, <2>2, <2>3, <2>4, <2>5 DEF Sound, q
  <1>6. CASE r.count >= r.size /\ ~r.discard
    BY <1>1, <1>2, <1>3, <1>6 DEF Sound, q
  <1> QED
    BY <1>1, <1>4, <1>5, <1>6, RingFields

(* Adding to a sound ring adds to the list it holds: behind the others, or in *)
(* a full list at the cost of the oldest or in the place of the newest, with  *)
(* the overflow bit where the loss was.                                       *)
LEMMA EnqueueAdds ==
  ASSUME NEW r \in RingType, NEW x \in Kept, Sound(r)
  PROVE  Reports(EnqueueReport(r, x)) = AddedTo(Reports(r), x, r.size, r.discard)
  <1> DEFINE e == Effective(r)
             q == EnqueueReport(r, x)
             s == Reports(r)
             n == r.size
             at(j) == Behind(r.head, j - 1, n)
  <1>1. /\ n \in Nat \ {0} /\ r.head \in 0 .. n - 1 /\ r.tail \in 0 .. n - 1 /\ r.count \in 0 .. n
        /\ e.head = r.head /\ e.tail = r.tail /\ e.count = r.count
        /\ r.cell \in [Cells -> Kept] /\ 0 .. n - 1 \subseteq Cells
    BY RingFields, EffectiveSound
  <1>2. r.tail = at(r.count + 1)
    BY <1>1 DEF Sound
  <1>3. s \in Seq(Kept) /\ Len(s) = r.count /\ \A j \in 1 .. r.count : s[j] = r.cell[at(j)]
    BY ReportsFacts
  <1>4. /\ Len(Reports(q)) = q.count /\ Reports(q) \in Seq(Kept)
        /\ \A j \in 1 .. q.count : Reports(q)[j] = q.cell[Behind(q.head, j - 1, q.size)]
    BY EnqueueFields, EnqueueSound, ReportsFacts
  <1>5. \A j \in 1 .. n : at(j) \in 0 .. n - 1 /\ at(j) \in Cells
    <2> TAKE j \in 1 .. n
    <2>1. j - 1 \in 0 .. n
      BY <1>1
    <2> QED
      BY <1>1, <2>1, WalkIsBehind, Zenon
  <1>6. \A i, j \in 1 .. n : i # j => at(i) # at(j)
    <2> TAKE i, j \in 1 .. n
    <2>1. i - 1 \in 0 .. n - 1 /\ j - 1 \in 0 .. n - 1 /\ (i # j => i - 1 # j - 1)
      BY <1>1
    <2> QED
      BY <1>1, <2>1, BehindApart
  <1> HIDE DEF e, q, s, n, at
  <1>10. /\ q.size = r.size
         /\ e.count < r.size =>
              q.cell = [r.cell EXCEPT ![e.tail] = x] /\ q.head = e.head /\ q.count = e.count + 1
         /\ e.count >= r.size /\ r.discard =>
              /\ q.cell = MarkOverflow([r.cell EXCEPT ![e.tail] = x], NextIndex(e.head, r.size))
              /\ q.head = NextIndex(e.head, r.size) /\ q.count = e.count
         /\ e.count >= r.size /\ ~r.discard =>
              /\ q.cell = MarkOverflow([r.cell EXCEPT ![PreviousIndex(e.tail, r.size)] = x],
                                       PreviousIndex(e.tail, r.size))
              /\ q.head = e.head /\ q.count = e.count
    <2>1. AddsAs(r, e, x, q)
      BY EnqueueFields DEF e, q
    <2> QED
      BY <2>1 DEF AddsAs
  <1>11. /\ q.size = n
         /\ r.count < n =>
              q.cell = [r.cell EXCEPT ![r.tail] = x] /\ q.head = r.head /\ q.count = r.count + 1
         /\ r.count = n /\ r.discard =>
              /\ q.cell = MarkOverflow([r.cell EXCEPT ![r.tail] = x], NextIndex(r.head, n))
              /\ q.head = NextIndex(r.head, n) /\ q.count = n
         /\ r.count = n /\ ~r.discard =>
              /\ q.cell = MarkOverflow([r.cell EXCEPT ![PreviousIndex(r.tail, n)] = x],
                                       PreviousIndex(r.tail, n))
              /\ q.head = r.head /\ q.count = n
    <2>1. r.size = n /\ (r.count = n => e.count >= r.size) /\ (r.count < n => e.count < r.size)
      BY <1>1 DEF n
    <2> QED
      BY <1>1, <1>10, <2>1
  <1>7. CASE r.count < n
    <2>1. q.cell = [r.cell EXCEPT ![r.tail] = x] /\ q.head = r.head /\ q.count = r.count + 1 /\ q.size = n
      BY <1>7, <1>11
    <2>2. \A j \in 1 .. q.count : Reports(q)[j] = q.cell[at(j)]
      BY <1>4, <2>1 DEF at
    <2>3. \A j \in 1 .. r.count : Reports(q)[j] = s[j]
      <3> TAKE j \in 1 .. r.count
      <3>1. j \in 1 .. n /\ r.count + 1 \in 1 .. n /\ j # r.count + 1 /\ j \in 1 .. q.count
        BY <1>1, <1>7, <2>1
      <3>2. at(j) # r.tail /\ at(j) \in Cells
        BY <1>2, <1>5, <1>6, <3>1
      <3> QED
        BY <1>1, <1>3, <2>1, <2>2, <3>1, <3>2
    <2>4. Reports(q)[r.count + 1] = x
      <3>1. r.count + 1 \in 1 .. q.count /\ r.tail \in Cells
        BY <1>1, <2>1
      <3> QED
        BY <1>1, <1>2, <2>1, <2>2, <3>1
    <2>5. Reports(q) = Append(s, x)
      BY <1>1, <1>3, <1>4, <2>1, <2>3, <2>4
    <2> QED
      BY <1>1, <1>3, <1>7, <2>5 DEF AddedTo, q, s, n
  <1>8. CASE r.count = n /\ r.discard
    <2> DEFINE put == [r.cell EXCEPT ![r.head] = x]
               nh == NextIndex(r.head, n)
    <2>1. r.tail = r.head /\ at(1) = r.head
      BY <1>1, <1>2, <1>8 DEF at, Behind
    <2>2. q.cell = MarkOverflow(put, nh) /\ q.head = nh /\ q.count = n /\ q.size = n
      BY <1>8, <1>11, <2>1
    <2>3. nh \in 0 .. n - 1 /\ nh \in Cells /\ r.head \in Cells
      BY <1>1, NextBehind
    <2>4. \A j \in 1 .. n : Behind(nh, j - 1, n) = IF j = n THEN r.head ELSE at(j + 1)
      <3> TAKE j \in 1 .. n
      <3>1. j - 1 \in 0 .. n - 1 /\ j - 1 + 1 = j /\ j + 1 - 1 = j
        BY <1>1
      <3>2. Behind(nh, j - 1, n) = Behind(r.head, j, n)
        BY <1>1, <3>1, NextBehind
      <3>3. Behind(r.head, n, n) = r.head
        BY <1>1 DEF Behind
      <3> QED
        BY <3>1, <3>2, <3>3 DEF at
    <2>5. nh = IF n = 1 THEN r.head ELSE at(2)
      <3>1. Behind(nh, 0, n) = nh
        BY <1>1, <2>3 DEF Behind
      <3>2. 1 \in 1 .. n /\ 1 - 1 = 0 /\ 1 + 1 = 2
        BY <1>1
      <3> QED
        BY <2>4, <3>1, <3>2
    <2>6. \A j \in 1 .. n : Reports(q)[j] = q.cell[IF j = n THEN r.head ELSE at(j + 1)]
      BY <1>4, <2>2, <2>4
    <2>7. /\ put \in [Cells -> Kept] /\ put[r.head] = x
          /\ \A c \in Cells : c # r.head => put[c] = r.cell[c]
          /\ q.cell[nh] = [put[nh] EXCEPT !.ovf = TRUE]
          /\ \A c \in Cells : c # nh => q.cell[c] = put[c]
      BY <1>1, <2>2, <2>3, Zenon DEF MarkOverflow
    <2> HIDE DEF put, nh
    <2>8. CASE n = 1
      <3>1. Reports(q)[1] = [x EXCEPT !.ovf = TRUE]
        <4>1. nh = r.head /\ 1 \in 1 .. n /\ Reports(q)[1] = q.cell[r.head]
          BY <2>5, <2>6, <2>8
        <4>2. q.cell[nh] = [put[nh] EXCEPT !.ovf = TRUE] /\ put[r.head] = x
          BY <2>7
        <4> QED
          BY <4>1, <4>2
      <3>2. Reports(q) = <<[x EXCEPT !.ovf = TRUE]>>
        BY <1>4, <2>2, <2>8, <3>1
      <3> QED
        BY <1>3, <1>8, <2>8, <3>2 DEF AddedTo, q, s, n
    <2>9. CASE n > 1
      <3>1. Reports(q)[1] = [s[2] EXCEPT !.ovf = TRUE]
        <4>1. 1 \in 1 .. n /\ 1 # n /\ 2 \in 1 .. n /\ 1 + 1 = 2
          BY <1>1, <2>9
        <4>2. at(2) # r.head /\ at(2) \in Cells
          BY <1>5, <1>6, <2>1, <4>1
        <4>3. nh = at(2) /\ Reports(q)[1] = q.cell[nh] /\ put[nh] = s[2]
          BY <1>3, <1>8, <2>5, <2>6, <2>7, <4>1, <4>2
        <4> QED
          BY <2>7, <4>3
      <3>2. \A j \in 2 .. n - 1 : Reports(q)[j] = s[j + 1]
        <4> TAKE j \in 2 .. n - 1
        <4>1. j \in 1 .. n /\ j # n /\ j + 1 \in 1 .. n /\ j + 1 # 1 /\ j + 1 # 2 /\ 1 \in 1 .. n /\ 2 \in 1 .. n
          BY <1>1, <2>9
        <4>2. at(j + 1) # r.head /\ at(j + 1) # nh /\ at(j + 1) \in Cells
          BY <1>5, <1>6, <2>1, <2>5, <2>9, <4>1
        <4> QED
          BY <1>3, <1>8, <2>6, <2>7, <4>1, <4>2
      <3>3. Reports(q)[n] = x
        <4>1. n \in 1 .. n /\ 1 \in 1 .. n /\ 2 \in 1 .. n
          BY <1>1, <2>9
        <4>2. nh # r.head
          BY <1>6, <2>1, <2>5, <2>9, <4>1
        <4> QED
          BY <2>3, <2>6, <2>7, <4>1, <4>2
      <3>4. Reports(q) = <<[s[2] EXCEPT !.ovf = TRUE]>> \o Append(SubSeq(s, 3, Len(s)), x)
        <4> DEFINE m == [s[2] EXCEPT !.ovf = TRUE]
                   z == <<m>> \o Append(SubSeq(s, 3, Len(s)), x)
        <4>1. Len(s) = n /\ s \in Seq(Kept)
          BY <1>3, <1>8
        <4>2. /\ SubSeq(s, 3, n) \in Seq(Kept) /\ Len(SubSeq(s, 3, n)) = n - 2
              /\ \A j \in 1 .. n - 2 : SubSeq(s, 3, n)[j] = s[j + 2]
          BY <1>1, <2>9, <4>1
        <4>3. m \in Kept
          <5>1. s[2] \in Kept
            BY <1>1, <2>9, <4>1
          <5> QED
            BY <5>1, Zenon DEF Kept
        <4> HIDE DEF m
        <4>4. /\ Append(SubSeq(s, 3, n), x) \in Seq(Kept) /\ Len(Append(SubSeq(s, 3, n), x)) = n - 1
              /\ \A j \in 1 .. n - 2 : Append(SubSeq(s, 3, n), x)[j] = s[j + 2]
              /\ Append(SubSeq(s, 3, n), x)[n - 1] = x
          BY <1>1, <2>9, <4>2
        <4>5. /\ z \in Seq(Kept) /\ Len(z) = n /\ z[1] = m /\ z[n] = x
              /\ \A j \in 2 .. n - 1 : z[j] = s[j + 1]
          BY <1>1, <2>9, <4>1, <4>3, <4>4
        <4> HIDE DEF z
        <4>6. Reports(q)[1] = m
          BY <3>1 DEF m
        <4>7. \A j \in 1 .. n : Reports(q)[j] = z[j]
          BY <1>1, <2>9, <3>2, <3>3, <4>5, <4>6
        <4>8. Len(Reports(q)) = n /\ Reports(q) \in Seq(Kept)
          BY <1>4, <2>2, Zenon
        <4>9. Reports(q) = z
          BY <4>5, <4>7, <4>8, SameList
        <4> QED
          BY <4>9 DEF z, m
      <3>5. ~(Len(s) < n) /\ Len(s) # 1
        BY <1>1, <1>3, <1>8, <2>9
      <3>6. Reports(q) = AddedTo(s, x, n, r.discard)
        BY <1>8, <3>4, <3>5 DEF AddedTo
      <3> QED
        BY <3>6 DEF q, s, n
    <2> QED
      BY <1>1, <2>8, <2>9
  <1>9. CASE r.count = n /\ ~r.discard
    <2> DEFINE pt == PreviousIndex(r.tail, n)
               m == [x EXCEPT !.ovf = TRUE]
    <2>1. r.tail = r.head
      BY <1>1, <1>2, <1>9 DEF at, Behind
    <2>2. pt = at(n) /\ n \in 1 .. n
      BY <1>1, <2>1, NextBehind DEF at
    <2>3. q.cell = MarkOverflow([r.cell EXCEPT ![pt] = x], pt) /\ q.head = r.head /\ q.count = n /\ q.size = n
      BY <1>9, <1>11
    <2>4. pt \in Cells
      BY <1>5, <2>2
    <2> HIDE DEF pt
    <2>5. q.cell[pt] = m /\ \A c \in Cells : c # pt => q.cell[c] = r.cell[c]
      BY <1>1, <2>3, <2>4, Zenon DEF MarkOverflow
    <2>6. \A j \in 1 .. n : Reports(q)[j] = q.cell[at(j)]
      BY <1>4, <2>3 DEF at
    <2>7. Reports(q)[n] = m
      BY <2>2, <2>5, <2>6
    <2>8. \A j \in 1 .. n - 1 : Reports(q)[j] = s[j]
      <3> TAKE j \in 1 .. n - 1
      <3>1. j \in 1 .. n /\ j # n
        BY <1>1
      <3>2. at(j) \in Cells /\ at(j) # pt
        BY <1>5, <1>6, <2>2, <3>1
      <3> QED
        BY <1>3, <1>9, <2>5, <2>6, <3>1, <3>2
    <2>9. m \in Kept
      BY ZenonT(60) DEF Kept
    <2> HIDE DEF m
    <2>10. Len(Reports(q)) = n /\ Reports(q) \in Seq(Kept)
      BY <1>4, <2>3
    <2>11. Reports(q) = [s EXCEPT ![n] = m]
      BY <1>1, <1>3, <1>9, <2>7, <2>8, <2>9, <2>10
    <2>12. n = 1 => Reports(q) = <<m>>
      BY <2>7, <2>10
    <2>13. ~(Len(s) < n) /\ Len(s) = n
      BY <1>1, <1>3, <1>9
    <2>14. AddedTo(s, x, n, r.discard) = IF n = 1 THEN <<m>> ELSE [s EXCEPT ![n] = m]
      BY <1>9, <2>13 DEF AddedTo, m
    <2>15. Reports(q) = AddedTo(s, x, n, r.discard)
      BY <2>11, <2>12, <2>14, ZenonT(60)
    <2> QED
      BY <2>15 DEF q, s, n
  <1> QED
    BY <1>1, <1>7, <1>8, <1>9, RingFields

(* The report added last is the newest of the list, marked or not. *)
LEMMA EnqueueNewest ==
  ASSUME NEW r \in RingType, NEW x \in Kept, Sound(r),
         NEW q, q = EnqueueReport(r, x)
  PROVE  Reports(q)[q.count].v = x.v /\ Reports(q)[q.count].st = x.st
  <1> DEFINE s == Reports(r)
             z == AddedTo(s, x, r.size, r.discard)
             m == [x EXCEPT !.ovf = TRUE]
  <1>1. s \in Seq(Kept) /\ Len(s) = r.count /\ r.size \in Nat \ {0} /\ r.count \in 0 .. r.size
    BY RingFields, ReportsFacts, EffectiveSound
  <1>2. /\ Reports(q) = z /\ Len(Reports(q)) = q.count
    BY EnqueueAdds, EnqueueFields, EnqueueSound, ReportsFacts
  <1>3. m \in Kept /\ m.v = x.v /\ m.st = x.st
    BY Zenon DEF Kept
  <1> HIDE DEF s, z, m
  <1>4. z[Len(z)] \in {x, m}
    <2>1. CASE Len(s) < r.size
      BY <1>1, <2>1 DEF AddedTo, z
    <2>2. CASE ~(Len(s) < r.size) /\ Len(s) = 1
      <3>1. z = <<m>>
        BY <2>2, Zenon DEF AddedTo, z, m
      <3> QED
        BY <3>1
    <2>3. CASE ~(Len(s) < r.size) /\ Len(s) # 1 /\ r.discard
      <3> DEFINE a == [s[2] EXCEPT !.ovf = TRUE]
                 b == SubSeq(s, 3, Len(s))
      <3>1. b \in Seq(Kept)
        BY <1>1
      <3>2. z = <<a>> \o Append(b, x)
        BY <2>3 DEF AddedTo, z
      <3>3. a \in Kept
        <4>1. s[2] \in Kept
          BY <1>1, <2>3
        <4> QED
          BY <4>1, Zenon DEF Kept
      <3> HIDE DEF a, b
      <3>4. /\ <<a>> \in Seq(Kept) /\ Append(b, x) \in Seq(Kept)
            /\ Len(Append(b, x)) = Len(b) + 1 /\ Append(b, x)[Len(b) + 1] = x /\ Len(b) \in Nat
        BY <3>1, <3>3
      <3>5. Len(z) = Len(b) + 2 /\ z[Len(b) + 2] = x
        BY <3>2, <3>3, <3>4
      <3> QED
        BY <3>5
    <2>4. CASE ~(Len(s) < r.size) /\ Len(s) # 1 /\ ~r.discard
      <3>1. z = [s EXCEPT ![Len(s)] = m]
        BY <2>4 DEF AddedTo, z, m
      <3> QED
        BY <1>1, <2>4, <3>1
    <2> QED
      BY <2>1, <2>2, <2>3, <2>4
  <1> QED
    BY <1>2, <1>3, <1>4

-----------------------------------------------------------------------------
(* Reports are taken *)

(* monitored_item_drain_reported_entries makes q of the ring r, pulled into   *)
(* its size as e, when k reports have been sent.                              *)
DrainsAs(r, e, k, q) ==
  /\ q.size = r.size /\ q.discard = r.discard /\ q.cell = r.cell
  /\ q.count = e.count - Drained(e, k)
  /\ Drained(e, k) = e.count => q.head = 0 /\ q.tail = 0
  /\ Drained(e, k) # e.count => q.head = Behind(e.head, Drained(e, k), r.size) /\ q.tail = e.tail

(* What monitored_item_drain_reported_entries makes of a ring. *)
LEMMA DrainFields ==
  ASSUME NEW r \in RingType, NEW k \in Nat
  PROVE  /\ DrainsAs(r, Effective(r), k, DrainReported(r, k))
         /\ DrainReported(r, k) \in RingType
         /\ Drained(Effective(r), k) \in 0 .. Effective(r).count
  <1> DEFINE e == Effective(r)
             n == Drained(e, k)
             q == DrainReported(r, k)
  <1>1. /\ e \in RingType /\ e.cell = r.cell /\ e.size = r.size /\ e.discard = r.discard
        /\ e.head \in 0 .. r.size - 1 /\ e.count \in 0 .. r.size
    BY EffectiveFields, EffectiveInside
  <1>2. r.size \in 1 .. Depth /\ r.size \in Nat \ {0} /\ 0 .. r.size - 1 \subseteq Cells
    BY RingFields
  <1>3. n \in 0 .. e.count
    BY <1>1, <1>2 DEF Drained
  <1>4. q = IF n = e.count
            THEN [e EXCEPT !.head = 0, !.tail = 0, !.count = 0]
            ELSE [e EXCEPT !.head = Walk(e.head, n, e.size), !.count = e.count - n]
    BY DEF DrainReported
  <1>5. n \in 0 .. r.size
    BY <1>1, <1>2, <1>3
  <1>6. Walk(e.head, n, e.size) = Behind(e.head, n, r.size) /\ Behind(e.head, n, r.size) \in Cells
    BY <1>1, <1>2, <1>5, WalkIsBehind, ZenonT(60)
  <1>7. 0 \in Cells /\ 0 \in 0 .. Depth /\ e.count - n \in 0 .. Depth
    BY <1>1, <1>2, <1>3, DepthAssumption DEF Cells
  <1> HIDE DEF e, n, q
  <1>8. CASE n = e.count
    <2>1. q = [e EXCEPT !.head = 0, !.tail = 0, !.count = 0]
      BY <1>4, <1>8
    <2>2. /\ q \in RingType /\ q.size = r.size /\ q.discard = r.discard /\ q.cell = r.cell
          /\ q.head = 0 /\ q.tail = 0 /\ q.count = 0
      BY <1>1, <1>7, <2>1, Zenon DEF RingType
    <2>3. e.count - n = 0
      BY <1>1, <1>2, <1>8
    <2> QED
      BY <1>3, <1>8, <2>2, <2>3 DEF DrainsAs, e, n, q
  <1>9. CASE n # e.count
    <2> DEFINE h == Behind(e.head, n, r.size)
               c == e.count - n
    <2>1. q = [e EXCEPT !.head = h, !.count = c] /\ h \in Cells /\ c \in 0 .. Depth
      BY <1>4, <1>6, <1>7, <1>9
    <2> HIDE DEF h, c
    <2>2. /\ q \in RingType /\ q.size = r.size /\ q.discard = r.discard /\ q.cell = r.cell
          /\ q.head = h /\ q.tail = e.tail /\ q.count = c
      BY <1>1, <2>1, Zenon DEF RingType
    <2> QED
      BY <1>3, <1>9, <2>2 DEF DrainsAs, e, n, q, h, c
  <1> QED
    BY <1>8, <1>9

(* The sound ring q holds what is left of r without its n oldest reports.     *)
FrontTaken(r, q, n) ==
  /\ Sound(q) /\ q.count = r.count - n /\ n \in 0 .. r.count
  /\ Reports(q) = SubSeq(Reports(r), n + 1, r.count)
  /\ q.count > 0 => Reports(q)[q.count] = Reports(r)[r.count]

(* Draining a sound ring leaves it sound and takes the front of its list.     *)
LEMMA DrainTakesFront ==
  ASSUME NEW r \in RingType, Sound(r), NEW k \in Nat,
         NEW q, q = DrainReported(r, k), NEW n, n = IF k < r.count THEN k ELSE r.count
  PROVE  FrontTaken(r, q, n)
  <1> DEFINE e == Effective(r)
             s == Reports(r)
  <1>1. /\ r.size \in Nat \ {0} /\ r.head \in 0 .. r.size - 1 /\ r.tail \in 0 .. r.size - 1
        /\ r.count \in 0 .. r.size
        /\ e.head = r.head /\ e.tail = r.tail /\ e.count = r.count
    BY RingFields, EffectiveSound
  <1>2. r.tail = Behind(r.head, r.count, r.size)
    BY DEF Sound
  <1>3. s \in Seq(Kept) /\ Len(s) = r.count
        /\ \A j \in 1 .. r.count : s[j] = r.cell[Behind(r.head, j - 1, r.size)]
    BY ReportsFacts
  <1>4. DrainsAs(r, e, k, q) /\ q \in RingType
    BY DrainFields
  <1> HIDE DEF e, s
  <1>5. Drained(e, k) = n /\ n \in 0 .. r.count /\ n \in Nat
    BY <1>1 DEF Drained
  <1>6. /\ q.size = r.size /\ q.cell = r.cell /\ q.count = r.count - n
        /\ n = r.count => q.head = 0 /\ q.tail = 0
        /\ n # r.count => q.head = Behind(r.head, n, r.size) /\ q.tail = r.tail
    BY <1>1, <1>4, <1>5 DEF DrainsAs
  <1>7. CASE n = r.count
    <2>1. q.count = 0
      BY <1>1, <1>6, <1>7
    <2>2. Sound(q)
      BY <1>1, <1>6, <1>7, <2>1 DEF Sound, Behind
    <2>3. Reports(q) = <<>>
      BY <1>4, <2>1, <2>2, ReportsFacts
    <2>4. SubSeq(s, n + 1, r.count) = <<>>
      BY <1>1, <1>3, <1>7
    <2>5. ~(q.count > 0)
      BY <2>1
    <2>6. Reports(q) = SubSeq(s, n + 1, r.count)
      BY <2>3, <2>4, Zenon
    <2> QED
      BY <1>5, <1>6, <2>2, <2>5, <2>6 DEF s, FrontTaken
  <1>8. CASE n # r.count
    <2>1. q.head = Behind(r.head, n, r.size) /\ q.tail = r.tail
      BY <1>6, <1>8
    <2>2. n \in 0 .. r.size /\ r.count - n \in 0 .. r.size /\ n + (r.count - n) = r.count /\ r.count - n > 0
      BY <1>1, <1>5, <1>8
    <2>3. q.head \in 0 .. r.size - 1
      BY <1>1, <2>1, <2>2, WalkIsBehind, Zenon
    <2>4. Behind(q.head, r.count - n, r.size) = r.tail
      BY <1>1, <1>2, <2>1, <2>2, BehindBehind
    <2>5. Sound(q)
      BY <1>1, <1>6, <2>1, <2>2, <2>3, <2>4 DEF Sound
    <2>6. /\ Len(Reports(q)) = q.count /\ Reports(q) \in Seq(Kept)
          /\ \A j \in 1 .. q.count : Reports(q)[j] = q.cell[Behind(q.head, j - 1, q.size)]
      BY <1>4, <2>5, ReportsFacts
    <2>7. \A j \in 1 .. q.count : Reports(q)[j] = s[n + j]
      <3> TAKE j \in 1 .. q.count
      <3>1. /\ j - 1 \in 0 .. r.size /\ n + (j - 1) <= r.size /\ n + (j - 1) = (n + j) - 1
            /\ n + j \in 1 .. r.count
        BY <1>1, <1>5, <1>6, <2>2
      <3>2. Behind(q.head, j - 1, r.size) = Behind(r.head, n + (j - 1), r.size)
        BY <1>1, <2>1, <2>2, <3>1, BehindBehind
      <3>3. Reports(q)[j] = r.cell[Behind(r.head, n + (j - 1), r.size)]
        BY <1>6, <2>6, <3>2
      <3>4. s[n + j] = r.cell[Behind(r.head, (n + j) - 1, r.size)]
        BY <1>3, <3>1
      <3> QED
        BY <3>1, <3>3, <3>4
    <2>8. /\ SubSeq(s, n + 1, r.count) \in Seq(Kept) /\ Len(SubSeq(s, n + 1, r.count)) = r.count - n
          /\ \A j \in 1 .. r.count - n : SubSeq(s, n + 1, r.count)[j] = s[n + j]
      BY <1>1, <1>3, <1>5, <2>2
    <2>9. Reports(q) = SubSeq(s, n + 1, r.count)
      BY <1>6, <2>6, <2>7, <2>8, SameList
    <2>10. Reports(q)[q.count] = s[r.count]
      BY <1>6, <2>2, <2>7
    <2> QED
      BY <1>5, <1>6, <2>5, <2>9, <2>10, Zenon DEF s, FrontTaken
  <1> QED
    BY <1>7, <1>8

-----------------------------------------------------------------------------
(* Rings as requests leave them *)

(* A clamped queue size is at least one and at most the depth. *)
LEMMA ClampFacts ==
  ASSUME NEW n \in Nat
  PROVE  ClampQueueSize(n) \in 1 .. Depth
  BY DepthAssumption DEF ClampQueueSize

(* A new ring is empty and sound. *)
LEMMA EmptyRingFacts ==
  ASSUME NEW n \in Nat, NEW d \in BOOLEAN
  PROVE  /\ EmptyRing(n, d) \in RingType /\ Sound(EmptyRing(n, d))
         /\ EmptyRing(n, d).count = 0 /\ EmptyRing(n, d).discard = d
         /\ EmptyRing(n, d).size = ClampQueueSize(n)
  <1>1. ClampQueueSize(n) \in 1 .. Depth
    BY ClampFacts
  <1>2. NoReport \in Kept
    BY DEF NoReport, Kept
  <1>3. 0 \in Cells /\ 0 \in 0 .. Depth
    BY DepthAssumption DEF Cells
  <1>4. EmptyRing(n, d) \in RingType
    BY <1>1, <1>2, <1>3 DEF EmptyRing, RingType
  <1>5. /\ EmptyRing(n, d).count = 0 /\ EmptyRing(n, d).discard = d
        /\ EmptyRing(n, d).size = ClampQueueSize(n)
        /\ EmptyRing(n, d).head = 0 /\ EmptyRing(n, d).tail = 0
    BY DEF EmptyRing
  <1> QED
    BY <1>1, <1>4, <1>5, DepthAssumption DEF Sound, Behind

(* An empty ring holds no reports. *)
LEMMA NoReports ==
  ASSUME NEW r, r.count = 0
  PROVE  Reports(r) = <<>>
  BY DEF Reports

-----------------------------------------------------------------------------
(* The inductive invariant *)

Shown == [v : Value \cup {Null}, st : {"good", "bad"}]

Made == [v : Value \cup {Null}, st : {"good", "bad"}, ovf : {FALSE}]

LinkSet == {L \in SUBSET Nat : IsFiniteSet(L) /\ Cardinality(L) <= MaxLinks}

Mode == {"disabled", "sampling", "reporting"}

ItemType ==
  [used : BOOLEAN, id : Nat, node : Node, mode : Mode, trigger : Triggers \cup {"status"},
   deadband : Deadbands \cup {0}, hasValue : BOOLEAN, pending : BOOLEAN, semantics : BOOLEAN,
   hasReported : BOOLEAN, last : Shown, lastNumber : Int, ring : RingType, links : LinkSet]

Used == {s \in Slot : item[s].used}

Typed ==
  /\ item \in [Slot -> ItemType]
  /\ \A s \in Slot : IF item[s].used THEN item[s].id # 0 ELSE item[s] = Free
  /\ nextId \in Nat \ {0}
  /\ active = Cardinality(Used)
  /\ limit \in Nat
  /\ enabled \in BOOLEAN /\ resend \in BOOLEAN /\ resized \in BOOLEAN /\ reenabled \in BOOLEAN
  /\ source \in [Node -> Reading]
  /\ phase \in {"idle", "publish", "emit"}
  /\ bitmap \subseteq Slot
  /\ told = [s \in Slot |-> told[s]]

(* During a tick the bitmap has every item with something to report. *)
Covered == phase # "idle" => \A s \in Slot : item[s].used /\ Waiting(item[s]) => s \in bitmap

(* An item that owes a report and has a value has it in its queue. *)
Ready(it) == it.used /\ it.mode # "disabled" /\ it.hasValue /\ it.pending => it.ring.count > 0

Prepared == phase = "emit" /\ enabled => \A s \in Slot : Ready(item[s])

(* The newest report of an item with a value is the value; if there is none,  *)
(* the value is owed or what the client was told (t).                         *)
CaughtUp(it, t) ==
  it.hasValue =>
    IF it.ring.count > 0
    THEN /\ Reports(it.ring)[it.ring.count].v = it.last.v
         /\ Reports(it.ring)[it.ring.count].st = it.last.st
    ELSE it.pending \/ t = it.last

RingsSound == ~resized => \A s \in Slot : Sound(item[s].ring)

AllCaughtUp == ~resized /\ ~reenabled => \A s \in Slot : CaughtUp(item[s], told[s])

IInv == Typed /\ Covered /\ Prepared /\ RingsSound /\ AllCaughtUp

(* What every slot holds: an item with an id, or nothing. *)
Fine(it) == it \in ItemType /\ IF it.used THEN it.id # 0 ELSE it = Free

(* Between two ticks the invariant is about the items alone. *)
LEMMA Rests ==
  ASSUME phase' = "idle"
  PROVE  Covered' /\ Prepared'
  BY DEF Covered, Prepared

(* An item of a typed table. *)
LEMMA TypedFacts ==
  ASSUME Typed, NEW s \in Slot
  PROVE  item[s] \in ItemType /\ Fine(item[s])
  BY DEF Typed, Fine

(* A step between ticks that keeps the same items in use. *)
LEMMA QuietStep ==
  ASSUME IInv, phase' = "idle", item' \in [Slot -> ItemType],
         \A s \in Slot : Fine(item[s]') /\ item[s].used' = item[s].used,
         nextId' = nextId, active' = active, limit' = limit, enabled' \in BOOLEAN,
         resend' \in BOOLEAN, source' \in [Node -> Reading], bitmap' \subseteq Slot, told' = told,
         resized' \in BOOLEAN, reenabled' \in BOOLEAN, resized => resized', reenabled => reenabled',
         ~resized' => \A s \in Slot : Sound(item[s].ring) => Sound(item[s].ring'),
         ~resized' /\ ~reenabled' => \A s \in Slot : CaughtUp(item[s], told[s]) => CaughtUp(item[s]', told[s])
  PROVE  IInv'
  <1>1. Used' = Used
    BY DEF Used
  <1>2. Typed'
    BY <1>1 DEF IInv, Typed, Fine
  <1>3. RingsSound'
    BY DEF IInv, RingsSound
  <1>4. AllCaughtUp'
    BY DEF IInv, AllCaughtUp
  <1> QED
    BY <1>2, <1>3, <1>4, Rests DEF IInv

(* A step between ticks that leaves the items alone. *)
LEMMA ItemsAlone ==
  ASSUME IInv, phase' = "idle", enabled' \in BOOLEAN, resend' \in BOOLEAN,
         source' \in [Node -> Reading], bitmap' \subseteq Slot,
         UNCHANGED <<item, nextId, active, limit, told, resized, reenabled>>
  PROVE  IInv'
  <1>1. Typed
    BY DEF IInv
  <1>2. item' \in [Slot -> ItemType] /\ resized' \in BOOLEAN /\ reenabled' \in BOOLEAN
    BY <1>1 DEF Typed
  <1>3. \A s \in Slot : Fine(item[s]') /\ item[s].used' = item[s].used
    BY <1>1, TypedFacts
  <1> QED
    BY <1>2, <1>3, QuietStep

-----------------------------------------------------------------------------
(* What sampling and preparing do to an item *)

(* The part of an item that no sample and no notification changes. *)
SameItem(it, q) ==
  /\ q.used = it.used /\ q.id = it.id /\ q.node = it.node /\ q.mode = it.mode
  /\ q.links = it.links /\ q.semantics = it.semantics

(* The fields of an item. *)
LEMMA ItemFields ==
  ASSUME NEW it \in ItemType
  PROVE  /\ it.used \in BOOLEAN /\ it.id \in Nat /\ it.node \in Node /\ it.mode \in Mode
         /\ it.hasValue \in BOOLEAN /\ it.pending \in BOOLEAN /\ it.semantics \in BOOLEAN
         /\ it.hasReported \in BOOLEAN /\ it.last \in Shown /\ it.lastNumber \in Int
         /\ it.ring \in RingType /\ it.links \in LinkSet
         /\ it.ring.count \in 0 .. Depth /\ it.ring.count \in Nat
  BY RingFields DEF ItemType

(* record_reported_value *)
LEMMA RecordItem ==
  ASSUME NEW it \in ItemType, NEW x \in Shown
  PROVE  /\ RecordReported(it, x) \in ItemType /\ SameItem(it, RecordReported(it, x))
         /\ RecordReported(it, x).hasValue = it.hasValue
         /\ RecordReported(it, x).pending = it.pending
         /\ RecordReported(it, x).last = it.last
         /\ RecordReported(it, x).ring = it.ring
  <1> DEFINE n == IF IsNumber(x.v) THEN x.v ELSE it.lastNumber
  <1>1. n \in Int
    BY ItemFields, ItemsAssumption, Zenon DEF Shown, IsNumber
  <1>2. RecordReported(it, x) = [it EXCEPT !.hasReported = TRUE, !.lastNumber = n]
    BY DEF RecordReported
  <1> HIDE DEF n
  <1> QED
    BY <1>1, <1>2, Zenon DEF ItemType, SameItem

(* What is shown is a number, the code for no value included. *)
LEMMA ValuesAreInts == \A v \in Value \cup {Null} : v \in Int
  <1>1. Null \in Int
    BY DEF Null
  <1>2. \A v \in Value : v \in Int
    BY ItemsAssumption, Zenon
  <1> QED
    BY <1>1, <1>2, Zenon

(* A reading as a report. *)
LEMMA MadeReport ==
  ASSUME NEW x \in Shown
  PROVE  AsReport(x) \in Made /\ AsReport(x) \in Kept /\ AsReport(x).v = x.v /\ AsReport(x).st = x.st
  <1>1. x.v \in Value \cup {Null} /\ x.st \in {"good", "bad"}
    BY DEF Shown
  <1>2. x.v \in Int
    BY <1>1, ValuesAreInts, Zenon
  <1>3. AsReport(x) = [v |-> x.v, st |-> x.st, ovf |-> FALSE]
    BY DEF AsReport
  <1>4. AsReport(x) \in Made
    BY <1>1, <1>3 DEF Made
  <1>5. AsReport(x) \in Kept
    BY <1>1, <1>2, <1>3 DEF Kept
  <1> QED
    BY <1>3, <1>4, <1>5

(* enqueue_report of the tick: record and queue. *)
LEMMA EnqueueItem ==
  ASSUME NEW it \in ItemType, NEW x \in Shown
  PROVE  /\ Enqueue(it, x) \in ItemType /\ SameItem(it, Enqueue(it, x))
         /\ Enqueue(it, x).hasValue = it.hasValue
         /\ Enqueue(it, x).pending
         /\ Enqueue(it, x).last = it.last
         /\ Enqueue(it, x).ring = EnqueueReport(it.ring, AsReport(x))
         /\ Enqueue(it, x).ring.count > 0
  <1> DEFINE r == RecordReported(it, x)
             q == EnqueueReport(it.ring, AsReport(x))
             p == q.count > 0
  <1>1. r \in ItemType /\ SameItem(it, r) /\ r.hasValue = it.hasValue /\ r.last = it.last
    BY RecordItem
  <1>2. q \in RingType /\ q.count > 0
    BY EnqueueFields, MadeReport, ItemFields
  <1>3. Enqueue(it, x) = [r EXCEPT !.ring = q, !.pending = p]
    BY DEF Enqueue
  <1>4. p = TRUE
    BY <1>2
  <1> HIDE DEF r, q, p
  <1>5. Enqueue(it, x) = [r EXCEPT !.ring = q, !.pending = TRUE]
    BY <1>3, <1>4
  <1>6. /\ Enqueue(it, x) \in ItemType /\ SameItem(r, Enqueue(it, x))
        /\ Enqueue(it, x).hasValue = r.hasValue /\ Enqueue(it, x).last = r.last
        /\ Enqueue(it, x).pending = TRUE /\ Enqueue(it, x).ring = q
    BY <1>1, <1>2, <1>5, Zenon DEF ItemType, SameItem
  <1>7. SameItem(it, Enqueue(it, x))
    BY <1>1, <1>6 DEF SameItem
  <1> QED
    BY <1>1, <1>2, <1>6, <1>7 DEF q

(* How the ring of an item grows: by nothing, by a report, or, if it was      *)
(* empty, by the report that was owed and another one.                        *)
Grown(r, q) ==
  \/ q = r
  \/ \E a \in Made : q = EnqueueReport(r, a)
  \/ r.count = 0 /\ \E a, b \in Made : q = EnqueueReport(EnqueueReport(r, a), b)

(* A report that was made can be kept. *)
LEMMA MadeKept ==
  ASSUME NEW a \in Made
  PROVE  a \in Kept
  <1>1. /\ a = [v |-> a.v, st |-> a.st, ovf |-> a.ovf]
        /\ a.v \in Value \cup {Null} /\ a.st \in {"good", "bad"} /\ a.ovf \in BOOLEAN
    BY Zenon DEF Made
  <1>2. a.v \in Int
    BY <1>1, ValuesAreInts, Zenon
  <1> QED
    BY <1>1, <1>2 DEF Kept

(* A ring that has grown is still one, and as sound as it was. *)
LEMMA GrownRing ==
  ASSUME NEW r \in RingType, NEW q, Grown(r, q)
  PROVE  /\ q \in RingType /\ q.size = r.size /\ q.discard = r.discard
         /\ Sound(r) => Sound(q)
  <1>1. ASSUME NEW p \in RingType, NEW a \in Made
        PROVE  /\ EnqueueReport(p, a) \in RingType
               /\ EnqueueReport(p, a).size = p.size /\ EnqueueReport(p, a).discard = p.discard
               /\ Sound(p) => Sound(EnqueueReport(p, a))
    <2>1. a \in Kept
      BY MadeKept
    <2>2. AddsAs(p, Effective(p), a, EnqueueReport(p, a)) /\ EnqueueReport(p, a) \in RingType
      BY <2>1, EnqueueFields
    <2>3. EnqueueReport(p, a).size = p.size /\ EnqueueReport(p, a).discard = p.discard
      BY <2>2 DEF AddsAs
    <2> QED
      BY <2>1, <2>2, <2>3, EnqueueSound
  <1>2. CASE q = r
    BY <1>2
  <1>3. CASE \E a \in Made : q = EnqueueReport(r, a)
    BY <1>1, <1>3
  <1>4. CASE \E a, b \in Made : q = EnqueueReport(EnqueueReport(r, a), b)
    <2>1. PICK a \in Made, b \in Made : q = EnqueueReport(EnqueueReport(r, a), b)
      BY <1>4
    <2> DEFINE p == EnqueueReport(r, a)
    <2>2. p \in RingType /\ p.size = r.size /\ p.discard = r.discard /\ (Sound(r) => Sound(p))
      BY <1>1
    <2> HIDE DEF p
    <2>3. /\ EnqueueReport(p, b) \in RingType
          /\ EnqueueReport(p, b).size = p.size /\ EnqueueReport(p, b).discard = p.discard
          /\ Sound(p) => Sound(EnqueueReport(p, b))
      BY <1>1, <2>2
    <2>4. q = EnqueueReport(p, b)
      BY <2>1 DEF p
    <2> QED
      BY <2>2, <2>3, <2>4
  <1> QED
    BY <1>2, <1>3, <1>4 DEF Grown

(* A reading is a value an item can show. *)
LEMMA ReadingShown ==
  ASSUME NEW n \in Node, source \in [Node -> Reading]
  PROVE  source[n] \in Shown /\ (source[n].st = "good" \/ source[n] = Bad)
  BY DEF Reading, Bad, Shown, Null

(* A queued reading is the newest report. *)
LEMMA EnqueuedNewest ==
  ASSUME NEW it \in ItemType, NEW x \in Shown, Sound(it.ring), it.last = x, NEW t
  PROVE  CaughtUp(Enqueue(it, x), t)
  <1> DEFINE q == Enqueue(it, x)
             a == AsReport(x)
  <1>1. q.last = x /\ q.ring = EnqueueReport(it.ring, a) /\ q.ring.count > 0
    BY EnqueueItem
  <1>2. a \in Kept /\ a.v = x.v /\ a.st = x.st
    BY MadeReport
  <1>3. it.ring \in RingType
    BY ItemFields
  <1> HIDE DEF q, a
  <1>4. Reports(q.ring)[q.ring.count].v = a.v /\ Reports(q.ring)[q.ring.count].st = a.st
    BY <1>1, <1>2, <1>3, EnqueueNewest, Zenon
  <1>5. CaughtUp(q, t)
    BY <1>1, <1>2, <1>4, Zenon DEF CaughtUp
  <1> QED
    BY <1>5 DEF q

(* prepare_pending_queue: a value that is owed is in the queue afterwards. *)
LEMMA PrepareItem ==
  ASSUME NEW it \in ItemType
  PROVE  /\ PreparePendingQueue(it) \in ItemType /\ SameItem(it, PreparePendingQueue(it))
         /\ PreparePendingQueue(it).hasValue = it.hasValue
         /\ PreparePendingQueue(it).last = it.last
         /\ Ready(PreparePendingQueue(it))
         /\ Waiting(PreparePendingQueue(it)) => Waiting(it)
         /\ \/ PreparePendingQueue(it).ring = it.ring
            \/ /\ it.ring.count = 0
               /\ PreparePendingQueue(it).ring = EnqueueReport(it.ring, AsReport(it.last))
         /\ \A t : Sound(it.ring) /\ CaughtUp(it, t) => CaughtUp(PreparePendingQueue(it), t)
  <1> DEFINE q == PreparePendingQueue(it)
  <1>1. it.last \in Shown /\ it.ring.count \in Nat
    BY ItemFields
  <1>2. CASE it.pending /\ it.ring.count = 0 /\ it.hasValue
    <2>1. q = Enqueue(it, it.last)
      BY <1>2 DEF PreparePendingQueue
    <2>2. /\ q \in ItemType /\ SameItem(it, q) /\ q.hasValue = it.hasValue /\ q.last = it.last
          /\ q.ring = EnqueueReport(it.ring, AsReport(it.last)) /\ q.ring.count > 0
      BY <1>1, <2>1, EnqueueItem
    <2>3. \A t : Sound(it.ring) => CaughtUp(q, t)
      BY <1>1, <2>1, EnqueuedNewest
    <2>4. Waiting(it) /\ Ready(q)
      BY <1>2, <2>2, Zenon DEF Waiting, Ready
    <2> QED
      BY <1>2, <2>2, <2>3, <2>4
  <1>3. CASE ~(it.pending /\ it.ring.count = 0 /\ it.hasValue)
    <2>1. /\ q \in ItemType /\ SameItem(it, q) /\ q.hasValue = it.hasValue /\ q.last = it.last
          /\ q.ring = it.ring /\ q.pending = it.pending
      <3>1. q = it \/ q = RecordReported(it, it.last)
        BY <1>3 DEF PreparePendingQueue
      <3>2. CASE q = it
        BY <3>2 DEF SameItem
      <3>3. CASE q = RecordReported(it, it.last)
        BY <1>1, <3>3, RecordItem
      <3> QED
        BY <3>1, <3>2, <3>3
    <2> HIDE DEF q
    <2>2. Ready(q)
      BY <1>1, <1>3, <2>1 DEF Ready
    <2>3. Waiting(q) => Waiting(it)
      BY <2>1 DEF Waiting
    <2>4. \A t : CaughtUp(it, t) => CaughtUp(q, t)
      BY <2>1 DEF CaughtUp
    <2>5. q.ring = it.ring
      BY <2>1
    <2> QED
      BY <2>1, <2>2, <2>3, <2>4, <2>5, Zenon DEF q
  <1> QED
    BY <1>2, <1>3

(* process_sample: what the filter lets pass is the newest report. *)
LEMMA SampledItem ==
  ASSUME NEW it \in ItemType, NEW x \in Shown
  PROVE  /\ Sampled(it, x) \in ItemType /\ SameItem(it, Sampled(it, x))
         /\ \/ Sampled(it, x).ring = it.ring
            \/ Sampled(it, x).ring = EnqueueReport(it.ring, AsReport(x))
         /\ \A t : Sound(it.ring) /\ CaughtUp(it, t) => CaughtUp(Sampled(it, x), t)
  <1> DEFINE q == Sampled(it, x)
             m == [it EXCEPT !.hasValue = TRUE, !.last = x]
  <1>1. m \in ItemType /\ SameItem(it, m) /\ m.ring = it.ring /\ m.last = x
    BY Zenon DEF ItemType, SameItem
  <1>2. q = it \/ q = Enqueue(m, x)
    BY DEF Sampled
  <1>3. CASE q = it
    BY <1>3 DEF SameItem
  <1>4. CASE q = Enqueue(m, x)
    <2> HIDE DEF m
    <2>1. q \in ItemType /\ SameItem(m, q) /\ q.ring = EnqueueReport(m.ring, AsReport(x))
      BY <1>1, <1>4, EnqueueItem
    <2>2. SameItem(it, q)
      BY <1>1, <2>1 DEF SameItem
    <2>3. \A t : Sound(m.ring) => CaughtUp(q, t)
      BY <1>1, <1>4, EnqueuedNewest, Zenon
    <2> QED
      BY <1>1, <2>1, <2>2, <2>3
  <1> QED
    BY <1>2, <1>3, <1>4

(* One item in the sampling loop of the tick. *)
LEMMA SampleItem ==
  ASSUME NEW it \in ItemType, source \in [Node -> Reading]
  PROVE  /\ Sample(it) \in ItemType /\ SameItem(it, Sample(it))
         /\ Grown(it.ring, Sample(it).ring)
         /\ \A t : Sound(it.ring) /\ CaughtUp(it, t) => CaughtUp(Sample(it), t)
  <1> DEFINE owed == it.hasValue /\ (~it.hasReported \/ (it.pending /\ it.ring.count = 0))
             p == IF owed THEN PreparePendingQueue(it) ELSE it
             x == source[it.node]
             q == Sampled(p, x)
  <1>1. x \in Shown
    BY ItemFields, ReadingShown
  <1>2. Sample(it) = q
    BY Zenon DEF Sample
  <1>3. /\ p \in ItemType /\ SameItem(it, p)
        /\ \/ p.ring = it.ring
           \/ it.ring.count = 0 /\ p.ring = EnqueueReport(it.ring, AsReport(it.last))
        /\ \A t : Sound(it.ring) /\ CaughtUp(it, t) => CaughtUp(p, t)
    <2>1. CASE owed
      BY <2>1, PrepareItem, Zenon
    <2>2. CASE ~owed
      BY <2>2, Zenon DEF SameItem
    <2> QED
      BY <2>1, <2>2, Zenon
  <1> HIDE DEF p, x
  <1>4. /\ q \in ItemType /\ SameItem(p, q)
        /\ q.ring = p.ring \/ q.ring = EnqueueReport(p.ring, AsReport(x))
        /\ \A t : Sound(p.ring) /\ CaughtUp(p, t) => CaughtUp(q, t)
    BY <1>1, <1>3, SampledItem
  <1>5. AsReport(x) \in Made /\ AsReport(it.last) \in Made
    BY <1>1, ItemFields, MadeReport, Zenon
  <1> HIDE DEF q
  <1>6. SameItem(it, q)
    BY <1>3, <1>4, Zenon DEF SameItem
  <1>7. Grown(it.ring, p.ring) /\ Grown(it.ring, q.ring)
    BY <1>3, <1>4, <1>5, Zenon DEF Grown
  <1>8. Sound(it.ring) => Sound(p.ring)
    BY <1>7, ItemFields, GrownRing, Zenon
  <1> QED
    BY <1>2, <1>3, <1>4, <1>6, <1>7, <1>8, Zenon

(* enqueue_resend_data *)
LEMMA ResentItem ==
  ASSUME NEW it \in ItemType, source \in [Node -> Reading]
  PROVE  /\ Resent(it) \in ItemType /\ SameItem(it, Resent(it))
         /\ Ready(Resent(it))
         /\ \E a \in Made : Resent(it).ring = EnqueueReport(it.ring, a)
         /\ \A t : Sound(it.ring) => CaughtUp(Resent(it), t)
  <1> DEFINE x == source[it.node]
             z == [it.last EXCEPT !.st = "bad"]
             y == IF x.st = "bad" /\ it.hasValue THEN z ELSE x
             m == [it EXCEPT !.last = y, !.hasValue = TRUE]
             q == Enqueue(m, y)
  <1>1. x \in Shown /\ it.last \in Shown
    BY ItemFields, ReadingShown
  <1>2. z \in Shown
    BY <1>1 DEF Shown
  <1>3. y \in Shown
    BY <1>1, <1>2
  <1>4. Resent(it) = q
    BY DEF Resent
  <1> HIDE DEF x, z, y
  <1>5. m \in ItemType /\ SameItem(it, m) /\ m.ring = it.ring /\ m.last = y
    BY <1>3, Zenon DEF ItemType, SameItem
  <1> HIDE DEF m
  <1>6. /\ q \in ItemType /\ SameItem(m, q) /\ q.ring = EnqueueReport(it.ring, AsReport(y))
        /\ q.ring.count > 0
    BY <1>3, <1>5, EnqueueItem
  <1>7. \A t : Sound(it.ring) => CaughtUp(q, t)
    BY <1>3, <1>5, EnqueuedNewest
  <1>8. AsReport(y) \in Made
    BY <1>3, MadeReport
  <1> HIDE DEF q
  <1>9. SameItem(it, q) /\ Ready(q)
    BY <1>5, <1>6 DEF SameItem, Ready
  <1> QED
    BY <1>4, <1>6, <1>7, <1>8, <1>9, Zenon

-----------------------------------------------------------------------------
(* Numbers and finite sets *)

(* What the library proves of numbers and of finite sets, in one formula. The  *)
(* lemmas that need it assume it; ItemsProofs proves it (LibraryHolds).       *)
Library ==
  /\ \A S \in SUBSET Nat : S # {} => \E n \in S : \A m \in S : n <= m
  /\ IsFiniteSet({}) /\ Cardinality({}) = 0
  /\ \A S : IsFiniteSet(S) => Cardinality(S) \in Nat
  /\ \A S, x : IsFiniteSet(S) =>
       /\ IsFiniteSet(S \cup {x})
       /\ Cardinality(S \cup {x}) = IF x \in S THEN Cardinality(S) ELSE Cardinality(S) + 1
       /\ IsFiniteSet(S \ {x})
       /\ Cardinality(S \ {x}) = IF x \in S THEN Cardinality(S) - 1 ELSE Cardinality(S)
  /\ \A S : IsFiniteSet(S) =>
       \A T \in SUBSET S : IsFiniteSet(T) /\ Cardinality(T) <= Cardinality(S)
  /\ \A a, b \in Int : /\ IsFiniteSet(a .. b)
                       /\ Cardinality(a .. b) = IF a > b THEN 0 ELSE b - a + 1

(* A set of numbers that is not empty has a least one. *)
LEMMA LeastNumber ==
  ASSUME Library, NEW S \in SUBSET Nat, S # {}
  PROVE  \E n \in S : \A m \in S : n <= m
  BY Zenon DEF Library

(* The empty set. *)
LEMMA FiniteEmpty ==
  ASSUME Library
  PROVE  IsFiniteSet({}) /\ Cardinality({}) = 0
  BY Zenon DEF Library

(* A finite set has a size. *)
LEMMA FiniteSize ==
  ASSUME Library, NEW S, IsFiniteSet(S)
  PROVE  Cardinality(S) \in Nat
  BY Zenon DEF Library

(* One element more. *)
LEMMA FiniteAdd ==
  ASSUME Library, NEW S, NEW x, IsFiniteSet(S)
  PROVE  /\ IsFiniteSet(S \cup {x})
         /\ Cardinality(S \cup {x}) = IF x \in S THEN Cardinality(S) ELSE Cardinality(S) + 1
  BY Zenon DEF Library

(* One element less. *)
LEMMA FiniteRemove ==
  ASSUME Library, NEW S, NEW x, IsFiniteSet(S)
  PROVE  /\ IsFiniteSet(S \ {x})
         /\ Cardinality(S \ {x}) = IF x \in S THEN Cardinality(S) - 1 ELSE Cardinality(S)
  BY Zenon DEF Library

(* A part of a finite set. *)
LEMMA FiniteSubset ==
  ASSUME Library, NEW S, IsFiniteSet(S), NEW T \in SUBSET S
  PROVE  IsFiniteSet(T) /\ Cardinality(T) <= Cardinality(S)
  BY Zenon DEF Library

(* An interval. *)
LEMMA FiniteInterval ==
  ASSUME Library, NEW a \in Int, NEW b \in Int
  PROVE  /\ IsFiniteSet(a .. b)
         /\ Cardinality(a .. b) = IF a > b THEN 0 ELSE b - a + 1
  BY Zenon DEF Library

-----------------------------------------------------------------------------
(* Items as requests leave them *)

(* An empty slot. *)
LEMMA FreeItem ==
  ASSUME Library
  PROVE  /\ Free \in ItemType /\ ~Free.used /\ Free.id = 0 /\ Free.mode = "disabled" /\ ~Free.hasValue
         /\ ~Free.pending /\ Sound(Free.ring) /\ Free.ring.count = 0
  <1> DEFINE n == CHOOSE n \in Node : TRUE
             r == EmptyRing(1, FALSE)
  <1>1. n \in Node
    BY ItemsAssumption
  <1>2. 1 \in Nat /\ FALSE \in BOOLEAN
    OBVIOUS
  <1>3. r \in RingType /\ Sound(r) /\ r.count = 0
    BY <1>2, EmptyRingFacts, Zenon
  <1>4. Bad \in Shown
    BY DEF Bad, Shown
  <1>5. {} \in LinkSet
    BY FiniteEmpty, ItemsAssumption DEF LinkSet
  <1>6. Free = [used |-> FALSE, id |-> 0, node |-> n, mode |-> "disabled",
                trigger |-> "status", deadband |-> 0, hasValue |-> FALSE, pending |-> FALSE,
                semantics |-> FALSE, hasReported |-> FALSE, last |-> Bad, lastNumber |-> 0,
                ring |-> r, links |-> {}]
    BY DEF Free
  <1> HIDE DEF n, r
  <1> QED
    BY <1>1, <1>3, <1>4, <1>5, <1>6 DEF ItemType, Mode

(* configure_monitored_item *)
LEMMA ConfiguredItem ==
  ASSUME Library, source \in [Node -> Reading], NEW id \in Nat \ {0}, NEW n \in Node, NEW m \in Modes,
         NEW z \in Sizes, NEW d \in Discards, NEW b \in Deadbands, NEW t \in Triggers
  PROVE  /\ Fine(Configured(id, n, m, z, d, b, t))
         /\ Configured(id, n, m, z, d, b, t).used /\ Configured(id, n, m, z, d, b, t).id = id
         /\ Sound(Configured(id, n, m, z, d, b, t).ring)
         /\ Configured(id, n, m, z, d, b, t).ring.count = 0
         /\ \A u : CaughtUp(Configured(id, n, m, z, d, b, t), u)
  <1> DEFINE x == source[n]
             g == x.st = "good"
             r == EmptyRing(z, d)
             c == Configured(id, n, m, z, d, b, t)
  <1>1. x \in Shown /\ g \in BOOLEAN
    BY ReadingShown
  <1>2. z \in Nat /\ d \in BOOLEAN /\ m \in Mode
    BY ItemsAssumption DEF Mode
  <1>3. r \in RingType /\ Sound(r) /\ r.count = 0
    BY <1>2, EmptyRingFacts
  <1>4. c = [Free EXCEPT !.used = TRUE, !.id = id, !.node = n, !.mode = m,
               !.trigger = t, !.deadband = b, !.hasValue = g, !.pending = g,
               !.last = x, !.ring = r]
    BY DEF Configured
  <1>5. Free \in ItemType
    BY FreeItem, Zenon
  <1> HIDE DEF x, g, r, c
  <1>6. c \in ItemType /\ c.used /\ c.id = id /\ c.hasValue = g /\ c.pending = g /\ c.ring = r
    BY <1>1, <1>2, <1>3, <1>4, <1>5, ZenonT(60) DEF ItemType
  <1>7. \A u : CaughtUp(c, u)
    BY <1>3, <1>6 DEF CaughtUp
  <1>8. Fine(c)
    BY <1>6 DEF Fine
  <1> QED
    BY <1>3, <1>6, <1>7, <1>8, Zenon DEF c

(* ModifyMonitoredItems: a ring that is empty or keeps its size stays sound   *)
(* and keeps its reports.                                                     *)
LEMMA ModifiedItem ==
  ASSUME NEW it \in ItemType, NEW z \in Sizes, NEW d \in Discards, NEW b \in Deadbands,
         NEW t \in Triggers, NEW q, q = Modified(it, z, d, b, t)
  PROVE  /\ q \in ItemType /\ SameItem(it, q)
         /\ q.ring.size = ClampQueueSize(z) /\ q.ring.count = it.ring.count
         /\ it.ring.count = 0 \/ q.ring.size = it.ring.size =>
              /\ Sound(it.ring) => Sound(q.ring)
              /\ Reports(q.ring) = Reports(it.ring)
              /\ \A u : CaughtUp(it, u) => CaughtUp(q, u)
  <1> DEFINE n == ClampQueueSize(z)
             r == [it.ring EXCEPT !.size = n, !.discard = d]
  <1>1. z \in Nat /\ d \in BOOLEAN
    BY ItemsAssumption
  <1>2. n \in 1 .. Depth
    BY <1>1, ClampFacts
  <1>3. it.ring \in RingType /\ it.ring.count \in Nat
    BY ItemFields
  <1> HIDE DEF n
  <1>4. /\ r \in RingType /\ r.size = n /\ r.count = it.ring.count /\ r.head = it.ring.head
        /\ r.tail = it.ring.tail /\ r.cell = it.ring.cell
    BY <1>1, <1>2, <1>3, Zenon DEF RingType
  <1>5. q = [it EXCEPT !.ring = r, !.deadband = b, !.trigger = t]
    BY Zenon DEF Modified, Filtered, ItemType, RingType, n
  <1> HIDE DEF r
  <1>6. /\ q \in ItemType /\ SameItem(it, q) /\ q.ring = r /\ q.hasValue = it.hasValue
        /\ q.pending = it.pending /\ q.last = it.last
    <2> DEFINE y == [it EXCEPT !.ring = r]
               w == [it EXCEPT !.ring = r, !.deadband = b, !.trigger = t]
    <2>1. /\ y \in ItemType /\ SameItem(it, y) /\ y.ring = r /\ y.hasValue = it.hasValue
          /\ y.pending = it.pending /\ y.last = it.last
      BY <1>4 DEF ItemType, SameItem
    <2>2. w = [y EXCEPT !.deadband = b, !.trigger = t]
      OBVIOUS
    <2> HIDE DEF y
    <2>3. /\ w \in ItemType /\ SameItem(y, w) /\ w.ring = y.ring /\ w.hasValue = y.hasValue
          /\ w.pending = y.pending /\ w.last = y.last
      BY <2>1, <2>2, Zenon DEF ItemType, SameItem
    <2> HIDE DEF w
    <2>4. SameItem(it, w)
      BY <2>1, <2>3 DEF SameItem
    <2>5. q = w
      BY <1>5 DEF w
    <2> QED
      BY <2>1, <2>3, <2>4, <2>5
  <1>7. ASSUME it.ring.count = 0 \/ n = it.ring.size
        PROVE  Reports(r) = Reports(it.ring) /\ (Sound(it.ring) => Sound(r))
    <2>1. CASE it.ring.count = 0
      <3>1. Reports(r) = <<>> /\ Reports(it.ring) = <<>>
        BY <1>4, <2>1, NoReports, Zenon
      <3>2. Sound(it.ring) => Sound(r)
        BY <1>2, <1>3, <1>4, <2>1, RingFields DEF Sound, Behind
      <3> QED
        BY <3>1, <3>2
    <2>2. CASE n = it.ring.size
      BY <1>4, <2>2, Zenon DEF Reports, Sound
    <2> QED
      BY <1>7, <2>1, <2>2
  <1>8. ASSUME it.ring.count = 0 \/ n = it.ring.size, NEW u, CaughtUp(it, u)
        PROVE  CaughtUp(q, u)
    <2>1. Reports(q.ring) = Reports(it.ring) /\ q.ring.count = it.ring.count
      BY <1>4, <1>6, <1>7, <1>8, Zenon
    <2> QED
      BY <1>6, <1>8, <2>1, Zenon DEF CaughtUp
  <1> QED
    BY <1>4, <1>6, <1>7, <1>8, Zenon DEF n

(* set_monitoring_mode_result *)
LEMMA ModeItem ==
  ASSUME NEW it \in ItemType, it.used, source \in [Node -> Reading], NEW m \in Modes,
         NEW q, q = ModeSet(it, m)
  PROVE  /\ q \in ItemType /\ q.used /\ q.id = it.id /\ q.ring = it.ring
         /\ \/ /\ it.mode = "disabled" /\ m # "disabled"
               /\ it.ring.count > 0 \/ source[it.node].st = "bad"
            \/ \A u : CaughtUp(it, u) => CaughtUp(q, u)
  <1> DEFINE x == source[it.node]
             y == [it EXCEPT !.mode = m]
             z == [it.last EXCEPT !.st = "bad"]
  <1>1. x \in Shown /\ it.last \in Shown /\ m \in Mode
    BY ItemFields, ReadingShown, ItemsAssumption, Zenon DEF Mode
  <1>2. z \in Shown
    BY <1>1 DEF Shown
  <1>3. /\ y \in ItemType /\ y.used = it.used /\ y.id = it.id /\ y.ring = it.ring /\ y.last = it.last
        /\ y.hasValue = it.hasValue /\ y.pending = it.pending
    BY <1>1, Zenon DEF ItemType
  <1>4. CASE it.mode # "disabled" \/ m = "disabled"
    <2>1. q = y
      BY <1>4 DEF ModeSet
    <2> QED
      BY <1>3, <1>4, <2>1 DEF CaughtUp
  <1>5. CASE ~(it.mode # "disabled" \/ m = "disabled") /\ x.st = "good"
    <2>1. q = [y EXCEPT !.last = x, !.hasValue = TRUE, !.pending = TRUE]
      BY <1>5 DEF ModeSet
    <2> HIDE DEF x, y
    <2>2. q \in ItemType /\ q.used = y.used /\ q.id = y.id /\ q.ring = y.ring /\ q.pending
      BY <1>1, <1>3, <2>1, ZenonT(60) DEF ItemType
    <2> QED
      BY <1>3, <1>5, <2>2, Zenon DEF CaughtUp
  <1>6. CASE ~(it.mode # "disabled" \/ m = "disabled") /\ x.st # "good"
    <2>1. q = [y EXCEPT !.last = z]
      BY <1>6 DEF ModeSet
    <2>2. x.st = "bad"
      BY <1>1, <1>6 DEF Shown
    <2> HIDE DEF y, z
    <2>3. q \in ItemType /\ q.used = y.used /\ q.id = y.id /\ q.ring = y.ring
      BY <1>2, <1>3, <2>1, ZenonT(60) DEF ItemType
    <2> QED
      BY <1>3, <1>6, <2>2, <2>3
  <1> QED
    BY <1>4, <1>5, <1>6

(* SetTriggering: at most MaxLinks links. *)
LEMMA LinkSets ==
  ASSUME Library, NEW L \in LinkSet, NEW id \in Nat
  PROVE  Linked(L, id) \in LinkSet /\ Unlinked(L, id) \in LinkSet
  <1>1. L \in SUBSET Nat /\ IsFiniteSet(L) /\ Cardinality(L) <= MaxLinks /\ Cardinality(L) \in Nat
    BY FiniteSize DEF LinkSet
  <1>2. /\ IsFiniteSet(L \cup {id})
        /\ Cardinality(L \cup {id}) = IF id \in L THEN Cardinality(L) ELSE Cardinality(L) + 1
    BY <1>1, FiniteAdd
  <1>3. /\ IsFiniteSet(L \ {id})
        /\ Cardinality(L \ {id}) = IF id \in L THEN Cardinality(L) - 1 ELSE Cardinality(L)
    BY <1>1, FiniteRemove
  <1>4. CASE Cardinality(L) >= MaxLinks
    BY <1>1, <1>3, <1>4, ItemsAssumption DEF Linked, Unlinked, LinkSet
  <1>5. CASE ~(Cardinality(L) >= MaxLinks)
    <2>1. Cardinality(L) + 1 <= MaxLinks
      BY <1>1, <1>5, ItemsAssumption
    <2> QED
      BY <1>1, <1>2, <1>3, <1>5, <2>1, ItemsAssumption DEF Linked, Unlinked, LinkSet
  <1> QED
    BY <1>4, <1>5

-----------------------------------------------------------------------------
(* The invariant is inductive: sampling and preparing *)

(* The items in use can be counted. *)
LEMMA UsedFinite ==
  ASSUME Library
  PROVE  /\ IsFiniteSet(Used) /\ Cardinality(Used) \in Nat
         /\ \A s \in Slot : /\ Cardinality(Used \cup {s}) = IF s \in Used THEN Cardinality(Used) ELSE Cardinality(Used) + 1
                            /\ Cardinality(Used \ {s}) = IF s \in Used THEN Cardinality(Used) - 1 ELSE Cardinality(Used)
  <1>1. IsFiniteSet(Slot)
    BY ItemsAssumption, FiniteInterval DEF Slot
  <1>2. IsFiniteSet(Used)
    BY <1>1, FiniteSubset, Zenon DEF Used
  <1> QED
    BY <1>2, FiniteSize, FiniteAdd, FiniteRemove, Zenon

(* What the first two steps of a tick may do to an item. *)
Grows(it, q) ==
  /\ q \in ItemType /\ SameItem(it, q) /\ Grown(it.ring, q.ring)
  /\ it.used \/ q = it
  /\ \A t : Sound(it.ring) /\ CaughtUp(it, t) => CaughtUp(q, t)

(* An item that is left alone. *)
LEMMA GrowsNot ==
  ASSUME NEW it \in ItemType
  PROVE  Grows(it, it)
  BY DEF Grows, SameItem, Grown

(* A step in which items at most grow keeps types, rings and what clients     *)
(* know.                                                                      *)
LEMMA GrowStep ==
  ASSUME IInv, item' = [s \in Slot |-> item'[s]], \A s \in Slot : Grows(item[s], item[s]'),
         UNCHANGED <<nextId, active, limit, enabled, source, told, resized, reenabled>>,
         resend' \in BOOLEAN, phase' \in {"idle", "publish", "emit"}, bitmap' \subseteq Slot
  PROVE  Typed' /\ RingsSound' /\ AllCaughtUp'
  <1>1. Typed
    BY DEF IInv
  <1>2. item' \in [Slot -> ItemType]
    BY Zenon DEF Grows
  <1>3. \A s \in Slot : Fine(item[s]') /\ item[s].used' = item[s].used
    <2> TAKE s \in Slot
    <2>1. Grows(item[s], item[s]') /\ Fine(item[s])
      BY <1>1, TypedFacts, Zenon
    <2> QED
      BY <2>1, Zenon DEF Grows, Fine, SameItem
  <1>4. Used' = Used
    BY <1>3, Zenon DEF Used
  <1>5. Typed'
    BY <1>1, <1>2, <1>3, <1>4 DEF Typed, Fine
  <1>6. \A s \in Slot : Sound(item[s].ring) => Sound(item[s].ring')
    <2> TAKE s \in Slot
    <2>1. item[s].ring \in RingType /\ Grown(item[s].ring, item[s].ring')
      BY <1>1, TypedFacts, ItemFields, Zenon DEF Grows
    <2> QED
      BY <2>1, GrownRing, Zenon
  <1>7. RingsSound'
    BY <1>6, Zenon DEF IInv, RingsSound
  <1>8. AllCaughtUp'
    <2> SUFFICES ASSUME ~resized', ~reenabled', NEW s \in Slot
                 PROVE  CaughtUp(item[s]', told[s]')
      BY DEF AllCaughtUp
    <2>1. Grows(item[s], item[s]') /\ told[s]' = told[s]
      OBVIOUS
    <2>2. Sound(item[s].ring) /\ CaughtUp(item[s], told[s])
      BY DEF IInv, RingsSound, AllCaughtUp
    <2> QED
      BY <2>1, <2>2, Zenon DEF Grows
  <1> QED
    BY <1>5, <1>7, <1>8, Zenon

(* The walk of the tick, which ends after active_monitored_items_count items, *)
(* reaches every item in use.                                                 *)
LEMMA AllVisited ==
  ASSUME Library, Typed, NEW s \in Slot, item[s].used
  PROVE  Cardinality({t \in 1 .. s - 1 : item[t].used}) < active
  <1> DEFINE B == {t \in 1 .. s - 1 : item[t].used}
  <1>1. s \in Nat /\ 1 .. s - 1 \subseteq Slot /\ s \notin 1 .. s - 1
    BY ItemsAssumption DEF Slot
  <1>2. B \cup {s} \subseteq Used /\ s \notin B /\ B \subseteq Used
    BY <1>1 DEF Used
  <1> HIDE DEF B
  <1>3. IsFiniteSet(Used)
    BY UsedFinite
  <1>4. IsFiniteSet(B)
    BY <1>2, <1>3, FiniteSubset, Zenon
  <1>5. Cardinality(B \cup {s}) = Cardinality(B) + 1 /\ Cardinality(B) \in Nat
    BY <1>2, <1>4, FiniteAdd, FiniteSize, Zenon
  <1>6. Cardinality(B \cup {s}) <= Cardinality(Used) /\ Cardinality(Used) \in Nat
    BY <1>2, <1>3, FiniteSubset, FiniteSize
  <1> QED
    BY <1>5, <1>6 DEF B, Typed

(* What SampleItems makes of the items. *)
LEMMA SampleGrows ==
  ASSUME Library, IInv, NEW due \in SUBSET Slot, SampleItems(due)
  PROVE  /\ item' = [s \in Slot |-> item'[s]]
         /\ \A s \in Slot : Grows(item[s], item[s]') /\ (item[s].used /\ Waiting(item[s]') => s \in bitmap')
         /\ bitmap' \subseteq Slot /\ sent' = <<>> /\ phase' = "publish"
         /\ UNCHANGED <<nextId, active, subVars, source, told, resized, reenabled>>
  <1> DEFINE visited(s) == item[s].used /\ Cardinality({t \in 1 .. s - 1 : item[t].used}) < active
             ticked(s) ==
               IF visited(s) /\ s \in due /\ item[s].mode # "disabled" THEN Sample(item[s]) ELSE item[s]
  <1>1. /\ item' = [s \in Slot |-> ticked(s)]
        /\ bitmap' = {s \in Slot : visited(s) /\ (Waiting(item[s]) \/ Waiting(ticked(s)))}
        /\ sent' = <<>> /\ phase' = "publish"
        /\ UNCHANGED <<nextId, active, subVars, source, told, resized, reenabled>>
    BY DEF SampleItems, ghosts
  <1>2. Typed /\ source \in [Node -> Reading]
    BY DEF IInv, Typed
  <1>3. \A s \in Slot : item[s].used => visited(s)
    BY <1>2, AllVisited, Zenon
  <1>4. \A s \in Slot : Grows(item[s], ticked(s))
    <2> TAKE s \in Slot
    <2>1. item[s] \in ItemType
      BY <1>2, TypedFacts, Zenon
    <2>2. CASE visited(s) /\ s \in due /\ item[s].mode # "disabled"
      <3>1. ticked(s) = Sample(item[s]) /\ item[s].used
        BY <2>2
      <3> HIDE DEF ticked, visited
      <3> QED
        BY <1>2, <2>1, <3>1, SampleItem DEF Grows
    <2>3. CASE ~(visited(s) /\ s \in due /\ item[s].mode # "disabled")
      <3>1. ticked(s) = item[s]
        BY <2>3, Zenon
      <3> HIDE DEF ticked, visited
      <3> QED
        BY <2>1, <3>1, GrowsNot
    <2> QED
      BY <2>2, <2>3, Zenon
  <1> HIDE DEF ticked, visited
  <1>5. \A s \in Slot : item[s]' = ticked(s)
    BY <1>1, Zenon
  <1>6. \A s \in Slot : Grows(item[s], item[s]')
    BY <1>4, <1>5, Zenon
  <1>7. \A s \in Slot : item[s].used /\ Waiting(item[s]') => s \in bitmap'
    BY <1>1, <1>3, <1>5, Zenon
  <1>8. bitmap' \subseteq Slot
    BY <1>1
  <1>9. item' = [s \in Slot |-> item'[s]]
    BY <1>1
  <1> QED
    BY <1>1, <1>6, <1>7, <1>8, <1>9

(* Sampling keeps the invariant, and marks every item that has something to   *)
(* report.                                                                    *)
LEMMA SampleKeeps ==
  ASSUME Library, IInv, NEW due \in SUBSET Slot, SampleItems(due)
  PROVE  IInv'
  <1>1. /\ item' = [s \in Slot |-> item'[s]]
        /\ \A s \in Slot : Grows(item[s], item[s]') /\ (item[s].used /\ Waiting(item[s]') => s \in bitmap')
        /\ bitmap' \subseteq Slot /\ phase' = "publish"
        /\ UNCHANGED <<nextId, active, subVars, source, told, resized, reenabled>>
    BY SampleGrows, Zenon
  <1>2. /\ UNCHANGED <<nextId, active, limit, enabled, source, told, resized, reenabled>>
        /\ resend' \in BOOLEAN /\ phase' \in {"idle", "publish", "emit"}
    BY <1>1, Zenon DEF IInv, Typed, subVars
  <1>3. Typed' /\ RingsSound' /\ AllCaughtUp'
    BY <1>1, <1>2, GrowStep, Zenon
  <1>4. Prepared'
    BY <1>1, Zenon DEF Prepared
  <1>5. Covered'
    BY <1>1, Zenon DEF Covered, Grows, SameItem
  <1> QED
    BY <1>3, <1>4, <1>5 DEF IInv

(* What PrepareNotification makes of the items of an enabled Subscription. *)
LEMMA PrepareGrows ==
  ASSUME IInv, PrepareNotification
  PROVE  /\ item' = [s \in Slot |-> item'[s]]
         /\ \A s \in Slot : /\ Grows(item[s], item[s]')
                            /\ enabled => Ready(item[s]')
                            /\ Waiting(item[s]') => Waiting(item[s]) \/ s \in bitmap'
         /\ bitmap \subseteq bitmap' /\ bitmap' \subseteq Slot /\ sent' = <<>> /\ phase' = "emit"
         /\ resend' \in BOOLEAN
         /\ UNCHANGED <<nextId, active, limit, enabled, source, told, resized, reenabled>>
  <1> DEFINE ready(it) == IF it.used /\ it.mode # "disabled" THEN PreparePendingQueue(it) ELSE it
             again(it) == it.used /\ it.mode = "reporting" /\ resend
             full(it) == IF again(it) THEN Resent(ready(it)) ELSE ready(it)
  <1>1. /\ item' = IF enabled THEN [s \in Slot |-> full(item[s])] ELSE item
        /\ bitmap' = IF enabled THEN bitmap \cup {s \in Slot : again(item[s])} ELSE bitmap
        /\ sent' = <<>> /\ phase' = "emit" /\ resend' = (resend /\ ~enabled)
        /\ UNCHANGED <<nextId, active, limit, enabled, source, told, resized, reenabled>>
    BY Zenon DEF PrepareNotification, ghosts
  <1>2. /\ Typed /\ source \in [Node -> Reading] /\ item = [s \in Slot |-> item[s]]
        /\ bitmap \subseteq Slot
    BY Zenon DEF IInv, Typed
  <1>3. ASSUME NEW s \in Slot
        PROVE  /\ Grows(item[s], full(item[s])) /\ Ready(full(item[s]))
               /\ Waiting(full(item[s])) => Waiting(item[s]) \/ again(item[s])
    <2> DEFINE it == item[s]
               p == ready(it)
               q == full(it)
    <2>1. it \in ItemType /\ it.ring \in RingType
      BY <1>2, TypedFacts, ItemFields, Zenon
    <2> HIDE DEF it
    <2>2. /\ p \in ItemType /\ SameItem(it, p) /\ Ready(p) /\ (Waiting(p) => Waiting(it))
          /\ it.used \/ p = it
          /\ \/ p.ring = it.ring
             \/ it.ring.count = 0 /\ \E a \in Made : p.ring = EnqueueReport(it.ring, a)
          /\ \A t : Sound(it.ring) /\ CaughtUp(it, t) => CaughtUp(p, t)
      <3>1. CASE it.used /\ it.mode # "disabled"
        <4>1. p = PreparePendingQueue(it)
          BY <3>1, Zenon
        <4>2. AsReport(it.last) \in Made
          BY <2>1, ItemFields, MadeReport, Zenon
        <4> HIDE DEF p
        <4> QED
          BY <2>1, <3>1, <4>1, <4>2, PrepareItem, Zenon
      <3>2. CASE ~(it.used /\ it.mode # "disabled")
        <4>1. p = it
          BY <3>2
        <4> HIDE DEF p
        <4>2. Ready(it)
          BY <3>2, Zenon DEF Ready
        <4> QED
          BY <2>1, <4>1, <4>2, Zenon DEF SameItem
      <3> QED
        BY <3>1, <3>2, Zenon
    <2>3. CASE again(it)
      <3>1. q = Resent(p) /\ it.used
        BY <2>3, Zenon
      <3> HIDE DEF p, q
      <3>2. /\ q \in ItemType /\ SameItem(p, q) /\ Ready(q)
            /\ \E a \in Made : q.ring = EnqueueReport(p.ring, a)
            /\ \A t : Sound(p.ring) => CaughtUp(q, t)
        BY <1>2, <2>2, <3>1, ResentItem
      <3>3. SameItem(it, q)
        BY <2>2, <3>2, Zenon DEF SameItem
      <3>4. Grown(it.ring, p.ring)
        BY <2>2, Zenon DEF Grown
      <3>5. Grown(it.ring, q.ring)
        BY <2>2, <3>2, Zenon DEF Grown
      <3>6. Sound(it.ring) => Sound(p.ring)
        BY <2>1, <3>4, GrownRing, Zenon
      <3>7. Grows(it, q)
        BY <3>1, <3>2, <3>3, <3>5, <3>6 DEF Grows
      <3> QED
        BY <2>3, <3>2, <3>7, Zenon DEF it, q
    <2>4. CASE ~again(it)
      <3>1. q = p
        BY <2>4, Zenon
      <3> HIDE DEF p, q
      <3>2. Grown(it.ring, p.ring)
        BY <2>2 DEF Grown
      <3>3. Grows(it, q) /\ Ready(q) /\ (Waiting(q) => Waiting(it))
        BY <2>2, <3>1, <3>2, Zenon DEF Grows
      <3> QED
        BY <3>3, Zenon DEF it, q
    <2> QED
      BY <2>3, <2>4, Zenon DEF it
  <1> HIDE DEF again, full
  <1>4. CASE enabled
    <2>1. item' = [s \in Slot |-> full(item[s])] /\ bitmap' = bitmap \cup {s \in Slot : again(item[s])}
      BY <1>1, <1>4, Zenon
    <2>2. \A s \in Slot : item[s]' = full(item[s])
      BY <2>1, Zenon
    <2>3. \A s \in Slot : /\ Grows(item[s], item[s]') /\ Ready(item[s]')
                          /\ Waiting(item[s]') => Waiting(item[s]) \/ s \in bitmap'
      BY <1>3, <2>1, <2>2, Zenon
    <2>4. bitmap \subseteq bitmap' /\ bitmap' \subseteq Slot
      BY <1>2, <2>1, Zenon
    <2>5. item' = [s \in Slot |-> item'[s]]
      BY <2>1, Zenon
    <2>6. resend' \in BOOLEAN
      BY <1>1, Zenon
    <2> QED
      BY <1>1, <2>3, <2>4, <2>5, <2>6
  <1>5. CASE ~enabled
    <2>1. item' = item /\ bitmap' = bitmap
      BY <1>1, <1>5, Zenon
    <2>2. \A s \in Slot : Grows(item[s], item[s])
      BY <1>2, TypedFacts, GrowsNot, Zenon
    <2>3. resend' \in BOOLEAN
      BY <1>1
    <2> QED
      BY <1>1, <1>2, <1>5, <2>1, <2>2, <2>3
  <1> QED
    BY <1>4, <1>5, Zenon

(* Preparing a notification leaves no owed report outside the queues. *)
LEMMA PrepareKeeps ==
  ASSUME IInv, PrepareNotification
  PROVE  IInv'
  <1>1. /\ item' = [s \in Slot |-> item'[s]]
        /\ \A s \in Slot : /\ Grows(item[s], item[s]')
                           /\ enabled => Ready(item[s]')
                           /\ Waiting(item[s]') => Waiting(item[s]) \/ s \in bitmap'
        /\ bitmap \subseteq bitmap' /\ bitmap' \subseteq Slot /\ phase' = "emit" /\ resend' \in BOOLEAN
        /\ UNCHANGED <<nextId, active, limit, enabled, source, told, resized, reenabled>>
    BY PrepareGrows, Zenon
  <1>2. phase' \in {"idle", "publish", "emit"}
    BY <1>1, Zenon
  <1>3. Typed' /\ RingsSound' /\ AllCaughtUp'
    BY <1>1, <1>2, GrowStep, Zenon
  <1>4. Prepared'
    BY <1>1, Zenon DEF Prepared
  <1>5. Covered'
    <2> SUFFICES ASSUME NEW s \in Slot, item[s].used', Waiting(item[s]')
                 PROVE  s \in bitmap'
      BY Zenon DEF Covered
    <2>1. item[s].used
      BY <1>1, Zenon DEF Grows, SameItem
    <2>2. phase # "idle"
      BY Zenon DEF PrepareNotification
    <2>3. Waiting(item[s]) => s \in bitmap
      BY <2>1, <2>2, Zenon DEF IInv, Covered
    <2> QED
      BY <1>1, <2>3, Zenon
  <1> QED
    BY <1>3, <1>4, <1>5, Zenon DEF IInv

=============================================================================
