------------------------------- MODULE History -------------------------------
(* HistoryRead and HistoryUpdate (history.c, history_handler.c) over the      *)
(* in-memory store of history_memstore.c, with a client that pages.           *)
EXTENDS Integers, SequencesExt, FiniteSetsExt

CONSTANTS
  Time,        \* source timestamps
  MaxPoints,   \* MU_MEMSTORE_MAX_POINTS
  Page,        \* MU_MAX_HISTORY_DATA_POINTS, the points one read can return
  MaxItems,    \* MU_MAX_HISTORY_UPDATE_ITEMS
  Kinds,       \* aggregates asked for
  Updates,     \* HistoryUpdate requests: sequences of details; values are multiples of 6,
               \* so that means of up to 3 points are integers
  MaxSteps     \* bound on the requests of a behaviour

VARIABLES
  points,      \* the store: a sequence of [time, v, bad] in order of arrival
  walk,        \* the client's reading: range, continuation point, what it got, what it must get
  asked,       \* the request of the last step, if it was an update
  answer,      \* its results
  computed,    \* the aggregate of the last step with the points it is of
  steps

vars == <<points, walk, asked, answer, computed, steps>>

NoWalk == [on |-> FALSE, from |-> 0, to |-> 0, next |-> 0, got |-> <<>>, due |-> {}, cut |-> FALSE]
Nothing == [kind |-> "none", of |-> <<>>, value |-> 0, status |-> "none"]
Step == steps' = steps + 1

Init ==
  /\ points = <<>>
  /\ walk = NoWalk
  /\ asked = <<>>
  /\ answer = <<>>
  /\ computed = Nothing
  /\ steps = 0

-----------------------------------------------------------------------------
(* mu_memstore_update_data, one data point *)
At(s, t) == {i \in DOMAIN s : s[i].time = t}

Clashes(s, p) == At(s, p.time) # {}

Replaced(s, p) == [s EXCEPT ![Min(At(s, p.time))] = p]

UpdateOne(mode, acc, p) ==
  LET s == acc.store
      res == CASE mode = "insert" /\ Clashes(s, p) -> "EntryExists"
               [] mode = "insert" /\ Len(s) >= MaxPoints -> "OutOfMemory"
               [] mode = "replace" /\ At(s, p.time) = {} -> "NoEntryExists"
               [] mode \in {"insert", "replace"} -> "Good"
               [] OTHER -> "InvalidArgument"
  IN [store |-> IF res # "Good" THEN s ELSE IF mode = "insert" THEN Append(s, p) ELSE Replaced(s, p),
      results |-> Append(acc.results, res)]

(* mu_memstore_delete_raw_modified *)
Deleted(s, from, to) == SelectSeq(s, LAMBDA p : p.time < from \/ p.time > to)

(* One detail of a HistoryUpdate; acc holds the store and the results so far. *)
Apply(acc, d) ==
  IF d.type = "delete"
  THEN [store |-> Deleted(acc.store, d.from, d.to), results |-> Append(acc.results, <<>>)]
  ELSE LET done == FoldLeft(LAMBDA a, p : UpdateOne(d.mode, a, p), [store |-> acc.store, results |-> <<>>], d.values)
       IN [store |-> done.store, results |-> Append(acc.results, done.results)]

(* mu_history_update_request_decode decodes every detail before one is applied. *)
Refused(items) ==
  \/ Len(items) > MaxItems
  \/ \E k \in DOMAIN items : items[k].type = "other" \/ Len(items[k].values) > Page

HistoryUpdate(items) ==
  LET done == FoldLeft(Apply, [store |-> points, results |-> <<>>], items)
      deletes == ~Refused(items) /\ \E k \in DOMAIN items : items[k].type = "delete"
  IN /\ Step
     /\ points' = IF Refused(items) THEN points ELSE done.store
     /\ asked' = items
     /\ answer' = IF Refused(items) THEN <<>> ELSE done.results
     /\ walk' = IF walk.on THEN [walk EXCEPT !.cut = @ \/ deletes] ELSE walk
     /\ computed' = Nothing

-----------------------------------------------------------------------------
InRange(p, from, to) == p.time >= from /\ p.time <= to

(* Mutant: the point behind the page is skipped. *)
NextSkips(scan) == scan + 1

NextScan(scan) == scan

(* mu_memstore_read_raw_modified from position skip (from 0): the points of   *)
(* the page and where it stopped.                                              *)
Read(s, from, to, skip, n) ==
  LET perPage == IF n > 0 /\ n < Page THEN n ELSE Page
      hits == {i \in DOMAIN s : i > skip /\ InRange(s[i], from, to)}
      taken == {i \in hits : Cardinality({j \in hits : j <= i}) <= perPage}
      scan == IF Cardinality(taken) = perPage THEN Max(taken) ELSE Max({Len(s), skip})
  IN [page |-> [k \in 1..Cardinality(taken) |-> s[CHOOSE i \in taken : Cardinality({j \in taken : j <= i}) = k]],
      cp |-> IF Cardinality(taken) = perPage /\ scan < Len(s) THEN NextScan(scan) ELSE 0]

(* A raw read without a continuation point starts a walk, with one it goes on. *)
HistoryRead(from, to, n) ==
  LET res == Read(points, from, to, 0, n)
  IN /\ Step
     /\ walk' = [on |-> TRUE, from |-> from, to |-> to, next |-> res.cp, got |-> res.page,
                 due |-> {p.time : p \in {q \in Range(points) : InRange(q, from, to)}}, cut |-> FALSE]
     /\ asked' = <<>> /\ answer' = <<>> /\ computed' = Nothing
     /\ UNCHANGED points

HistoryReadNext(n) ==
  LET res == Read(points, walk.from, walk.to, walk.next, n)
  IN /\ walk.on /\ walk.next > 0
     /\ Step
     /\ walk' = [walk EXCEPT !.next = res.cp, !.got = @ \o res.page]
     /\ asked' = <<>> /\ answer' = <<>> /\ computed' = Nothing
     /\ UNCHANGED points

-----------------------------------------------------------------------------
(* compute_history_aggregate over the points of one page. *)
Good(ps) == SelectSeq(ps, LAMBDA p : ~p.bad)
Total(ps) == FoldLeft(LAMBDA x, p : x + p.v, 0, ps)
Lowest(ps) == FoldLeft(LAMBDA x, p : IF p.v < x THEN p.v ELSE x, ps[1].v, ps)
Highest(ps) == FoldLeft(LAMBDA x, p : IF p.v > x THEN p.v ELSE x, ps[1].v, ps)

Welford(a, p) ==
  LET delta == p.v - a.mean
      mean == a.mean + delta \div (a.n + 1)
  IN [n |-> a.n + 1, mean |-> mean, m2 |-> a.m2 + delta * (p.v - mean)]

Moments(ps) == FoldLeft(Welford, [n |-> 0, mean |-> 0, m2 |-> 0], ps)

Flips(ps) ==
  FoldLeft(LAMBDA a, p : [n |-> IF a.has /\ (p.v = 0) # a.zero THEN a.n + 1 ELSE a.n, zero |-> p.v = 0, has |-> TRUE],
           [n |-> 0, zero |-> FALSE, has |-> FALSE], ps).n

(* Values are kept as [numerator, denominator]. The square root of the        *)
(* standard deviations is left out: they have the values of the variances.    *)
Computed(x) == [value |-> x, status |-> "Good"]
AtLeast(k, good, x) == IF Len(good) >= k THEN Computed(x) ELSE [value |-> <<0, 1>>, status |-> "NoData"]

Averaged(kind, good) ==
  AtLeast(1, good, <<Total(good), IF kind = "total" THEN 1 ELSE Len(good)>>)

(* The "actual time" aggregates answer the extreme value itself, as the others. *)
Extreme(kind, good) ==
  AtLeast(1, good, <<IF kind \in {"minimum", "minimum2", "minimumActualTime"} THEN Lowest(good) ELSE Highest(good), 1>>)

Ranged(good) == AtLeast(1, good, <<Highest(good) - Lowest(good), 1>>)

Ends(kind, good) ==
  LET first == good[1].v
      last == good[Len(good)].v
  IN AtLeast(1, good, <<CASE kind = "start" -> first [] kind = "delta" -> last - first [] OTHER -> last, 1>>)

Spread(kind, good) ==
  LET m == Moments(good)
  IN IF kind = "sampleVariance" THEN AtLeast(2, good, <<m.m2, m.n - 1>>) ELSE AtLeast(1, good, <<m.m2, m.n>>)

Duration(kind, ps) ==
  LET holds(p) == CASE kind = "durationBad" -> p.bad
                    [] kind = "durationGood" -> ~p.bad
                    [] kind = "durationZero" -> ~p.bad /\ p.v = 0
                    [] OTHER -> ~p.bad /\ p.v # 0
      between(x, i) == IF i > 1 /\ holds(ps[i]) /\ holds(ps[i - 1]) /\ ps[i].time > ps[i - 1].time
                       THEN x + ps[i].time - ps[i - 1].time ELSE x
  IN Computed(<<FoldLeft(between, 0, [i \in DOMAIN ps |-> i]), 1>>)

Percent(kind, ps) ==
  LET n == Len(Good(ps))
  IN Computed(<<100 * (IF kind = "percentGood" THEN n ELSE Len(ps) - n), Len(ps)>>)

Worst(ps) == Computed(<<IF \E p \in Range(ps) : p.bad THEN 1 ELSE 0, 1>>)

Aggregate(kind, ps) ==
  LET good == Good(ps)
  IN CASE ps = <<>> -> AtLeast(1, ps, <<0, 1>>)
       [] kind \in {"average", "timeAverage", "total"} -> Averaged(kind, good)
       [] kind \in {"minimum", "maximum", "minimum2", "maximum2", "minimumActualTime", "maximumActualTime"} -> Extreme(kind, good)
       [] kind = "range" -> Ranged(good)
       [] kind \in {"count", "annotationCount"} -> Computed(<<Len(good), 1>>)
       [] kind \in {"start", "end", "delta", "interpolative"} -> Ends(kind, good)
       [] kind = "transitions" -> Computed(<<Flips(good), 1>>)
       [] kind \in {"variance", "sampleVariance"} -> Spread(kind, good)
       [] kind \in {"durationGood", "durationBad", "durationZero", "durationNonZero"} -> Duration(kind, ps)
       [] kind \in {"percentGood", "percentBad"} -> Percent(kind, ps)
       [] kind = "worst" -> Worst(ps)
       [] OTHER -> [value |-> <<0, 1>>, status |-> "HistoryOperationUnsupported"]

(* ReadProcessedDetails: one aggregate over the first page of the whole range. *)
HistoryReadProcessed(from, to, kind) ==
  LET ps == Read(points, from, to, 0, 0).page
      res == Aggregate(kind, ps)
  IN /\ Step
     /\ computed' = [kind |-> kind, of |-> SelectSeq(points, LAMBDA p : InRange(p, from, to)),
                     value |-> res.value, status |-> res.status]
     /\ asked' = <<>> /\ answer' = <<>>
     /\ UNCHANGED <<points, walk>>

Next ==
  /\ steps < MaxSteps
  /\ \/ \E items \in Updates : HistoryUpdate(items)
     \/ \E from \in Time, to \in Time, n \in {0, 1} : HistoryRead(from, to, n)
     \/ \E n \in {0, 1} : HistoryReadNext(n)
     \/ \E from \in Time, to \in Time, kind \in Kinds : HistoryReadProcessed(from, to, kind)

Spec == Init /\ [][Next]_vars

-----------------------------------------------------------------------------
(* No two points of the store have one timestamp, whatever requests insert,    *)
(* replace and delete, several points of one request included.                 *)
TimesUnique == \A i, j \in DOMAIN points : points[i].time = points[j].time => i = j

(* The last value a request reports as stored under a timestamp is the one the *)
(* store holds afterwards, when the request deletes nothing.                   *)
UpdatesTold ==
  LET told == {x \in {<<k, j>> : k \in DOMAIN answer, j \in 1..Page} :
                 x[2] \in DOMAIN answer[x[1]] /\ answer[x[1]][x[2]] = "Good"}
      later(x, y) == x[1] < y[1] \/ (x[1] = y[1] /\ x[2] < y[2])
      point(x) == asked[x[1]].values[x[2]]
  IN (\A k \in DOMAIN asked : asked[k].type = "data") =>
       \A x \in told : (\A y \in told : later(x, y) => point(y).time # point(x).time) => point(x) \in Range(points)

(* A client that follows the continuation points to the end gets every point   *)
(* that was in its range when it began, each once, while others insert and     *)
(* replace points; a delete moves the points the continuation point counts.    *)
PagesCover ==
  (walk.on /\ ~walk.cut) =>
    /\ \A i, j \in DOMAIN walk.got : walk.got[i].time = walk.got[j].time => i = j
    /\ walk.next = 0 => walk.due \subseteq {p.time : p \in Range(walk.got)}

(* An aggregate of a range that fits one page is that of all its points, by    *)
(* the definition of the mean, of the sum of squares and of the changes.       *)
ProcessedExact ==
  (computed.status = "Good" /\ Len(computed.of) <= Page) =>
    LET good == Good(computed.of)
        n == Len(good)
        sum == MapThenSumSet(LAMBDA i : good[i].v, DOMAIN good)
        mean == sum \div n
    IN CASE computed.kind = "average" -> computed.value = <<sum, n>>
         [] computed.kind = "variance" -> computed.value = <<MapThenSumSet(LAMBDA i : (good[i].v - mean) * (good[i].v - mean), DOMAIN good), n>>
         [] computed.kind = "maximum" -> \A p \in Range(good) : p.v <= computed.value[1]
         [] computed.kind = "transitions" ->
              computed.value[1] = Cardinality({i \in 2..n : (good[i].v = 0) # (good[i - 1].v = 0)})
         [] OTHER -> TRUE

(* The archive keeps what its answers say: timestamps are unique, results tell *)
(* what was stored, pages cover their range, aggregates are those of the       *)
(* points.                                                                     *)
HistoryKept == TimesUnique /\ UpdatesTold /\ PagesCover /\ ProcessedExact
=============================================================================
