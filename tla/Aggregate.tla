------------------------------ MODULE Aggregate ------------------------------
(* A MonitoredItem with an AggregateFilter: its samples are accumulated and   *)
(* the aggregate of every processing interval is queued as a report.          *)
(* subscription/standard/subscription_aggregate.c and the aggregate half of   *)
(* mu_subscriptions_tick. Doubles are exact: where the code divides, a number *)
(* stands for Scale times itself. Types computed alike share one kind.        *)
EXTENDS Integers, SequencesExt, FiniteSetsExt

CONSTANTS
  Kind,      \* aggregate types of the filters
  Number,    \* values of the Variable
  Interval,  \* processing_interval
  Scale,     \* divisible by every number of samples an interval may have
  Steps,     \* how far the clock moves between two ticks
  MaxNow     \* bound on the tick

VARIABLES
  kind,      \* aggregate_type
  acc,       \* sample_count and the accumulator
  last,      \* last_value and last_status
  hasValue,  \* has_value
  since,     \* last_calculation
  now,       \* now_ms of the tick
  out,       \* the report of the last tick, if it made one
  window     \* the samples accumulated since the last report

vars == <<kind, acc, last, hasValue, since, now, out, window>>

BadReading == [v |-> 0, st |-> "bad"]

Reading == [v : Number, st : {"good"}] \cup {BadReading}

NoReport == [v |-> 0, st |-> "none"]

(* The accumulator after memset. The code overlays the members in a union;    *)
(* an item only ever uses the members of its own type.                        *)
Zeroed ==
  [count |-> 0, sum |-> 0, low |-> 0, high |-> 0, first |-> 0, end |-> 0,
   transitions |-> 0, hasLast |-> FALSE, wasZero |-> FALSE, mean |-> 0, m2 |-> 0,
   good |-> 0, bad |-> 0, worst |-> "good", matches |-> FALSE]

(* configure_monitored_item: the Variable is read; a failed read leaves the   *)
(* item without a value.                                                      *)
Init ==
  /\ kind \in Kind
  /\ acc = Zeroed
  /\ last \in Reading
  /\ hasValue = (last.st = "good")
  /\ since = 0
  /\ now = 0
  /\ out = NoReport
  /\ window = <<>>

-----------------------------------------------------------------------------
(* Minimum, Maximum, Range and their variants. *)
Extremes(a, v) ==
  [a EXCEPT !.low = IF a.count = 0 \/ v < a.low THEN v ELSE a.low,
            !.high = IF a.count = 0 \/ v > a.high THEN v ELSE a.high]

(* Start, End, Delta and their bounds. *)
Endpoints(a, v) == [a EXCEPT !.first = IF a.count = 0 THEN v ELSE a.first, !.end = v]

(* NumberOfTransitions between zero and not zero. *)
Transitions(a, v) ==
  [a EXCEPT !.transitions = IF a.hasLast /\ (v = 0) # a.wasZero THEN a.transitions + 1
                                                                ELSE a.transitions,
            !.hasLast = TRUE, !.wasZero = (v = 0)]

(* Mutant: the squared deviation is taken from the old mean alone. *)
WelfordOldMean(a, v) ==
  LET delta == Scale * v - a.mean
  IN [a EXCEPT !.mean = a.mean + delta \div (a.count + 1), !.m2 = a.m2 + delta * delta]

(* Running mean and sum of squared deviations; m2 is scaled twice. *)
Welford(a, v) ==
  LET delta == Scale * v - a.mean
      mean == a.mean + delta \div (a.count + 1)
  IN [a EXCEPT !.mean = mean, !.m2 = a.m2 + delta * (Scale * v - mean)]

(* PercentGood, PercentBad, WorstQuality: the status is the one of the sample *)
(* before, since last_status is set after the sample is accumulated.          *)
Quality(a, before) ==
  [a EXCEPT !.good = IF before = "good" THEN a.good + 1 ELSE a.good,
            !.bad = IF before = "bad" THEN a.bad + 1 ELSE a.bad,
            !.worst = IF a.count = 0 \/ before = "bad" THEN before ELSE a.worst]

(* Duration types: start_ms stays 0, so nothing is added between samples. *)
Matching(a, v, before) ==
  [a EXCEPT !.matches = CASE kind = "durationGood" -> before # "bad"
                          [] kind = "durationBad" -> before = "bad"
                          [] kind = "durationZero" -> before # "bad" /\ v = 0
                          [] OTHER -> before # "bad" /\ v # 0]

(* monitored_item_accumulate_aggregate of a numeric sample. *)
Accumulate(a, v, before) ==
  LET b == CASE kind \in {"average", "total"} -> [a EXCEPT !.sum = a.sum + v]
             [] kind \in {"minimum", "maximum", "range"} -> Extremes(a, v)
             [] kind \in {"start", "end", "delta"} -> Endpoints(a, v)
             [] kind = "transitions" -> Transitions(a, v)
             [] kind \in {"variance", "sampleVariance"} -> Welford(a, v)
             [] kind \in {"percentGood", "percentBad", "worst"} -> Quality(a, before)
             [] kind = "count" -> a
             [] OTHER -> Matching(a, v, before)
  IN [b EXCEPT !.count = a.count + 1]

(* monitored_item_publish_aggregate: what is queued at time t. An interval    *)
(* without a sample repeats the last reading.                                 *)
Calculated(t) ==
  IF acc.count = 0
  THEN IF hasValue THEN last ELSE BadReading
  ELSE [st |-> "good",
        v |-> CASE kind = "average" -> (Scale * acc.sum) \div acc.count
                [] kind = "total" -> acc.sum
                [] kind = "minimum" -> acc.low
                [] kind = "maximum" -> acc.high
                [] kind = "range" -> acc.high - acc.low
                [] kind = "start" -> acc.first
                [] kind = "end" -> acc.end
                [] kind = "delta" -> acc.end - acc.first
                [] kind = "count" -> acc.count
                [] kind = "transitions" -> acc.transitions
                [] kind = "variance" -> acc.m2 \div acc.count
                [] kind = "sampleVariance" -> IF acc.count > 1 THEN acc.m2 \div (acc.count - 1) ELSE 0
                [] kind = "percentGood" -> (100 * acc.good) \div (acc.good + acc.bad)
                [] kind = "percentBad" -> (100 * acc.bad) \div (acc.good + acc.bad)
                [] kind = "worst" -> IF acc.worst = "bad" THEN 1 ELSE 0
                [] OTHER -> IF acc.matches THEN t ELSE 0]

(* The end of monitored_item_publish_aggregate. *)
Cleared(a) == Zeroed

Counts(r) == r.st = "good"

-----------------------------------------------------------------------------
(* mu_subscriptions_tick: the interval is closed if it is over, then the item *)
(* is sampled if it is due. A bad reading is kept as the last, uncounted.     *)
Tick(dt, due, r) ==
  LET t == now + dt
      over == t - since >= Interval
      a == IF over THEN Cleared(acc) ELSE acc
      seen == IF over THEN <<>> ELSE window
      counts == due /\ Counts(r)
  IN /\ t <= MaxNow
     /\ ~due => r = BadReading
     /\ now' = t
     /\ out' = IF over THEN Calculated(t) ELSE NoReport
     /\ since' = IF over THEN t ELSE since
     /\ acc' = IF counts THEN Accumulate(a, r.v, last.st) ELSE a
     /\ window' = IF due THEN Append(seen, [v |-> r.v, st |-> r.st, before |-> last.st]) ELSE seen
     /\ last' = IF due THEN r ELSE last
     /\ hasValue' = (hasValue \/ due)
     /\ UNCHANGED kind

(* A tick while the item is disabled. *)
SkipTick(dt) ==
  /\ now + dt <= MaxNow
  /\ now' = now + dt
  /\ out' = NoReport
  /\ UNCHANGED <<kind, acc, last, hasValue, since, window>>

(* apply_modify_item_filters: a new filter starts a new interval. *)
Refilter(k) ==
  /\ kind' = k
  /\ acc' = Zeroed
  /\ since' = now
  /\ window' = <<>>
  /\ out' = NoReport
  /\ UNCHANGED <<last, hasValue, now>>

Next ==
  \/ \E dt \in Steps, due \in BOOLEAN, r \in Reading : Tick(dt, due, r)
  \/ \E dt \in Steps : SkipTick(dt)
  \/ \E k \in Kind : window # <<>> /\ Refilter(k)

Spec == Init /\ [][Next]_vars

-----------------------------------------------------------------------------
(* The good samples of the interval, in order. *)
Samples == SelectSeq(window, LAMBDA e : e.st = "good")

Values == [i \in DOMAIN Samples |-> Samples[i].v]

Times(p) == Cardinality({i \in DOMAIN Samples : Samples[i].before = p})

(* What the standard calls the aggregate of the samples s. *)
Reference(s) ==
  LET n == Len(s)
      sum == FoldSeq(LAMBDA x, y : x + y, 0, s)
      set == ToSet(s)
      spread == FoldSeq(LAMBDA x, y : y + (Scale * x - (Scale * sum) \div n)
                                        * (Scale * x - (Scale * sum) \div n), 0, s)
  IN CASE kind = "average" -> (Scale * sum) \div n
       [] kind = "total" -> sum
       [] kind = "minimum" -> Min(set)
       [] kind = "maximum" -> Max(set)
       [] kind = "range" -> Max(set) - Min(set)
       [] kind = "start" -> s[1]
       [] kind = "end" -> s[n]
       [] kind = "delta" -> s[n] - s[1]
       [] kind = "count" -> n
       [] kind = "transitions" -> Cardinality({i \in 2..n : (s[i] = 0) # (s[i - 1] = 0)})
       [] kind = "variance" -> spread \div n
       [] kind = "sampleVariance" -> IF n > 1 THEN spread \div (n - 1) ELSE 0
       [] kind = "percentGood" -> (100 * Times("good")) \div n
       [] kind = "percentBad" -> (100 * Times("bad")) \div n
       [] OTHER -> IF Times("bad") > 0 THEN 1 ELSE 0

Timed == {"durationGood", "durationBad", "durationZero", "durationNonZero"}

AggregateExactStep ==
  /\ out'.st # "none"
  /\ kind \notin Timed
  /\ Samples # <<>>
  => out' = [v |-> Reference(Values), st |-> "good"]

(* What publish_aggregate reports at the end of an interval is the aggregate  *)
(* of exactly the good samples taken since the last report: the samples of    *)
(* the tick that closes the interval belong to the next one, a bad sample     *)
(* leaves no trace, and a new filter starts from nothing. The running         *)
(* (Welford) variance equals the two-pass one. The quality types look one     *)
(* sample back, which the reference follows; the duration types are excluded. *)
AggregateExact == [][AggregateExactStep]_vars
=============================================================================
