----------------------------- MODULE MCServices -----------------------------
(* Small instances of the services that work on one table or one input each.  *)
(* They do not meet: a behaviour belongs to one "part", and all parts use the *)
(* same variables, under the names each module gives them.                    *)
EXTENDS Integers, Sequences, SequencesExt, FiniteSetsExt

VARIABLES part, a, b, c, d, e, f, g, h, i

all == <<part, a, b, c, d, e, f, g, h, i>>

-----------------------------------------------------------------------------
(* Node management and Query: two static nodes, ids to choose and to be given *)

NodeTable ==
  INSTANCE NodeManagement WITH nodes <- a, refs <- b, points <- c, built <- d, answer <- e,
    granted <- f, linked <- g, steps <- h, StaticIds <- <<1, 2>>, Ids <- {0, 1, 5}, FirstAuto <- 10,
    Names <- {"a", "b"}, MaxNodes <- 3, MaxRefs <- 3, MaxPoints <- 1, PageSize <- 3, MaxSteps <- 4

-----------------------------------------------------------------------------
(* View services: address spaces of four nodes in several orders, with base   *)
(* nodes and with references added later                                      *)

Numeric(k) == <<1, 0, k>>
Name(s) == <<1, 3, Len(s)>> \o s
Ref(from, type, to, forward) == [source |-> from, type |-> type, target |-> to, forward |-> forward]
Known(id, class, name, refs) == [id |-> id, class |-> class, name |-> name, refs |-> refs]

NA == Numeric(5)
NB == Name(<<2, 1>>)
NC == Name(<<1, 2>>)
ND == Numeric(3)
NZ == Numeric(9)

UserNodes ==
  {<<Known(NA, 1, "a", <<Ref(NA, 35, NB, TRUE), Ref(NA, 47, NC, TRUE), Ref(NA, 47, ND, TRUE), Ref(NA, 35, NZ, TRUE)>>),
     Known(NB, 2, "b", <<Ref(NB, 35, NA, FALSE), Ref(NB, 46, NC, TRUE)>>),
     Known(NC, 2, name, <<Ref(NC, 46, ND, TRUE)>>), Known(ND, 1, "d", refs)>>
     : name \in {"b", "c"}, refs \in {<<>>, <<Ref(ND, 46, NA, TRUE)>>}}

BaseNodes == {<<>>, <<Known(NZ, 2, "z", <<>>), Known(NA, 1, "a", <<Ref(NA, 33, NZ, TRUE)>>)>>}

Added == {<<>>, <<Ref(NA, 35, ND, TRUE), Ref(NB, 35, ND, TRUE), Ref(NA, 35, Numeric(7), TRUE)>>}

ViewSpaces ==
  {[user |-> u, runtime |-> <<>>, base |-> base, dynamic |-> added] :
     u \in UNION {{v, Reverse(v), <<v[2], v[4], v[1], v[3]>>} : v \in UserNodes} \union {<<>>},
     base \in BaseNodes, added \in Added}

Description(n, direction, type, subtypes, classes) ==
  [node |-> n, direction |-> direction, type |-> type, subtypes |-> subtypes, classes |-> classes, mask |-> {"type"}]

ViewBrowses ==
  {[view |-> 0, max |-> max, nodes |-> <<Description(NA, 2, type, subtypes, classes),
      Description(n, direction, 0, FALSE, {}), Description(NB, 2, 0, FALSE, {})>>] :
     max \in {0, 2}, type \in {0, 33, 35}, subtypes \in BOOLEAN, classes \in {{}, {2}}, n \in {NA, Numeric(7)},
     direction \in {0, 1}}
  \union {[view |-> 1, max |-> 0, nodes |-> <<Description(NA, 3, 0, TRUE, {})>>],
          [view |-> 0, max |-> 0, nodes |-> <<Description(NA, 3, 0, TRUE, {})>>]}

Element(type, name, inverse) ==
  [type |-> type, subtypes |-> TRUE, inverse |-> inverse, ns |-> 0, name |-> name]

ViewPaths ==
  {[start |-> start, elements |-> es] : start \in {NA, NB, NZ},
     es \in {<<>>} \union {<<Element(t, n, inv)>> : t \in {33, 47}, n \in {"b", "a", ""}, inv \in BOOLEAN}
            \union {<<Element(33, n, FALSE), Element(44, m, FALSE)>> : n \in {"b", "d"}, m \in {"c", "d", "a", ""}}}

Viewing ==
  INSTANCE Views WITH space <- a, request <- b, pool <- c, results <- d, path <- e, found <- f,
    Spaces <- ViewSpaces, Browses <- ViewBrowses, Paths <- ViewPaths,
    Ids <- {NA, NB, NC, ND, NZ, Numeric(7), Name(<<1>>), Name(<<1, 3>>)}, IndexCap <- 4, PoolSize <- 4

-----------------------------------------------------------------------------
(* Read and Write: two Variables and ages for the cache, every kind of node   *)
(* and index ranges around the bounds of an array, with numbers that wrap: 40 *)
(* to -24, 65 to 1 and 63 to -1                                               *)

Described(class, hasValue, first) == [class |-> class, hasValue |-> hasValue, first |-> first]
Scalar(type, x) == [array |-> FALSE, type |-> type, v |-> <<x>>]
ArrayOf(type, v) == [array |-> TRUE, type |-> type, v |-> v]
Nothing == [array |-> FALSE, type |-> -1, v |-> <<>>]

Cache ==
  INSTANCE Attributes WITH source <- a, cache <- b, now <- c, answer <- d, audit <- e, held <- f, back <- g,
    steps <- h,
    Nodes <- [s |-> Described("variable", TRUE, Scalar(1, 0)), b |-> Described("variable", TRUE, ArrayOf(1, <<1>>))],
    Datum <- {0, 1}, Texts <- {<<>>}, Values <- {Scalar(1, 1)}, Ages <- {1, 9}, Always <- 9, Modulus <- 64,
    MaxNow <- 2, MaxSteps <- 4

Ranges ==
  INSTANCE Attributes WITH source <- a, cache <- b, now <- c, answer <- d, audit <- e, held <- f, back <- g,
    steps <- h,
    Nodes <- [s |-> Described("variable", TRUE, Scalar(1, 0)),
              a |-> Described("variable", TRUE, ArrayOf(1, <<0, 1, 0>>)),
              o |-> Described("object", FALSE, Nothing), e |-> Described("variable", FALSE, Nothing),
              u |-> Described("unknown", FALSE, Nothing), z |-> Described("null", FALSE, Nothing)],
    Datum <- {0, 1},
    Texts <- {<<>>, <<1>>, <<0, 10, 1>>, <<1, 10, 4>>, <<3>>, <<0, 11>>, <<4, 0>>, <<6, 5>>, <<6, 3, 10, 0>>,
              <<0, 10, 6, 3>>},
    Values <- {Nothing, Scalar(1, 1), Scalar(2, 1), ArrayOf(1, <<1>>), ArrayOf(1, <<1, 1>>), ArrayOf(2, <<1>>)},
    Ages <- {0}, Always <- 9, Modulus <- 64, MaxNow <- 2, MaxSteps <- 2

-----------------------------------------------------------------------------
(* History: three points and updates that insert, replace, delete and fail    *)

Point(time, v, bad) == [time |-> time, v |-> v, bad |-> bad]
Data(mode, values) == [type |-> "data", mode |-> mode, values |-> values, from |-> 0, to |-> 0]
Delete(from, to) == [type |-> "delete", mode |-> "none", values |-> <<>>, from |-> from, to |-> to]

HistoryUpdates ==
  {<<Data("insert", <<Point(1, 0, FALSE), Point(3, 6, FALSE)>>)>>,
   <<Data("insert", <<Point(2, 6, TRUE), Point(2, 0, FALSE)>>)>>,
   <<Data("replace", <<Point(1, 6, FALSE), Point(3, 0, TRUE)>>)>>,
   <<Data("insert", <<Point(4, 0, FALSE)>>), Data("replace", <<Point(4, 6, FALSE)>>)>>,
   <<Delete(1, 2)>>,
   <<Delete(3, 4), Data("insert", <<Point(2, 6, FALSE), Point(3, 12, FALSE)>>)>>,
   <<Data("insert", <<>>), [Data("insert", <<>>) EXCEPT !.type = "other"]>>,
   <<Data("update", <<Point(1, 0, FALSE)>>)>>}

Aggregates ==
  {"average", "total", "minimum", "maximum", "range", "count", "start", "end", "delta", "transitions",
   "variance", "sampleVariance", "percentGood", "worst", "durationGood", "durationBad", "durationZero",
   "durationNonZero"}

Archive ==
  INSTANCE History WITH points <- a, walk <- b, asked <- c, answer <- d, computed <- e, steps <- f,
    Time <- {1, 2, 4}, MaxPoints <- 3, Page <- 3, MaxItems <- 2, Kinds <- Aggregates \union {"percentBad", "timeAverage", "minimumActualTime", "other"},
    Updates <- HistoryUpdates, MaxSteps <- 4

-----------------------------------------------------------------------------
(* Method calls: more methods than entries, signatures and argument lists     *)

Argument(type, array) == [type |-> type, array |-> array]

Calling ==
  INSTANCE MethodCall WITH registered <- a, wanted <- b, ran <- c, results <- d, outcome <- e, audits <- f,
    steps <- g, Objects <- {"o"}, Methods <- {"m1", "m2", "m3"}, Existing <- {"m1", "m2"}, Callbacks <- {"f", "g"},
    Signatures <- {<<Argument(-1, FALSE)>>, <<Argument(6, FALSE), Argument(0, TRUE)>>},
    Arguments <- {<<>>, <<Argument(6, FALSE)>>, <<Argument(6, FALSE), Argument(7, TRUE)>>,
                  <<Argument(6, FALSE), Argument(6, FALSE), Argument(6, FALSE)>>},
    MaxMethods <- 2, MaxArgs <- 2, MaxSteps <- 3

-----------------------------------------------------------------------------
(* Events: two items, a pool of two audit payloads and one condition entry    *)

EventRings ==
  INSTANCE EventQueues WITH conditions <- a, pool <- b, poolNext <- c, poolSeq <- d, queue <- e, live <- f,
    raised <- g, written <- h, newest <- i, Sub <- {1}, Condition <- {"c1", "c2"},
    Items <- [s \in {1} |-> <<{"base", "audit", "condition"}, {"base"}>>], QueueSize <- 3, PoolSize <- 2,
    MaxConditions <- 1, SeqNumbers <- 4, BodyLimit <- 4, MaxEvents <- 5

(* Where clauses: trees of up to three elements, literals that fill the blob, *)
(* patterns with every special character, one element too many                *)

Elem(n) == [kind |-> "element", n |-> n, s |-> <<>>, field |-> "none"]
Int32(n) == [kind |-> "int", n |-> n, s |-> <<>>, field |-> "none"]
Str(s) == [kind |-> "string", n |-> 0, s |-> s, field |-> "none"]
TypeId(n) == [kind |-> "nodeId", n |-> n, s |-> <<>>, field |-> "none"]
Field(name) == [kind |-> "field", n |-> 0, s |-> <<>>, field |-> name]
Unknown == [kind |-> "other", n |-> 0, s |-> <<>>, field |-> "none"]
Guid == [Unknown EXCEPT !.kind = "unsupported"]
Op(op, args) == [op |-> op, args |-> args]

Leaves ==
  {Op("less", <<Field("severity"), Int32(2)>>), Op("equals", <<Field("message"), Str(<<1, 2>>)>>),
   Op("isNull", <<Field("message")>>), Op("ofType", <<TypeId(1)>>),
   Op("between", <<Field("severity"), Int32(1), Int32(2)>>), Op("inList", <<Field("severity"), Int32(1), Int32(3)>>),
   Op("greater", <<Field("message"), Str(<<1>>)>>), Op("cast", <<Int32(1)>>), Op("isNull", <<Guid>>),
   Op("inList", <<Field("severity"), Guid, Int32(1)>>)}

FewLeaves == {Op("less", <<Field("severity"), Int32(2)>>), Op("equals", <<Field("message"), Str(<<1, 2>>)>>)}

Roots ==
  {Op(op, <<x, y>>) : op \in {"and", "or", "not"}, x \in {Elem(0), Elem(1), Elem(2), Unknown},
                      y \in {Elem(1), Elem(2), Field("severity")}}

Patterns ==
  {<<>>, <<10>>, <<10, 1>>, <<1, 10>>, <<10, 11, 10>>, <<1, 10, 2, 10>>, <<11, 10, 11>>, <<10, 1, 10, 1>>,
   <<12, 1, 15, 2, 13, 10>>, <<12, 14, 1, 13>>, <<16, 10>>, <<10, 10, 2>>, <<12, 1, 2, 13, 11>>}

Two(s, t) == <<Op("or", <<Elem(1), Elem(2)>>), Op("equals", <<Field("message"), Str(s)>>),
               Op("equals", <<Field("message"), Str(t)>>)>>

FilterClauses ==
  {<<>>} \union {<<x>> : x \in Leaves}
  \union {<<r, m, l>> : r \in Roots, m \in FewLeaves \union {Op("not", <<Elem(2)>>), Op("and", <<Elem(2), Elem(0)>>)},
                        l \in FewLeaves}
  \union {<<Op("like", <<Field("message"), Str(p)>>)>> : p \in Patterns}
  \union {Two(<<1>>, <<2, 1>>), Two(<<1, 2, 1>>, <<1, 1, 2, 1>>)}
  \union {Append(Two(<<1>>, <<2, 1>>), Op("isNull", <<Field("message")>>))}

Filters ==
  INSTANCE EventFilter WITH wire <- a, clause <- b, result <- c, event <- d, verdict <- e,
    MaxElements <- 3, MaxOperands <- 6, BlobBytes <- 6, MaxDepth <- 3, Clauses <- FilterClauses,
    Events <- {[severity |-> n, eventType |-> n - 1, message |-> m] : n \in 1..2,
               m \in {<<>>, <<1>>, <<1, 2>>, <<2, 1>>, <<1, 2, 1>>, <<1, 1, 2>>, <<10>>}}

-----------------------------------------------------------------------------
(* Aggregates of MonitoredItems: an interval of three ticks *)

Processed ==
  INSTANCE Aggregate WITH kind <- a, acc <- b, last <- c, hasValue <- d, since <- e, now <- f, out <- g, window <- h,
    Kind <- Aggregates \union {"percentBad"}, Number <- {0, 1, 3}, Interval <- 3, Scale <- 12, Steps <- {1, 2}, MaxNow <- 7

-----------------------------------------------------------------------------
PartInit ==
  \/ part = "nodes" /\ NodeTable!Init /\ i = 0
  \/ part = "views" /\ Viewing!Init /\ g = 0 /\ h = 0 /\ i = 0
  \/ part = "cache" /\ Cache!Init /\ i = 0
  \/ part = "ranges" /\ Ranges!Init /\ i = 0
  \/ part = "history" /\ Archive!Init /\ g = 0 /\ h = 0 /\ i = 0
  \/ part = "methods" /\ Calling!Init /\ h = 0 /\ i = 0
  \/ part = "events" /\ EventRings!Init
  \/ part = "filters" /\ Filters!Init /\ f = 0 /\ g = 0 /\ h = 0 /\ i = 0
  \/ part = "aggregates" /\ Processed!Init /\ i = 0

PartNext ==
  /\ UNCHANGED part
  /\ \/ part = "nodes" /\ NodeTable!Next /\ UNCHANGED i
     \/ part = "views" /\ Viewing!Next /\ UNCHANGED <<g, h, i>>
     \/ part = "cache" /\ Cache!Next /\ UNCHANGED i
     \/ part = "ranges" /\ Ranges!Next /\ UNCHANGED i
     \/ part = "history" /\ Archive!Next /\ UNCHANGED <<g, h, i>>
     \/ part = "methods" /\ Calling!Next /\ UNCHANGED <<h, i>>
     \/ part = "events" /\ EventRings!Next
     \/ part = "filters" /\ Filters!Next /\ UNCHANGED <<f, g, h, i>>
     \/ part = "aggregates" /\ Processed!Next /\ UNCHANGED i

PartSpec == PartInit /\ [][PartNext]_all

-----------------------------------------------------------------------------
(* The properties of the components, each about its part; more is said with   *)
(* the components.                                                            *)

(* Node management and Query: the tables hold what clients were granted and   *)
(* did not delete, and queries list it.                                       *)
NodesServed == [][part = "nodes" => NodeTable!NodesServedStep]_all

(* View services: lookup, Browse and TranslateBrowsePaths answer as plain     *)
(* searches of the address space would.                                       *)
ViewsExact == part = "views" => Viewing!ViewsExact

(* Attribute services: no value is older than the client's maxAge, an index   *)
(* range whose numbers an Int32 holds writes the elements it names and no     *)
(* other, a Read returns elements of the array for any range, and the audit   *)
(* event of a Write has the value before it.                                  *)
AttributesExact ==
  [][/\ part = "cache" => Cache!ReadFreshStep
     /\ part = "ranges" => Ranges!WriteExactStep /\ Ranges!ReadInsideStep /\ Ranges!AuditTellsStep]_all

(* History: results tell what was stored, pages cover their range once and    *)
(* aggregates are those of the points.                                        *)
HistoryKept == part = "history" => Archive!HistoryKept

(* Call: the callback that runs is the one registered for the call, with the  *)
(* arguments it declares.                                                     *)
RunsAsDeclared == part = "methods" => Calling!RunsAsDeclared

(* Events: queues hold the latest events, each is sent once with its own      *)
(* audit payload, and a condition is retained until it is settled.            *)
EventsFaithful == [][part = "events" => EventRings!EventsFaithfulStep]_all

(* Filters: an event is judged by the clause that was sent.                   *)
FiltersFaithful == [][part = "filters" => Filters!FiltersFaithfulStep]_all

(* Aggregates: what is published is the aggregate of the samples of the       *)
(* interval.                                                                  *)
AggregateExact == [][part = "aggregates" => Processed!AggregateExactStep]_all
=============================================================================
