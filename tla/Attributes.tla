------------------------------ MODULE Attributes ------------------------------
(* Read with its value cache and Write with IndexRange: attribute_read/,       *)
(* attribute_write/ and attribute_handler.c. A request of several operations   *)
(* is that many steps, since nothing else runs between them.                   *)
EXTENDS Integers, SequencesExt

CONSTANTS
  Nodes,       \* node -> [class, hasValue, first]: the variables and other nodes
  Datum,       \* elements of values
  Values,      \* values of Write requests: [array, type, v], no type for a missing one
  Texts,       \* IndexRange texts: digits 0..9, 10 for the colon, 11 for anything else
  Ages,        \* maxAge of Read requests
  Always,      \* the maxAge from which on a cached value always serves
  Modulus,     \* numbers of a range are held in this many values, from -Modulus/2
  MaxNow,      \* bound on the clock
  MaxSteps     \* bound on the requests of a behaviour

VARIABLES
  source,      \* what the application's value sources hold
  cache,       \* entry 0 of mu_read_cache_t, the only one ever stored
  now,
  answer,      \* the last response
  audit,       \* the last AuditWriteUpdateEvent
  held,        \* every value a source had, and at which time of the clock
  back,        \* the clock went back
  steps

vars == <<source, cache, now, answer, audit, held, back, steps>>

Node == DOMAIN Nodes
NoValue == [array |-> FALSE, type |-> -1, v |-> <<>>]
NoAudit == [node |-> "none", good |-> FALSE, old |-> NoValue, new |-> NoValue]
NoAnswer == [op |-> "none", node |-> "none", status |-> "", value |-> NoValue, age |-> 0, text |-> <<>>]
Variables == {n \in Node : Nodes[n].class = "variable" /\ Nodes[n].hasValue}

Init ==
  /\ source = [n \in Node |-> Nodes[n].first]
  /\ cache = [valid |-> FALSE, node |-> "none", value |-> NoValue, at |-> 0]
  /\ now = 0
  /\ answer = NoAnswer
  /\ audit = NoAudit
  /\ held = {<<n, 0, source[n]>> : n \in Variables}
  /\ back = FALSE
  /\ steps = 0

Step(a) ==
  /\ steps' = steps + 1
  /\ answer' = a

-----------------------------------------------------------------------------
(* parse_decimal_run: the number wraps at the width of an Int32. *)
Digits(text) ==
  LET ends == {k \in 1..Len(text) : text[k] > 9}
  IN IF ends = {} THEN text ELSE SubSeq(text, 1, (CHOOSE k \in ends : \A j \in ends : k <= j) - 1)

Wrapped(n) == ((n + Modulus \div 2) % Modulus) - Modulus \div 2

Number(digits) == FoldLeft(LAMBDA n, d : Wrapped(n * 10 + d), 0, digits)

Unparsed == [ok |-> FALSE, from |-> 0, to |-> -1]

(* parse_numeric_range, and the same grammar in parse_write_index_range: from  *)
(* lies before to; then the runs of digits and what separates them             *)
Ordered(from, to) == IF to # -1 /\ from >= to THEN Unparsed ELSE [ok |-> TRUE, from |-> from, to |-> to]

ParsedRuns(a, rest, b) ==
  IF a = <<>> \/ (rest # <<>> /\ (rest[1] # 10 \/ b = <<>> \/ Len(b) + 1 # Len(rest))) THEN Unparsed
  ELSE Ordered(Number(a), IF rest = <<>> THEN -1 ELSE Number(b))

Parsed(text) ==
  LET a == Digits(text)
      rest == SubSeq(text, Len(a) + 1, Len(text))
  IN ParsedRuns(a, rest, IF rest = <<>> THEN <<>> ELSE Digits(Tail(rest)))

SliceEnd(to, n) == IF to >= n THEN n - 1 ELSE to

(* apply_index_range: the value read, narrowed to the range. *)
SlicedBy(r, text, val) ==
  LET n == Len(val.v)
      result(s, x) == [status |-> s, value |-> x]
  IN IF text = <<>> \/ ~val.array \/ n = 0 THEN result("Good", val)
     ELSE IF ~r.ok THEN result("IndexRangeInvalid", NoValue)
     ELSE IF r.from < 0 \/ r.from >= n THEN result("IndexRangeNoData", NoValue)
     ELSE IF r.to = -1 THEN result("Good", [val EXCEPT !.array = FALSE, !.v = <<val.v[r.from + 1]>>])
     ELSE result("Good", [val EXCEPT !.v = [k \in 1..(SliceEnd(r.to, n) - r.from + 1) |->
                                              IF r.from + k <= n THEN val.v[r.from + k] ELSE -1]])

Sliced(text, val) == SlicedBy(Parsed(text), text, val)

-----------------------------------------------------------------------------
(* Mutant: the cache is searched by age alone. *)
CachedAny(n, age) == cache.valid /\ (now - cache.at < 0 \/ age >= Always \/ now - cache.at <= age)

(* mu_read_cache_lookup: a negative age, after the clock went back, serves too. *)
Cached(n, age) ==
  /\ age > 0
  /\ cache.valid /\ cache.node = n
  /\ now - cache.at < 0 \/ age >= Always \/ now - cache.at <= age

(* The cache copies the variant, and with it the pointer of an array: what an *)
(* array holds is what its source holds by now.                               *)
FromCache == IF cache.value.array THEN source[cache.node] ELSE cache.value

(* Read of the Value: ok is the outcome of the source's callback. *)
ReadValue(n, age, text, ok) ==
  LET hit == Cached(n, age)
      taken == IF hit THEN FromCache ELSE source[n]
      sliced == Sliced(text, taken)
      failed == [status |-> "ReadFailed", value |-> NoValue]
      res == IF hit \/ ok THEN sliced ELSE failed
  IN /\ n \in Variables
     /\ Step([op |-> "read", node |-> n, status |-> res.status, value |-> res.value, age |-> age, text |-> text])
     /\ cache' = IF ~hit /\ ok THEN [valid |-> TRUE, node |-> n, value |-> source[n], at |-> now] ELSE cache
     /\ UNCHANGED <<source, now, audit, held, back>>

(* The attributes read_attribute knows for a class of node. *)
Readable(class, attr) ==
  CASE attr = "value" -> class = "variable"
    [] attr \in {"dataType", "valueRank", "arrayDimensions"} -> class \in {"variable", "variableType"}
    [] attr \in {"accessLevel", "historizing", "minimumSamplingInterval"} -> class = "variable"
    [] attr = "executable" -> class = "method"
    [] attr = "eventNotifier" -> class \in {"object", "view"}
    [] OTHER -> attr # "none"

(* write_attribute_is_valid_for_node *)
Known(class, attr) ==
  CASE attr \in {"nodeId", "browseName", "value"} -> TRUE
    [] attr \in {"dataType", "valueRank"} -> class \in {"variable", "variableType"}
    [] attr \in {"accessLevel", "historizing", "minimumSamplingInterval"} -> class = "variable"
    [] attr = "executable" -> class = "method"
    [] attr = "eventNotifier" -> class \in {"object", "view"}
    [] attr = "isAbstract" -> class \in {"objectType", "variableType", "referenceType", "dataType"}
    [] attr \in {"symmetric", "inverseName"} -> class = "referenceType"
    [] attr = "containsNoLoops" -> class = "view"
    [] OTHER -> FALSE

Attributes == {"value", "nodeId", "isAbstract", "arrayDimensions"}

(* Reads that do not reach a value source. *)
ReadOther(n, attr) ==
  LET class == Nodes[n].class
      status == CASE class = "null" -> "NodeIdInvalid"
                  [] class = "unknown" -> "NodeIdUnknown"
                  [] ~Readable(class, attr) -> "AttributeIdInvalid"
                  [] attr = "value" -> "NotReadable"
                  [] OTHER -> "Good"
  IN /\ attr = "value" => n \notin Variables
     /\ Step([NoAnswer EXCEPT !.op = "readOther", !.node = n, !.status = status])
     /\ UNCHANGED <<source, cache, now, audit, held, back>>

-----------------------------------------------------------------------------
(* parse_write_index_range refuses what does not lie inside the array; the     *)
(* start is compared with the length only, so that one which wrapped to a      *)
(* negative number passes.                                                     *)
WriteRange(r, n) ==
  IF ~r.ok \/ r.from >= n \/ (r.to # -1 /\ r.to >= n) THEN Unparsed
  ELSE [r EXCEPT !.to = IF r.to = -1 THEN r.from ELSE r.to]

(* The array with the patch in its place; what memcpy puts in front of the     *)
(* array, for a start that wrapped, is memory that no variable here stands for. *)
Merged(old, r, patch) ==
  [k \in DOMAIN old |-> IF k - 1 \in r.from..r.to THEN patch[k - r.from] ELSE old[k]]

(* write_value_index_range up to the call of the write handler *)
RangeWrite(n, r, val, ok) ==
  LET cur == source[n]
      result(s) == [status |-> s, value |-> cur]
  IN IF ~Nodes[n].hasValue THEN result("WriteNotSupported")
     ELSE IF ~ok THEN result("ReadFailed")
     ELSE IF ~cur.array \/ cur.v = <<>> THEN result("WriteNotSupported")
     ELSE IF ~val.array THEN result("TypeMismatch")
     ELSE IF ~r.ok THEN result("IndexRangeInvalid")
     ELSE IF cur.type # val.type THEN result("TypeMismatch")
     ELSE IF Len(val.v) # r.to - r.from + 1 THEN result("IndexRangeDataMismatch")
     ELSE [status |-> "Good", value |-> [cur EXCEPT !.v = Merged(cur.v, r, val.v)]]

(* The old value is read behind write_value_index_range and before the other   *)
(* writes; arrays are dropped from audit events.                               *)
OldValue(handled, before, after) ==
  LET old == IF handled THEN after ELSE before IN IF old.array THEN NoValue ELSE old

(* handle_write for one operation up to the call of the write handler *)
WriteChecked(n, attr, ranged, val, ok, merged) ==
  LET class == Nodes[n].class
  IN CASE class = "null" -> "NodeIdInvalid"
       [] class = "unknown" -> "NodeIdUnknown"
       [] ~Known(class, attr) -> "AttributeIdInvalid"
       [] attr # "value" -> "NotWritable"
       [] val = NoValue -> "TypeMismatch"
       [] class # "variable" -> "NotWritable"
       [] ranged -> merged.status
       [] Nodes[n].hasValue /\ ok /\ source[n].type # val.type -> "TypeMismatch"
       [] OTHER -> "Good"

(* What the operation leaves behind, with the value the source has then. *)
Wrote(n, attr, text, val, ok, status, after) ==
  LET handled == text # <<>> /\ Nodes[n].class = "variable" /\ attr = "value" /\ val # NoValue
      old == IF Nodes[n].hasValue /\ ok /\ attr = "value" THEN OldValue(handled, source[n], after) ELSE NoValue
  IN /\ Step([NoAnswer EXCEPT !.op = "write", !.node = n, !.status = status, !.value = val, !.text = text])
     /\ source' = [source EXCEPT ![n] = after]
     /\ audit' = [node |-> n, good |-> status = "Good", old |-> old, new |-> IF val.array THEN NoValue ELSE val]
     /\ held' = held \union (IF n \in Variables THEN {<<n, now, after>>} ELSE {})
     /\ UNCHANGED <<cache, now, back>>

(* ok: the source can be read; taken: what the application's write handler     *)
(* answers.                                                                    *)
Write(n, attr, text, val, ok, taken) ==
  \E merged \in {RangeWrite(n, WriteRange(Parsed(text), Len(source[n].v)), val, ok)} :
    \E checked \in {WriteChecked(n, attr, text # <<>>, val, ok, merged)} :
      IF checked = "Good" /\ taken
      THEN Wrote(n, attr, text, val, ok, "Good", IF text # <<>> THEN merged.value ELSE val)
      ELSE Wrote(n, attr, text, val, ok, IF checked = "Good" THEN "WriteRefused" ELSE checked, source[n])

(* The application changes a value by itself. *)
ChangeSource(n, x) ==
  /\ n \in Variables
  /\ source' = [source EXCEPT ![n].v = [k \in DOMAIN source[n].v |-> x]]
  /\ held' = held \union {<<n, now, source'[n]>>}
  /\ steps' = steps + 1
  /\ UNCHANGED <<cache, now, answer, audit, back>>

(* The application's clock, which may be set back. *)
ClockMoves(t) ==
  /\ t # now
  /\ now' = t
  /\ back' = (back \/ t < now)
  /\ held' = held \union {<<n, t, source[n]>> : n \in Variables}
  /\ steps' = steps + 1
  /\ UNCHANGED <<source, cache, answer, audit>>

Next ==
  /\ steps < MaxSteps
  /\ \/ \E n \in Node, age \in Ages, text \in Texts, ok \in BOOLEAN : ReadValue(n, age, text, ok)
     \/ \E n \in Node, attr \in Attributes : ReadOther(n, attr)
     \/ \E n \in Node, text \in Texts, val \in Values, out \in {"taken", "refused", "unreadable"} :
          Write(n, "value", text, val, out # "unreadable", out # "refused")
     \/ \E n \in Node, attr \in Attributes \ {"value"} : Write(n, attr, <<>>, NoValue, TRUE, TRUE)
     \/ \E n \in Node, x \in Datum : ChangeSource(n, x)
     \/ \E t \in 0..MaxNow : ClockMoves(t)

Spec == Init /\ [][Next]_vars

-----------------------------------------------------------------------------
ReadFreshStep ==
  (answer'.op = "read" /\ answer' # answer /\ answer'.status = "Good" /\ answer'.age < Always /\ ~back')
  => \E h \in held' : /\ h[1] = answer'.node /\ h[2] >= now' - answer'.age
                      /\ Sliced(answer'.text, h[3]).value = answer'.value

(* A value read with maxAge was the source's at some moment within that age,   *)
(* whatever the cache, other nodes and writes did in between, as long as the   *)
(* clock was not set back.                                                     *)
ReadFresh == [][ReadFreshStep]_vars

(* What the digits of a text stand for, without a width. *)
Exactly(digits) == FoldLeft(LAMBDA n, d : n * 10 + d, 0, digits)

(* Every number of the text is one that an Int32 holds. *)
Fits(text) ==
  LET a == Digits(text)
      b == SubSeq(text, Len(a) + 2, Len(text))
  IN Exactly(a) < Modulus \div 2 /\ Exactly(Digits(b)) < Modulus \div 2

Selected(text, n) ==
  LET a == Digits(text)
      b == SubSeq(text, Len(a) + 2, Len(text))
  IN IF text = <<>> THEN 1..n ELSE IF b = <<>> THEN {Exactly(a) + 1} ELSE Exactly(a) + 1..Exactly(b) + 1

WriteExactStep ==
  (answer'.op = "write" /\ answer' # answer) =>
  LET n == answer'.node
      sel == Selected(answer'.text, Len(source[n].v))
  IN /\ \A m \in Node : (m # n \/ answer'.status # "Good") => source'[m] = source[m]
     /\ (answer'.status = "Good" /\ answer'.text # <<>> /\ Fits(answer'.text)) =>
          /\ sel \subseteq DOMAIN source[n].v
          /\ \A k \in DOMAIN source[n].v :
               source'[n].v[k] = IF k \in sel THEN answer'.value.v[1] ELSE source[n].v[k]

(* A write that is answered Good with a range puts its elements where the      *)
(* range says and leaves the others as they were; the range lies inside the    *)
(* array. Any other answer leaves every source alone. A range with a number    *)
(* that no Int32 holds is excepted: the sum in parse_write_index_range wraps,  *)
(* and such a write may be answered Good and go elsewhere.                     *)
WriteExact == [][WriteExactStep]_vars

ReadInsideStep ==
  (answer'.op = "read" /\ answer' # answer /\ answer'.status = "Good") =>
  \A k \in DOMAIN answer'.value.v : answer'.value.v[k] \in Datum

(* What a Read with a range returns are elements of the array, whatever its    *)
(* numbers are: apply_index_range refuses a start below zero.                  *)
ReadInside == [][ReadInsideStep]_vars

AuditTellsStep ==
  (answer'.op = "write" /\ answer' # answer) =>
  /\ audit'.node = answer'.node /\ (audit'.good <=> answer'.status = "Good")
  /\ audit'.old # NoValue => audit'.old = source[answer'.node]

(* The audit event of a write carries the value the source had before it, and  *)
(* is successful exactly when the write was.                                   *)
AuditTells == [][AuditTellsStep]_vars
=============================================================================
