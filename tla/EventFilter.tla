----------------------------- MODULE EventFilter -----------------------------
(* The WhereClause of an EventFilter: decode_where_clause of filter_reader.c  *)
(* stores a ContentFilter in the compact form of mu_where_clause_t when the   *)
(* item is created, event_filter.c evaluates it against every event.          *)
(* A string is a sequence of small numbers, its characters.                   *)
EXTENDS Integers, SequencesExt, FiniteSetsExt

CONSTANTS
  MaxElements,   \* MU_INTERN_MAX_WHERE_ELEMENTS
  MaxOperands,   \* MU_INTERN_MAX_WHERE_OPERANDS
  BlobBytes,     \* MU_INTERN_WHERE_BLOB_BYTES
  MaxDepth,      \* MU_WHERE_MAX_DEPTH
  Clauses,       \* the WhereClauses clients send
  Events         \* the fields of the events that are triggered

VARIABLES
  wire,          \* the clause as sent
  clause,        \* the clause the item owns
  result,        \* filter_result of the decoding
  event,         \* the last event triggered
  verdict        \* whether it passed the filter

vars == <<wire, clause, result, event, verdict>>

Supported ==
  {"equals", "isNull", "greater", "less", "like", "not", "between", "inList", "and", "or", "ofType"}

-----------------------------------------------------------------------------
(* Decoding. An operand on the wire is [kind, n, s, field]: an element index, *)
(* a field, a literal number, string or numeric NodeId, a scalar literal of a  *)
(* type the filter does not know (unsupported), or something else (other: an   *)
(* array or no operand of these kinds).                                        *)

(* Mutant: the offset is taken after the bytes are counted. *)
BlobAppendLate(c, s) == [off |-> Len(c.blob) + Len(s), len |-> Len(s)]

(* where_blob_append: where the bytes of s go. *)
BlobAppend(c, s) == [off |-> Len(c.blob), len |-> Len(s)]

(* decode_where_operand: the operand is stored at index c.opIndex if there is *)
(* room; rejecting it leaves the result alone. A literal of an unknown type is *)
(* kept as such, one of another kind or too long for the blob is rejected.     *)
DecodeOperand(c, o) ==
  LET place == BlobAppend(c, o.s)
      fits == o.kind = "string" => Len(c.blob) + Len(o.s) <= BlobBytes
      stored == [kind |-> IF fits THEN o.kind ELSE "other", n |-> o.n, field |-> o.field,
                 off |-> IF o.kind = "string" /\ fits THEN place.off ELSE 0,
                 len |-> IF o.kind = "string" /\ fits THEN place.len ELSE 0]
      room == c.storing /\ c.opIndex < MaxOperands
  IN [c EXCEPT !.operands = IF room THEN Append(c.operands, stored) ELSE c.operands,
               !.blob = IF o.kind = "string" /\ fits THEN c.blob \o o.s ELSE c.blob,
               !.overflow = c.overflow \/ ~room,
               !.reject = c.reject \/ ~fits \/ o.kind = "other",
               !.opIndex = c.opIndex + 1]

(* One element of the clause with its operands. *)
DecodeElement(c, e) ==
  LET known == e.op \in Supported
      store == ~c.overflow
      d == [c EXCEPT !.reject = c.reject \/ ~known,
                     !.result = IF ~known /\ c.result = "good" THEN "operatorUnsupported" ELSE c.result,
                     !.storing = store,
                     !.elements = IF store
                                  THEN Append(c.elements, [op |-> e.op, base |-> c.opIndex, count |-> Len(e.args)])
                                  ELSE c.elements]
  IN FoldLeft(DecodeOperand, d, e.args)

EmptyClause == [elements |-> <<>>, operands |-> <<>>, blob |-> <<>>]

(* decode_where_clause: a clause that is rejected or does not fit is left     *)
(* empty; only an unknown operator and an overflow make the result bad.       *)
DecodeWhereClause(w) ==
  LET start == [elements |-> <<>>, operands |-> <<>>, blob |-> <<>>, opIndex |-> 0, reject |-> FALSE,
                overflow |-> Len(w) > MaxElements, storing |-> FALSE, result |-> "good"]
      c == FoldLeft(DecodeElement, start, w)
      r == IF c.overflow /\ c.result = "good" THEN "tooManyOperations" ELSE c.result
  IN [result |-> r,
      clause |-> IF c.reject \/ c.overflow \/ r # "good" THEN EmptyClause
                 ELSE [elements |-> c.elements, operands |-> c.operands, blob |-> c.blob]]

-----------------------------------------------------------------------------
(* Evaluation. A value is [kind, n, s]. *)
NullValue == [kind |-> "null", n |-> 0, s |-> <<>>]

IntValue(n) == [kind |-> "int", n |-> n, s |-> <<>>]

TruthValue(b) == IntValue(IF b THEN 1 ELSE 0)

(* read_event_field: an empty string and the null NodeId are absent fields. *)
ReadEventField(f, name) ==
  CASE name = "severity" -> IntValue(f.severity)
    [] name = "message" /\ f.message # <<>> -> [kind |-> "string", n |-> 0, s |-> f.message]
    [] name = "eventType" /\ f.eventType # 0 -> [kind |-> "nodeId", n |-> f.eventType, s |-> <<>>]
    [] OTHER -> NullValue

(* read_literal: the characters come from the blob. *)
ReadLiteral(c, o) ==
  [kind |-> o.kind, n |-> o.n,
   s |-> IF o.len > 0 /\ o.off + o.len <= Len(c.blob) THEN SubSeq(c.blob, o.off + 1, o.off + o.len) ELSE <<>>]

StringOrder(a, b) ==
  LET differ == {i \in 1..Min({Len(a), Len(b)}) : a[i] # b[i]}
  IN IF differ # {} THEN (IF a[Min(differ)] < b[Min(differ)] THEN -1 ELSE 1)
     ELSE IF Len(a) = Len(b) THEN 0 ELSE IF Len(a) < Len(b) THEN -1 ELSE 1

(* value_compare: -1, 0, 1, or -2 for values that have no order. *)
Compare(a, b) ==
  CASE a.kind # b.kind \/ a.kind = "null" -> -2
    [] a.kind = "int" -> IF a.n < b.n THEN -1 ELSE IF a.n > b.n THEN 1 ELSE 0
    [] a.kind = "string" -> StringOrder(a.s, b.s)
    [] OTHER -> IF a.n = b.n THEN 0 ELSE -2

Percent == 10  \* '%'
AnyOne == 11      \* '_'
Open == 12     \* '['
Close == 13    \* ']'
Caret == 14    \* '^'
Dash == 15     \* '-'
Escape == 16   \* '\'

RECURSIVE InBrackets(_, _, _)
(* The scan of a bracketed set: does ch match, and where does the set end. *)
InBrackets(p, i, ch) ==
  IF i > Len(p) \/ p[i] = Close THEN [hit |-> FALSE, next |-> IF i > Len(p) THEN i ELSE i + 1]
  ELSE LET range == i + 2 <= Len(p) /\ p[i + 1] = Dash /\ p[i + 2] # Close
           rest == InBrackets(p, IF range THEN i + 3 ELSE i + 1, ch)
       IN [rest EXCEPT !.hit = @ \/ (IF range THEN ch >= p[i] /\ ch <= p[i + 2] ELSE ch = p[i])]

(* Where the text may go on after %. *)
SkipAny(from, n) == from .. n + 1

RECURSIVE LikeMatch(_, _)
LikeMatch(p, s) ==
  IF p = <<>> THEN s = <<>>
  ELSE IF p[1] = Percent
       THEN Len(p) = 1 \/ \E k \in SkipAny(1, Len(s)) : LikeMatch(Tail(p), SubSeq(s, k, Len(s)))
  ELSE /\ s # <<>>
       /\ IF p[1] = AnyOne THEN LikeMatch(Tail(p), Tail(s))
          ELSE IF p[1] = Open
          THEN LET negate == Len(p) > 1 /\ p[2] = Caret
                   scan == InBrackets(p, IF negate THEN 3 ELSE 2, s[1])
               IN scan.hit # negate /\ LikeMatch(SubSeq(p, scan.next, Len(p)), Tail(s))
          ELSE LET skip == IF p[1] = Escape /\ Len(p) > 1 THEN 1 ELSE 0
               IN s[1] = p[1 + skip] /\ LikeMatch(SubSeq(p, 2 + skip, Len(p)), Tail(s))

Deeper(d) == d + 1

RECURSIVE EvalElement(_, _, _, _, _)
(* eval_element of element i (from 0) at depth d: an element operand is       *)
(* evaluated one level deeper, down to the limit, and counts as 0 or 1. An    *)
(* unsupported literal counts as null.                                        *)
EvalElement(c, f, i, d, limit) ==
  IF d > limit \/ i >= Len(c.elements) THEN FALSE
  ELSE
  LET el == c.elements[i + 1]
      op(j) == c.operands[el.base + j]
      val(j) == CASE op(j).kind = "element" -> TruthValue(EvalElement(c, f, op(j).n, Deeper(d), limit))
                  [] op(j).kind = "field" -> ReadEventField(f, op(j).field)
                  [] op(j).kind = "unsupported" -> NullValue
                  [] OTHER -> ReadLiteral(c, op(j))
      true(j) == val(j).kind = "int" /\ val(j).n # 0
  IN CASE el.op = "and" -> el.count >= 2 /\ true(1) /\ true(2)
       [] el.op = "or" -> el.count >= 2 /\ (true(1) \/ true(2))
       [] el.op = "not" -> el.count >= 1 /\ ~true(1)
       [] el.op = "isNull" -> el.count >= 1 /\ val(1).kind = "null"
       [] el.op = "equals" -> el.count >= 2 /\ Compare(val(1), val(2)) = 0
       [] el.op = "greater" -> el.count >= 2 /\ Compare(val(1), val(2)) = 1
       [] el.op = "less" -> el.count >= 2 /\ Compare(val(1), val(2)) = -1
       [] el.op = "between" -> el.count >= 3 /\ Compare(val(1), val(2)) \in {0, 1} /\ Compare(val(1), val(3)) \in {-1, 0}
       [] el.op = "inList" -> \E j \in 2..el.count : Compare(val(1), val(j)) = 0
       [] el.op = "like" -> el.count >= 2 /\ val(1).kind = "string" /\ val(2).kind = "string" /\ LikeMatch(val(2).s, val(1).s)
       [] el.op = "ofType" -> el.count >= 1 /\ val(1).kind = "nodeId" /\ ReadEventField(f, "eventType") = val(1)
       [] OTHER -> FALSE

(* mu_where_clause_eval: an empty clause lets every event pass. *)
WhereClauseEval(c, f) == c.elements = <<>> \/ EvalElement(c, f, 0, 0, MaxDepth)

-----------------------------------------------------------------------------
Init ==
  /\ wire \in Clauses
  /\ clause = DecodeWhereClause(wire).clause
  /\ result = DecodeWhereClause(wire).result
  /\ event = CHOOSE f \in Events : TRUE
  /\ verdict = FALSE

(* An event is written for the item if the item could be created. *)
Trigger(f) ==
  /\ result = "good"
  /\ event' = f
  /\ verdict' = WhereClauseEval(clause, f)
  /\ UNCHANGED <<wire, clause, result>>

Next == \E f \in Events : Trigger(f)

Spec == Init /\ [][Next]_vars

-----------------------------------------------------------------------------
Stored == result = "good" /\ clause.elements # <<>>

(* Offset of the operands of element i of the wire clause. *)
OperandsBefore(i) == FoldLeft(LAMBDA n, e : n + Len(e.args), 0, SubSeq(wire, 1, i - 1))

(* A clause the item keeps is the clause that was sent: every element has its *)
(* operator and its operands, and every literal read back out of the shared   *)
(* blob is the literal of the request, at every fill of the three arrays.     *)
StoredFaithful ==
  Stored =>
    /\ Len(clause.elements) = Len(wire)
    /\ \A i \in DOMAIN wire, j \in 1..MaxOperands :
         /\ clause.elements[i].op = wire[i].op
         /\ clause.elements[i].count = Len(wire[i].args)
         /\ clause.elements[i].base = OperandsBefore(i)
         /\ j <= Len(wire[i].args) =>
              LET o == clause.operands[OperandsBefore(i) + j]
                  a == wire[i].args[j]
              IN /\ <<o.kind, o.n, o.field>> = <<a.kind, a.n, a.field>>
                 /\ a.kind = "string" => ReadLiteral(clause, o).s = a.s

(* Every element operand points to a later element. *)
ForwardOnly ==
  \A i \in DOMAIN wire : \A j \in DOMAIN wire[i].args :
    wire[i].args[j].kind = "element" => wire[i].args[j].n >= i

DepthNeverCutsStep ==
  Stored /\ ForwardOnly =>
    verdict' = EvalElement(clause, event', 0, 0, 3 * MaxElements)

(* The depth limit of eval_element only ends cycles: a clause whose elements  *)
(* point forward, which may nest as deep as the element array is long, gets   *)
(* the verdict it would get without a limit.                                  *)
DepthNeverCuts == [][DepthNeverCutsStep]_vars

(* Like, by its definition: a pattern is a list of tokens and the text is cut *)
(* into pieces, one per token, each piece one the token stands for.           *)
RECURSIVE Tokens(_)
Tokens(p) ==
  IF p = <<>> THEN <<>>
  ELSE IF p[1] = Open
  THEN LET end == Min({i \in 2..Len(p) : p[i] = Close})
           negate == p[2] = Caret
           from == IF negate THEN 3 ELSE 2
           dashes == {i \in from + 1..end - 2 : p[i] = Dash}
           set == {p[i] : i \in from..end - 1} \cup UNION {p[i - 1]..p[i + 1] : i \in dashes}
       IN <<[run |-> FALSE, set |-> {ch \in 1..16 : (ch \in set) # negate}]>> \o Tokens(SubSeq(p, end + 1, Len(p)))
  ELSE IF p[1] = Escape THEN <<[run |-> FALSE, set |-> {p[2]}]>> \o Tokens(SubSeq(p, 3, Len(p)))
  ELSE <<[run |-> p[1] = Percent, set |-> IF p[1] = AnyOne THEN 1..16 ELSE {p[1]}]>> \o Tokens(Tail(p))

LikeByCuts(p, s) ==
  LET t == Tokens(p)
  IN \E cut \in [0..Len(t) -> 0..Len(s)] :
       /\ cut[0] = 0
       /\ cut[Len(t)] = Len(s)
       /\ \A k \in DOMAIN t :
            /\ cut[k - 1] <= cut[k]
            /\ ~t[k].run => cut[k] = cut[k - 1] + 1 /\ s[cut[k]] \in t[k].set

(* like_match agrees with the definition of Like on the event's message and   *)
(* every pattern of the clause that is well formed.                           *)
LikeExact ==
  \A i \in DOMAIN wire :
    wire[i].op = "like" => LikeMatch(wire[i].args[2].s, event.message)
                           = LikeByCuts(wire[i].args[2].s, event.message)

FiltersFaithfulStep == StoredFaithful' /\ LikeExact' /\ DepthNeverCutsStep

(* An event is let through by the clause that was sent: it is stored whole,    *)
(* Like is what it is defined to be, and the depth limit cuts no legal clause. *)
FiltersFaithful == [][FiltersFaithfulStep]_vars
=============================================================================
