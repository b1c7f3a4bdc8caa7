---------------------------- MODULE BinaryCodec ----------------------------
(***************************************************************************)
(* The UA Binary encoding: writers of numbers, Strings, NodeIds, Variants, *)
(* DataValues and ExtensionObjects over a buffer of limited room, and the  *)
(* readers of the same values.  A composite writer returns at the first    *)
(* write that fails; only some failures also trip the writer's sticky      *)
(* status.  The UADP NetworkMessage of PubSub chains writers and looks at  *)
(* the sticky status alone.                                                *)
(*                                                                         *)
(* One value is written into a buffer, the bytes arrive whole or cut, and  *)
(* the reader of the same kind reads them.                                 *)
(***************************************************************************)
EXTENDS Integers, Sequences, SequencesExt, TLC

CONSTANTS
    Values,        \* set of [kind, v]: what is written
    Rooms,         \* sizes of the output buffer
    MaxString,     \* MU_MAX_ENCODED_STRING_LENGTH
    MaxArray,      \* MU_INTERN_MAX_ARRAY_LENGTH
    MaxFields,     \* MU_PUBSUB_MAX_FIELDS
    Scratch        \* size of the scratch buffer a structure is encoded into

VARIABLES
    sent,          \* the value written
    room,          \* size of the buffer
    wire,          \* the bytes written
    written,       \* what the writer reported
    cut,           \* the arriving bytes are only a prefix
    got            \* what the reader made of the bytes that arrived

vars == <<sent, room, wire, written, cut, got>>

Null == <<-1>>                       \* a String of length -1
Nothing == [ok |-> FALSE, pos |-> 0, v |-> <<>>]
Unread == [ok |-> TRUE, pos |-> -1, v |-> <<>>]

-----------------------------------------------------------------------------
(* Writing.  A writer is a sequence of pieces; a piece that does not fit   *)
(* ends the writer, and trips the sticky status when the piece is a        *)
(* primitive.                                                              *)

Little(width, n) ==
    [i \in 1..width |-> IF i > 4 THEN (IF n < 0 THEN 255 ELSE 0)
                        ELSE (n \div 256^(i - 1)) % 256]

Number(width, n) == <<[bytes |-> Little(width, n), trips |-> TRUE]>>

Refusal == <<[bytes |-> <<>>, trips |-> FALSE]>>

\* A String is Null or its length followed by its bytes.
StringLength(s) == Head(s)

Text(s) ==
    IF s = Null THEN Number(4, -1)
    ELSE IF StringLength(s) > MaxString THEN Refusal
    ELSE Number(4, StringLength(s))
         \o (IF StringLength(s) > 0 THEN <<[bytes |-> Tail(s), trips |-> FALSE]>> ELSE <<>>)

Format(node) ==
    CASE node.type = "numeric" ->
           IF node.ns = 0 /\ Head(node.id) <= 255 THEN 0
           ELSE IF node.ns <= 255 /\ Head(node.id) <= 65535 THEN 1 ELSE 2
      [] node.type = "string" -> 3
      [] node.type = "guid" -> 4
      [] node.type = "opaque" -> 5

NodeBody(node) ==
    CASE Format(node) = 0 -> Number(1, Head(node.id))
      [] Format(node) = 1 -> Number(1, node.ns) \o Number(2, Head(node.id))
      [] Format(node) = 2 -> Number(2, node.ns) \o Number(4, Head(node.id))
      [] Format(node) = 3 -> Number(2, node.ns) \o Text(node.id)
      [] Format(node) = 4 -> Number(2, node.ns) \o FlattenSeq([i \in 1..16 |-> Number(1, node.id[i])])
      [] Format(node) = 5 -> Number(2, node.ns) \o Number(4, StringLength(node.id))
                             \o FlattenSeq([i \in 1..StringLength(node.id) |-> Number(1, node.id[i + 1])])

NodeId(node) == Number(1, Format(node)) \o NodeBody(node)

ExpandedNodeId(x) ==
    Number(1, Format(x.node) + (IF x.uri # Null THEN 128 ELSE 0) + (IF x.server # 0 THEN 64 ELSE 0))
    \o NodeBody(x.node)
    \o (IF x.uri # Null THEN Text(x.uri) ELSE <<>>)
    \o (IF x.server # 0 THEN Number(4, x.server) ELSE <<>>)

QualifiedName(q) == Number(2, q.ns) \o Text(q.name)

LocalizedText(l) ==
    Number(1, (IF l.locale # Null THEN 1 ELSE 0) + (IF l.text # Null THEN 2 ELSE 0))
    \o (IF l.locale # Null THEN Text(l.locale) ELSE <<>>)
    \o (IF l.text # Null THEN Text(l.text) ELSE <<>>)

\* Built-in types by number; the width of the fixed ones.
Width == (1 :> 1) @@ (2 :> 1) @@ (3 :> 1) @@ (4 :> 2) @@ (5 :> 2) @@ (6 :> 4) @@ (7 :> 4)
         @@ (8 :> 8) @@ (9 :> 8) @@ (10 :> 4) @@ (11 :> 8) @@ (13 :> 8) @@ (19 :> 4)

Scalar(type, v) ==
    CASE type \in DOMAIN Width -> Number(Width[type], v.n)
      [] type \in {12, 15} -> Text(v.s)
      [] type = 17 -> NodeId(v.node)
      [] type = 20 -> QualifiedName(v.name)
      [] type = 21 -> LocalizedText(v.ltext)
      [] OTHER -> Refusal

\* array: FALSE, or TRUE with length and elements; length -1 is a null array.
\* The application may also declare a length and point to no elements: only
\* the length is written.  Nothing bounds the length here; MaxArray is looked
\* at by the reader alone.
Variant(x) ==
    IF x.type = 0 THEN Number(1, IF x.array THEN 128 ELSE 0)
    ELSE IF x.array
         THEN Number(1, x.type + 128) \o Number(4, x.length)
              \o FlattenSeq([i \in DOMAIN x.elements |-> Scalar(x.type, x.elements[i])])
         ELSE Number(1, x.type) \o Scalar(x.type, x.elements[1])

\* The optional fields of a DataValue, in the order they are written, with
\* the bit of each in the mask.
Optional == <<[name |-> "status", bit |-> 2, width |-> 4],
              [name |-> "sourceTime", bit |-> 4, width |-> 8],
              [name |-> "sourcePico", bit |-> 16, width |-> 2],
              [name |-> "serverTime", bit |-> 8, width |-> 8],
              [name |-> "serverPico", bit |-> 32, width |-> 2]>>

Bits(d) == FoldLeft(LAMBDA sum, f : sum + (IF f.name \in DOMAIN d.fields THEN f.bit ELSE 0),
                    IF d.value # <<>> THEN 1 ELSE 0, Optional)

DataValue(d) ==
    Number(1, Bits(d))
    \o (IF d.value # <<>> THEN Variant(d.value[1]) ELSE <<>>)
    \o FlattenSeq([i \in DOMAIN Optional |->
            IF Optional[i].name \in DOMAIN d.fields
            THEN Number(Optional[i].width, d.fields[Optional[i].name]) ELSE <<>>])

\* The header; the body is copied in one piece.
ExtensionObject(e) ==
    NodeId(e.type)
    \o (IF e.body = <<>> THEN Number(1, 0)
        ELSE Number(1, 1) \o Number(4, Len(e.body)) \o <<[bytes |-> e.body, trips |-> FALSE]>>)

Fresh == [out |-> <<>>, tripped |-> FALSE, ok |-> TRUE, dropped |-> FALSE]

\* ok is what the current writer returns, tripped the sticky status, dropped
\* tells that a chain went on after a failure.
Put(limit, w, piece) ==
    IF ~w.ok THEN w
    ELSE IF piece.trips /\ w.tripped THEN [w EXCEPT !.ok = FALSE]
    ELSE IF ~piece.trips /\ piece.bytes = <<>> THEN [w EXCEPT !.ok = FALSE]
    ELSE IF Len(w.out) + Len(piece.bytes) > limit
         THEN [w EXCEPT !.ok = FALSE, !.tripped = @ \/ piece.trips]
    ELSE [w EXCEPT !.out = @ \o piece.bytes]

Run(limit, w, pieces) ==
    FoldLeft(LAMBDA acc, piece : Put(limit, acc, piece),
             [w EXCEPT !.ok = TRUE, !.dropped = @ \/ ~w.ok], pieces)

\* mu_encode_uadp_network_message: the header and the fields are chained,
\* returned statuses are dropped, the sticky status is looked at once, and
\* the size is patched into its place.
UadpHeader(m) == Number(1, 209) \o Number(1, 2) \o Number(4, m.publisher) \o Number(1, 1) \o Number(2, m.writer)

Uadp(limit, m) ==
    LET head == Run(limit, Fresh, UadpHeader(m) \o Number(2, 0))
        start == Run(limit, head, Number(1, 1))
        body == FoldLeft(LAMBDA w, x : Run(limit, w, Variant(x)), start, m.fields)
        size == Little(2, Len(body.out) - Len(head.out))
    IN IF Len(m.fields) > MaxFields \/ (\E i \in DOMAIN m.fields : m.fields[i].array) \/ body.tripped
       THEN [body EXCEPT !.out = <<>>, !.ok = FALSE]
       ELSE [body EXCEPT !.out = SubSeq(@, 1, Len(head.out) - 2) \o size
                                 \o SubSeq(@, Len(head.out) + 1, Len(@)),
                         !.ok = TRUE,
                         !.dropped = @ \/ ~body.ok]

\* A structure (Argument, ServerStatus, diagnostics): its fields are chained
\* into scratch, the sticky status is looked at once, and what was written
\* is wrapped.
Structure(limit, m) ==
    LET body == FoldLeft(LAMBDA w, f : Run(Scratch, w, Scalar(f.type, f.v)), Fresh, m.fields)
    IN IF body.tripped THEN [Fresh EXCEPT !.ok = FALSE]
       ELSE [Run(limit, Fresh, ExtensionObject([type |-> m.type, body |-> body.out]))
               EXCEPT !.dropped = body.dropped \/ ~body.ok]

Written(limit, value) ==
    CASE value.kind = "expanded" -> Run(limit, Fresh, ExpandedNodeId(value.v))
      [] value.kind = "node" -> Run(limit, Fresh, NodeId(value.v))
      [] value.kind = "variant" -> Run(limit, Fresh, Variant(value.v))
      [] value.kind = "datavalue" -> Run(limit, Fresh, DataValue(value.v))
      [] value.kind = "object" -> Run(limit, Fresh, ExtensionObject(value.v))
      [] value.kind = "structure" -> Structure(limit, value.v)
      [] value.kind = "uadp" -> Uadp(limit, value.v)

-----------------------------------------------------------------------------
(* Reading.  A reader returns its verdict, the position after what it read *)
(* and the value; a composite reader goes on only after a success.         *)

Got(pos, v) == [ok |-> TRUE, pos |-> pos, v |-> v]

Then(r, Next(_, _)) == IF r.ok THEN Next(r.pos, r.v) ELSE Nothing

Fits(w, pos, count) == pos + count <= Len(w)

\* A byte that was read past the end is whatever lies behind the buffer.
Byte(w, i) == IF i <= Len(w) THEN w[i] ELSE 0

Unsigned(w, pos, width) ==
    FoldLeft(LAMBDA sum, i : sum + Byte(w, pos + i) * 256^(i - 1), 0,
             [i \in 1..(IF width > 3 THEN 3 ELSE width) |-> i])

\* The top byte of a four-byte number carries the sign; longer numbers are
\* read by their low four bytes, the others extend the sign.
ReadNumber(w, pos, width) ==
    IF ~Fits(w, pos, width) THEN Nothing
    ELSE Got(pos + width,
             Unsigned(w, pos, width)
             + (IF width < 4 THEN 0
                ELSE (IF Byte(w, pos + 4) >= 128 THEN Byte(w, pos + 4) - 256 ELSE Byte(w, pos + 4)) * 16777216))

ReadText(w, pos) ==
    Then(ReadNumber(w, pos, 4), LAMBDA p, length :
        IF length = -1 THEN Got(p, Null)
        ELSE IF length < 0 \/ length > MaxString \/ ~Fits(w, p, length) THEN Nothing
        ELSE Got(p + length, <<length>> \o [i \in 1..length |-> Byte(w, p + i)]))

ReadNumbers(w, pos, width, count) ==
    FoldLeft(LAMBDA r, i : Then(r, LAMBDA p, ns :
                 Then(ReadNumber(w, p, width), LAMBDA q, n : Got(q, Append(ns, n)))),
             Got(pos, <<>>), [i \in 1..count |-> i])

Node(type, ns, id) == [type |-> type, ns |-> ns, id |-> id]

ReadNodeId(w, pos) ==
    Then(ReadNumber(w, pos, 1), LAMBDA p, mask :
        LET format == mask % 16
            index == ReadNumber(w, p, IF format = 1 THEN 1 ELSE 2)
        IN CASE format = 0 -> Then(ReadNumber(w, p, 1), LAMBDA q, n : Got(q, Node("numeric", 0, <<n>>)))
             [] format \in {1, 2} ->
                  Then(index, LAMBDA q, ns :
                      Then(ReadNumber(w, q, 2 * format), LAMBDA t, n : Got(t, Node("numeric", ns, <<n>>))))
             [] format = 3 ->
                  Then(index, LAMBDA q, ns : Then(ReadText(w, q), LAMBDA t, s : Got(t, Node("string", ns, s))))
             [] format = 4 ->
                  Then(index, LAMBDA q, ns :
                      Then(ReadNumbers(w, q, 1, 16), LAMBDA t, g : Got(t, Node("guid", ns, g))))
             [] format = 5 ->
                  Then(index, LAMBDA q, ns : Then(ReadNumber(w, q, 4), LAMBDA t, length :
                      IF length \notin 0..16 THEN Nothing
                      ELSE Then(ReadNumbers(w, t, 1, length), LAMBDA u, o :
                               Got(u, Node("opaque", ns, <<length>> \o o)))))
             [] OTHER -> Nothing)

ReadExpandedNodeId(w, pos) ==
    IF ~Fits(w, pos, 1) THEN Nothing
    ELSE Then(ReadNodeId(w, pos), LAMBDA p, node :
        LET mask == Byte(w, pos + 1)
            uri == IF mask >= 128 THEN ReadText(w, p) ELSE Got(p, Null)
        IN Then(uri, LAMBDA q, u :
               LET server == IF (mask \div 64) % 2 = 1 THEN ReadNumber(w, q, 4) ELSE Got(q, 0)
               IN Then(server, LAMBDA t, n : Got(t, [node |-> node, uri |-> u, server |-> n]))))

ReadLocalizedText(w, pos) ==
    Then(ReadNumber(w, pos, 1), LAMBDA p, mask :
        Then(IF mask % 2 = 1 THEN ReadText(w, p) ELSE Got(p, Null), LAMBDA q, locale :
            Then(IF (mask \div 2) % 2 = 1 THEN ReadText(w, q) ELSE Got(q, Null), LAMBDA t, text :
                Got(t, [locale |-> locale, text |-> text]))))

ReadScalar(w, pos, type) ==
    CASE type \in DOMAIN Width -> Then(ReadNumber(w, pos, Width[type]), LAMBDA p, n : Got(p, [n |-> n]))
      [] type \in {12, 15} -> Then(ReadText(w, pos), LAMBDA p, s : Got(p, [s |-> s]))
      [] type = 17 -> Then(ReadNodeId(w, pos), LAMBDA p, node : Got(p, [node |-> node]))
      [] type = 20 -> Then(ReadNumber(w, pos, 2), LAMBDA p, ns :
                          Then(ReadText(w, p), LAMBDA q, s : Got(q, [name |-> [ns |-> ns, name |-> s]])))
      [] type = 21 -> Then(ReadLocalizedText(w, pos), LAMBDA p, l : Got(p, [ltext |-> l]))
      [] OTHER -> Nothing

ReadElements(w, pos, type, count) ==
    FoldLeft(LAMBDA r, i : Then(r, LAMBDA p, vs :
                 Then(ReadScalar(w, p, type), LAMBDA q, v : Got(q, Append(vs, v)))),
             Got(pos, <<>>), [i \in 1..count |-> i])

\* The array branch, in the build that may allocate the elements.
ReadArray(w, pos, type, dimensions) ==
    Then(ReadNumber(w, pos, 4), LAMBDA p, length :
        IF length < -1 \/ length > MaxArray
           \/ (length > 0 /\ (type \notin DOMAIN Width \cup {12, 15, 17, 20, 21} \/ ~Fits(w, p, length)))
        THEN Nothing
        ELSE Then(ReadElements(w, p, type, length), LAMBDA q, vs :
            LET x == [type |-> type, array |-> TRUE, length |-> length, elements |-> vs]
            IN IF ~dimensions THEN Got(q, x)
               ELSE Then(ReadNumber(w, q, 4), LAMBDA t, count :
                        IF count < -1 \/ ~Fits(w, t, 4 * count) THEN Nothing
                        ELSE Got(t + 4 * (IF count < 0 THEN 0 ELSE count), x))))

ReadVariant(w, pos) ==
    Then(ReadNumber(w, pos, 1), LAMBDA p, mask :
        LET type == mask % 64
            array == mask >= 128
            dimensions == (mask \div 64) % 2 = 1
        IN IF dimensions /\ ~array THEN Nothing
           ELSE IF type = 0 THEN Got(p, [type |-> 0, array |-> FALSE, length |-> 0, elements |-> <<>>])
           ELSE IF array THEN ReadArray(w, p, type, dimensions)
           ELSE Then(ReadScalar(w, p, type), LAMBDA q, v :
                    Got(q, [type |-> type, array |-> FALSE, length |-> 0, elements |-> <<v>>])))

\* Mutant: the fields are read in the order of their bits.
ReadOrderByBit == <<Optional[1], Optional[2], Optional[4], Optional[3], Optional[5]>>

ReadOrder == Optional

ReadDataValue(w, pos) ==
    Then(ReadNumber(w, pos, 1), LAMBDA p, mask :
        LET value == IF mask % 2 = 1
                     THEN Then(ReadVariant(w, p), LAMBDA q, x : Got(q, <<x>>)) ELSE Got(p, <<>>)
            Next(r, f) == IF (mask \div f.bit) % 2 = 0 THEN r
                          ELSE Then(r, LAMBDA q, d :
                                   Then(ReadNumber(w, q, f.width), LAMBDA t, n :
                                       Got(t, [d EXCEPT !.fields = (f.name :> n) @@ @])))
        IN Then(value, LAMBDA q, x : FoldLeft(Next, Got(q, [value |-> x, fields |-> <<>>]), ReadOrder)))

\* The header, and the body within the declared length.
ReadExtensionObject(w, pos) ==
    Then(ReadNodeId(w, pos), LAMBDA p, type :
        Then(ReadNumber(w, p, 1), LAMBDA q, mask :
            LET length == IF mask = 0 THEN Got(q, 0)
                          ELSE IF mask \in {1, 2} THEN ReadNumber(w, q, 4) ELSE Nothing
            IN Then(length, LAMBDA t, n :
                   IF n < 0 \/ ~Fits(w, t, n) THEN Nothing
                   ELSE Got(t + n, [type |-> type, body |-> [i \in 1..n |-> Byte(w, t + i)]]))))

\* The fields of a body whose type the reader knows; the body has to be used up.
ReadStructure(w, fields) ==
    Then(ReadExtensionObject(w, 0), LAMBDA p, e :
        LET Next(r, f) == Then(r, LAMBDA q, fs :
                              Then(ReadScalar(e.body, q, f.type), LAMBDA t, v :
                                  Got(t, Append(fs, [type |-> f.type, v |-> v]))))
        IN Then(FoldLeft(Next, Got(0, <<>>), fields), LAMBDA q, fs :
               IF q # Len(e.body) THEN Nothing ELSE Got(p, [type |-> e.type, fields |-> fs])))

UnsupportedInUadp(mask) == mask >= 64 \/ mask \in {14, 16, 18, 22, 23, 24, 25}

\* Fields are read until the DataSetMessage is used up.
ReadFields(w, pos) ==
    LET Next(r, i) == IF ~r.ok \/ r.pos = Len(w) THEN r
                      ELSE IF i > MaxFields \/ UnsupportedInUadp(Byte(w, r.pos + 1)) THEN Nothing
                      ELSE Then(ReadVariant(w, r.pos), LAMBDA q, x : Got(q, Append(r.v, x)))
    IN FoldLeft(Next, Got(pos, <<>>), [i \in 1..(MaxFields + 1) |-> i])

ReadUadp(w) ==
    Then(ReadNumbers(w, 0, 1, 2), LAMBDA p, flags :
        Then(ReadNumber(w, p, 4), LAMBDA q, publisher :
            Then(ReadNumber(w, q, 1), LAMBDA t, count :
                Then(ReadNumbers(w, t, 2, 2), LAMBDA u, ids :
                    Then(ReadNumber(w, u, 1), LAMBDA b, dataSet :
                        IF flags # <<209, 2>> \/ count # 1 \/ ids[2] # Len(w) - u \/ dataSet # 1 THEN Nothing
                        ELSE Then(ReadFields(w, b), LAMBDA e, fields :
                                 Got(e, [publisher |-> publisher, writer |-> ids[1], fields |-> fields])))))))

Read(value, w) ==
    CASE value.kind = "expanded" -> ReadExpandedNodeId(w, 0)
      [] value.kind = "node" -> ReadNodeId(w, 0)
      [] value.kind = "variant" -> ReadVariant(w, 0)
      [] value.kind = "datavalue" -> ReadDataValue(w, 0)
      [] value.kind = "object" -> ReadExtensionObject(w, 0)
      [] value.kind = "structure" -> ReadStructure(w, value.v.fields)
      [] value.kind = "uadp" -> ReadUadp(w)

-----------------------------------------------------------------------------
Init ==
    /\ sent \in Values
    /\ room \in Rooms
    /\ LET w == Written(room, sent)
       IN /\ wire = w.out
          /\ written = [ok |-> w.ok, dropped |-> w.dropped]
    /\ cut = FALSE
    /\ got = Unread

\* The receiver reads the message; one that failed is not sent.
Receive ==
    /\ written.ok
    /\ got = Unread
    /\ got' = Read(sent, wire)
    /\ UNCHANGED <<sent, room, wire, written, cut>>

\* A shorter message, as a peer that stops early would send it.
ReceiveCut ==
    /\ written.ok
    /\ got = Unread
    /\ \E n \in 0..(Len(wire) - 1) : got' = Read(sent, SubSeq(wire, 1, n))
    /\ cut' = TRUE
    /\ UNCHANGED <<sent, room, wire, written>>

Next == Receive \/ ReceiveCut

Spec == Init /\ [][Next]_vars

-----------------------------------------------------------------------------
\* The arrays in a value, and those that are written as the reader takes them.
Arrays(value) ==
    {x \in CASE value.kind = "variant" -> {value.v}
             [] value.kind = "datavalue" -> ToSet(value.v.value)
             [] OTHER -> {} : x.array}

Complete(x) == x.length = (IF x.length < 0 THEN -1 ELSE Len(x.elements))

\* What a writer reported as written is read back as the same value, and
\* the reader stops exactly behind it, for every form of NodeId, Variant,
\* DataValue mask, ExtensionObject, structure and UADP message; a chain that went on
\* after a failed write is excepted.  So is an array whose elements are
\* missing, and one longer than MaxArray is written and always refused.
ReadBack ==
    (got # Unread /\ ~cut /\ ~written.dropped) =>
        IF \E x \in Arrays(sent) : x.length > MaxArray THEN ~got.ok
        ELSE (\A x \in Arrays(sent) : Complete(x)) => (got.ok /\ got.v = sent.v /\ got.pos = Len(wire))

\* A message cut short is refused: no reader makes a value out of bytes
\* that did not arrive.
CutRefused == cut => ~got.ok

=============================================================================
