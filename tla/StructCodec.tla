---------------------------- MODULE StructCodec ----------------------------
(***************************************************************************)
(* The encoder and decoder of structures defined by the application        *)
(* (mu_binary_encode_struct, mu_binary_decode_struct) and the registry of  *)
(* their definitions, and that of enumerations.  A definition is a list of *)
(* fields: scalar or nested structure, optional or not, array or not; the  *)
(* application may also name a data type the encoder does not know         *)
(* ("unsupported") or none at all ("nothing").  Both sides walk the value's*)
(* memory by the same offsets: one cell for a scalar, a length or a mask.  *)
(* A mask is kept and written in front of an optional field whose index is *)
(* a multiple of MaskBits, and nowhere else.                               *)
(***************************************************************************)
EXTENDS Integers, Sequences, SequencesExt

CONSTANTS
    Definitions,   \* sequences of [kind, optional, array, inner]
    Enumerations,  \* definitions of enumerations
    Rooms,         \* sizes of the output buffer, in cells
    Cells,         \* cells of the value's memory
    Number,        \* contents of a cell
    MaskBits,      \* fields a mask covers (32 in the code)
    Type,          \* ids of structure types
    MaxTypes       \* MU_MAX_COMPLEX_TYPES

VARIABLES
    table,         \* complex_types.structures: sequence of [type, definition]
    enums,         \* complex_types.enums, likewise
    memory,        \* the value's memory
    encoded,       \* what the encoder made of it
    decoded        \* what the decoder made of the wire

vars == <<table, enums, memory, encoded, decoded>>

None == [type |-> 0, definition |-> <<>>, ok |-> FALSE, wire |-> <<>>, used |-> {}]
Unread == [ok |-> FALSE, memory |-> <<>>, rest |-> <<>>]

Indices(definition) == [i \in DOMAIN definition |-> i]

HasMask(definition, i) == definition[i].optional /\ (i - 1) % MaskBits = 0

Marked(mask, i) == (mask \div 2^((i - 1) % MaskBits)) % 2 = 1

\* structure_value_size and field_value_size: an array counts one element.
RECURSIVE Size(_)
FieldSize(field) ==
    CASE field.kind = "scalar" -> 1
      [] field.kind = "structure" -> Size(field.inner)
      [] OTHER -> 0
Size(definition) ==
    FoldLeft(LAMBDA sum, i : sum + (IF HasMask(definition, i) THEN 1 ELSE 0) + FieldSize(definition[i]),
             0, Indices(definition))

-----------------------------------------------------------------------------
(* Encoding: e has the cells read so far, the wire, its room and the       *)
(* verdict.  After a failure nothing more is written.                      *)

Cell(m, k) == IF k \in DOMAIN m THEN m[k] ELSE 0

Emit(e, m, k) ==
    IF ~e.ok \/ Len(e.wire) = e.room THEN [e EXCEPT !.ok = FALSE]
    ELSE [e EXCEPT !.wire = Append(@, Cell(m, k)), !.used = @ \cup {k}]

RECURSIVE Encode(_, _, _, _)

EncodeElements(e, field, m, at, count) ==
    FoldLeft(LAMBDA acc, j :
                 CASE field.kind = "scalar" -> Emit(acc, m, at + j - 1)
                   [] field.kind = "structure" -> Encode(acc, field.inner, m, at + (j - 1) * FieldSize(field))
                   [] OTHER -> [acc EXCEPT !.ok = FALSE],
             e, [j \in 1..count |-> j])

EncodeField(s, definition, i, m) ==
    LET field == definition[i]
        masked == IF HasMask(definition, i)
                  THEN [s EXCEPT !.e = Emit(@, m, s.at), !.mask = Cell(m, s.at), !.at = @ + 1] ELSE s
        length == Cell(m, masked.at)
        count == IF length < 0 THEN 0 ELSE length
    IN IF field.optional /\ ~Marked(masked.mask, i)
       THEN [masked EXCEPT !.at = @ + FieldSize(field), !.e.ok = @ /\ FieldSize(field) # 0]
       ELSE IF field.array /\ field.kind # "nothing"
       THEN [masked EXCEPT !.e = EncodeElements(Emit(@, m, masked.at), field, m, masked.at + 1, count),
                           !.at = @ + 1 + count * FieldSize(field)]
       ELSE [masked EXCEPT !.e = EncodeElements(@, field, m, masked.at, 1), !.at = @ + FieldSize(field)]

Encode(e, definition, m, at) ==
    FoldLeft(LAMBDA s, i : EncodeField(s, definition, i, m),
             [e |-> e, at |-> at, mask |-> 0], Indices(definition)).e

-----------------------------------------------------------------------------
(* Decoding: d has the memory written so far, what is left of the wire and *)
(* the verdict.                                                            *)

Take(d, k) ==
    IF ~d.ok \/ d.rest = <<>> THEN [d EXCEPT !.ok = FALSE]
    ELSE [d EXCEPT !.rest = Tail(@),
                   !.memory = IF k \in DOMAIN @ THEN [@ EXCEPT ![k] = Head(d.rest)] ELSE @]

\* An absent field is cleared.
Zeroed(m, at, size) == [k \in DOMAIN m |-> IF k \in at..(at + size - 1) THEN 0 ELSE m[k]]

RECURSIVE Decode(_, _, _)

DecodeElements(d, field, at, count) ==
    FoldLeft(LAMBDA acc, j :
                 CASE field.kind = "scalar" -> Take(acc, at + j - 1)
                   [] field.kind = "structure" -> Decode(acc, field.inner, at)
                   [] OTHER -> [acc EXCEPT !.ok = FALSE],
             d, [j \in 1..count |-> j])

DecodeField(s, definition, i) ==
    LET field == definition[i]
        first == IF s.d.rest = <<>> THEN -1 ELSE Head(s.d.rest)
        masked == IF HasMask(definition, i)
                  THEN [s EXCEPT !.d = Take(@, s.at), !.mask = first, !.at = @ + 1] ELSE s
        length == IF masked.d.rest = <<>> THEN -1 ELSE Head(masked.d.rest)
    IN IF ~masked.d.ok THEN masked
       ELSE IF field.optional /\ ~Marked(masked.mask, i)
       THEN [masked EXCEPT !.at = @ + FieldSize(field), !.d.ok = FieldSize(field) # 0,
                           !.d.memory = Zeroed(@, masked.at, FieldSize(field))]
       ELSE IF field.array
       THEN IF length < 0 \/ field.kind \in {"structure", "nothing"} THEN [masked EXCEPT !.d.ok = FALSE]
            ELSE [masked EXCEPT !.d = DecodeElements(Take(@, masked.at), field, masked.at + 1, length),
                                !.at = @ + 1 + length * FieldSize(field)]
       ELSE [masked EXCEPT !.d = DecodeElements(@, field, masked.at, 1), !.at = @ + FieldSize(field)]

Decode(d, definition, at) ==
    FoldLeft(LAMBDA s, i : DecodeField(s, definition, i),
             [d |-> d, at |-> at, mask |-> 0], Indices(definition)).d

-----------------------------------------------------------------------------
Init ==
    /\ table = <<>>
    /\ enums = <<>>
    /\ memory \in [1..Cells -> Number]
    /\ encoded = None
    /\ decoded = Unread

\* mu_register_structure_type: a full table refuses, a known id is added again.
Register(type, definition) ==
    /\ Len(table) < MaxTypes
    /\ table' = Append(table, [type |-> type, definition |-> definition])
    /\ UNCHANGED <<enums, memory, encoded, decoded>>

\* mu_register_enumeration_type: the same, in a table of its own.
RegisterEnumeration(type, definition) ==
    /\ Len(enums) < MaxTypes
    /\ enums' = Append(enums, [type |-> type, definition |-> definition])
    /\ UNCHANGED <<table, memory, encoded, decoded>>

\* mu_find_structure_definition: the first entry of that id.
Find(type) ==
    LET matches == {i \in DOMAIN table : table[i].type = type}
    IN IF matches = {} THEN <<>> ELSE table[CHOOSE i \in matches : \A j \in matches : i <= j].definition

\* The application encodes its value by the definition it looks up, into a
\* buffer of its choice.
EncodeStruct(type, room) ==
    /\ encoded = None
    /\ Find(type) # <<>>
    /\ LET e == Encode([wire |-> <<>>, used |-> {}, room |-> room, ok |-> TRUE], Find(type), memory, 1)
       IN encoded' = [type |-> type, definition |-> Find(type), ok |-> e.ok, wire |-> e.wire, used |-> e.used]
    /\ UNCHANGED <<table, enums, memory, decoded>>

\* A reader with the same registry decodes it into memory of its own; what
\* the encoder failed on is not sent.
DecodeStruct ==
    /\ encoded.ok
    /\ decoded = Unread
    /\ decoded' = Decode([memory |-> [k \in 1..Cells |-> 0], rest |-> encoded.wire, ok |-> TRUE],
                         Find(encoded.type), 1)
    /\ UNCHANGED <<table, enums, memory, encoded>>

Next ==
    \/ \E type \in Type, definition \in Definitions : Register(type, definition)
    \/ \E type \in Type, definition \in Enumerations : RegisterEnumeration(type, definition)
    \/ \E type \in Type, room \in Rooms : EncodeStruct(type, room)
    \/ DecodeStruct

Spec == Init /\ [][Next]_vars

-----------------------------------------------------------------------------
\* What the decoder cannot take: arrays of structures, null arrays and
\* structures that do not fit the memory; and arrays inside a nested
\* structure, whose cells the next field overwrites.
Flat(definition) ==
    \A i \in DOMAIN definition :
        definition[i].kind = "structure" =>
              /\ ~definition[i].array
              /\ \A j \in DOMAIN definition[i].inner : ~definition[i].inner[j].array

NoNullArrays == \A k \in encoded.used : Cell(memory, k) >= 0

\* A structure the encoder reported as written is decoded by its definition
\* to the cells that were encoded, in their places, and uses up the wire: the
\* two walks over the memory agree on masks, absent fields, arrays, nested
\* structures and fields they cannot handle, a full buffer does not pass for
\* success, and later registrations do not change what an id stands for.
StructReadBack ==
    (decoded # Unread /\ Flat(encoded.definition) /\ NoNullArrays
     /\ encoded.used \subseteq 1..Cells)
    => (decoded.ok /\ decoded.rest = <<>> /\ \A k \in encoded.used : decoded.memory[k] = memory[k])
=============================================================================
