------------------------------ MODULE TokenCodec ------------------------------
(* The two conversions behind a JWT: base64url text to bytes, and the raw      *)
(* r||s of an ECDSA signature to the DER form the crypto libraries want.       *)
EXTENDS Integers, SequencesExt, FiniteSetsExt

CONSTANTS
  Bytes,      \* byte values of the inputs
  MaxLength,  \* bytes encoded
  MaxHalf,    \* bytes of r and of s
  Room,       \* capacities of the outputs
  ShortForm,  \* DER lengths from here on need the long form (128 in the code)
  LongForm,   \* and from here on a second byte, which is refused (256)
  IntBuffer   \* int_buf, where the two integers are put together (270)

VARIABLES input, padded, room, kind, damaged, output

vars == <<input, padded, room, kind, damaged, output>>

Bad == [ok |-> FALSE, bytes |-> <<>>]
Unknown == [ok |-> FALSE, bytes |-> <<-1>>]
Done(bytes) == [ok |-> TRUE, bytes |-> bytes]

Pad == 64      \* '='
Invalid == -1  \* a character that is none of the alphabet

(* The issuer's encoding: groups of three bytes give four characters. *)
Char(bytes, i, k) ==
  LET At(j) == IF j <= Len(bytes) THEN bytes[j] ELSE 0
      word == At(i) * 65536 + At(i + 1) * 256 + At(i + 2)
  IN (word \div (64 ^ (3 - k))) % 64

Encode(bytes, pad) ==
  LET groups == (Len(bytes) + 2) \div 3
      text == [c \in 1 .. 4 * groups |->
                 LET g == (c - 1) \div 4
                     used == Len(bytes) - 3 * g
                 IN IF (c - 1) % 4 > used THEN Pad ELSE Char(bytes, 3 * g + 1, (c - 1) % 4)]
  IN IF pad THEN text ELSE SelectSeq(text, LAMBDA c : c # Pad)

(* Four characters' values, the three bytes they carry. *)
Triple(q) == <<(q[1] * 4 + q[2] \div 16) % 256, (q[2] * 16 + q[3] \div 4) % 256, (q[3] * 64 + q[4]) % 256>>

(* Characters before the first padding; -1 fails wherever it is met. *)
Meaning(text) ==
  LET stops == {i \in DOMAIN text : text[i] \in {Pad, Invalid}}
  IN IF stops = {} THEN text ELSE SubSeq(text, 1, Min(stops) - 1)

(* mu_base64url_decode: whole quads, then a tail of two or three characters.   *)
Decode(text, cap) ==
  LET chars == Meaning(text)
      quads == Len(chars) \div 4
      tail == Len(chars) % 4
      Quad(g) == [k \in 1 .. 4 |-> IF 4 * g + k <= Len(chars) THEN chars[4 * g + k] ELSE 0]
      whole == FlattenSeq([g \in 1 .. quads |-> Triple(Quad(g - 1))])
      rest == IF tail = 0 THEN <<>> ELSE SubSeq(Triple(Quad(quads)), 1, tail - 1)
      stopped == Len(chars) < Len(text) /\ text[Len(chars) + 1] = Invalid
  IN IF stopped \/ tail = 1 \/ Len(whole \o rest) > cap THEN Bad ELSE Done(whole \o rest)

-----------------------------------------------------------------------------
Signed(v) == IF v[1] >= 128 THEN <<0>> \o v ELSE v

(* Leading zeros go, one byte stays. *)
Trimmed(v) ==
  LET at == {i \in DOMAIN v : v[i] # 0} IN SubSeq(v, IF at = {} THEN Len(v) ELSE Min(at), Len(v))

Length(n) == IF n < ShortForm THEN <<n>> ELSE <<129, n>>

Integer(v) == <<2>> \o Length(Len(Signed(Trimmed(v)))) \o Signed(Trimmed(v))

(* The checks in front of an integer that int_buf is to hold at place at; they *)
(* count a tag and one byte of length.                                         *)
Refused(v, at) == LET n == Len(Signed(Trimmed(v))) IN at + 2 + n > IntBuffer \/ n >= LongForm

(* raw_ecdsa_to_der *)
ToDer(rs, cap) ==
  LET half == Len(rs) \div 2
      r == SubSeq(rs, 1, half)
      s == SubSeq(rs, half + 1, Len(rs))
      ints == Integer(r) \o Integer(s)
      der == <<48>> \o Length(Len(ints)) \o ints
  IN IF half = 0 \/ Len(rs) # 2 * half THEN Bad
     ELSE IF Refused(r, 0) \/ Refused(s, Len(Integer(r))) THEN Bad
     ELSE IF Len(ints) >= LongForm \/ Len(der) > cap THEN Bad ELSE Done(der)

-----------------------------------------------------------------------------
Init ==
  /\ kind \in {"base64url", "der"}
  /\ input \in UNION {[1 .. n -> Bytes] : n \in 0 .. IF kind = "der" THEN 2 * MaxHalf ELSE MaxLength}
  /\ padded \in IF kind = "der" THEN {FALSE} ELSE BOOLEAN
  /\ room \in Room
  /\ damaged = FALSE
  /\ output = Unknown

Convert ==
  /\ output = Unknown
  /\ output' = IF kind = "der" THEN ToDer(input, room) ELSE Decode(Encode(input, padded), room)
  /\ UNCHANGED <<input, padded, room, kind, damaged>>

(* A character outside the alphabet, put anywhere. *)
Damage ==
  /\ kind = "base64url" /\ output = Unknown
  /\ damaged' = TRUE
  /\ \E i \in 1 .. 4 * ((MaxLength + 2) \div 3) :
       /\ i <= Len(Encode(input, FALSE))
       /\ output' = Decode([Encode(input, FALSE) EXCEPT ![i] = Invalid], room)
  /\ UNCHANGED <<input, padded, room, kind>>

Next == Convert \/ Damage

Spec == Init /\ [][Next]_vars

-----------------------------------------------------------------------------
RECURSIVE Value(_)
Value(v) == IF v = <<>> THEN 0 ELSE 256 * Value(SubSeq(v, 1, Len(v) - 1)) + v[Len(v)]

(* The reader of a DER length and of what it counts, from position i. *)
ContentAt(der, i) == IF der[i + 1] = 129 THEN i + 3 ELSE i + 2
EndAt(der, i) == ContentAt(der, i) + (IF der[i + 1] = 129 THEN der[i + 2] ELSE der[i + 1]) - 1

(* Text decodes to the bytes it was encoded from, padded or not, whenever they *)
(* fit, and to nothing at all when one of its characters is wrong.             *)
Base64Exact ==
  kind = "base64url" /\ output # Unknown =>
    output = IF damaged \/ Len(input) > room THEN Bad ELSE Done(input)

(* A DER reader finds r and s, as positive integers in their shortest form, in *)
(* what verification is given, up to the lengths of two bytes that             *)
(* raw_ecdsa_to_der refuses.                                                   *)
DerExact ==
  kind = "der" /\ output.ok =>
    LET der == output.bytes
        half == Len(input) \div 2
        first == ContentAt(der, 1)
        second == EndAt(der, first) + 1
        Reads(i, v) ==
          LET content == SubSeq(der, ContentAt(der, i), EndAt(der, i))
          IN /\ der[i] = 2 /\ content[1] < 128
             /\ Value(content) = Value(v)
             /\ Len(content) > 1 /\ content[1] = 0 => content[2] >= 128
    IN /\ der[1] = 48 /\ EndAt(der, 1) = Len(der) /\ EndAt(der, second) = Len(der)
       /\ Reads(first, SubSeq(input, 1, half))
       /\ Reads(second, SubSeq(input, half + 1, Len(input)))
=============================================================================
