----------------------------- MODULE JsonWebToken -----------------------------
(* Validation of a JWT: the scanner that reads claims out of the payload in    *)
(* one pass over its lexemes, and the search for an issuer that vouches for    *)
(* the token. Strings are sequences of characters, so that buffers can end.    *)
EXTENDS Integers, SequencesExt, FiniteSetsExt

CONSTANTS
  Payloads,     \* payloads of tokens: sequences of members [key, value]
  Headers,      \* [dots, alg, kid, decodes]: dots and header of a token
  Signers,      \* keys tokens are signed with
  IssuerTables, \* tables of trusted issuers
  Times,        \* server times
  Buffer,       \* characters a claim buffer holds (127 in the code)
  MaxRoles,     \* MU_JWT_MAX_ROLES
  NumberCap,    \* parse_json_int stops above this (9999999999 in the code)
  RoleCap       \* largest role identifier (0xFFFFFFFF in the code)

VARIABLES payload, header, signer, issuers, now, claims, verdict

vars == <<payload, header, signer, issuers, now, claims, verdict>>

-----------------------------------------------------------------------------
(* JSON values, and the lexemes an issuer writes for them. *)
Text(s) == [t |-> "text", s |-> s, n |-> 0, of |-> <<>>]
Numeral(n) == [t |-> "number", s |-> <<>>, n |-> n, of |-> <<>>]
Array(vs) == [t |-> "array", s |-> <<>>, n |-> 0, of |-> vs]
Object(ms) == [t |-> "object", s |-> <<>>, n |-> 0, of |-> ms]
Member(k, v) == [key |-> k, value |-> v]
Mark(c) == [t |-> c, s |-> <<>>, n |-> 0, of |-> <<>>]

RECURSIVE Lexemes(_)
Lexemes(v) ==
  LET Joined(parts) == FlattenSeq([i \in 1 .. Len(parts) |-> IF i = 1 THEN parts[i] ELSE <<Mark(",")>> \o parts[i]])
  IN CASE v.t = "array" -> <<Mark("[")>> \o Joined([i \in DOMAIN v.of |-> Lexemes(v.of[i])]) \o <<Mark("]")>>
       [] v.t = "object" -> <<Mark("{")>>
            \o Joined([i \in DOMAIN v.of |-> <<Text(v.of[i].key), Mark(":")>> \o Lexemes(v.of[i].value)])
            \o <<Mark("}")>>
       [] OTHER -> <<v>>

-----------------------------------------------------------------------------
(* The scanner. *)
NoClaims == [iss |-> <<>>, sub |-> <<>>, aud |-> <<>>, exp |-> 0, nbf |-> 0, iat |-> 0,
             roles |-> <<>>, overflow |-> FALSE]

IsAt(lex, i, c) == i <= Len(lex) /\ lex[i].t = c

(* Mutant: brackets of the other kind close as well. *)
ClosesAny(open, c) == c \in {"]", "}"}

Closes(open, c) == c = IF open = "[" THEN "]" ELSE "}"

(* skip_value: a bracket is matched by those of its own kind. *)
RECURSIVE SkipNested(_, _, _, _)
SkipNested(lex, i, open, depth) ==
  IF i > Len(lex) \/ depth = 0 THEN i
  ELSE SkipNested(lex, i + 1, open,
         CASE lex[i].t = open -> depth + 1
           [] Closes(open, lex[i].t) -> depth - 1
           [] OTHER -> depth)

SkipValue(lex, i) ==
  IF i <= Len(lex) /\ lex[i].t \in {"[", "{"} THEN SkipNested(lex, i + 1, lex[i].t, 1) ELSE i + 1

(* copy_json_string cuts at the buffer, and sub is emptied instead. *)
Copied(s) == SubSeq(s, 1, Min({Buffer, Len(s)}))
Subject(s) == IF Len(s) > Buffer THEN <<>> ELSE s

(* parse_json_int drops the digits that would exceed its cap. *)
RECURSIVE Parsed(_)
Parsed(n) ==
  CASE n < 0 -> -Parsed(-n)
    [] n > 10 * NumberCap + 9 -> Parsed(n \div 10)
    [] OTHER -> n

(* handle_roles_claim *)
RECURSIVE ScanRoles(_, _, _)
ScanRoles(lex, i, roles) ==
  LET wrong == [roles |-> <<>>, overflow |-> TRUE]
  IN CASE i > Len(lex) -> wrong
       [] lex[i].t = "]" -> IF Len(roles) > MaxRoles THEN wrong ELSE [roles |-> roles, overflow |-> FALSE]
       [] lex[i].t # "number" \/ Parsed(lex[i].n) \notin 0 .. RoleCap -> wrong
       [] IsAt(lex, i + 1, ",") -> ScanRoles(lex, i + 2, Append(roles, Parsed(lex[i].n)))
       [] IsAt(lex, i + 1, "]") -> ScanRoles(lex, i + 1, Append(roles, Parsed(lex[i].n)))
       [] OTHER -> wrong

(* dispatch_claim and the roles: what the value at i does to the claims. A     *)
(* value of another type leaves the claim as it is.                            *)
Dispatched(key, lex, i, out) ==
  LET text == lex[i].t = "text"
      number == lex[i].t = "number"
      first == IsAt(lex, i, "[") /\ IsAt(lex, i + 1, "text")
  IN CASE key = "iss" /\ text -> [out EXCEPT !.iss = Copied(lex[i].s)]
       [] key = "sub" /\ text -> [out EXCEPT !.sub = Subject(lex[i].s)]
       [] key = "aud" /\ text -> [out EXCEPT !.aud = Copied(lex[i].s)]
       [] key = "aud" /\ first -> [out EXCEPT !.aud = Copied(lex[i + 1].s)]
       [] key = "exp" /\ number -> [out EXCEPT !.exp = Parsed(lex[i].n)]
       [] key = "nbf" /\ number -> [out EXCEPT !.nbf = Parsed(lex[i].n)]
       [] key = "iat" /\ number -> [out EXCEPT !.iat = Parsed(lex[i].n)]
       [] key = "roles" /\ IsAt(lex, i, "[") ->
            LET r == ScanRoles(lex, i + 1, <<>>) IN [out EXCEPT !.roles = r.roles, !.overflow = r.overflow]
       [] key = "roles" -> [out EXCEPT !.roles = <<>>, !.overflow = FALSE]
       [] OTHER -> out

(* mu_claim_scan: members of the outermost object count, a string that no      *)
(* colon follows is passed over.                                               *)
RECURSIVE Scan(_, _, _, _)
Scan(lex, i, depth, out) ==
  CASE i > Len(lex) -> out
    [] lex[i].t = "{" -> Scan(lex, i + 1, depth + 1, out)
    [] lex[i].t = "}" -> Scan(lex, i + 1, depth - 1, out)
    [] lex[i].t = "text" /\ IsAt(lex, i + 1, ":") /\ i + 2 <= Len(lex) ->
         Scan(lex, SkipValue(lex, i + 2), depth, IF depth = 1 THEN Dispatched(lex[i].s, lex, i + 2, out) ELSE out)
    [] OTHER -> Scan(lex, i + 1, depth, out)

-----------------------------------------------------------------------------
(* kid_matches_issuer *)
KidMatches(issuer, kid) == issuer.kids = {} \/ kid \in issuer.kids

Expired(c, skew, t) == t > c.exp + skew

(* validate_against_issuer *)
AgainstIssuer(issuer, c, h, key, t) ==
  CASE Expired(c, issuer.skew, t) -> "Expired"
    [] c.nbf # 0 /\ t + issuer.skew < c.nbf -> "NotYetValid"
    [] issuer.aud = <<>> \/ c.aud # issuer.aud -> "Audience"
    [] c.sub = <<>> -> "NoSubject"
    [] issuer.alg # h.alg -> "Algorithm"
    [] key # issuer.key -> "Signature"
    [] OTHER -> "OK"

(* The loop of mu_jwt_validate over the issuers of the claimed URL: it ends    *)
(* with the first result that is not a failed signature.                       *)
IssuerVerdict(table, c, h, key, t) ==
  LET named == {k \in DOMAIN table : table[k].url = c.iss}
      Result(k) == IF KidMatches(table[k], h.kid) THEN AgainstIssuer(table[k], c, h, key, t) ELSE "Signature"
      final == {k \in named : Result(k) # "Signature"}
  IN CASE named = {} -> "Issuer"
       [] final = {} -> "Signature"
       [] OTHER -> Result(Min(final))

(* mu_jwt_validate: segments, header, payload, claims, issuers. *)
Validate(h, c, table, key, t) ==
  CASE table = <<>> -> "NoIssuers"
    [] h.dots # 2 -> "Malformed"
    [] ~h.decodes -> "Base64"
    [] h.alg = "none" -> "Algorithm"
    [] c.overflow -> "Malformed"
    [] c.exp = 0 -> "Expired"
    [] OTHER -> IssuerVerdict(table, c, h, key, t)

Init ==
  /\ payload \in Payloads
  /\ header \in Headers
  /\ signer \in Signers
  /\ issuers \in IssuerTables
  /\ now \in Times
  /\ claims = NoClaims
  /\ verdict = "none"

Present ==
  /\ verdict = "none"
  /\ claims' = Scan(Lexemes(Object(payload)), 1, 0, NoClaims)
  /\ verdict' = Validate(header, claims', issuers, signer, now)
  /\ UNCHANGED <<payload, header, signer, issuers, now>>

Next == Present

Spec == Init /\ [][Next]_vars

-----------------------------------------------------------------------------
(* The value of the last member of the payload with a key and a type. *)
LastMember(key, types, default) ==
  LET at == {i \in DOMAIN payload : payload[i].key = key /\ payload[i].value.t \in types}
  IN IF at = {} THEN default ELSE payload[Max(at)].value

(* The scanner finds the claims a JSON parser would: the members of the        *)
(* outermost object whatever nested values, with members of the same names,    *)
(* brackets and colons, surround them. Only values longer than the buffers and *)
(* numbers above the cap differ.                                               *)
ScanExact ==
  verdict # "none" =>
    /\ \A key \in {"exp", "nbf", "iat"} :
         claims[key] = Parsed(LastMember(key, {"number"}, Numeral(0)).n)
    /\ claims.iss = Copied(LastMember("iss", {"text"}, Text(<<>>)).s)
    /\ claims.sub = Subject(LastMember("sub", {"text"}, Text(<<>>)).s)
    /\ LET roles == LastMember("roles", {"text", "number", "array", "object"}, Numeral(0))
           wellFormed == \A i \in DOMAIN roles.of : roles.of[i].t = "number" /\ Parsed(roles.of[i].n) \in 0 .. RoleCap
       IN IF roles.t = "array" /\ (~wellFormed \/ Len(roles.of) > MaxRoles)
          THEN claims.overflow /\ claims.roles = <<>>
          ELSE /\ ~claims.overflow
               /\ roles.t = "array" => claims.roles = [i \in DOMAIN roles.of |-> Parsed(roles.of[i].n)]

(* What an issuer of the table says of the token. *)
Vouches(k) ==
  /\ issuers[k].url = claims.iss /\ issuers[k].aud = claims.aud /\ claims.aud # <<>>
  /\ issuers[k].alg = header.alg /\ issuers[k].key = signer
  /\ issuers[k].kids = {} \/ header.kid \in issuers[k].kids
  /\ now <= claims.exp + issuers[k].skew
  /\ claims.nbf = 0 \/ now + issuers[k].skew >= claims.nbf

(* A token is accepted only when an issuer of the table vouches for it, and is *)
(* accepted whenever one does, provided the entries of its URL agree in what   *)
(* is not about keys: the first entry with another objection is final.         *)
VerdictExact ==
  LET formed == header.dots = 2 /\ header.decodes /\ header.alg # "none" /\ claims.sub # <<>>
                /\ claims.exp # 0 /\ ~claims.overflow
      agree == \A j, k \in DOMAIN issuers : issuers[j].url = issuers[k].url =>
                 issuers[j].aud = issuers[k].aud /\ issuers[j].alg = issuers[k].alg /\ issuers[j].skew = issuers[k].skew
  IN verdict # "none" =>
       /\ verdict = "OK" => formed /\ \E k \in DOMAIN issuers : Vouches(k)
       /\ formed /\ agree /\ (\E k \in DOMAIN issuers : Vouches(k)) => verdict = "OK"
=============================================================================
