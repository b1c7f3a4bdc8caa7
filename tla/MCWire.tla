-------------------------------- MODULE MCWire --------------------------------
(* Small instances of what passes between a client and the server: logon,      *)
(* tokens, chunks, encodings and parked Publish requests. As in MCServices a   *)
(* behaviour belongs to one "part", and the parts use the same variables under *)
(* their own names.                                                            *)
EXTENDS Integers, Sequences

VARIABLES part, a, b, c, d, e, f, g, h, i, j

all == <<part, a, b, c, d, e, f, g, h, i, j>>

-----------------------------------------------------------------------------
(* Discovery, channel and Session: two users that agree up to MaxIdentity - 1, *)
(* more profiles than the cache holds                                          *)

LoggingOn ==
  INSTANCE Logon WITH server <- a, channel <- b, slot <- c, known <- d, asked <- e, told <- f, user <- g,
    outcome <- h, steps <- i, Crypto <- BOOLEAN, AuthHandlers <- BOOLEAN, Guests <- BOOLEAN, Users <- {<<1>>, <<1, 2>>},
    MaxIdentity <- 2, RoleSets <- {{}, {"r"}}, ProfileCache <- 2, MaxEndpoints <- 5,
    Filters <- {<<>>, <<"uatcp">>, <<"x", "y", "uatcp">>, <<"x", "y", "z">>, <<"x">>},
    Locales <- {<<>>, <<"", "de">>}, MaxSteps <- 4

-----------------------------------------------------------------------------
(* JSON web tokens: nested values in front of and behind the claims, claims    *)
(* longer than their buffers, repeated and of the wrong type                   *)

Json(t, s, n, of) == [t |-> t, s |-> s, n |-> n, of |-> of]
Chars(s) == Json("text", s, 0, <<>>)
Num(n) == Json("number", <<>>, n, <<>>)
List(vs) == Json("array", <<>>, 0, vs)
Obj(ms) == Json("object", <<>>, 0, ms)
Claim(k, v) == [key |-> k, value |-> v]

Inner == Obj(<<Claim("sub", Chars(<<9>>)), Claim("exp", Num(1))>>)
Nested ==
  {Inner, List(<<Num(1), Inner>>), Obj(<<Claim("x", List(<<Chars(<<1>>)>>)), Claim("iss", Chars(<<7>>))>>)}

RoleLists ==
  {List(<<>>), List(<<Num(2), Num(3)>>), List(<<Num(1), Num(2), Num(3)>>), List(<<Chars(<<1>>)>>),
   Chars(<<4>>), List(<<Num(50)>>), List(<<Num(-1)>>)}

Core(iss, sub, aud, exp) ==
  <<Claim("iss", Chars(iss)), Claim("sub", Chars(sub)), Claim("aud", aud), Claim("exp", Num(exp))>>
OneCore == Core(<<1>>, <<3>>, Chars(<<5>>), 4)
Cores ==
  {Core(iss, sub, aud, exp) : iss \in {<<1>>, <<2>>}, sub \in {<<3>>, <<3, 3, 3>>},
     aud \in {Chars(<<5>>), List(<<Chars(<<5>>), Chars(<<6>>)>>)}, exp \in {4, 1234}}

TokenPayloads ==
  {<<>>}
  \union {<<Claim("x", n)>> \o core \o <<Claim("roles", List(<<Num(2), Num(3)>>))>> : n \in Nested, core \in Cores}
  \union {<<Claim("x", Inner)>> \o OneCore \o <<Claim("roles", r)>> : r \in RoleLists}
  \union {OneCore \o <<Claim("nbf", Num(3)), Claim("x", n)>> : n \in Nested}
  \union {OneCore \o <<Claim("exp", Chars(<<1>>)), Claim("sub", Num(3)), Claim("roles", r), Claim("roles", Chars(<<1>>))>>
          : r \in RoleLists}

Header == [dots |-> 2, decodes |-> TRUE, alg |-> "RS256", kid |-> "k1"]
TokenHeaders ==
  {Header, [Header EXCEPT !.kid = "k2"], [Header EXCEPT !.alg = "ES256"], [Header EXCEPT !.alg = "none"],
   [Header EXCEPT !.dots = 1], [Header EXCEPT !.decodes = FALSE]}

Issuer(url, key, kids, skew, alg) ==
  [url |-> url, aud |-> <<5>>, alg |-> alg, key |-> key, kids |-> kids, skew |-> skew]
Issuers ==
  {<<>>, <<Issuer(<<1>>, "a", {}, 0, "RS256")>>,
   <<Issuer(<<1>>, "a", {"k1"}, 1, "RS256"), Issuer(<<1>>, "b", {"k2"}, 1, "RS256")>>,
   <<Issuer(<<1>>, "a", {}, 0, "ES256"), Issuer(<<1>>, "b", {}, 0, "RS256")>>,
   <<Issuer(<<2>>, "b", {}, 1, "ES256"), Issuer(<<1>>, "b", {}, 1, "RS256")>>}

Tokens ==
  INSTANCE JsonWebToken WITH payload <- a, header <- b, signer <- c, issuers <- d, now <- e, claims <- f, verdict <- g,
    Payloads <- TokenPayloads, Headers <- TokenHeaders, Signers <- {"a", "b"}, IssuerTables <- Issuers,
    Times <- {2, 4, 5, 6}, Buffer <- 2, MaxRoles <- 2, NumberCap <- 9, RoleCap <- 49

(* Base64url and the DER form of signatures: bytes at the sign and at zero *)

Texts ==
  INSTANCE TokenCodec WITH input <- a, padded <- b, room <- c, kind <- d, damaged <- e, output <- f,
    Bytes <- {0, 1, 127, 128, 255}, MaxLength <- 4, MaxHalf <- 2, Room <- {3, 20}, ShortForm <- 3, LongForm <- 11,
    IntBuffer <- 12

-----------------------------------------------------------------------------
(* Methods of the server's own objects: every shape of argument list *)

Arg(type, v, n) == [type |-> type, v |-> v, n |-> n]
S(v) == Arg("String", v, 0)
B(v) == Arg("ByteString", v, 0)
N(v) == Arg("NodeId", v, 0)

ArgumentLists ==
  {<<>>, <<S("a")>>, <<S("b")>>, <<N("a")>>, <<Arg("UInt32", "", 1)>>, <<B("a")>>, <<B("empty")>>, <<B("b"), N("a")>>,
   <<B("a"), S("a")>>, <<S("a"), S("b")>>, <<S("b"), S("a")>>, <<S("a"), B("a"), S("b")>>, <<S("b"), B("b"), S("a")>>,
   <<S("a"), B("b"), S("b")>>, <<S("a"), S("b"), S("a")>>}

Managed ==
  INSTANCE ManagedMethods WITH store <- a, client <- b, adapters <- c, answer <- d, steps <- e,
    Objects <- [folder |-> "credential", set |-> "role", elsewhere |-> "unknown"], Calls <- ArgumentLists,
    Adapters <- BOOLEAN, MaxRequests <- 2, MaxSteps <- 2

Clients ==
  INSTANCE Client WITH state <- a, open <- b, active <- c, socket <- d, sockets <- e, served <- f, MaxSockets <- 2
-----------------------------------------------------------------------------
(* Chunks: every policy, keys of 2048 and of 4096 bits, bodies around the      *)
(* block sizes and the padding of 256 bytes, one too long for the server and   *)
(* one too long for a response                                                 *)

Bodies ==
  {[length |-> n, byte |-> x] : n \in {0, 7, 8, 163, 164}, x \in {0, 1}} 
  \union {[length |-> n, byte |-> 3] : n \in {1500, 2200}}

Chunks ==
  INSTANCE SecureChunk WITH channel <- a, serverOut <- b, serverIn <- c, clientOut <- d, clientIn <- e, skipped <- f,
    exchanged <- g, steps <- h,
    Policies <- {"None", "Basic256Sha256", "Aes256_Sha256_RsaPss", "Aes128_Sha256_RsaOaep", "ECC_nistP256",
                 "ECC_curve25519"},
    Bodies <- Bodies, KeyBytes <- {256, 512}, HeaderBytes <- 1000, SendBuffer <- 2100, MaxSteps <- 3

-----------------------------------------------------------------------------
(* Binary values: every form of identifier at the edges of its width, scalars  *)
(* and arrays of every kind, every set of optional fields                      *)

NullText == <<-1>>
Of(n) == <<n>> \o [k \in 1..n |-> 65 + k]
SomeTexts == {NullText, Of(0), Of(2)}
Id(type, ns, id) == [type |-> type, ns |-> ns, id |-> id]

AllIds ==
  {Id("numeric", ns, <<n>>) : ns \in {0, 1, 255, 256}, n \in {0, 255, 256, 65535, 65536}}
  \union {Id("string", ns, s) : ns \in {0, 256}, s \in {Of(0), Of(2), Of(5)}}
  \union {Id("guid", 3, [k \in 1..16 |-> k]), Id("opaque", 3, Of(0)), Id("opaque", 3, Of(16))}
SomeIds == {Id("numeric", 0, <<7>>), Id("numeric", 2, <<300>>), Id("string", 1, Of(2))}

Scalars(type) ==
  CASE type \in {1, 4} -> {[n |-> 0], [n |-> 1]}
    [] type \in {6, 8} -> {[n |-> -1], [n |-> 70000]}
    [] type = 12 -> {[s |-> x] : x \in SomeTexts}
    [] type = 17 -> {[node |-> x] : x \in SomeIds}
    [] type = 20 -> {[name |-> [ns |-> 1, name |-> x]] : x \in SomeTexts}
    [] type = 21 -> {[ltext |-> [locale |-> x, text |-> y]] : x, y \in SomeTexts}
    [] OTHER -> {[n |-> 0]}

Variant(type, array, length, elements) == [type |-> type, array |-> array, length |-> length, elements |-> elements]
ScalarVariants == UNION {{Variant(t, FALSE, 0, <<x>>) : x \in Scalars(t)} : t \in {1, 4, 6, 8, 12, 17, 20, 21, 22}}
ArrayVariants ==
  UNION {{Variant(t, TRUE, Len(v), v) : v \in {<<>>} \union {<<x>> : x \in Scalars(t)} \union {<<x, y>> : x, y \in Scalars(t)}}
         : t \in {1, 6, 12, 21}}
  \union {Variant(6, TRUE, -1, <<>>), Variant(6, TRUE, 2, <<>>), Variant(1, TRUE, 1, <<>>),
          Variant(6, TRUE, 3, <<[n |-> 1], [n |-> 2], [n |-> 3]>>)}
Int32(n) == Variant(6, FALSE, 0, <<[n |-> n]>>)
Str(s) == Variant(12, FALSE, 0, <<[s |-> s]>>)

Extras == [status |-> 7, sourceTime |-> 99, sourcePico |-> 8, serverTime |-> 100, serverPico |-> 300]
FieldLists ==
  {<<>>, <<Int32(1), Int32(1), Int32(1)>>, <<Int32(1), Int32(1), Int32(1), Int32(1)>>}
  \union {<<x>> : x \in ScalarVariants} \union {<<x, y>> : x, y \in {Int32(1), Str(Of(2)), Str(NullText)}}

Members == UNION {{[type |-> t, v |-> x] : x \in Scalars(t)} : t \in {6, 12, 17, 21}}
MemberLists == {<<>>} \union {<<x, y>> : x, y \in Members}

Sent(kind, vs) == {[kind |-> kind, v |-> v] : v \in vs}
SentValues ==
  Sent("node", AllIds)
  \union Sent("expanded", [node : AllIds, uri : SomeTexts, server : {0, 5}])
  \union Sent("variant", ScalarVariants \union ArrayVariants \union {Variant(0, FALSE, 0, <<>>)})
  \union Sent("datavalue", {[value |-> x, fields |-> [k \in fs |-> Extras[k]]] :
                              x \in {<<>>, <<Int32(5)>>, <<Str(Of(2))>>, <<Variant(1, TRUE, 2, <<>>)>>}, fs \in SUBSET DOMAIN Extras})
  \union Sent("object", [type : SomeIds, body : {<<>>, <<1>>, <<1, 2, 3>>}])
  \union Sent("structure", [type : {Id("numeric", 0, <<298>>)}, fields : MemberLists])
  \union Sent("uadp", [publisher : {9}, writer : {300}, fields : FieldLists])

Encoding ==
  INSTANCE BinaryCodec WITH sent <- a, room <- b, wire <- c, written <- d, cut <- e, got <- f,
    Values <- SentValues, Rooms <- {18, 60}, MaxString <- 4, MaxArray <- 2, MaxFields <- 3, Scratch <- 12

(* Structures: fields that are optional, arrays and structures themselves *)

Part(kind, optional, array, inner) == [kind |-> kind, optional |-> optional, array |-> array, inner |-> inner]
Scal(optional, array) == Part("scalar", optional, array, <<>>)
Struct(optional, array, inner) == Part("structure", optional, array, inner)
Odd(kind, optional, array) == Part(kind, optional, array, <<>>)
Plain == Scal(FALSE, FALSE)
Opt == Scal(TRUE, FALSE)
Arr == Scal(FALSE, TRUE)

Structures ==
  INSTANCE StructCodec WITH table <- a, memory <- b, encoded <- c, decoded <- d, enums <- e,
    Definitions <- {<<Plain, Plain>>, <<Opt, Opt, Opt>>, <<Plain, Opt, Plain>>, <<Arr, Plain>>, <<Opt, Arr>>,
                    <<Struct(TRUE, FALSE, <<Plain, Plain>>), Plain>>, <<Struct(FALSE, FALSE, <<Opt, Plain>>), Plain>>,
                    <<Scal(TRUE, TRUE), Plain>>, <<Struct(FALSE, FALSE, <<Arr>>), Plain>>,
                    <<Struct(FALSE, TRUE, <<Plain>>), Plain>>, <<Odd("unsupported", TRUE, FALSE), Plain>>,
                    <<Odd("unsupported", FALSE, TRUE), Plain>>, <<Opt, Odd("nothing", FALSE, TRUE)>>},
    Enumerations <- {"enum"}, Rooms <- {2, 5}, Cells <- 4, Number <- {-1, 0, 1, 3}, MaskBits <- 2, Type <- {1},
    MaxTypes <- 2

-----------------------------------------------------------------------------
(* Publish requests: two Subscriptions of one Session that share one parked    *)
(* request, and ids that wrap                                                  *)

Parking ==
  INSTANCE Publishing WITH link <- a, state <- b, home <- c, subs <- d, nextId <- e, queue <- f, earlier <- g,
    now <- h, cursor <- i, out <- j, Session <- {"s"}, Conn <- {"c"}, Secure <- {}, UserOf <- [s |-> "operator"],
    NoSession <- "no session", NoConn <- "no connection", NSubs <- 2, NReqs <- 1, MaxId <- 2, MaxSeq <- 1,
    MaxCount <- 3, Requested <- {<<0, 0>>}, MaxNow <- 0

-----------------------------------------------------------------------------
PartInit ==
  \/ part = "logon" /\ LoggingOn!Init /\ j = 0
  \/ part = "tokens" /\ Tokens!Init /\ h = 0 /\ i = 0 /\ j = 0
  \/ part = "texts" /\ Texts!Init /\ g = 0 /\ h = 0 /\ i = 0 /\ j = 0
  \/ part = "managed" /\ Managed!Init /\ f = 0 /\ g = 0 /\ h = 0 /\ i = 0 /\ j = 0
  \/ part = "client" /\ Clients!Init /\ g = 0 /\ h = 0 /\ i = 0 /\ j = 0
  \/ part = "chunks" /\ Chunks!Init /\ i = 0 /\ j = 0
  \/ part = "encoding" /\ Encoding!Init /\ g = 0 /\ h = 0 /\ i = 0 /\ j = 0
  \/ part = "structures" /\ Structures!Init /\ f = 0 /\ g = 0 /\ h = 0 /\ i = 0 /\ j = 0
  \/ part = "parked" /\ Parking!Init

PartNext ==
  /\ UNCHANGED part
  /\ \/ part = "logon" /\ LoggingOn!Next /\ UNCHANGED j
     \/ part = "tokens" /\ Tokens!Next /\ UNCHANGED <<h, i, j>>
     \/ part = "texts" /\ Texts!Next /\ UNCHANGED <<g, h, i, j>>
     \/ part = "managed" /\ Managed!Next /\ UNCHANGED <<f, g, h, i, j>>
     \/ part = "client" /\ Clients!Next /\ UNCHANGED <<g, h, i, j>>
     \/ part = "chunks" /\ Chunks!Next /\ UNCHANGED <<i, j>>
     \/ part = "encoding" /\ Encoding!Next /\ UNCHANGED <<g, h, i, j>>
     \/ part = "structures" /\ Structures!Next /\ UNCHANGED <<f, g, h, i, j>>
     \/ part = "parked" /\ Parking!Next

PartSpec == PartInit /\ [][PartNext]_all

-----------------------------------------------------------------------------
(* The properties of the components, each about its part; more is said with    *)
(* the components.                                                             *)

(* Discovery and ActivateSession: the endpoints asked for are listed, tokens   *)
(* they offer are accepted, and the Session has the identity of its last one.  *)
LogonTrue == part = "logon" => LoggingOn!LogonTrue

(* mu_jwt_validate: the claims are those of the top level of the payload, and  *)
(* a token is accepted exactly when an issuer vouches for it. Underneath,      *)
(* base64url gives back what was encoded and DER has the signature's numbers.  *)
TokensJudged ==
  /\ part = "tokens" => Tokens!ScanExact /\ Tokens!VerdictExact
  /\ part = "texts" => Texts!Base64Exact /\ Texts!DerExact

(* Methods of the server's objects: the answers tell what the adapters keep.   *)
AnswersTrue == part = "managed" => Managed!AnswersTrue

(* Client: no socket is lost or used after it was closed, and the state agrees *)
(* with the Session.                                                           *)
ClientAgrees == part = "client" => Clients!ClientAgrees

(* Chunk security: what one peer wraps the other unwraps, under the same keys, *)
(* as long as one byte can count the padding.                                  *)
ChunksRecovered == part = "chunks" => Chunks!ChunksRecovered

(* Encoding: a reader makes the value of the bytes a writer made of it, and    *)
(* refuses a prefix of them; structures come back field by field.              *)
ReadBack ==
  /\ part = "encoding" => Encoding!ReadBack /\ Encoding!CutRefused
  /\ part = "structures" => Structures!StructReadBack

(* Publish: no parked request is dropped but in the cases the code intends.    *)
NoSilentDrop == [][part = "parked" => Parking!NoSilentDropStep]_all
===============================================================================
