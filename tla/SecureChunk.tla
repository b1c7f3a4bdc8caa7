------------------------------ MODULE SecureChunk ------------------------------
(* Protection of chunks: OPN chunks under the peers' certificates, the keys of *)
(* the channel, and MSG chunks under them. Ciphers and signatures are symbolic *)
(* (a key opens what it closed), lengths, padding and its checks are the       *)
(* code's. The client derives its keys as OPC 10000-6 says, and wraps and      *)
(* unwraps as mu_asym_chunk_wrap and mu_asym_chunk_unwrap do: neither has the  *)
(* ExtraPaddingSize byte of OPC 10000-6 for keys of more than 2048 bits.       *)
EXTENDS Integers, SequencesExt, FiniteSetsExt

CONSTANTS
  Policies,     \* security policies the channel may have
  Bodies,       \* [length, byte]: message bodies
  KeyBytes,     \* bytes of the RSA keys of the two peers
  HeaderBytes,  \* length of the OPN header in front of the encrypted part
  SendBuffer,   \* send_buffer_size
  MaxSteps      \* chunks of a behaviour

VARIABLES channel, serverOut, serverIn, clientOut, clientIn, skipped, exchanged, steps

vars == <<channel, serverOut, serverIn, clientOut, clientIn, skipped, exchanged, steps>>

(* POLICY_TABLE *)
Policy(p) ==
  CASE p = "None" -> [family |-> "none", sym |-> "none", sigKey |-> 0, encKey |-> 0, iv |-> 0, nonce |-> 32]
    [] p \in {"Basic256Sha256", "Aes256_Sha256_RsaPss"} ->
         [family |-> "rsa", sym |-> "cbc", sigKey |-> 32, encKey |-> 32, iv |-> 16, nonce |-> 32]
    [] p = "Aes128_Sha256_RsaOaep" ->
         [family |-> "rsa", sym |-> "cbc", sigKey |-> 32, encKey |-> 16, iv |-> 16, nonce |-> 32]
    [] p = "ECC_nistP256" ->
         [family |-> "ecc", sym |-> "cbc", sigKey |-> 32, encKey |-> 16, iv |-> 16, nonce |-> 64]
    [] p = "ECC_curve25519" ->
         [family |-> "ecc", sym |-> "aead", sigKey |-> 0, encKey |-> 32, iv |-> 12, nonce |-> 32]

SymHeader == 16
SymSignature == 32
SymBlock == 16
AeadTag == 16
EccSignature == 64
MaxPlaintext == 2048
MaxSignedInput == 4096
RequestMax == 1024

Failed(status) == [status |-> status, total |-> 0, key |-> <<>>, plain |-> <<>>, signer |-> <<>>, iv |-> 0, seq |-> 0]

Repeated(byte, n) == [i \in 1 .. n |-> byte]

(* SequenceHeader and body, as bytes; the header's bytes do not matter here. *)
Payload(body) == Repeated(0, 8) \o Repeated(body.byte, body.length)

-----------------------------------------------------------------------------
(* Keys. mu_p_sha256 and mu_hkdf_sha256 are symbolic: what they are fed        *)
(* determines their output. The material is cut into signing key, encrypting   *)
(* key and IV.                                                                 *)
Cut(p, material) ==
  LET row == Policy(p)
  IN [signing |-> <<material, 0, row.sigKey>>,
      encrypting |-> <<material, row.sigKey, row.sigKey + row.encKey>>,
      iv |-> <<material, row.sigKey + row.encKey, row.sigKey + row.encKey + row.iv>>]

(* mu_sym_keys_derive: the keys of a direction come from the receiver's nonce  *)
(* as secret and the sender's as seed.                                         *)
SymKeys(p, secret, seed) == Cut(p, <<"P_SHA256", secret, seed>>)

(* mu_ecc_derive_channel_keys: the salt names the direction.                   *)
EccKeys(p, isServer) ==
  Cut(p, <<"HKDF", IF isServer THEN <<"opcua-server", "server nonce", "client nonce">>
                               ELSE <<"opcua-client", "client nonce", "server nonce">>>>)

(* Mutant: both directions use the server's nonce as the secret. *)
ServerDerivesOne(p) ==
  IF Policy(p).family = "ecc"
  THEN [server |-> EccKeys(p, TRUE), client |-> EccKeys(p, FALSE)]
  ELSE [server |-> SymKeys(p, "server nonce", "client nonce"), client |-> SymKeys(p, "server nonce", "client nonce")]

(* handle_open_secure_channel_impl, the keys of both directions. *)
ServerDerives(p) ==
  IF Policy(p).family = "ecc"
  THEN [server |-> EccKeys(p, TRUE), client |-> EccKeys(p, FALSE)]
  ELSE [server |-> SymKeys(p, "client nonce", "server nonce"), client |-> SymKeys(p, "server nonce", "client nonce")]

(* The client's own derivation, from OPC 10000-6 6.7.5 and 6.8.1. *)
ClientDerives(p) ==
  IF Policy(p).family = "ecc"
  THEN [server |-> Cut(p, <<"HKDF", <<"opcua-server", "server nonce", "client nonce">>>>),
        client |-> Cut(p, <<"HKDF", <<"opcua-client", "client nonce", "server nonce">>>>)]
  ELSE [server |-> Cut(p, <<"P_SHA256", "client nonce", "server nonce">>),
        client |-> Cut(p, <<"P_SHA256", "server nonce", "client nonce">>)]

-----------------------------------------------------------------------------
(* Bytes that fill length, which counts the size byte, up to a block. *)
Padding(length, block) == (block - (length % block)) % block

(* Payload, size of the padding, padding: both are one byte wide. *)
Padded(body, pad) == Payload(body) \o Repeated(pad % 256, pad + 1)

(* The last byte tells the padding, which has to consist of that byte. *)
Stripped(plain, least) ==
  LET n == Len(plain)
      pad == plain[n]
  IN IF n < least + 1 + pad \/ \E i \in 1 .. pad : plain[n - i] # pad
     THEN [status |-> "BadSecurityChecksFailed", body |-> <<>>]
     ELSE [status |-> "Good", body |-> SubSeq(plain, 9, n - 1 - pad)]

(* mu_sym_chunk_wrap. total is what MessageSize says. *)
SymWrap(keys, mode, seq, body, cap) ==
  LET pad == Padding(8 + body.length + 1 + SymSignature, SymBlock)
      plain == IF mode = "sign" THEN Payload(body) ELSE Padded(body, pad)
      total == SymHeader + Len(plain) + SymSignature
  IN IF total > cap THEN Failed("BadResponseTooLarge")
     ELSE [status |-> "Good", total |-> total, key |-> IF mode = "sign" THEN <<>> ELSE keys.encrypting,
           plain |-> plain, signer |-> keys.signing, iv |-> 0, seq |-> seq]

(* mu_sym_chunk_unwrap. What a key does not open fails the signature check. *)
SymUnwrap(chunk, keys, mode) ==
  CASE mode = "encrypt" /\ (chunk.total - SymHeader) % SymBlock # 0 -> [status |-> "BadDecodingError", body |-> <<>>]
    [] chunk.total < SymHeader + 8 + SymSignature -> [status |-> "BadDecodingError", body |-> <<>>]
    [] chunk.signer # keys.signing \/ (mode = "encrypt" /\ chunk.key # keys.encrypting) ->
         [status |-> "BadSecurityChecksFailed", body |-> <<>>]
    [] mode = "sign" -> [status |-> "Good", body |-> SubSeq(chunk.plain, 9, Len(chunk.plain))]
    [] OTHER -> Stripped(chunk.plain, 8)

(* mu_sym_chunk_wrap_aead and its nonce, made of the previous number sent. *)
AeadWrap(keys, seq, body, cap) ==
  LET total == SymHeader + 8 + body.length + AeadTag
  IN IF total > cap THEN Failed("BadResponseTooLarge")
     ELSE [status |-> "Good", total |-> total, key |-> keys.encrypting, plain |-> Payload(body),
           signer |-> keys.encrypting, iv |-> seq - 1, seq |-> seq]

(* mu_sym_chunk_unwrap_aead; last is the previous number received. *)
AeadUnwrap(chunk, keys, last) ==
  CASE chunk.total < SymHeader + 8 + AeadTag -> [status |-> "BadDecodingError", body |-> <<>>]
    [] chunk.key # keys.encrypting \/ chunk.iv # last -> [status |-> "BadSecurityChecksFailed", body |-> <<>>]
    [] OTHER -> [status |-> "Good", body |-> SubSeq(chunk.plain, 9, Len(chunk.plain))]

Wrap(p, keys, mode, seq, body, cap) ==
  IF Policy(p).sym = "aead" THEN AeadWrap(keys, seq, body, cap) ELSE SymWrap(keys, mode, seq, body, cap)

Unwrap(p, chunk, keys, mode, last) ==
  IF Policy(p).sym = "aead" THEN AeadUnwrap(chunk, keys, last) ELSE SymUnwrap(chunk, keys, mode)

-----------------------------------------------------------------------------
(* mu_certificate_validate *)
KeyAccepted(p, bytes) == Policy(p).family # "rsa" \/ 8 * bytes \in 2048 .. 4096

(* build_wrap_header: what one RSA block of the receiver's key carries. *)
PlainBlock(p, bytes) == IF p = "Aes256_Sha256_RsaPss" THEN bytes - 66 ELSE bytes - 42

RsaBase(sender, body) == 8 + body.length + 1 + sender

RsaPadding(p, sender, receiver, body) == Padding(RsaBase(sender, body), PlainBlock(p, receiver))

(* mu_asym_chunk_wrap for RSA: compute_wrap_sizes, sign and encrypt.           *)
RsaWrap(p, sender, receiver, body, cap) ==
  LET block == PlainBlock(p, receiver)
      base == RsaBase(sender, body)
      pad == RsaPadding(p, sender, receiver, body)
      total == HeaderBytes + ((base + pad) \div block) * receiver
  IN CASE base + pad > MaxPlaintext -> Failed("BadRequestTooLarge")
       [] HeaderBytes + base + pad - sender > MaxSignedInput -> Failed("BadRequestTooLarge")
       [] total > cap -> Failed("BadResponseTooLarge")
       [] OTHER -> [Failed("Good") EXCEPT !.total = total, !.plain = Padded(body, pad)]

(* mu_asym_chunk_unwrap for RSA. *)
RsaUnwrap(p, chunk, own, sender) ==
  LET cipher == chunk.total - HeaderBytes
      plain == (cipher \div own) * PlainBlock(p, own)
  IN CASE cipher = 0 \/ cipher % own # 0 -> [status |-> "BadDecodingError", body |-> <<>>]
       [] plain < sender + 1 + 8 \/ plain - sender # Len(chunk.plain)
            \/ HeaderBytes + plain - sender > MaxSignedInput -> [status |-> "BadSecurityChecksFailed", body |-> <<>>]
       [] OTHER -> Stripped(chunk.plain, 8)

(* wrap_ecc and wrap_none: the body travels in the clear. *)
ClearWrap(p, body, cap) ==
  LET total == HeaderBytes + 8 + body.length + IF Policy(p).family = "ecc" THEN EccSignature ELSE 0
  IN IF total > cap THEN Failed("BadResponseTooLarge")
     ELSE [Failed("Good") EXCEPT !.total = total, !.plain = Payload(body)]

(* unwrap_ecc and the None branch of mu_asym_chunk_unwrap. *)
ClearUnwrap(p, chunk) ==
  LET tail == IF Policy(p).family = "ecc" THEN EccSignature ELSE 0
  IN IF chunk.total < HeaderBytes + 8 + tail THEN [status |-> "BadDecodingError", body |-> <<>>]
     ELSE [status |-> "Good", body |-> SubSeq(chunk.plain, 9, chunk.total - HeaderBytes - tail)]

AsymWrap(p, sender, receiver, body, cap) ==
  IF Policy(p).family = "rsa" THEN RsaWrap(p, sender, receiver, body, cap) ELSE ClearWrap(p, body, cap)

(* The recovered body has to fit the buffer of its reader. *)
AsymUnwrap(p, chunk, own, sender, cap) ==
  LET r == IF Policy(p).family = "rsa" THEN RsaUnwrap(p, chunk, own, sender) ELSE ClearUnwrap(p, chunk)
  IN IF ~KeyAccepted(p, sender) THEN [status |-> "BadSecurityChecksFailed", body |-> <<>>]
     ELSE IF Len(r.body) > cap THEN [status |-> "BadResponseTooLarge", body |-> <<>>] ELSE r

-----------------------------------------------------------------------------
(* What became of a chunk: the body that went in with its padding, and what    *)
(* came out of it.                                                             *)
Exchanged(who, kind, body, pad, r) ==
  [by |-> who, kind |-> kind, pad |-> pad, length |-> body.length, status |-> r.status, gotLength |-> Len(r.body),
   intact |-> \A i \in 1 .. Min({body.length, Len(r.body)}) : r.body[i] = body.byte]

OpenPad(p, sender, receiver, body) == IF Policy(p).family = "rsa" THEN RsaPadding(p, sender, receiver, body) ELSE 0

Init ==
  /\ channel = [open |-> FALSE, policy |-> "None", mode |-> "none", server |-> 0, client |-> 0]
  /\ serverOut = 0 /\ serverIn = 0 /\ clientOut = 0 /\ clientIn = 0
  /\ skipped = FALSE /\ exchanged = {} /\ steps = 0

Step == steps < MaxSteps /\ steps' = steps + 1

(* The OPN request, and its response wrapped for the client's certificate.     *)
OpenChannel(p, mode, serverKey, clientKey, request, response) ==
  LET asked == AsymWrap(p, clientKey, serverKey, request, 2 * MaxSignedInput)
      heard == AsymUnwrap(p, asked, serverKey, clientKey, RequestMax)
      reply == AsymWrap(p, serverKey, clientKey, response, SendBuffer)
      answer == AsymUnwrap(p, reply, clientKey, serverKey, MaxPlaintext)
      asking == Exchanged("client", "OPN", request, OpenPad(p, clientKey, serverKey, request), heard)
  IN /\ Step
     /\ ~channel.open
     /\ asked.status = "Good"
     /\ KeyAccepted(p, clientKey)
     /\ clientOut' = clientOut + 1
     /\ \/ /\ heard.status # "Good"
           /\ exchanged' = {asking}
           /\ UNCHANGED <<channel, serverOut, serverIn, clientIn, skipped>>
        \/ /\ heard.status = "Good"
           /\ serverIn' = clientOut'
           /\ serverOut' = serverOut + 1
           /\ channel' = [open |-> TRUE, policy |-> p, mode |-> mode, server |-> serverKey, client |-> clientKey]
           /\ skipped' = (reply.status # "Good")
           /\ clientIn' = IF skipped' THEN clientIn ELSE serverOut'
           /\ exchanged' = {asking} \cup
                IF skipped' THEN {}
                ELSE {Exchanged("server", "OPN", response, OpenPad(p, serverKey, clientKey, response), answer)}

(* secure_unwrap_msg on what the client sends. A chunk that does not unwrap    *)
(* does not move in_last_sequence_number.                                      *)
Request(body) ==
  LET chunk == Wrap(channel.policy, ClientDerives(channel.policy).client, channel.mode, clientOut + 1, body,
                    2 * MaxSignedInput)
      heard == Unwrap(channel.policy, chunk, ServerDerives(channel.policy).client, channel.mode, serverIn)
  IN /\ Step
     /\ channel.open /\ channel.policy # "None"
     /\ clientOut' = clientOut + 1
     /\ serverIn' = IF heard.status = "Good" THEN clientOut' ELSE serverIn
     /\ exchanged' = {Exchanged("client", "MSG", body, 0, heard)}
     /\ UNCHANGED <<channel, serverOut, clientIn, skipped>>

(* The number of a response is taken before it is known to fit. *)
Number(n) == n + 1

(* The response of handle_data_chunk_secure and mu_server_emit_message: the    *)
(* number is used up although a body that is too large is not sent.            *)
Respond(body) ==
  LET chunk == Wrap(channel.policy, ServerDerives(channel.policy).server, channel.mode, Number(serverOut), body,
                    SendBuffer)
  IN /\ Step
     /\ channel.open /\ channel.policy # "None"
     /\ serverOut' = serverOut + 1
     /\ skipped' = (skipped \/ chunk.status # "Good")
     /\ clientIn' = IF chunk.status = "Good" THEN serverOut' ELSE clientIn
     /\ exchanged' = IF chunk.status # "Good" THEN {}
          ELSE {Exchanged("server", "MSG", body, 0,
                  Unwrap(channel.policy, chunk, ClientDerives(channel.policy).server, channel.mode, clientIn))}
     /\ UNCHANGED <<channel, serverIn, clientOut>>

Next ==
  \/ \E p \in Policies, mode \in {"none", "sign", "encrypt"}, s, c \in KeyBytes, q, r \in Bodies :
       /\ (mode = "none") = (p = "None")
       /\ OpenChannel(p, mode, s, c, q, r)
  \/ \E body \in Bodies : Request(body) \/ Respond(body)

Spec == Init /\ [][Next]_vars

-----------------------------------------------------------------------------
Recovered(e) == e.status = "Good" /\ e.gotLength = e.length /\ e.intact

(* Every OPN chunk that was wrapped and whose padding one byte can count is    *)
(* recovered by its peer: the padding is told from the body. So it is with     *)
(* keys of 2048 bits; for a receiver with a longer key the padding may exceed  *)
(* 255 bytes, the count is cut to a byte, and what it leaves out comes back as *)
(* part of the body. Excepted, too, are requests longer than the server's      *)
(* buffer for them.                                                            *)
OpenRecovered ==
  \A e \in exchanged :
    e.kind = "OPN" /\ e.pad < 256 /\ ~(e.by = "client" /\ e.length > RequestMax) => Recovered(e)

(* Every MSG chunk of either peer is recovered by the other: the directions'   *)
(* keys agree, padding is told from body, the nonce of an AEAD chunk is the    *)
(* one the peer expects. Excepted is an AEAD channel on which a response did   *)
(* not fit: its number was used up, and the client never saw it.               *)
MessagesRecovered ==
  \A e \in exchanged :
    e.kind = "MSG" /\ ~(e.by = "server" /\ Policy(channel.policy).sym = "aead" /\ skipped) => Recovered(e)

(* What one peer wraps the other recovers, in OPN and in MSG chunks, as long   *)
(* as the padding is not longer than its byte can say.                         *)
ChunksRecovered == OpenRecovered /\ MessagesRecovered
=============================================================================
