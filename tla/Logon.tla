-------------------------------- MODULE Logon --------------------------------
(* The way of a client into the server: discovery tells it endpoints and user  *)
(* tokens, it opens a SecureChannel, creates a Session and activates it. The   *)
(* Session remembers the user and the roles of the token.                      *)
EXTENDS Integers, SequencesExt, FiniteSetsExt

CONSTANTS
  Crypto,        \* whether the server may have a certificate: a set of Booleans
  AuthHandlers,  \* whether the application may check users: a set of Booleans
  Guests,        \* whether it may let anonymous users in: a set of Booleans
  Users,         \* user names: sequences, compared up to MaxIdentity elements
  MaxIdentity,   \* length of mu_session_t.user_identity
  RoleSets,      \* the roles a JWT may carry
  ProfileCache,  \* MU_GETENDPOINTS_PROFILE_CACHE_MAX
  MaxEndpoints,  \* MU_DISCOVERY_MAX_ENDPOINTS
  Filters,       \* transport profiles clients ask for: sequences
  Locales,       \* locale ids clients ask for: sequences, "" is not usable
  MaxSteps       \* bound on the steps of a behaviour

VARIABLES
  server,        \* [crypto, handler, guests]: the configuration
  channel,       \* [policy, mode] of the open SecureChannel
  slot,          \* the Session: [state, kind, identity, roles]
  known,         \* the endpoints the client was told of
  asked,         \* the filter and the locales of the last discovery request
  told,          \* the answer to it: [endpoints, locale]
  user,          \* the token of the last accepted activation
  outcome,       \* the last activation: [token, signature, status]
  steps

vars == <<server, channel, slot, known, asked, told, user, outcome, steps>>

None == "None"
Rsa == {"Basic256Sha256", "Aes128", "Aes256Pss"}
Ecc == {"EccP256", "Ecc25519"}
Closed == [policy |-> "closed", mode |-> None]
Nobody == [type |-> "nobody", user |-> <<>>, password |-> <<>>, secret |-> "plain", roles |-> {}, valid |-> FALSE]
BinaryProfile == "uatcp"

(* POLICY_TABLE: passwords need a policy that protects them. *)
AllowsUsername(policy) == policy \in Rsa \union Ecc

-----------------------------------------------------------------------------
(* fill_endpoint *)
Endpoint(policy, mode, level) ==
  [policy |-> policy, mode |-> mode, level |-> level, profile |-> BinaryProfile,
   tokens |-> {"anonymous", "jwt"} \union IF AllowsUsername(policy) THEN {"username"} ELSE {}]

(* mu_discovery_get_endpoints; CreateSession returns the same list. *)
Endpoints ==
  LET secured == <<Endpoint("Basic256Sha256", "Sign", 1), Endpoint("Basic256Sha256", "SignAndEncrypt", 2),
                   Endpoint("Aes128", "Sign", 3), Endpoint("Aes128", "SignAndEncrypt", 4)>>
      all == <<Endpoint(None, None, 0)>> \o IF server.crypto THEN secured ELSE <<>>
  IN SubSeq(all, 1, Min({MaxEndpoints, Len(all)}))

(* read_requested_locale_ids: the first usable one. *)
RequestedLocale(locales) ==
  LET usable == {i \in DOMAIN locales : locales[i] # ""}
  IN IF usable = {} THEN "" ELSE locales[Min(usable)]

(* endpoint_matches_profile_filter reads all profiles from the request again. *)
MatchesWire(endpoint, filter) == \E i \in DOMAIN filter : filter[i] = endpoint.profile

(* handle_get_endpoints: a short filter is kept, a long one read again. *)
Matches(endpoint, filter) ==
  \/ filter = <<>>
  \/ IF Len(filter) > ProfileCache THEN MatchesWire(endpoint, filter)
     ELSE \E i \in 1 .. Len(filter) : filter[i] = endpoint.profile

Init ==
  /\ server \in [crypto : Crypto, handler : AuthHandlers, guests : Guests]
  /\ channel = Closed
  /\ slot = [state |-> "closed", kind |-> "none", identity |-> <<>>, roles |-> {}]
  /\ known = {}
  /\ asked = [filter |-> <<>>, locales |-> <<>>]
  /\ told = [endpoints |-> <<>>, locale |-> ""]
  /\ user = Nobody
  /\ outcome = [token |-> Nobody, signature |-> "", status |-> ""]
  /\ steps = 0

Step ==
  /\ steps < MaxSteps
  /\ steps' = steps + 1
  /\ UNCHANGED server

NoOutcome == outcome' = [token |-> Nobody, signature |-> "", status |-> ""]
NoQuestion == asked' = [filter |-> <<>>, locales |-> <<>>] /\ told' = [endpoints |-> <<>>, locale |-> ""]

GetEndpoints(filter, locales) ==
  LET answer == SelectSeq(Endpoints, LAMBDA e : Matches(e, filter))
  IN /\ Step /\ NoOutcome
     /\ asked' = [filter |-> filter, locales |-> locales]
     /\ told' = [endpoints |-> answer, locale |-> RequestedLocale(locales)]
     /\ known' = known \union ToSet(answer)
     /\ UNCHANGED <<channel, slot, user>>

(* handle_find_servers: the server is in the answer when both filters name it  *)
(* or are empty. handle_register_server only reads its request.                *)
FindServers(uris, types) ==
  LET named == (uris = {} \/ "this" \in uris) /\ (types = {} \/ "server" \in types)
  IN /\ Step /\ NoOutcome
     /\ asked' = [filter |-> <<>>, locales |-> <<>>]
     /\ told' = [endpoints |-> IF named THEN <<Endpoint(None, None, 0)>> ELSE <<>>, locale |-> ""]
     /\ UNCHANGED <<channel, slot, known, user>>

(* mu_secure_channel_open with the policy the first chunk named. *)
Opens(policy, mode) ==
  IF policy = None THEN mode = None ELSE server.crypto /\ mode # None

OpenChannel(policy, mode) ==
  /\ Step /\ NoOutcome /\ NoQuestion
  /\ channel = Closed
  /\ channel' = IF Opens(policy, mode) THEN [policy |-> policy, mode |-> mode] ELSE Closed
  /\ UNCHANGED <<slot, known, user>>

(* validate_create_session_security: the certificate is that of the channel. *)
CreateSession(sameCertificate) ==
  /\ Step /\ NoOutcome /\ NoQuestion
  /\ channel # Closed
  /\ slot.state = "closed"
  /\ channel.policy = None \/ sameCertificate
  /\ slot' = [slot EXCEPT !.state = "created"]
  /\ known' = known \union ToSet(Endpoints)
  /\ UNCHANGED <<channel, user>>

-----------------------------------------------------------------------------
(* user_auth_handler: the application knows users by their password. *)
HandlerAccepts(token) == token.user \in Users /\ token.password = token.user

(* verify_activate_client_signature: the algorithm is that of the policy, for  *)
(* ECC the policy itself or none.                                              *)
SignatureStatus(signature) ==
  CASE channel.policy = None -> "Good"
    [] signature = "valid" -> "Good"
    [] signature = "noAlgorithm" /\ channel.policy \in Ecc -> "Good"
    [] OTHER -> "SecurityChecksFailed"

(* handle_activate_anonymous: the application decides if it checks users. *)
ActivateAnonymous(token) == IF server.handler /\ ~server.guests THEN "UserAccessDenied" ELSE "Good"

(* handle_activate_username: a secret that is encrypted ends in the nonce. *)
ActivateUsername(token) ==
  CASE ~AllowsUsername(channel.policy) -> "IdentityTokenRejected"
    [] token.secret = "otherNonce" -> "IdentityTokenRejected"
    [] ~server.handler -> "IdentityTokenRejected"
    [] HandlerAccepts(token) -> "Good"
    [] OTHER -> "UserAccessDenied"

(* handle_activate_certificate *)
ActivateCertificate(token) ==
  CASE ~server.crypto \/ ~token.valid -> "IdentityTokenRejected"
    [] server.handler /\ ~HandlerAccepts(token) -> "UserAccessDenied"
    [] OTHER -> "Good"

(* handle_activate_jwt, with the verdict of mu_jwt_validate in the token. *)
ActivateJwt(token) ==
  CASE channel.policy = None -> "IdentityTokenRejected"
    [] ~token.valid -> "IdentityTokenInvalid"
    [] OTHER -> "Good"

IdentityStatus(token) ==
  CASE token.type = "anonymous" -> ActivateAnonymous(token)
    [] token.type = "username" -> ActivateUsername(token)
    [] token.type = "certificate" -> ActivateCertificate(token)
    [] token.type = "jwt" -> ActivateJwt(token)
    [] OTHER -> "IdentityTokenInvalid"

(* Mutant: only tokens that name a user replace what is stored. *)
IdentityKept(old, token) ==
  IF token.type = "anonymous" THEN [old EXCEPT !.kind = token.type]
  ELSE [old EXCEPT !.kind = token.type, !.identity = SubSeq(token.user, 1, Min({MaxIdentity, Len(token.user)}))]

(* The fingerprint of the user, cut to its field. *)
Identity(old, token) ==
  [old EXCEPT !.kind = token.type,
              !.identity = IF token.type = "anonymous" THEN <<>>
                           ELSE SubSeq(token.user, 1, Min({MaxIdentity, Len(token.user)}))]

(* Only a JWT stores roles, and nothing else removes them. *)
Roles(old, token) == IF token.type = "jwt" THEN token.roles ELSE old

(* verify_and_activate_session in the build with MUC_OPCUA_CU_SESSION_CHANGE_USER. *)
ActivateSession(token, signature) ==
  LET status == IF SignatureStatus(signature) # "Good" THEN SignatureStatus(signature) ELSE IdentityStatus(token)
  IN /\ Step /\ NoQuestion
     /\ channel # Closed
     /\ slot.state # "closed"
     /\ outcome' = [token |-> token, signature |-> signature, status |-> status]
     /\ IF status = "Good"
        THEN /\ slot' = [Identity(slot, token) EXCEPT !.state = "activated", !.roles = Roles(slot.roles, token)]
             /\ user' = token
        ELSE UNCHANGED <<slot, user>>
     /\ UNCHANGED <<channel, known>>

(* mu_session_close leaves the user and the roles in the slot. *)
CloseSession ==
  /\ Step /\ NoOutcome /\ NoQuestion
  /\ slot.state # "closed"
  /\ slot' = [slot EXCEPT !.state = "closed"]
  /\ UNCHANGED <<channel, known, user>>

(* The Session of a channel that is gone can only time out, which leaves the   *)
(* user and the roles in the slot as well (mu_session_close_timeout).          *)
CloseChannel ==
  /\ Step /\ NoOutcome /\ NoQuestion
  /\ channel # Closed
  /\ channel' = Closed
  /\ slot' = [slot EXCEPT !.state = "closed"]
  /\ UNCHANGED <<known, user>>

Tokens ==
  {[Nobody EXCEPT !.type = "anonymous"], [Nobody EXCEPT !.type = "other"]}
  \union {[Nobody EXCEPT !.type = "username", !.user = u, !.password = p, !.secret = s] :
          u \in Users, p \in Users, s \in {"plain", "encrypted", "otherNonce"}}
  \union {[Nobody EXCEPT !.type = "certificate", !.user = u, !.password = u, !.valid = v] : u \in Users, v \in BOOLEAN}
  \union {[Nobody EXCEPT !.type = "jwt", !.user = u, !.roles = r, !.valid = v] : u \in Users, r \in RoleSets, v \in BOOLEAN}

Next ==
  \/ \E filter \in Filters, locales \in Locales : GetEndpoints(filter, locales)
  \/ \E uris \in {{}, {"this", "other"}, {"other"}}, types \in {{}, {"server"}, {"client"}} : FindServers(uris, types)
  \/ \E policy \in {None} \union Rsa \union Ecc, mode \in {None, "Sign", "SignAndEncrypt"} : OpenChannel(policy, mode)
  \/ \E same \in BOOLEAN : CreateSession(same)
  \/ \E token \in Tokens, signature \in {"valid", "noAlgorithm", "wrong"} : ActivateSession(token, signature)
  \/ CloseSession
  \/ CloseChannel

Spec == Init /\ [][Next]_vars

-----------------------------------------------------------------------------
(* GetEndpoints returns exactly the endpoints whose transport profile the      *)
(* client named, however many profiles it names: the cached filter and the     *)
(* filter read again from the request decide alike.                            *)
EndpointsExact ==
  asked.filter # <<>> =>
    ToSet(told.endpoints) = {e \in ToSet(Endpoints) : e.profile \in ToSet(asked.filter)}

(* A client that follows what it was told gets in: on a channel with the       *)
(* policy and the mode of an endpoint, a token type of that endpoint with      *)
(* credentials the application accepts and a good signature is accepted. The   *)
(* JWT that the unsecured endpoint offers is the exception: ActivateSession    *)
(* refuses it there.                                                           *)
AdvertisedAccepted ==
  LET token == outcome.token
  IN (/\ outcome.signature = "valid"
      /\ \E e \in known : e.policy = channel.policy /\ e.mode = channel.mode /\ token.type \in e.tokens
      /\ ~(token.type = "jwt" /\ channel.policy = None)
      /\ token.type = "anonymous" => ~server.handler \/ server.guests
      /\ token.type = "username" => server.handler /\ HandlerAccepts(token) /\ token.secret # "otherNonce"
      /\ token.type = "jwt" => token.valid)
     => outcome.status = "Good"

(* An activated Session carries the identity of the token it was last          *)
(* activated with, and a refused change of user leaves the old one whole.      *)
IdentityCurrent ==
  slot.state = "activated" =>
    /\ slot.kind = user.type
    /\ slot.identity = SubSeq(user.user, 1, Min({MaxIdentity, Len(user.user)}))

(* Discovery lists the endpoints asked for, what it advertises is accepted,    *)
(* and the Session then has the identity of the token it was activated with.   *)
LogonTrue == EndpointsExact /\ AdvertisedAccepted /\ IdentityCurrent
=============================================================================
