---------------------------- MODULE ManagedMethods ----------------------------
(* The methods the server brings along: key credentials, roles and the pull    *)
(* model of certificates. Their handlers check a call and pass it on to an     *)
(* adapter of the integrator, which keeps the data and is external.            *)
EXTENDS Integers, SequencesExt, FiniteSetsExt

CONSTANTS
  Objects,     \* object -> its type definition, "unknown" for one that is not a node
  Calls,       \* argument lists of clients: sequences of [type, v, n]: text, or number
  Adapters,    \* whether the integrator configured adapters
  MaxRequests, \* bound on the certificate requests of a behaviour
  MaxSteps     \* bound on the calls of a behaviour

VARIABLES
  store,       \* what the adapters keep: credentials, roles, identities, requests
  client,      \* the same as far as the answers tell the clients
  adapters,    \* the adapters are there
  answer,      \* the last result: [method, status, outputs]
  steps

vars == <<store, client, adapters, answer, steps>>

Credential == "credential"
Role == "role"
Certificate == "certificate"

(* A method: whose it is, the types it reads, how many of them may be missing, *)
(* and whether the first must not be empty.                                    *)
Method(family, args, optional, filled) ==
  [family |-> family, args |-> args, optional |-> optional, filled |-> filled]

GetEncryptingKey == Method(Credential, <<"String">>, 0, FALSE)
CreateCredential == Method(Credential, <<"String", "ByteString", "String">>, 0, FALSE)
UpdateCredential == Method(Credential, <<"String", "ByteString", "String">>, 0, FALSE)
DeleteCredential == Method(Credential, <<"String", "String">>, 0, FALSE)
AddRole == Method(Role, <<"String", "String">>, 0, FALSE)
RemoveRole == Method(Role, <<"NodeId">>, 0, FALSE)
AddIdentity == Method(Role, <<"String">>, 0, FALSE)
RemoveIdentity == Method(Role, <<"String">>, 0, FALSE)
StartSigningRequest == Method(Certificate, <<"ByteString", "NodeId">>, 1, TRUE)
StartNewKeyPairRequest == Method(Certificate, <<"ByteString", "NodeId">>, 1, TRUE)
FinishRequest == Method(Certificate, <<"UInt32">>, 0, FALSE)
GetRejectedList == Method(Certificate, <<>>, 0, FALSE)

Methods ==
  [GetEncryptingKey |-> GetEncryptingKey,
   CreateCredential |-> CreateCredential,
   UpdateCredential |-> UpdateCredential,
   DeleteCredential |-> DeleteCredential,
   AddRole |-> AddRole,
   RemoveRole |-> RemoveRole,
   AddIdentity |-> AddIdentity,
   RemoveIdentity |-> RemoveIdentity,
   StartSigningRequest |-> StartSigningRequest,
   StartNewKeyPairRequest |-> StartNewKeyPairRequest,
   FinishRequest |-> FinishRequest,
   GetRejectedList |-> GetRejectedList]

Empty == "empty"

Init ==
  /\ store = [credentials |-> {}, roles |-> {}, identities |-> {}, requests |-> {}]
  /\ client = store
  /\ adapters \in Adapters
  /\ answer = [method |-> "none", status |-> "", outputs |-> <<>>]
  /\ steps = 0

(* validate_role_object and validate_keycred_object: an object that is not     *)
(* found passes, and the methods of certificates do not look at theirs.        *)
RoleObject(object) == Objects[object] \in {"unknown", Role}

ObjectChecked(family, object) ==
  IF \/ family = Certificate
     \/ family = Role /\ RoleObject(object)
     \/ family = Credential /\ Objects[object] \in {"unknown", Credential}
  THEN "Good" ELSE "MethodInvalid"

(* read_string_arg and its kin, in the order of the arguments; what comes      *)
(* after the arguments of the method is ignored.                               *)
ArgumentStatus(m, args, k) ==
  CASE k > Len(args) -> IF k > Len(m.args) - m.optional THEN "Good" ELSE "ArgumentsMissing"
    [] args[k].type # m.args[k] -> "InvalidArgument"
    [] k = 1 /\ m.filled /\ args[k].v = Empty -> "InvalidArgument"
    [] OTHER -> "Good"

ArgumentsChecked(m, args) ==
  LET bad == {k \in DOMAIN m.args : ArgumentStatus(m, args, k) # "Good"}
  IN IF bad = {} THEN "Good" ELSE ArgumentStatus(m, args, Min(bad))

(* The adapters. A role is known by its name: the namespace of AddRole is read *)
(* and not passed on.                                                          *)
Reply(s, status, outputs) == [store |-> s, status |-> status, outputs |-> outputs]

Keys(s) == {<<c[1], c[2]>> : c \in s.credentials}

CredentialAdapter(s, name, a) ==
  LET uri == a[1].v
      key == IF name = "DeleteCredential" THEN a[2].v ELSE a[3].v
      others == {c \in s.credentials : <<c[1], c[2]>> # <<uri, key>>}
  IN CASE name = "GetEncryptingKey" -> Reply(s, "Good", <<uri>>)
       [] name = "CreateCredential" -> IF <<uri, key>> \in Keys(s) THEN Reply(s, "EntryExists", <<>>)
                                       ELSE Reply([s EXCEPT !.credentials = @ \union {<<uri, key, a[2].v>>}], "Good", <<>>)
       [] <<uri, key>> \notin Keys(s) -> Reply(s, "NoEntryExists", <<>>)
       [] name = "UpdateCredential" -> Reply([s EXCEPT !.credentials = others \union {<<uri, key, a[2].v>>}], "Good", <<>>)
       [] name = "DeleteCredential" -> Reply([s EXCEPT !.credentials = others], "Good", <<>>)

RoleAdapter(s, name, object, a) ==
  LET v == a[1].v
  IN CASE name = "AddRole" -> IF v \in s.roles THEN Reply(s, "AlreadyExists", <<>>)
                              ELSE Reply([s EXCEPT !.roles = @ \union {v}], "Good", <<v>>)
       [] name = "RemoveRole" -> IF v \notin s.roles THEN Reply(s, "NotFound", <<>>)
                                 ELSE Reply([s EXCEPT !.roles = @ \ {v}], "Good", <<>>)
       [] name = "AddIdentity" -> Reply([s EXCEPT !.identities = @ \union {<<object, v>>}], "Good", <<>>)
       [] name = "RemoveIdentity" -> IF <<object, v>> \notin s.identities THEN Reply(s, "NotFound", <<>>)
                                     ELSE Reply([s EXCEPT !.identities = @ \ {<<object, v>>}], "Good", <<>>)

CertificateAdapter(s, name, a) ==
  LET id == Cardinality(s.requests) + 1
  IN CASE name \in {"StartSigningRequest", "StartNewKeyPairRequest"} ->
            IF id > MaxRequests THEN Reply(s, "OutOfMemory", <<>>)
            ELSE Reply([s EXCEPT !.requests = @ \union {<<id, a[1].v>>}], "Good", <<id>>)
       [] name = "FinishRequest" ->
            LET r == {x \in s.requests : x[1] = a[1].n}
            IN IF r = {} THEN Reply(s, "NotFound", <<>>) ELSE Reply(s, "Good", <<(CHOOSE x \in r : TRUE)[2]>>)
       [] name = "GetRejectedList" -> Reply(s, "Good", <<>>)

Adapter(s, name, object, a) ==
  CASE Methods[name].family = Credential -> CredentialAdapter(s, name, a)
    [] Methods[name].family = Role -> RoleAdapter(s, name, object, a)
    [] OTHER -> CertificateAdapter(s, name, a)

-----------------------------------------------------------------------------
(* Mutant: a handler calls the adapter before it checks the object. *)
HandledEarly(s, name, object, args) ==
  LET m == Methods[name]
      status == ArgumentsChecked(m, args)
      r == IF adapters /\ status = "Good" THEN Adapter(s, name, object, args) ELSE Reply(s, status, <<>>)
  IN IF ObjectChecked(m.family, object) = "Good" THEN r ELSE Reply(r.store, "MethodInvalid", <<>>)

(* The handle_... functions: object, adapter, arguments, then the adapter. *)
Handled(s, name, object, args) ==
  LET m == Methods[name]
  IN CASE ObjectChecked(m.family, object) # "Good" -> Reply(s, "MethodInvalid", <<>>)
       [] ~adapters -> Reply(s, "NotSupported", <<>>)
       [] ArgumentsChecked(m, args) # "Good" -> Reply(s, ArgumentsChecked(m, args), <<>>)
       [] OTHER -> Adapter(s, name, object, args)

(* What a client concludes from the answer to its call. *)
Concluded(c, name, object, a, r) ==
  IF r.status # "Good" THEN c
  ELSE CASE name \in {"CreateCredential", "UpdateCredential"} ->
              [c EXCEPT !.credentials = {x \in @ : <<x[1], x[2]>> # <<a[1].v, a[3].v>>} \union {<<a[1].v, a[3].v, a[2].v>>}]
         [] name = "DeleteCredential" -> [c EXCEPT !.credentials = {x \in @ : <<x[1], x[2]>> # <<a[1].v, a[2].v>>}]
         [] name = "AddRole" -> [c EXCEPT !.roles = @ \union {r.outputs[1]}]
         [] name = "RemoveRole" -> [c EXCEPT !.roles = @ \ {a[1].v}]
         [] name = "AddIdentity" -> [c EXCEPT !.identities = @ \union {<<object, a[1].v>>}]
         [] name = "RemoveIdentity" -> [c EXCEPT !.identities = @ \ {<<object, a[1].v>>}]
         [] name \in {"StartSigningRequest", "StartNewKeyPairRequest"} -> [c EXCEPT !.requests = @ \union {<<r.outputs[1], a[1].v>>}]
         [] OTHER -> c

Invoke(name, object, args) ==
  LET r == Handled(store, name, object, args)
  IN /\ steps < MaxSteps
     /\ steps' = steps + 1
     /\ store' = r.store
     /\ answer' = [method |-> name, status |-> r.status, outputs |-> r.outputs]
     /\ client' = Concluded(client, name, object, args, r)
     /\ UNCHANGED adapters

(* UpdateCertificate and ApplyChanges of the push model are not supported with *)
(* and without an adapter, RegisterApplication never.                          *)
Unsupported ==
  /\ steps < MaxSteps
  /\ steps' = steps + 1
  /\ answer' \in [method : {"push"}, status : {"NotSupported"}, outputs : {<<>>}]
       \union [method : {"RegisterApplication"}, status : {"ServiceUnsupported"}, outputs : {<<>>}]
  /\ UNCHANGED <<store, client, adapters>>

(* handle_get_certificate_groups: exactly one NodeId, no adapter. *)
GetCertificateGroups(args) ==
  LET status == CASE args = <<>> -> "ArgumentsMissing"
                  [] Len(args) > 1 -> "TooManyArguments"
                  [] args[1].type # "NodeId" -> "InvalidArgument"
                  [] OTHER -> "Good"
  IN /\ steps < MaxSteps
     /\ steps' = steps + 1
     /\ answer' = [method |-> "GetCertificateGroups", status |-> status,
                   outputs |-> IF status = "Good" THEN <<"application", "https", "user">> ELSE <<>>]
     /\ UNCHANGED <<store, client, adapters>>

Next ==
  \/ \E name \in DOMAIN Methods, object \in DOMAIN Objects, args \in Calls : Invoke(name, object, args)
  \/ Unsupported
  \/ \E args \in Calls : GetCertificateGroups(args)

Spec == Init /\ [][Next]_vars

-----------------------------------------------------------------------------
(* What the answers of the method calls tell is what the adapters hold: a call *)
(* that is refused by a handler has no effect on a store, one that is answered *)
(* Good had exactly the effect its arguments name.                             *)
AnswersTrue == client = store
=============================================================================
