------------------------------ MODULE MethodCall ------------------------------
(* Registration of methods (core/server/dispatch.c) and the Call service       *)
(* (dispatch_method.c) for methods of the application.                         *)
EXTENDS Integers, SequencesExt, FiniteSetsExt

CONSTANTS
  Objects,     \* nodes of the user's address space that are called on
  Methods,     \* method ids; the nodes of some exist
  Existing,    \* those whose node exists
  Callbacks,   \* callbacks the application registers
  Signatures,  \* declared inputs: a sequence of [type, array], Unchecked for none
  Arguments,   \* inputs a client sends: sequences of [type, array]
  MaxMethods,  \* MU_MAX_REGISTERED_METHODS
  MaxArgs,     \* MU_DISPATCH_MAX_CALL_INPUT_ARGUMENTS
  MaxSteps     \* bound on the steps of a behaviour

VARIABLES
  registered,  \* registered_methods up to registered_method_count
  wanted,      \* method -> its latest successful registration
  ran,         \* callbacks run by the last request: [callback, method, args]
  results,     \* statuses written by the last request
  outcome,     \* what the client receives: a response, or a fault that carries no results
  audits,      \* audit events of the last request
  steps

vars == <<registered, wanted, ran, results, outcome, audits, steps>>

Unchecked == <<[type |-> -1, array |-> FALSE]>>
NoMethod == [method |-> "none", callback |-> "none", inputs |-> <<>>, executable |-> FALSE]

Init ==
  /\ registered = <<>>
  /\ wanted = [m \in Methods |-> NoMethod]
  /\ ran = <<>> /\ results = <<>> /\ outcome = "none" /\ audits = <<>>
  /\ steps = 0

Step == steps' = steps + 1

(* Mutant: a method that is registered again takes another entry. *)
PlaceAppend(m) == Len(registered) + 1

(* The entry of a method, or the first free one. *)
Place(m) ==
  LET at == {i \in DOMAIN registered : registered[i].method = m}
  IN IF at # {} THEN Min(at) ELSE Len(registered) + 1

(* mu_server_register_method_callback *)
Register(m, callback, inputs, executable) ==
  LET r == [method |-> m, callback |-> callback, inputs |-> inputs, executable |-> executable]
      i == Place(m)
      full == i > MaxMethods
  IN /\ Step
     /\ registered' = IF full THEN registered ELSE IF i > Len(registered) THEN Append(registered, r)
                      ELSE [registered EXCEPT ![i] = r]
     /\ wanted' = IF full THEN wanted ELSE [wanted EXCEPT ![m] = r]
     /\ ran' = <<>> /\ results' = <<>> /\ outcome' = "none" /\ audits' = <<>>

(* validate_call_argument: type 0 is declared for anything. *)
Fits(arg, decl) == arg.array = decl.array /\ (decl.type = 0 \/ arg.type = decl.type)

CountChecked(args, inputs) ==
  IF Len(args) < Len(inputs) THEN "ArgumentsMissing" ELSE IF Len(args) > Len(inputs) THEN "TooManyArguments" ELSE "Good"

Checked(args, inputs) ==
  IF inputs = Unchecked THEN "Good"
  ELSE IF CountChecked(args, inputs) # "Good" THEN CountChecked(args, inputs)
  ELSE IF \E k \in DOMAIN args : ~Fits(args[k], inputs[k]) THEN "InvalidArgument"
  ELSE "Good"

(* write_single_call_method_result up to the callback *)
CallChecked(c) ==
  LET at == {i \in DOMAIN registered : registered[i].method = c.method}
      r == registered[Min(at)]
  IN CASE c.object \notin Objects -> "NodeIdUnknown"
       [] c.method \notin Existing \/ at = {} -> "MethodInvalid"
       [] ~r.executable -> "NotExecutable"
       [] OTHER -> Checked(c.args, r.inputs)

(* One call of the request; acc.ok is FALSE once decoding or writing failed. *)
CallOne(acc, c) ==
  LET status == CallChecked(c)
      r == registered[Min({i \in DOMAIN registered : registered[i].method = c.method})]
      runs == status = "Good"
      wrote == c.fits
  IN IF ~acc.ok THEN acc
     ELSE IF Len(c.args) > MaxArgs THEN [acc EXCEPT !.ok = FALSE]
     ELSE [ok |-> wrote,
           ran |-> IF runs THEN Append(acc.ran, [callback |-> r.callback, method |-> c.method, args |-> c.args]) ELSE acc.ran,
           results |-> Append(acc.results, IF runs THEN c.status ELSE status),
           audits |-> Append(acc.audits, [method |-> c.method, good |-> wrote])]

(* handle_call: a failure on the way answers the whole request with a fault. *)
Call(calls) ==
  LET done == FoldLeft(CallOne, [ok |-> TRUE, ran |-> <<>>, results |-> <<>>, audits |-> <<>>], calls)
  IN /\ Step
     /\ ran' = done.ran
     /\ results' = done.results
     /\ audits' = done.audits
     /\ outcome' = IF calls = <<>> THEN "NothingToDo" ELSE IF done.ok THEN "response" ELSE "fault"
     /\ UNCHANGED <<registered, wanted>>

(* status: what the callback returns; fits: the result fits the response. *)
Calls(objects, methods, status, fits) ==
  [object : objects, method : methods, args : Arguments, status : status, fits : fits]
OneCall == Calls(Objects \union {"missing"}, Methods, {"Good", "Failed"}, BOOLEAN)

Next ==
  /\ steps < MaxSteps
  /\ \/ \E m \in Methods, cb \in Callbacks, inputs \in Signatures, x \in BOOLEAN : Register(m, cb, inputs, x)
     \/ \E c \in OneCall : Call(<<c>>)
     \/ \E c \in Calls(Objects, Methods, {"Good"}, {TRUE}) :
          \E d \in Calls(Objects, {c.method}, {"Good", "Failed"}, BOOLEAN) : Call(<<c, d>>)

Spec == Init /\ [][Next]_vars

-----------------------------------------------------------------------------
(* A callback only runs as the latest registration of its method, when that is *)
(* executable, and with exactly the arguments that registration declares.      *)
RunsAsDeclared ==
  \A i \in DOMAIN ran :
    LET w == wanted[ran[i].method]
    IN /\ w.callback = ran[i].callback /\ w.executable
       /\ w.inputs # Unchecked => /\ Len(ran[i].args) = Len(w.inputs)
                                  /\ \A k \in DOMAIN w.inputs : Fits(ran[i].args[k], w.inputs[k])
=============================================================================
