---------------------------- MODULE CallEnvelope ----------------------------
(***************************************************************************)
(* What core_service makes of the answer to a forwarded call               *)
(* (src/src/core_service/call_envelope.cpp): a value, a refusal folded into *)
(* the result, a failure of the transport, or a null, which may be a value *)
(* or an unknown method and is looked up in the module's own interface.    *)
(*                                                                         *)
(* A JSON value is its kind.  "refusal" is an object of exactly the three  *)
(* strings code, message and origin whose code is one of kRejectionCodes.  *)
(***************************************************************************)
EXTENDS Naturals, SequencesExt

CONSTANT Unpublished    \* a parameter list the module does not describe

Value == {"null", "string", "bool", "number", "array", "object", "refusal"}

\* kDeclaredTypes: the published type names that settle the kind of a value.
Accepted ==
    [QString |-> "string", bool |-> "bool", int |-> "number", uint |-> "number",
     qlonglong |-> "number", qulonglong |-> "number", double |-> "number",
     float |-> "number", QVariantList |-> "array", QStringList |-> "array",
     QVariantMap |-> "object"]

\* Null is the empty optional, and a name that is not in the table takes
\* anything.
Fits(v, type) ==
    \/ v = "null" \/ type \notin DOMAIN Accepted
    \/ v = Accepted[type]
    \/ v = "refusal" /\ Accepted[type] = "object"

\* argumentMismatch: a count is left for the provider to judge.
ArgumentMismatch(types, args) ==
    /\ types # Unpublished
    /\ Len(args) = Len(types)
    /\ \E i \in DOMAIN types : ~Fits(args[i], types[i])

\* The first method of that name; an interface is a sequence of records.
Found(interface, method) == SelectInSeq(interface, LAMBDA m : m.name = method)

\* Slip: an interface that could not be read is taken to be empty.
EnvelopeUnproven(method, ret, args, failure, interface) ==
    LET i == Found(interface, method) IN
    IF failure # "" \/ ret = "refusal" THEN "METHOD_FAILED"
    ELSE IF ret # "null" THEN "ok"
    ELSE IF i = 0 THEN "METHOD_NOT_FOUND"
    ELSE IF ArgumentMismatch(interface[i].types, args) THEN "argument_mismatch"
    ELSE "ok"

\* callEnvelope; `failure` is the transport's error code, "" for none, and
\* `interface` is empty when the module could not be asked.
Envelope(method, ret, args, failure, interface) ==
    LET i == Found(interface, method) IN
    IF failure # "" THEN "METHOD_FAILED"
    ELSE IF ret = "refusal" THEN "METHOD_FAILED"
    ELSE IF ret # "null" \/ interface = <<>> THEN "ok"
    ELSE IF i = 0 THEN "METHOD_NOT_FOUND"
    ELSE IF ArgumentMismatch(interface[i].types, args) THEN "argument_mismatch"
    ELSE "ok"
=============================================================================
