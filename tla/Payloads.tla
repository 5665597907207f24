------------------------------- MODULE Payloads -------------------------------
(***************************************************************************)
(* What validation lets through to a handler, and what serialization lets  *)
(* out of it: src/validation.rs, the readers of a query in                 *)
(* src/http/request.rs, and src/serialization.rs.                          *)
(*                                                                         *)
(* A payload gives fields their values: "ok", "loose" (accepted, and       *)
(* written otherwise by its type), "bad" (refused by its type) or "null".  *)
(* A type has fields, of which some are required, and a schema that allows *)
(* fields.  The size of a payload is the number of fields.                 *)
(***************************************************************************)
EXTENDS Naturals, Sequences, FiniteSets, SequencesExt, Functions

CONSTANTS
    Fields,
    Bodies, Params,  \* objects: functions from fields to values or None
    Queries,         \* sequences of pairs
    Types,           \* [fields, required, allowed]
    OptionSets,      \* subsets of {"transform", "whitelist", "forbid"}
    Shapes,          \* options of serialization: [include, exclude, skip]
    Replies,         \* responses: [kind, items, lengths]
    MaxValidators, MaxInterceptors,
    None

VARIABLES
    place,           \* "body", "params" or "query"
    inherited,       \* the route's options
    sent,            \* [data, query]: what the client sent
    data,            \* the object, or the map of the parameters
    query,           \* the query string's pairs, None once it is rewritten
    lengths,         \* the values of content-length
    validators,      \* those that ran: [type, options], options None if plain
    stage,           \* "validating", "refused", "handled"; "answered", "failed"
    route, ran,      \* the route's shape, and the interceptors' that ran
    made, reply      \* what the handler made, and what is left of it

vars == <<place, inherited, sent, data, query, lengths, validators, stage,
          route, ran, made, reply>>

-----------------------------------------------------------------------------
(* Objects and types.                                                      *)

Given(o) == {f \in Fields : o[f] # None}

Only(o, fields) == [f \in Fields |-> IF f \in fields THEN o[f] ELSE None]

(* parse_query: of a repeated parameter the map has the last value.        *)
AsMap(pairs) ==
    [f \in Fields |->
        LET at == {i \in DOMAIN pairs : pairs[i][1] = f} IN
        IF at = {} THEN None
        ELSE pairs[CHOOSE i \in at : \A j \in at : j <= i][2]]

Repeated(pairs) ==
    {pairs[i][1] : i \in {i \in DOMAIN pairs :
        \E j \in DOMAIN pairs : i # j /\ pairs[i][1] = pairs[j][1]}}

(* query_value: of a repeated parameter it finds the first one.            *)
QueryValue(f) ==
    IF query = None THEN data[f]
    ELSE LET at == {i \in DOMAIN query : query[i][1] = f} IN
         IF at = {} THEN None
         ELSE query[CHOOSE i \in at : \A j \in at : i <= j][2]

(* Deserialization and validate(): a type takes each field once, and       *)
(* passes over those that it does not know.                                *)
Valid(o, pairs, type) ==
    /\ \A f \in type.required : o[f] \notin {None, "null"}
    /\ \A f \in type.fields : o[f] # "bad"
    /\ pairs = None \/ Repeated(pairs) \cap type.fields = {}

(* The value as its type writes it: in JSON with a null for what is not    *)
(* there, in parameters without.                                           *)
Written(o, type) ==
    [f \in Fields |->
        CASE f \notin type.fields -> None
          [] f \in type.fields /\ o[f] = "loose" -> "ok"
          [] f \in type.fields /\ o[f] = None /\ place = "body" -> "null"
          [] OTHER -> o[f]]

-----------------------------------------------------------------------------
(* Validators.  Plain ones do not look at the route's options.             *)

Effective(v) == IF v.options = None THEN {} ELSE inherited \cup v.options

Unknown(type) ==
    (IF query = None THEN Given(data) ELSE {query[i][1] : i \in DOMAIN query})
    \ type.allowed

(* apply_json_field_options and its kin.                                   *)
Refused(v) == "forbid" \in Effective(v) /\ Unknown(v.type) # {}

Stripped(v) ==
    IF "whitelist" \in Effective(v) THEN Only(data, v.type.allowed) ELSE data

(* Once it is rewritten the query is its map.                              *)
QueryLeft(v, options) ==
    IF options \cap Effective(v) = {} THEN query ELSE None

Rewritten(v) ==
    IF "transform" \in Effective(v) THEN Written(Stripped(v), v.type)
    ELSE Stripped(v)

Accepted(v) ==
    ~Refused(v) /\ Valid(Stripped(v), QueryLeft(v, {"whitelist"}), v.type)

(* rewrite_request_body: one length, if there was any.                     *)
LengthsLeft(v) ==
    IF place # "body" \/ Effective(v) \cap {"transform", "whitelist"} = {}
       \/ lengths = <<>>
    THEN lengths ELSE <<Cardinality(Given(Rewritten(v)))>>

-----------------------------------------------------------------------------
(* Serialization.                                                          *)

(* SerializationOptions::merged_with.                                      *)
Merged(shape) ==
    [include |-> IF route.include # None THEN route.include ELSE shape.include,
     exclude |-> shape.exclude \cup route.exclude,
     skip |-> shape.skip \/ route.skip]

IsEmpty(shape) ==
    shape.include = None /\ shape.exclude = {} /\ ~shape.skip

TransformObject(o, shape) ==
    [f \in Fields |->
        IF \/ shape.include # None /\ f \notin shape.include
           \/ f \in shape.exclude
           \/ shape.skip /\ o[f] = "null"
        THEN None ELSE o[f]]

(* The items of an array, or the object; None is what is not an object.    *)
TransformPayload(items, shape) ==
    [i \in DOMAIN items |->
        IF items[i] = None THEN None ELSE TransformObject(items[i], shape)]

Size(items) ==
    FoldLeft(LAMBDA n, o : n + (IF o = None THEN 1 ELSE Cardinality(Given(o))),
             0, items)

-----------------------------------------------------------------------------
Idle == /\ route = None /\ ran = <<>> /\ made = None /\ reply = None

Requested ==
    /\ stage = "validating" /\ inherited \in OptionSets /\ validators = <<>>
    /\ \/ /\ place = "body" /\ data \in Bodies /\ query = None
          /\ \E n \in 0..2 :
                lengths = [i \in 1..n |-> Cardinality(Given(data))]
       \/ place = "params" /\ data \in Params /\ query = None /\ lengths = <<>>
       \/ /\ place = "query" /\ query \in Queries /\ data = AsMap(query)
          /\ lengths = <<>>
    /\ sent = [data |-> data, query |-> query]
    /\ Idle

Handled ==
    /\ stage = "answered" /\ route \in Shapes /\ made \in Replies
    /\ reply = made /\ ran = <<>>
    /\ place = None /\ inherited = {} /\ sent = None /\ data = None
    /\ query = None /\ lengths = <<>> /\ validators = <<>>

Init == Requested \/ Handled

Fixed == UNCHANGED <<place, inherited, sent, route, made>>

Validate(v) ==
    /\ stage = "validating" /\ Len(validators) < MaxValidators /\ Fixed
    /\ IF Accepted(v)
       THEN /\ data' = Rewritten(v)
            /\ query' = QueryLeft(v, {"whitelist", "transform"})
            /\ lengths' = LengthsLeft(v)
            /\ validators' = Append(validators, v)
            /\ UNCHANGED stage
       ELSE /\ stage' = "refused"
            /\ UNCHANGED <<data, query, lengths, validators>>
    /\ UNCHANGED <<ran, reply>>

Handle ==
    /\ stage = "validating" /\ stage' = "handled"
    /\ Fixed /\ UNCHANGED <<data, query, lengths, validators, ran, reply>>

(* serialize_response, by one interceptor after the other.                 *)
Serialize(shape) ==
    LET merged == Merged(shape)
        items == TransformPayload(reply.items, merged)
        passes == IsEmpty(merged) \/ reply.kind \in {"stream", "text", "empty"}
    IN  /\ stage = "answered" /\ Len(ran) < MaxInterceptors
        /\ ran' = Append(ran, shape) /\ Fixed
        /\ IF passes THEN UNCHANGED <<reply, stage>>
           ELSE IF reply.kind = "broken"
           THEN stage' = "failed" /\ UNCHANGED reply
           ELSE /\ reply' = [reply EXCEPT !.items = items,
                    !.lengths = IF @ = <<>> THEN @ ELSE <<Size(items)>>]
                /\ UNCHANGED stage
        /\ UNCHANGED <<data, query, lengths, validators>>

Next ==
    \/ \E type \in Types, options \in OptionSets \cup {None} :
            Validate([type |-> type, options |-> options])
    \/ Handle
    \/ \E shape \in Shapes : Serialize(shape)

Spec == Init /\ [][Next]_vars

-----------------------------------------------------------------------------
Effects(of) == \E i \in DOMAIN validators : of \in Effective(validators[i])

(* A handler finds what the last validator's type takes, in whichever way  *)
(* it reads a query, and after whitelisting nothing that the schema does   *)
(* not allow (query_validator_with_options, body_validator_with_options).  *)
HandlerGetsValid ==
    stage = "handled" /\ validators # <<>> =>
        LET v == Last(validators) IN
        /\ Valid(data, query, v.type)
        /\ \A f \in v.type.fields : QueryValue(f) = data[f]
        /\ "whitelist" \in Effective(v) => \A f \in Fields :
                QueryValue(f) # None => f \in v.type.allowed \cup v.type.fields

(* What is to be refused does not reach a handler, unless an earlier       *)
(* validator removed or replaced it, and nothing is changed that no option *)
(* asks to be (handle_unknown_fields, rewrite_request_body).               *)
RefusedOrWhole ==
    stage = "handled" /\ validators # <<>> =>
        /\ "forbid" \in Effective(validators[1]) =>
                Given(sent.data) \subseteq validators[1].type.allowed
        /\ ~Effects("whitelist") /\ ~Effects("transform") =>
                data = sent.data /\ query = sent.query
        /\ \A i \in DOMAIN lengths : lengths[i] = Cardinality(Given(data))

(* What the route or an interceptor excludes does not leave in an object   *)
(* of a JSON response, nor what the route does not include; other          *)
(* responses pass as they are (merged_with, transform_payload).            *)
ExcludedStays ==
    stage = "answered" /\ ran # <<>> =>
        LET shapes == ToSet(ran) \cup {route} IN
        /\ reply.kind \notin {"json", "broken"} => reply = made
        /\ reply.kind = "json" => \A o \in ToSet(reply.items) \ {None} :
                /\ \A s \in shapes : Given(o) \cap s.exclude = {}
                /\ route.include # None => Given(o) \subseteq route.include
                /\ (\E s \in shapes : s.skip) => "null" \notin Range(o)
        /\ \A i \in DOMAIN reply.lengths :
                reply.kind = "json" => reply.lengths[i] = Size(reply.items)
=============================================================================
