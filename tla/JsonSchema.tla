----------------------------- MODULE JsonSchema -----------------------------
(***************************************************************************)
(* validate_json_schema (core/agent/json_schema.cpp): what is wrong with   *)
(* the arguments of a tool call.                                           *)
(*                                                                         *)
(* A JSON value is a record [kind, val]: val is a string, a number, a      *)
(* sequence of values for an array, a record of values for an object.  A   *)
(* schema is a record of the keywords it contains.  A violation is the     *)
(* path of the offending value and the keyword it offends; the wording of  *)
(* the messages and their order are left out.                              *)
(***************************************************************************)
EXTENDS Integers, Sequences, TLC

JString(text) == [kind |-> "string", val |-> text]
JInteger(n)   == [kind |-> "integer", val |-> n]
JArray(items) == [kind |-> "array", val |-> items]
JObject(items) == [kind |-> "object", val |-> items]

Has(schema, keyword) == keyword \in DOMAIN schema

\* is_number holds for integers, too.
IsNumber(value) == value.kind \in {"integer", "real"}
OfType(value, want) == IF want = "number" THEN IsNumber(value) ELSE value.kind = want

Offends(path, keyword) == {[path |-> path, keyword |-> keyword]}
OffendsIf(wrong, path, keyword) == IF wrong THEN Offends(path, keyword) ELSE {}

StringViolations(value, schema, path) ==
  UNION {
    OffendsIf(Has(schema, "minLength") /\ Len(value.val) < schema.minLength, path, "minLength"),
    OffendsIf(Has(schema, "maxLength") /\ Len(value.val) > schema.maxLength, path, "maxLength"),
    OffendsIf(Has(schema, "enum") /\ value.val \notin schema.enum, path, "enum") }

NumberViolations(value, schema, path) ==
  OffendsIf(Has(schema, "minimum") /\ value.val < schema.minimum, path, "minimum")
  \cup OffendsIf(Has(schema, "maximum") /\ value.val > schema.maximum, path, "maximum")

\* A value of the wrong type is not looked at any further; the members of an
\* object and the items of an array are looked at in turn.
RECURSIVE Violations(_, _, _)

ObjectViolations(value, schema, path) ==
  LET keys  == DOMAIN value.val
      known == IF Has(schema, "properties") THEN DOMAIN schema.properties ELSE {}
      required == IF Has(schema, "required") THEN schema.required ELSE {}
  IN  UNION {Offends(Append(path, key), "required") : key \in required \ keys}
      \cup UNION {Violations(value.val[key], schema.properties[key], Append(path, key))
                    : key \in known \cap keys}
      \cup IF Has(schema, "additionalProperties") /\ ~schema.additionalProperties
           THEN UNION {Offends(Append(path, key), "unknown") : key \in keys \ known}
           ELSE {}

ArrayViolations(value, schema, path) ==
  LET length == Len(value.val)
  IN  (IF Has(schema, "items")
       THEN UNION {Violations(value.val[i], schema.items, Append(path, ToString(i)))
                     : i \in 1..length}
       ELSE {})
      \cup OffendsIf(Has(schema, "minItems") /\ length < schema.minItems, path, "minItems")
      \cup OffendsIf(Has(schema, "maxItems") /\ length > schema.maxItems, path, "maxItems")

Violations(value, schema, path) ==
  IF Has(schema, "type") /\ ~OfType(value, schema.type) THEN Offends(path, "type")
  ELSE CASE value.kind = "string" -> StringViolations(value, schema, path)
         [] IsNumber(value)       -> NumberViolations(value, schema, path)
         [] value.kind = "object" -> ObjectViolations(value, schema, path)
         [] value.kind = "array"  -> ArrayViolations(value, schema, path)
         [] OTHER                 -> {}

Valid(value, schema) == Violations(value, schema, << >>) = {}
=============================================================================
