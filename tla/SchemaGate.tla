----------------------------- MODULE SchemaGate -----------------------------
(***************************************************************************)
(* What stands between an input and the author's function: the gate of     *)
(* defineFactory (src/core/context.ts, src/core/schema/), and the type of  *)
(* that input which pbuilder-codegen writes from the same schema.json      *)
(* (src/bin/).                                                             *)
(*                                                                         *)
(* A value is a kind with a number.  The raw "properties" of a schema map  *)
(* keys to raw properties, in which a field may be missing or odd.         *)
(***************************************************************************)
EXTENDS Naturals, FiniteSets, Sequences, SequencesExt

CONSTANTS
  Reserved,    \* pre-execute and post-execute
  Forbidden    \* __proto__, constructor, prototype

Value(kind, n) == [kind |-> kind, n |-> n]
Undefined == Value("undefined", 0)

Kinds == {"string", "number", "boolean", "enum"}   \* RECOGNIZED_KINDS

(* A raw property: type may be "none" or "odd", choices NoChoices, and     *)
(* required "none" where the file says nothing or no boolean.              *)
NoChoices == <<>>
Property(type, label, choices, required) ==
  [object |-> TRUE, type |-> type, label |-> label, choices |-> choices, required |-> required]
NoProperty == [Property("none", FALSE, NoChoices, "none") EXCEPT !.object = FALSE]

-----------------------------------------------------------------------------
(* The schema, as both sides parse it.                                     *)

ParseSchema(raw) == [k \in {j \in DOMAIN raw : raw[j].object} |-> raw[k]]

(* checkSufficiency                                                        *)
Deficient(key, p) ==
  \/ key \in Forbidden
  \/ p.object /\ (p.type \notin Kinds \/ (p.type = "enum" /\ p.choices = NoChoices) \/ ~p.label)

Sufficient(raw) == \A key \in DOMAIN raw : ~Deficient(key, raw[key])

-----------------------------------------------------------------------------
(* The gate.                                                               *)

Finding(kind, field) == [kind |-> kind, field |-> field]

Required(p) == p.required # "no"

MatchesType(p, value) ==
  CASE p.type = "enum" -> value.kind = "string" /\ value \in ToSet(p.choices)
    [] p.type \in Kinds \ {"enum"} -> value.kind = p.type
    [] OTHER -> FALSE

(* The own keys of the input, which need not be an object.                 *)
Record(input) == IF input.object THEN input.fields ELSE [k \in {} |-> Undefined]

(* A slip: a key that is there with nothing in it is taken for an answer.  *)
PresentAsKey(record, key) == key \in DOMAIN record

Present(record, key) == key \in DOMAIN record /\ record[key] # Undefined

ValidateInput(schema, input) ==
  LET record == Record(input) IN
  {Finding("missing", k) : k \in {j \in DOMAIN schema : ~Present(record, j) /\ Required(schema[j])}}
  \cup {Finding("wrong-type", k) :
          k \in {j \in DOMAIN schema : Present(record, j) /\ ~MatchesType(schema[j], record[j])}}
  \cup {Finding("disallowed-key", k) :
          k \in {j \in DOMAIN record : j \in Reserved \cup Forbidden \/ j \notin DOMAIN schema}}

(* The entries of the directory, in lower case, with their extension.      *)
FindReservedSibling(entries) ==
  {e.name : e \in {f \in entries : f.extension \in {"none", "ts", "js"}}} \cap Reserved

Runs == "runs"
Unchecked == "runs unchecked"

(* checkReservedNames and validateAtRunBoundary: what becomes of a run.    *)
Gate(dir, input) ==
  LET schema == ParseSchema(dir.properties) IN
  IF dir.scan = "unreadable" THEN "error"
  ELSE IF dir.scan = "listed" /\ FindReservedSibling(dir.entries) # {} THEN "reserved-name"
  ELSE IF dir.file = "absent" THEN Unchecked
  ELSE IF dir.file \in {"unreadable", "malformed"} THEN "error"
  ELSE IF DOMAIN schema = {} THEN Unchecked
  ELSE IF ValidateInput(schema, input) # {} THEN "invalid-input"
  ELSE Runs

-----------------------------------------------------------------------------
(* The generated type.                                                     *)

(* emitPropertyType: the values that the type of a property has.           *)
EmitPropertyType(p, value) ==
  IF p.type = "enum" THEN value \in ToSet(p.choices) ELSE value.kind = p.type

(* A value of the type Input: an optional field may be undefined, and an   *)
(* object with other fields does not count as one.                         *)
HasInputType(schema, fields) ==
  /\ DOMAIN fields \subseteq DOMAIN schema
  /\ \A k \in DOMAIN schema :
        IF k \in DOMAIN fields /\ fields[k] # Undefined THEN EmitPropertyType(schema[k], fields[k])
        ELSE ~Required(schema[k])

(* generateSchema writes the type, if the file is there and says enough.   *)
Generated(dir) == dir.file = "ok" /\ Sufficient(dir.properties)

-----------------------------------------------------------------------------
(* Where the two sides need not agree: the gate never takes a reserved     *)
(* key, nor a choice that is not a string.                                 *)
Agreeable(schema) ==
  /\ DOMAIN schema \cap Reserved = {}
  /\ \A k \in DOMAIN schema : \A c \in ToSet(schema[k].choices) : c.kind = "string"

GateKeepsTheType(dir, fields) ==
  LET schema == ParseSchema(dir.properties)
      gate == Gate(dir, [object |-> TRUE, fields |-> fields])
  IN /\ gate = Runs /\ Generated(dir) => HasInputType(schema, fields)
     /\ gate = "invalid-input" /\ Generated(dir) /\ Agreeable(schema) => ~HasInputType(schema, fields)
     /\ gate = Unchecked => dir.file = "absent" \/ DOMAIN schema = {}
=============================================================================
