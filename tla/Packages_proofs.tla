--------------------------- MODULE Packages_proofs ---------------------------
(***************************************************************************)
(* Theorems about the algorithms that the run of MCPackages checks on      *)
(* small inputs, for inputs of any size: how a refused batch is told, what *)
(* the schema gate lets through, how dialects are composed, what stands in *)
(* for the engine in the conformance suite, and what the manifest of the   *)
(* runner names.  Each section has the theorem at its end.                 *)
(***************************************************************************)
EXTENDS Questions, RunVehicle, Integers, FiniteSetTheorems, TLAPS

-----------------------------------------------------------------------------
(* Refused batches.                                                        *)

LEMMA ReasonOfEach ==
  /\ Emit!ReasonOf["collision"] = "path-collision"
  /\ Emit!ReasonOf["not-found"] = "path-not-found"
  /\ Emit!ReasonOf["unrepresentable"] = "unrepresentable-content"
  /\ Emit!ReasonOf["cap"] = "changes-too-large"
  /\ Emit!ReasonOf["unknown"] = "unknown"
  BY DEF Emit!ReasonOf, Emit!Codes, Emit!DirectiveLevel, Emit!BatchLevel

(* What the author sees of a rejection that the client made.               *)
Shown(rejection, batch) == Emit!FlushError(Emit!Raw(rejection), batch)

LEMMA Translated ==
  ASSUME NEW rejection, NEW batch
  PROVE  Shown(rejection, batch) = Emit!ToAuthoringError(rejection, batch)
  BY DEF Shown, Emit!FlushError, Emit!Raw

(* What the host reports of a rejection, the client takes for it.          *)
LEMMA Reread ==
  ASSUME NEW batch, DOMAIN batch \subseteq Nat \ {0}, NEW r \in Emit!Thrown(batch)
  PROVE  Emit!Reconstruct(Emit!Reported(r)) = r
  <1>1. CASE r \in {Emit!EmitRejection(code, i - 1, i - 1) : code \in Emit!DirectiveLevel, i \in DOMAIN batch}
    <2>1. PICK code \in Emit!DirectiveLevel, i \in DOMAIN batch : r = Emit!EmitRejection(code, i - 1, i - 1)
      BY <1>1
    <2>2. i \in Nat /\ i # 0
      OBVIOUS
    <2>3. Emit!Reported(r) = Emit!EmitRejection(code, i - 1, i - 1)
      BY <2>1, <2>2 DEF Emit!Reported, Emit!EmitRejection, Emit!None
    <2>4. QED BY <2>1, <2>2, <2>3 DEF Emit!Reconstruct, Emit!EmitRejection, Emit!None
  <1>2. CASE r \in {Emit!EmitRejection(code, Emit!None, 0) : code \in {"unrepresentable", "cap"}}
    <2>1. PICK code \in {"unrepresentable", "cap"} : r = Emit!EmitRejection(code, Emit!None, 0)
      BY <1>2
    <2>2. Emit!Reported(r) = Emit!EmitRejection(code, Emit!None, Emit!None)
      BY <2>1 DEF Emit!Reported, Emit!EmitRejection
    <2>3. QED BY <2>1, <2>2 DEF Emit!Reconstruct, Emit!EmitRejection, Emit!DirectiveLevel, Emit!BatchLevel, Emit!None
  <1>3. QED BY <1>1, <1>2 DEF Emit!Thrown

(* What the client makes of an answer: a rejection of a directive only for *)
(* a code that names one and comes with an index.                          *)
LEMMA Understood ==
  ASSUME NEW data, data.index \in Int
  PROVE  LET r == Emit!Reconstruct(data)
         IN \/ data.code \in Emit!DirectiveLevel /\ data.index >= 0 /\ r.code = data.code /\ r.index = data.index
            \/ /\ ~(data.code \in Emit!DirectiveLevel /\ data.index >= 0)
               /\ r.code \in Emit!BatchLevel /\ r.index = Emit!None
  BY DEF Emit!Reconstruct, Emit!EmitRejection, Emit!Unclassified, Emit!BatchLevel, Emit!DirectiveLevel, Emit!None

(* The author cannot tell by his error which engine refused his batch, of  *)
(* whatever length, and whatever a host answers, no directive is blamed    *)
(* that it did not name by a code and an index of the batch, and the run   *)
(* fails as a refused write (reconstructEmitRejection, toAuthoringError).  *)
THEOREM RefusalsAreFaithful ==
  ASSUME NEW batch, DOMAIN batch \subseteq Nat \ {0}, NEW data, data.index \in Int
  PROVE  Emit!RejectionIsFaithful(batch, data)
<1> DEFINE r == Emit!Reconstruct(data)
           error == Shown(r, batch)
           named == data.code \in Emit!DirectiveLevel /\ data.index + 1 \in DOMAIN batch
           blamed == batch[data.index + 1]
<1>1. \A s \in Emit!Thrown(batch) : Shown(Emit!Reconstruct(Emit!Reported(s)), batch) = Shown(s, batch)
  BY Reread
<1>2. PICK verb, path, reason, applied : error = Emit!AuthoringError(verb, path, reason, applied)
      /\ verb = (IF r.index + 1 \in DOMAIN batch THEN Emit!VerbFor(batch[r.index + 1].op) ELSE Emit!NoVerb)
      /\ path = (IF r.index + 1 \in DOMAIN batch THEN Emit!PrimaryPath(batch[r.index + 1]) ELSE Emit!NoPath)
      /\ reason = Emit!ReasonOf[r.code]
  BY Translated DEF Emit!ToAuthoringError
<1>3. CASE data.code \in Emit!DirectiveLevel /\ data.index >= 0 /\ r.code = data.code /\ r.index = data.index
  <2>1. reason \in {"path-collision", "path-not-found"}
    BY <1>2, <1>3, ReasonOfEach DEF Emit!DirectiveLevel
  <2>2. error.origin = "write-rejected"
    BY <1>2, <2>1 DEF Emit!AuthoringError, Emit!OriginFor
  <2>3. error.verb = verb /\ error.path = path
    BY <1>2 DEF Emit!AuthoringError
  <2>4. IF named THEN error.verb = Emit!VerbFor(blamed.op) /\ error.path = Emit!PrimaryPath(blamed)
        ELSE error.verb = Emit!NoVerb /\ error.path = Emit!NoPath
    BY <1>2, <1>3, <2>3
  <2>5. QED BY <1>1, <1>3, <2>2, <2>4 DEF Emit!RejectionIsFaithful, Shown
<1>4. CASE /\ ~(data.code \in Emit!DirectiveLevel /\ data.index >= 0)
           /\ r.code \in Emit!BatchLevel /\ r.index = Emit!None
  <2>1. reason \in {"unrepresentable-content", "changes-too-large", "unknown"}
    BY <1>2, <1>4, ReasonOfEach DEF Emit!BatchLevel
  <2>2. error.origin = "write-rejected" /\ error.reason = reason
    BY <1>2, <2>1 DEF Emit!AuthoringError, Emit!OriginFor
  <2>3. error.verb = verb /\ error.path = path
    BY <1>2 DEF Emit!AuthoringError
  <2>4. r.index + 1 \notin DOMAIN batch /\ ~named
    BY <1>4 DEF Emit!None
  <2>5. QED BY <1>1, <1>2, <2>1, <2>2, <2>3, <2>4 DEF Emit!RejectionIsFaithful, Shown
<1>5. QED BY <1>3, <1>4, Understood

-----------------------------------------------------------------------------
(* The schema gate.                                                        *)

LEMMA ParsedProperty ==
  ASSUME NEW dir, Schema!Generated(dir), NEW k \in DOMAIN Schema!ParseSchema(dir.properties)
  PROVE  LET p == Schema!ParseSchema(dir.properties)[k]
         IN k \notin Forbidden /\ p.type \in Schema!Kinds
  BY DEF Schema!ParseSchema, Schema!Generated, Schema!Sufficient, Schema!Deficient

(* A value that the gate takes for a property has the type written for it, *)
(* and the other way round where all choices are strings.                  *)
LEMMA TypesAgree ==
  ASSUME NEW p, p.type \in Schema!Kinds, NEW value
  PROVE  /\ Schema!MatchesType(p, value) => Schema!EmitPropertyType(p, value)
         /\ Schema!EmitPropertyType(p, value) /\ (\A c \in Schema!ToSet(p.choices) : c.kind = "string") =>
              Schema!MatchesType(p, value)
  <1>1. CASE p.type = "enum"
    BY <1>1 DEF Schema!MatchesType, Schema!EmitPropertyType
  <1>2. CASE p.type \in Schema!Kinds \ {"enum"}
    BY <1>2 DEF Schema!MatchesType, Schema!EmitPropertyType
  <1>3. QED BY <1>1, <1>2

(* No findings: every key is declared and allowed, every property is there *)
(* or may be missing, and what is there matches.                           *)
LEMMA NoFindings ==
  ASSUME NEW schema, NEW fields
  PROVE  LET input == [object |-> TRUE, fields |-> fields]
         IN Schema!ValidateInput(schema, input) = {} <=>
              /\ \A k \in DOMAIN schema : Schema!Present(fields, k) \/ ~Schema!Required(schema[k])
              /\ \A k \in DOMAIN schema :
                    Schema!Present(fields, k) => Schema!MatchesType(schema[k], fields[k])
              /\ \A k \in DOMAIN fields : k \notin Reserved \cup Forbidden /\ k \in DOMAIN schema
  <1> DEFINE input == [object |-> TRUE, fields |-> fields]
  <1>1. Schema!Record(input) = fields
    BY DEF Schema!Record
  <1>2. QED BY <1>1 DEF Schema!ValidateInput

LEMMA GateCases ==
  ASSUME NEW dir, NEW fields
  PROVE  LET schema == Schema!ParseSchema(dir.properties)
             input == [object |-> TRUE, fields |-> fields]
             gate == Schema!Gate(dir, input)
         IN /\ gate = Schema!Runs => Schema!ValidateInput(schema, input) = {}
            /\ gate = "invalid-input" => Schema!ValidateInput(schema, input) # {}
            /\ gate = Schema!Unchecked => dir.file = "absent" \/ DOMAIN schema = {}
  BY DEF Schema!Gate, Schema!Runs, Schema!Unchecked

(* An input that the gate lets through has the type that pbuilder-codegen  *)
(* generates from the same schema.json; one that it refuses has not, but   *)
(* for reserved keys and choices that are no strings; and a run is         *)
(* unchecked only for want of a schema or of properties                    *)
(* (validateAtRunBoundary, emitPropertyType).                              *)
THEOREM GateAndTypeAgree ==
  ASSUME NEW dir, NEW fields
  PROVE  Schema!GateKeepsTheType(dir, fields)
<1> DEFINE schema == Schema!ParseSchema(dir.properties)
           input == [object |-> TRUE, fields |-> fields]
           gate == Schema!Gate(dir, input)
<1>1. ASSUME gate = Schema!Runs, Schema!Generated(dir)
      PROVE  Schema!HasInputType(schema, fields)
  <2>1. /\ \A k \in DOMAIN schema : Schema!Present(fields, k) \/ ~Schema!Required(schema[k])
        /\ \A k \in DOMAIN schema : Schema!Present(fields, k) => Schema!MatchesType(schema[k], fields[k])
        /\ \A k \in DOMAIN fields : k \in DOMAIN schema
    BY <1>1, GateCases, NoFindings
  <2>2. ASSUME NEW k \in DOMAIN schema, k \in DOMAIN fields, fields[k] # Schema!Undefined
        PROVE  Schema!EmitPropertyType(schema[k], fields[k])
    BY <1>1, <2>1, <2>2, ParsedProperty, TypesAgree DEF Schema!Present
  <2>3. QED BY <2>1, <2>2 DEF Schema!HasInputType, Schema!Present
<1>2. ASSUME gate = "invalid-input", Schema!Generated(dir), Schema!Agreeable(schema),
             Schema!HasInputType(schema, fields)
      PROVE  FALSE
  <2>1. \A k \in DOMAIN schema : Schema!Present(fields, k) \/ ~Schema!Required(schema[k])
    BY <1>2 DEF Schema!HasInputType, Schema!Present
  <2>2. ASSUME NEW k \in DOMAIN schema, Schema!Present(fields, k)
        PROVE  Schema!MatchesType(schema[k], fields[k])
    <3>1. Schema!EmitPropertyType(schema[k], fields[k])
      BY <1>2, <2>2 DEF Schema!HasInputType, Schema!Present
    <3>2. \A c \in Schema!ToSet(schema[k].choices) : c.kind = "string"
      BY <1>2 DEF Schema!Agreeable
    <3>3. QED BY <1>2, <3>1, <3>2, ParsedProperty, TypesAgree
  <2>3. \A k \in DOMAIN fields : k \notin Reserved \cup Forbidden /\ k \in DOMAIN schema
    <3>1. \A k \in DOMAIN schema : k \notin Forbidden
      BY <1>2, ParsedProperty
    <3>2. QED BY <1>2, <3>1 DEF Schema!HasInputType, Schema!Agreeable
  <2>4. QED BY <1>2, <2>1, <2>2, <2>3, GateCases, NoFindings
<1>3. QED BY <1>1, <1>2, GateCases DEF Schema!GateKeepsTheType

-----------------------------------------------------------------------------
(* Dialects and packs of operations.                                       *)

(* One step of WithOps.                                                    *)
Adds(ops, pack) == Ops!Over(pack, ops)

Packing == INSTANCE Folding WITH Step <- Adds

LEMMA PacksFold ==
  \A ops, packs : Ops!FoldLeft(LAMBDA o, pack : Ops!Over(pack, o), ops, packs) = Packing!Fold(ops, packs)
  BY DEF Packing!Fold, Adds, Ops!Over, Ops!FoldLeft, Ops!MapThenFoldSet, Ops!Max,
     Packing!FoldLeft, Packing!MapThenFoldSet, Packing!Max

LEMMA OnePack == ASSUME NEW ops, NEW p PROVE Packing!Fold(ops, <<p>>) = Ops!Over(p, ops)
  <1> DEFINE s == <<>>
             t == <<p>>
             n == 0
  <1>1. n \in Nat /\ DOMAIN s = 1 .. n /\ DOMAIN t = 1 .. n + 1 /\ (\A i \in 1 .. n : s[i] = t[i]) /\ t[n + 1] = p
    OBVIOUS
  <1>2. Packing!Fold(ops, s) = ops
    BY Packing!FoldEmpty
  <1> HIDE DEF s, t, n
  <1>3. Packing!Fold(ops, t) = Adds(Packing!Fold(ops, s), t[n + 1])
    BY <1>1, Packing!FoldNext
  <1>4. QED BY <1>1, <1>2, <1>3 DEF Adds, t

LEMMA TwoPacks ==
  ASSUME NEW ops, NEW p, NEW q PROVE Packing!Fold(ops, <<p, q>>) = Ops!Over(q, Ops!Over(p, ops))
  <1> DEFINE s == <<p>>
             t == <<p, q>>
             n == 1
  <1>1. n \in Nat /\ DOMAIN s = 1 .. n /\ DOMAIN t = 1 .. n + 1 /\ (\A i \in 1 .. n : s[i] = t[i]) /\ t[n + 1] = q
    OBVIOUS
  <1>2. Packing!Fold(ops, s) = Ops!Over(p, ops)
    BY OnePack
  <1> HIDE DEF s, t, n
  <1>3. Packing!Fold(ops, t) = Adds(Packing!Fold(ops, s), t[n + 1])
    BY <1>1, Packing!FoldNext
  <1>4. QED BY <1>1, <1>2, <1>3 DEF Adds, t

LEMMA OverDomain == ASSUME NEW new, NEW old PROVE DOMAIN Ops!Over(new, old) = DOMAIN new \cup DOMAIN old
  BY DEF Ops!Over

LEMMA OverValue ==
  ASSUME NEW new, NEW old, NEW o \in DOMAIN new \cup DOMAIN old
  PROVE  Ops!Over(new, old)[o] = IF o \in DOMAIN new THEN new[o] ELSE old[o]
  BY DEF Ops!Over

(* Packs that share no name can be laid over in either order.              *)
LEMMA OverCommutes ==
  ASSUME NEW p, NEW q, NEW ops, DOMAIN p \cap DOMAIN q = {}
  PROVE  Ops!Over(q, Ops!Over(p, ops)) = Ops!Over(p, Ops!Over(q, ops))
  <1> DEFINE f == Ops!Over(p, ops)
             g == Ops!Over(q, ops)
             all == DOMAIN p \cup DOMAIN q \cup DOMAIN ops
  <1>1. Ops!Over(q, f) = [o \in all |-> IF o \in DOMAIN q THEN q[o] ELSE f[o]]
    <2>1. DOMAIN f = DOMAIN p \cup DOMAIN ops
      BY OverDomain
    <2>2. DOMAIN q \cup DOMAIN f = all
      BY <2>1
    <2>3. QED BY <2>2 DEF Ops!Over
  <1>2. Ops!Over(p, g) = [o \in all |-> IF o \in DOMAIN p THEN p[o] ELSE g[o]]
    <2>1. DOMAIN g = DOMAIN q \cup DOMAIN ops
      BY OverDomain
    <2>2. DOMAIN p \cup DOMAIN g = all
      BY <2>1
    <2>3. QED BY <2>2 DEF Ops!Over
  <1>3. ASSUME NEW o \in all
        PROVE  (IF o \in DOMAIN q THEN q[o] ELSE f[o]) = (IF o \in DOMAIN p THEN p[o] ELSE g[o])
    <2>1. CASE o \in DOMAIN q
      <3>1. o \notin DOMAIN p /\ g[o] = q[o]
        BY <2>1, OverValue
      <3>2. QED BY <2>1, <3>1
    <2>2. CASE o \in DOMAIN p
      <3>1. o \notin DOMAIN q /\ f[o] = p[o]
        BY <2>2, OverValue
      <3>2. QED BY <2>2, <3>1
    <2>3. CASE o \notin DOMAIN p /\ o \notin DOMAIN q
      <3>1. f[o] = ops[o] /\ g[o] = ops[o]
        BY <1>3, <2>3, OverValue
      <3>2. QED BY <2>3, <3>1
    <2>4. QED BY <2>1, <2>2, <2>3
  <1> HIDE DEF f, g, all
  <1>4. QED BY <1>1, <1>2, <1>3 DEF f, g

LEMMA IsNoRefusal == ASSUME NEW e, NEW ops PROVE Ops!Dialect(e, ops) # Ops!Refused
  <1>1. DOMAIN Ops!Dialect(e, ops) # DOMAIN Ops!Refused
    BY DEF Ops!Dialect, Ops!Refused
  <1>2. QED BY <1>1

(* What adding one pack, or two at once, comes to.                         *)
Free(p, ops) == DOMAIN p \cap (Ops!ReservedHandleNames \cup DOMAIN ops) = {}

LEMMA AddsOne ==
  ASSUME NEW e, NEW ops, NEW p
  PROVE  Ops!WithOps(Ops!Dialect(e, ops), <<p>>)
           = IF Free(p, ops) THEN Ops!Dialect(e, Ops!Over(p, ops)) ELSE Ops!Refused
  <1> DEFINE d == Ops!Dialect(e, ops)
  <1>1. d.ops = ops /\ d.extensions = e
    BY DEF Ops!Dialect
  <1>2. Ops!AssertNoCompositionCollision(d, <<p>>) <=> Free(p, ops)
    BY <1>1 DEF Ops!AssertNoCompositionCollision, Free
  <1>3. d # Ops!Refused
    BY IsNoRefusal
  <1> HIDE DEF d
  <1>4. Ops!WithOps(d, <<p>>)
          = IF d = Ops!Refused \/ ~Ops!AssertNoCompositionCollision(d, <<p>>) THEN Ops!Refused
            ELSE Ops!Dialect(d.extensions, Packing!Fold(d.ops, <<p>>))
    BY PacksFold DEF Ops!WithOps
  <1>5. QED BY <1>1, <1>2, <1>3, <1>4, OnePack DEF d

LEMMA AddsTwo ==
  ASSUME NEW e, NEW ops, NEW p, NEW q
  PROVE  Ops!WithOps(Ops!Dialect(e, ops), <<p, q>>)
           = IF Free(p, ops) /\ Free(q, ops) /\ DOMAIN p \cap DOMAIN q = {}
             THEN Ops!Dialect(e, Ops!Over(q, Ops!Over(p, ops))) ELSE Ops!Refused
  <1> DEFINE d == Ops!Dialect(e, ops)
  <1>1. d.ops = ops /\ d.extensions = e
    BY DEF Ops!Dialect
  <1>2. Ops!AssertNoCompositionCollision(d, <<p, q>>) <=> Free(p, ops) /\ Free(q, ops) /\ DOMAIN p \cap DOMAIN q = {}
    <2>1. DOMAIN <<p, q>> = {1, 2} /\ <<p, q>>[1] = p /\ <<p, q>>[2] = q
      OBVIOUS
    <2>2. QED BY <1>1, <2>1 DEF Ops!AssertNoCompositionCollision, Free
  <1>3. d # Ops!Refused
    BY IsNoRefusal
  <1> HIDE DEF d
  <1>4. Ops!WithOps(d, <<p, q>>)
          = IF d = Ops!Refused \/ ~Ops!AssertNoCompositionCollision(d, <<p, q>>) THEN Ops!Refused
            ELSE Ops!Dialect(d.extensions, Packing!Fold(d.ops, <<p, q>>))
    BY PacksFold DEF Ops!WithOps
  <1>5. QED BY <1>1, <1>2, <1>3, <1>4, TwoPacks DEF d

(* Packs added one by one, together or in the other order make the same    *)
(* dialect, or none.                                                       *)
AnyOrder(d, p, q) ==
  /\ Ops!WithOps(d, <<p, q>>) = Ops!WithOps(Ops!WithOps(d, <<p>>), <<q>>)
  /\ Ops!WithOps(d, <<p, q>>) = Ops!WithOps(d, <<q, p>>)

LEMMA OrderIsImmaterial ==
  ASSUME NEW e, NEW ops, NEW p, NEW q
  PROVE  AnyOrder(Ops!Dialect(e, ops), p, q)
  <1> DEFINE d == Ops!Dialect(e, ops)
             both == Ops!WithOps(d, <<p, q>>)
             step == Ops!WithOps(d, <<p>>)
  <1>1. both = Ops!WithOps(d, <<q, p>>)
    <2>1. CASE DOMAIN p \cap DOMAIN q = {}
      BY <2>1, AddsTwo, OverCommutes
    <2>2. CASE DOMAIN p \cap DOMAIN q # {}
      BY <2>2, AddsTwo
    <2>3. QED BY <2>1, <2>2
  <1>2. CASE ~Free(p, ops)
    <2>1. step = Ops!Refused /\ both = Ops!Refused
      BY <1>2, AddsOne, AddsTwo
    <2>2. Ops!WithOps(Ops!Refused, <<q>>) = Ops!Refused
      BY DEF Ops!WithOps
    <2>3. QED BY <1>1, <2>1, <2>2 DEF AnyOrder
  <1>3. CASE Free(p, ops)
    <2>1. step = Ops!Dialect(e, Ops!Over(p, ops))
      BY <1>3, AddsOne
    <2>2. Free(q, Ops!Over(p, ops)) <=> Free(q, ops) /\ DOMAIN p \cap DOMAIN q = {}
      <3>1. DOMAIN Ops!Over(p, ops) = DOMAIN p \cup DOMAIN ops
        BY OverDomain
      <3>2. QED BY <3>1 DEF Free
    <2>3. Ops!WithOps(step, <<q>>)
            = IF Free(q, Ops!Over(p, ops)) THEN Ops!Dialect(e, Ops!Over(q, Ops!Over(p, ops))) ELSE Ops!Refused
      BY <2>1, AddsOne
    <2>4. both = IF Free(q, ops) /\ DOMAIN p \cap DOMAIN q = {}
                 THEN Ops!Dialect(e, Ops!Over(q, Ops!Over(p, ops))) ELSE Ops!Refused
      BY <1>3, AddsTwo
    <2>5. QED BY <1>1, <2>2, <2>3, <2>4 DEF AnyOrder
  <1>4. QED BY <1>1, <1>2, <1>3 DEF AnyOrder

(* A dialect derived from one whose operations are ops: what its handles   *)
(* have of the verbs of every handle, and of the operations not in p.      *)
Keeps(d, ops, p) ==
  /\ DOMAIN d.ops \cap BaseVerbs = {}
  /\ \A o \in DOMAIN ops \ DOMAIN p : o \in DOMAIN d.ops /\ d.ops[o] = ops[o]

LEMMA DerivedKeep ==
  ASSUME NEW e, NEW ops, DOMAIN ops \cap BaseVerbs = {}, NEW p, NEW q,
         NEW d \in {Ops!WithOps(Ops!Dialect(e, ops), <<p, q>>), Ops!WithoutOps(Ops!Dialect(e, ops), DOMAIN p),
                    Ops!OverrideOps(Ops!Dialect(e, ops), p)} \ {Ops!Refused}
  PROVE  Keeps(d, ops, p)
  <1> DEFINE given == Ops!Dialect(e, ops)
  <1>0. given.ops = ops
    BY DEF Ops!Dialect
  <1>1. CASE d = Ops!WithOps(given, <<p, q>>)
    <2>1. Free(p, ops) /\ Free(q, ops)
      BY <1>1, AddsTwo
    <2>2. d = Ops!Dialect(e, Ops!Over(q, Ops!Over(p, ops)))
      BY <1>1, AddsTwo
    <2>3. d.ops = Ops!Over(q, Ops!Over(p, ops))
      BY <2>2 DEF Ops!Dialect
    <2>4. DOMAIN Ops!Over(p, ops) = DOMAIN p \cup DOMAIN ops
      BY OverDomain
    <2>5. DOMAIN d.ops = DOMAIN q \cup (DOMAIN p \cup DOMAIN ops)
      BY <2>3, <2>4, OverDomain
    <2>6. DOMAIN d.ops \cap BaseVerbs = {}
      BY <2>1, <2>5 DEF Free, Ops!ReservedHandleNames
    <2>7. ASSUME NEW o \in DOMAIN ops \ DOMAIN p
          PROVE  o \in DOMAIN d.ops /\ d.ops[o] = ops[o]
      <3>1. o \notin DOMAIN q
        BY <2>1 DEF Free
      <3>2. Ops!Over(p, ops)[o] = ops[o]
        BY OverValue
      <3>3. Ops!Over(q, Ops!Over(p, ops))[o] = Ops!Over(p, ops)[o]
        BY <2>4, <3>1, OverValue
      <3>4. QED BY <2>3, <2>5, <3>2, <3>3
    <2>8. QED BY <2>6, <2>7 DEF Keeps
  <1>2. CASE d = Ops!WithoutOps(given, DOMAIN p)
    <2> DEFINE blocked == [o \in DOMAIN p |-> Ops!Blocked]
    <2>1. DOMAIN p \subseteq DOMAIN ops /\ d = Ops!Dialect(given.extensions, Ops!Over(blocked, ops))
      BY <1>0, <1>2 DEF Ops!WithoutOps, Ops!AssertKnownOps
    <2>2. d.ops = Ops!Over(blocked, ops) /\ DOMAIN blocked = DOMAIN p
      BY <2>1 DEF Ops!Dialect
    <2> HIDE DEF blocked
    <2>3. DOMAIN d.ops = DOMAIN ops
      BY <2>1, <2>2, OverDomain, ZenonT(40)
    <2>4. \A o \in DOMAIN ops \ DOMAIN p : d.ops[o] = ops[o]
      BY <2>2, OverValue
    <2>5. QED BY <2>3, <2>4 DEF Keeps
  <1>3. CASE d = Ops!OverrideOps(given, p)
    <2>1. DOMAIN p \subseteq DOMAIN ops /\ d = Ops!Dialect(given.extensions, Ops!Over(p, ops))
      BY <1>0, <1>3 DEF Ops!OverrideOps, Ops!AssertKnownOps
    <2>2. d.ops = Ops!Over(p, ops)
      BY <2>1 DEF Ops!Dialect
    <2>3. DOMAIN d.ops = DOMAIN ops
      BY <2>1, <2>2, OverDomain
    <2>4. \A o \in DOMAIN ops \ DOMAIN p : d.ops[o] = ops[o]
      BY <2>2, OverValue
    <2>5. QED BY <2>3, <2>4 DEF Keeps
  <1>4. QED BY <1>1, <1>2, <1>3

(* What a handle has of a verb and of an operation.                        *)
LEMMA Handles ==
  ASSUME NEW ops
  PROVE  /\ \A v \in BaseVerbs \ DOMAIN ops : Ops!Handle(ops)[v] = v
         /\ \A o \in DOMAIN ops : Ops!Handle(ops)[o] = ops[o]
  <1> DEFINE base == [v \in BaseVerbs |-> v]
  <1>1. DOMAIN base = BaseVerbs /\ \A v \in BaseVerbs : base[v] = v
    OBVIOUS
  <1>2. Ops!Handle(ops) = Ops!Over(ops, base)
    BY DEF Ops!Handle
  <1> HIDE DEF base
  <1>3. QED BY <1>1, <1>2, OverValue

LEMMA DerivedHandles ==
  ASSUME NEW d, NEW ops, NEW p, Keeps(d, ops, p), NEW base, Ops!Find(d, base) # Ops!Refused
  PROVE  /\ \A v \in BaseVerbs : Ops!Find(d, base)[v] = v
         /\ \A o \in DOMAIN ops \ DOMAIN p : Ops!Find(d, base)[o] = ops[o]
  <1>1. Ops!Find(d, base) = Ops!Handle(d.ops)
    BY DEF Ops!Find
  <1>2. QED BY <1>1, Handles DEF Keeps

-----------------------------------------------------------------------------
(* Routers.                                                                *)

(* A suffix, from its end.                                                 *)
LEMMA SuffixIs ==
  ASSUME NEW Chars, NEW s \in Seq(Chars), NEW t \in Seq(Chars)
  PROVE  Ops!IsSuffix(s, t) <=>
           Len(s) <= Len(t) /\ \A i \in 1 .. Len(s) : s[Len(s) - i + 1] = t[Len(t) - i + 1]
  <1> DEFINE m == Len(s)
             n == Len(t)
             r == [i \in 1 .. m |-> s[m - i + 1]]
             u == [i \in 1 .. n |-> t[n - i + 1]]
  <1>1. m \in Nat /\ n \in Nat
    OBVIOUS
  <1>2. Ops!Reverse(s) = r /\ Ops!Reverse(t) = u
    BY DEF Ops!Reverse
  <1>3. r \in Seq(Chars) /\ u \in Seq(Chars) /\ Len(r) = m /\ Len(u) = n
    <2>1. \A i \in 1 .. m : m - i + 1 \in 1 .. m
      BY <1>1
    <2>2. \A i \in 1 .. n : n - i + 1 \in 1 .. n
      BY <1>1
    <2>3. r \in [1 .. m -> Chars] /\ u \in [1 .. n -> Chars]
      BY <2>1, <2>2
    <2>4. QED BY <1>1, <2>3
  <1>4. \A i \in 1 .. m : r[i] = s[m - i + 1]
    OBVIOUS
  <1>5. \A i \in 1 .. n : u[i] = t[n - i + 1]
    OBVIOUS
  <1> HIDE DEF r, u, m, n
  <1>6. Ops!IsSuffix(s, t) <=> m <= n /\ SubSeq(r, 1, m) = SubSeq(u, 1, m)
    BY <1>2, <1>3 DEF Ops!IsSuffix, Ops!IsPrefix
  <1>7. ASSUME m <= n
        PROVE  SubSeq(r, 1, m) = SubSeq(u, 1, m) <=> \A i \in 1 .. m : r[i] = u[i]
    <2>1. SubSeq(r, 1, m) = [i \in 1 .. m |-> r[i]] /\ SubSeq(u, 1, m) = [i \in 1 .. m |-> u[i]]
      BY <1>1, <1>3, <1>7
    <2>2. QED BY <2>1
  <1>8. ASSUME m <= n
        PROVE  (\A i \in 1 .. m : r[i] = u[i]) <=> \A i \in 1 .. m : s[m - i + 1] = t[n - i + 1]
    <2>1. \A i \in 1 .. m : i \in 1 .. n
      BY <1>1, <1>8
    <2>2. QED BY <1>4, <1>5, <2>1
  <1>9. QED BY <1>6, <1>7, <1>8 DEF m, n

(* Of two suffixes of a name the shorter is a suffix of the longer, and    *)
(* two of one length are the same.                                         *)
LEMMA SuffixesNest ==
  ASSUME NEW Chars, NEW e \in Seq(Chars), NEW f \in Seq(Chars), NEW base \in Seq(Chars),
         Ops!IsSuffix(e, base), Ops!IsSuffix(f, base), Len(e) <= Len(f)
  PROVE  Ops!IsSuffix(e, f) /\ (Len(e) = Len(f) => e = f)
  <1>1. /\ Len(e) <= Len(base) /\ \A i \in 1 .. Len(e) : e[Len(e) - i + 1] = base[Len(base) - i + 1]
        /\ Len(f) <= Len(base) /\ \A i \in 1 .. Len(f) : f[Len(f) - i + 1] = base[Len(base) - i + 1]
    BY SuffixIs
  <1>2. \A i \in 1 .. Len(e) : e[Len(e) - i + 1] = f[Len(f) - i + 1]
    <2>1. \A i \in 1 .. Len(e) : i \in 1 .. Len(f)
      OBVIOUS
    <2>2. QED BY <1>1, <2>1
  <1>3. ASSUME Len(e) = Len(f), NEW j \in 1 .. Len(e)
        PROVE  e[j] = f[j]
    <2>1. Len(e) - j + 1 \in 1 .. Len(e) /\ Len(e) - (Len(e) - j + 1) + 1 = j
      OBVIOUS
    <2>2. QED BY <1>2, <1>3, <2>1
  <1>4. QED BY <1>2, <1>3, SuffixIs

(* If any of the routed extensions ends a name, the longest such is the    *)
(* only one that is not the end of another.                                *)
LEMMA OneLongest ==
  ASSUME NEW Chars, NEW base \in Seq(Chars), NEW keys \in SUBSET Seq(Chars), keys # {},
         \A e \in keys : Ops!IsSuffix(e, base)
  PROVE  \E top \in keys : /\ Ops!LongestKey(keys) = {top}
                           /\ \A f \in keys : Len(f) <= Len(top) /\ (Len(f) = Len(top) => f = top)
  <1>1. \A e \in keys : Len(e) \in 0 .. Len(base)
    BY SuffixIs
  <1>2. PICK top \in keys : \A f \in keys : Len(f) <= Len(top)
    <2> DEFINE Lens == {Len(base) - Len(e) : e \in keys}
    <2>1. Lens \subseteq Nat /\ Lens # {}
      BY <1>1
    <2>2. PICK x \in Lens : \A y \in Lens : x <= y
      BY <2>1, Packing!Least
    <2>3. PICK e \in keys : x = Len(base) - Len(e)
      BY <2>2
    <2>4. ASSUME NEW f \in keys PROVE Len(f) <= Len(e)
      <3>1. Len(base) - Len(e) <= Len(base) - Len(f)
        BY <2>2, <2>3
      <3>2. QED BY <1>1, <3>1
    <2>5. QED BY <2>4
  <1>3. \A f \in keys : Ops!IsSuffix(f, top) /\ (Len(f) = Len(top) => f = top)
    BY <1>2, SuffixesNest
  <1>4. ASSUME NEW f \in keys \ {top} PROVE ~Ops!IsSuffix(top, f)
    <2>1. Len(f) < Len(top)
      <3>1. Len(f) # Len(top) /\ Len(f) <= Len(top)
        BY <1>2, <1>3
      <3>2. QED BY <1>1, <3>1
    <2>2. ~(Len(top) <= Len(f))
      BY <1>1, <2>1
    <2>3. QED BY <2>2, SuffixIs
  <1>5. top \in Ops!LongestKey(keys)
    BY <1>4 DEF Ops!LongestKey
  <1>6. \A f \in Ops!LongestKey(keys) : f = top
    BY <1>3 DEF Ops!LongestKey
  <1>7. Ops!LongestKey(keys) = {top}
    BY <1>5, <1>6
  <1>8. QED BY <1>2, <1>3, <1>7

(* The router finds what its type promises, but for a name that is all     *)
(* extension or has a dot before it.                                       *)
LEMMA RoutesAsTyped ==
  ASSUME NEW Chars, NEW base \in Seq(Chars), NEW routes, DOMAIN routes \subseteq Seq(Chars),
         Ops!ByExtension(routes), ~Ops!Dotted(routes, base)
  PROVE  IF Ops!MatchingKey(routes, base) = {} THEN Ops!RouterFind(routes, base) = Ops!Refused
         ELSE {Ops!RouterFind(routes, base)} = Ops!RoutedHandle(routes, base)
  <1> DEFINE keys == Ops!MatchingKey(routes, base)
             fits == {e \in DOMAIN routes : Ops!HasDeclaredExtension(base, {e})}
  <1>1. fits \subseteq keys /\ keys \subseteq DOMAIN routes /\ \A e \in keys : Ops!IsSuffix(e, base)
    BY DEF Ops!MatchingKey, Ops!HasDeclaredExtension
  <1>2. CASE keys = {}
    <2>1. fits = {}
      BY <1>1, <1>2
    <2>2. QED BY <1>2, <2>1 DEF Ops!RouterFind
  <1>3. CASE keys # {}
    <2>1. PICK top \in keys : /\ Ops!LongestKey(keys) = {top}
                              /\ \A f \in keys : Len(f) <= Len(top) /\ (Len(f) = Len(top) => f = top)
      BY <1>1, <1>3, OneLongest
    <2>2. Ops!HasDeclaredExtension(base, {top})
      BY <2>1 DEF Ops!Dotted
    <2>3. top \in fits
      BY <1>1, <2>2
    <2>4. Ops!Route(routes, base) = top
      <3>1. Ops!Route(routes, base) = CHOOSE e \in fits : \A f \in fits : Len(f) <= Len(e)
        BY DEF Ops!Route
      <3>2. \A f \in fits : Len(f) <= Len(top)
        BY <1>1, <2>1
      <3>3. ASSUME NEW e \in fits, \A f \in fits : Len(f) <= Len(e)
            PROVE  e = top
        <4>1. Len(top) <= Len(e) /\ Len(e) <= Len(top)
          BY <1>1, <2>1, <2>3, <3>3
        <4>2. Len(top) \in Nat /\ Len(e) \in Nat
          BY <1>1, <2>3
        <4>3. Len(e) = Len(top)
          BY <4>1, <4>2
        <4>4. QED BY <1>1, <2>1, <4>3
      <3> HIDE DEF fits
      <3>4. QED BY <2>3, <3>1, <3>2, <3>3
    <2>5. Ops!RouterFind(routes, base) = Ops!Find(routes[top], base)
      BY <1>1, <2>2, <2>4 DEF Ops!RouterFind
    <2>6. Ops!HasDeclaredExtension(base, routes[top].extensions)
      BY <1>1, <2>2 DEF Ops!HasDeclaredExtension, Ops!ByExtension
    <2>7. Ops!RouterFind(routes, base) = Ops!Handle(routes[top].ops)
      BY <2>5, <2>6 DEF Ops!Find
    <2>8. Ops!RoutedHandle(routes, base) = {Ops!Handle(routes[top].ops)}
      BY <2>1 DEF Ops!RoutedHandle
    <2>9. QED BY <1>3, <2>7, <2>8
  <1>4. QED BY <1>2, <1>3

(* Packs can be added one by one or together, in any order, and are taken  *)
(* or refused alike; no composition changes a verb that every handle has,  *)
(* or an operation that it does not name; and what a router finds has the  *)
(* type that the compiler gives it (withOps, withoutOps, overrideOps,      *)
(* byExtension).  The dialect that is extended has no operation with the   *)
(* name of a verb, which defineDialect takes for granted.                  *)
THEOREM CompositionIsSound ==
  ASSUME NEW extensions, NEW ops, DOMAIN ops \cap BaseVerbs = {}, NEW p, NEW q,
         NEW Chars, NEW base \in Seq(Chars), NEW routes, DOMAIN routes \subseteq Seq(Chars)
  PROVE  Ops!DialectsCompose(Ops!Dialect(extensions, ops), p, q, routes, base)
<1> DEFINE d == Ops!Dialect(extensions, ops)
           both == Ops!WithOps(d, <<p, q>>)
           derived == {both, Ops!WithoutOps(d, DOMAIN p), Ops!OverrideOps(d, p)} \ {Ops!Refused}
<1>1. both = Ops!WithOps(Ops!WithOps(d, <<p>>), <<q>>) /\ both = Ops!WithOps(d, <<q, p>>)
  <2>1. AnyOrder(d, p, q)
    BY OrderIsImmaterial
  <2>2. QED BY <2>1 DEF AnyOrder
<1>2. d.ops = ops
  BY DEF Ops!Dialect
<1>3. ASSUME NEW c \in derived, Ops!Find(c, base) # Ops!Refused
      PROVE  /\ \A v \in BaseVerbs : Ops!Find(c, base)[v] = v
             /\ \A o \in DOMAIN d.ops \ DOMAIN p : Ops!Find(c, base)[o] = d.ops[o]
  <2>1. Keeps(c, ops, p)
    BY DerivedKeep
  <2>2. QED BY <1>2, <1>3, <2>1, DerivedHandles
<1>4. Ops!ByExtension(routes) /\ ~Ops!Dotted(routes, base) =>
        IF Ops!MatchingKey(routes, base) = {} THEN Ops!RouterFind(routes, base) = Ops!Refused
        ELSE {Ops!RouterFind(routes, base)} = Ops!RoutedHandle(routes, base)
  BY RoutesAsTyped
<1> HIDE DEF d
<1>5. QED BY <1>1, <1>3, <1>4 DEF Ops!DialectsCompose, d

-----------------------------------------------------------------------------
(* The transport of the conformance suite.                                 *)

(* One step of EmitToFake, and one of EmitToVehicle.                       *)
TakeThere(r, d) ==
  IF r.ok /\ Verdict(r.tree, d, FALSE) = "ok" THEN Accepted(Effect(r.tree, d)) ELSE Rejected(r.tree)

TakeHere(r, d) == IF r.ok THEN ApplyDirective(r.tree, d) ELSE r

There == INSTANCE Folding WITH Step <- TakeThere
Here == INSTANCE Folding WITH Step <- TakeHere

LEMMA ThereFolds == \A ds : EmitToFake(ds) = There!Fold(Accepted(EmptyStaging), ds)
  BY DEF EmitToFake, There!Fold, TakeThere, FoldLeft, MapThenFoldSet, Max,
     There!FoldLeft, There!MapThenFoldSet, There!Max

LEMMA HereFolds == \A ds : EmitToVehicle(Seed, ds) = Here!Fold(Accepted(Seed), ds)
  BY DEF EmitToVehicle, Here!Fold, TakeHere, FoldLeft, MapThenFoldSet, Max,
     Here!FoldLeft, Here!MapThenFoldSet, Here!Max

(* Directives that rename no file outside of the root folder and move none *)
(* to it.                                                                  *)
Stays(d) ==
  /\ d \in Directive
  /\ d.op = "rename" => d.path[1] = Root
  /\ d.op = "move" => d.toDir # Root

(* What a staging tree reads as, file by file.                             *)
View(st) == [p \in Path |-> Lookup(st, p)]

LEMMA ViewTypes ==
  ASSUME NEW st \in Staging
  PROVE  View(st) \in [Path -> File] /\ \A p \in Path : Exists(st, p) => View(st)[p] \in Contents
  BY StagingAssumption DEF View, Lookup, Exists, Staging, File

LEMMA PutViewed ==
  ASSUME NEW st \in Staging, NEW p \in Path, NEW c \in Contents
  PROVE  Put(st, p, c) \in Staging /\ View(Put(st, p, c)) = Set(View(st), p, c)
  <1> DEFINE new == Put(st, p, c)
  <1>1. new.tree = [st.tree EXCEPT ![p] = c] /\ new.deleted = st.deleted \ {p} /\ new \in Staging
    BY DEF Put, Staging, File
  <1>2. c # None
    BY StagingAssumption
  <1>3. ASSUME NEW r \in Path PROVE Lookup(new, r) = IF r = p THEN c ELSE Lookup(st, r)
    <2>1. new.tree[r] = IF r = p THEN c ELSE st.tree[r]
      BY <1>1 DEF Staging
    <2>2. QED BY <1>1, <1>2, <2>1 DEF Lookup
  <1> HIDE DEF new
  <1>4. View(new) = Set(View(st), p, c)
    BY <1>3 DEF View, Set
  <1>5. QED BY <1>1, <1>4 DEF new

LEMMA DropViewed ==
  ASSUME NEW st \in Staging, NEW p \in Path
  PROVE  Drop(st, p) \in Staging /\ View(Drop(st, p)) = Set(View(st), p, None)
  <1> DEFINE new == Drop(st, p)
  <1>1. new.tree = [st.tree EXCEPT ![p] = None] /\ new.deleted = st.deleted \cup {p} /\ new \in Staging
    BY DEF Drop, Staging, File
  <1>2. ASSUME NEW r \in Path PROVE Lookup(new, r) = IF r = p THEN None ELSE Lookup(st, r)
    <2>1. new.tree[r] = IF r = p THEN None ELSE st.tree[r]
      BY <1>1 DEF Staging
    <2>2. QED BY <1>1, <2>1 DEF Lookup
  <1> HIDE DEF new
  <1>3. View(new) = Set(View(st), p, None)
    BY <1>2 DEF View, Set
  <1>4. QED BY <1>1, <1>3 DEF new

LEMMA MoveViewed ==
  ASSUME NEW st \in Staging, NEW from \in Path, NEW to \in Path, Exists(st, from)
  PROVE  /\ Put(Drop(st, from), to, Lookup(st, from)) \in Staging
         /\ View(Put(Drop(st, from), to, Lookup(st, from))) = Moved(View(st), from, to)
  <1>1. Lookup(st, from) \in Contents /\ View(st)[from] = Lookup(st, from) /\ View(st)[from] # None
    BY ViewTypes, StagingAssumption DEF View
  <1>2. Drop(st, from) \in Staging /\ View(Drop(st, from)) = Set(View(st), from, None)
    BY DropViewed
  <1>3. Moved(View(st), from, to) = Set(Set(View(st), from, None), to, Lookup(st, from))
    BY <1>1 DEF Moved
  <1>4. QED BY <1>1, <1>2, <1>3, PutViewed

(* What the fake takes the vehicle takes, and both then read the same.     *)
LEMMA DirectiveAlike ==
  ASSUME Root \in Dirs, NEW st \in Staging, NEW d, Stays(d), Verdict(st, d, FALSE) = "ok"
  PROVE  Effect(st, d) \in Staging /\ ApplyDirective(View(st), d) = Accepted(View(Effect(st, d)))
  <1>1. CASE d.op \in {"create", "modify"}
    <2>1. d.path \in Path /\ d.content \in Contents
      BY <1>1 DEF Stays, Directive
    <2>2. Effect(st, d) = Put(st, d.path, d.content)
      BY <1>1 DEF Effect
    <2>3. ApplyDirective(View(st), d) = Accepted(Set(View(st), d.path, d.content))
      BY <1>1 DEF ApplyDirective
    <2>4. QED BY <2>1, <2>2, <2>3, PutViewed
  <1>2. CASE d.op = "delete"
    <2>1. d.path \in Path
      BY <1>2 DEF Stays, Directive
    <2>2. Effect(st, d) = Drop(st, d.path)
      BY <1>2 DEF Effect
    <2>3. ApplyDirective(View(st), d) = Accepted(Set(View(st), d.path, None))
      BY <1>2 DEF ApplyDirective
    <2>4. QED BY <2>1, <2>2, <2>3, DropViewed
  <1>3. CASE d.op \in {"rename", "move"}
    <2>1. d.path \in Path /\ Exists(st, d.path)
      BY <1>3 DEF Stays, Directive, Verdict, NeedsSource
    <2>2. /\ Target(d) \in Path
          /\ ApplyDirective(View(st), d) = Accepted(Moved(View(st), d.path, Target(d)))
      <3>1. CASE d.op = "rename"
        <4>1. d.path[1] = Root /\ d.newName \in Names
          BY <3>1 DEF Stays, Directive
        <4>2. QED BY <3>1, <4>1 DEF Target, ApplyDirective, Path
      <3>2. CASE d.op = "move"
        <4>1. d.path[2] \in Names /\ d.toDir \in Dirs /\ d.toDir # Root
          BY <2>1, <3>2 DEF Stays, Directive, Path
        <4>2. QED BY <3>2, <4>1 DEF Target, ApplyDirective, Path
      <3>3. QED BY <1>3, <3>1, <3>2
    <2>3. Effect(st, d) = Put(Drop(st, d.path), Target(d), Lookup(st, d.path))
      BY <1>3 DEF Effect
    <2>4. QED BY <2>1, <2>2, <2>3, MoveViewed
  <1>4. CASE d.op = "copy"
    <2>1. d.path \in Path /\ d.to \in Path /\ Exists(st, d.path)
      BY <1>4 DEF Stays, Directive, Verdict, NeedsSource
    <2>2. Lookup(st, d.path) \in Contents /\ View(st)[d.path] = Lookup(st, d.path)
      BY <2>1, ViewTypes DEF View
    <2>3. Effect(st, d) = Put(st, d.to, Lookup(st, d.path))
      BY <1>4 DEF Effect
    <2>4. ApplyDirective(View(st), d) = Accepted(Set(View(st), d.to, Lookup(st, d.path)))
      BY <1>4, <2>2, StagingAssumption DEF ApplyDirective
    <2>5. QED BY <2>1, <2>2, <2>3, <2>4, PutViewed
  <1>5. CASE d.op = "copyIn"
    <2>1. d.to \in Path /\ Target(d) = d.to /\ Effect(st, d) = st
      BY <1>5 DEF Stays, Directive, Target, Effect
    <2>2. View(st)[d.to] # None => d.force
      BY <1>5, <2>1 DEF Verdict, NeedsSource, ChecksTarget, Exists, View
    <2>3. QED BY <1>5, <2>1, <2>2 DEF ApplyDirective
  <1>6. QED BY <1>1, <1>2, <1>3, <1>4, <1>5 DEF Stays, Directive

(* What both hold, as long as the fake takes what it is given.             *)
Alike(there, here) ==
  there.ok => here.ok /\ there.tree \in Staging /\ here.tree = View(there.tree)

LEMMA AlikeStep ==
  ASSUME Root \in Dirs, NEW there, NEW here, Alike(there, here), NEW d, Stays(d)
  PROVE  Alike(TakeThere(there, d), TakeHere(here, d))
  <1>1. CASE there.ok /\ Verdict(there.tree, d, FALSE) = "ok"
    <2>1. TakeThere(there, d) = Accepted(Effect(there.tree, d))
      BY <1>1 DEF TakeThere
    <2>2. TakeHere(here, d) = ApplyDirective(View(there.tree), d) /\ there.tree \in Staging
      BY <1>1 DEF TakeHere, Alike
    <2>3. Effect(there.tree, d) \in Staging
          /\ TakeHere(here, d) = Accepted(View(Effect(there.tree, d)))
      BY <1>1, <2>2, DirectiveAlike
    <2>4. QED BY <2>1, <2>3 DEF Alike, Accepted
  <1>2. CASE ~(there.ok /\ Verdict(there.tree, d, FALSE) = "ok")
    BY <1>2 DEF TakeThere, Alike, Rejected
  <1>3. QED BY <1>1, <1>2

LEMMA AlikeFirst == Alike(Accepted(EmptyStaging), Accepted(Seed))
  <1>1. EmptyStaging \in Staging
    BY DEF EmptyStaging, Staging, File
  <1>2. Seed = [p \in Path |-> Seed[p]]
    BY StagingAssumption
  <1>3. \A p \in Path : Lookup(EmptyStaging, p) = Seed[p]
    BY DEF Lookup, EmptyStaging
  <1>4. View(EmptyStaging) = Seed
    BY <1>2, <1>3 DEF View
  <1>5. QED BY <1>1, <1>4 DEF Alike, Accepted

(* What stands in for the engine in the conformance suite takes what the   *)
(* fake takes, and reads the same afterwards, for a batch of any length    *)
(* and over any files, unless a file is renamed within a folder other than *)
(* the root or moved to the root (emit of the run vehicle, #apply of the   *)
(* fake).                                                                  *)
THEOREM VehicleStandsIn ==
  ASSUME Root \in Dirs, NEW directives \in Seq(Directive)
  PROVE  VehicleReadsAlike(directives)
<1> DEFINE there(k) == There!Fold(Accepted(EmptyStaging), SubSeq(directives, 1, k))
           here(k) == Here!Fold(Accepted(Seed), SubSeq(directives, 1, k))
           T == {k \in Nat : k <= Len(directives) => Alike(there(k), here(k))}
<1> SUFFICES ASSUME \A i \in DOMAIN directives : Stays(directives[i])
             PROVE  Alike(EmitToFake(directives), EmitToVehicle(Seed, directives))
  <2> DEFINE leaves == \E d \in ToSet(directives) :
                          \/ d.op = "rename" /\ d.path[1] # Root
                          \/ d.op = "move" /\ d.toDir = Root
  <2>1. ASSUME ~leaves, NEW i \in DOMAIN directives PROVE Stays(directives[i])
    <3>1. directives[i] \in Directive
      OBVIOUS
    <3>2. directives[i] \in ToSet(directives)
      BY DEF ToSet
    <3>3. QED BY <2>1, <3>1, <3>2 DEF Stays
  <2>2. VehicleReadsAlike(directives) =
          (EmitToFake(directives).ok /\ ~leaves =>
             /\ EmitToVehicle(Seed, directives).ok
             /\ \A p \in Path : EmitToVehicle(Seed, directives).tree[p] = Lookup(EmitToFake(directives).tree, p))
    BY DEF VehicleReadsAlike
  <2> HIDE DEF leaves
  <2>3. QED BY <2>1, <2>2 DEF Alike, View
<1>1. 0 \in T
  <2>1. SubSeq(directives, 1, 0) = <<>>
    OBVIOUS
  <2>2. there(0) = Accepted(EmptyStaging) /\ here(0) = Accepted(Seed)
    BY <2>1, There!FoldEmpty, Here!FoldEmpty
  <2>3. QED BY <2>2, AlikeFirst
<1>2. ASSUME NEW k \in Nat, k \in T
      PROVE  k + 1 \in T
  <2>1. SUFFICES ASSUME k + 1 <= Len(directives) PROVE Alike(there(k + 1), here(k + 1))
    OBVIOUS
  <2>2. k \in 0 .. Len(directives) - 1 /\ k + 1 \in DOMAIN directives /\ Alike(there(k), here(k))
    BY <1>2, <2>1
  <2>3. there(k + 1) = TakeThere(there(k), directives[k + 1])
    BY <2>2, There!FoldPrefix
  <2>4. here(k + 1) = TakeHere(here(k), directives[k + 1])
    BY <2>2, Here!FoldPrefix
  <2>5. QED BY <2>2, <2>3, <2>4, AlikeStep
<1>3. Nat \subseteq T
  <2> HIDE DEF T
  <2>1. QED BY <1>1, <1>2, There!SetInduction
<1>4. Alike(there(Len(directives)), here(Len(directives)))
  BY <1>3
<1>5. SubSeq(directives, 1, Len(directives)) = directives
  OBVIOUS
<1>6. QED BY <1>4, <1>5, ThereFolds, HereFolds

-----------------------------------------------------------------------------
(* The manifest of the runner.                                             *)

Pushes(queue, c) == Build!Push(queue, c)
Visits(walk, tree) == Build!Visit(walk, tree)

Pushing == INSTANCE Folding WITH Step <- Pushes
Walking == INSTANCE Folding WITH Step <- Visits

(* A tree of files, any number of them, each with any list of specifiers.  *)
Specifier == [form: STRING, to: Nat]

IsFile(file) ==
  file.at = "file" =>
    /\ file.readable \in BOOLEAN /\ file.admitted \in BOOLEAN /\ file.dynamic \in Nat
    /\ file.imports \in Seq(Specifier) /\ file.exports \in Seq(Specifier)

IsTree(tree) ==
  /\ IsFiniteSet(DOMAIN tree) /\ DOMAIN tree \subseteq Nat
  /\ \A f \in DOMAIN tree : IsFile(tree[f])

SitesOf(tree, f) == Build!StaticSpecifierSites(tree[f])

LEMMA SitesTyped ==
  ASSUME NEW tree, IsTree(tree), NEW f \in DOMAIN tree, tree[f].at = "file"
  PROVE  SitesOf(tree, f) \in Seq(Specifier)
  BY DEF IsTree, IsFile, SitesOf, Build!StaticSpecifierSites

(* What the specifiers of a file are taken for.                            *)
Classified(tree, f) ==
  [i \in DOMAIN SitesOf(tree, f) |-> Build!ClassifySpecifier(tree, f, SitesOf(tree, f)[i])]

LEMMA Classes ==
  ASSUME NEW tree, NEW f, NEW s \in Specifier, NEW c, c = Build!ClassifySpecifier(tree, f, s)
  PROVE  /\ Build!IsEdge(c) => s.form = "relative" /\ s.to \in DOMAIN tree /\ c.to = s.to
         /\ "rule" \notin DOMAIN c => s.form = "node" \/ Build!IsEdge(c)
  <1>1. CASE s.form = "node"
    <2>1. c = [builtin |-> s.to]
      BY <1>1 DEF Build!ClassifySpecifier, Build!IsRelative
    <2>2. DOMAIN c = {"builtin"}
      BY <2>1
    <2>3. QED BY <1>1, <2>2 DEF Build!IsEdge
  <1>2. CASE s.form = "relative"
    <2>1. \/ \E r \in {"unresolvable-specifier", "symlink-escape", "directory-specifier"} : c = Build!Violation(r, f)
          \/ s.to \in DOMAIN tree /\ c = Build!Edge(f, s)
      BY <1>2 DEF Build!ClassifySpecifier, Build!IsRelative
    <2>2. CASE \E r \in {"unresolvable-specifier", "symlink-escape", "directory-specifier"} : c = Build!Violation(r, f)
      <3>1. DOMAIN c = {"rule", "file"}
        BY <2>2 DEF Build!Violation
      <3>2. QED BY <3>1 DEF Build!IsEdge
    <2>3. CASE s.to \in DOMAIN tree /\ c = Build!Edge(f, s)
      <3>1. DOMAIN c = {"from", "to"} /\ c.to = s.to
        BY <2>3 DEF Build!Edge
      <3>2. QED BY <1>2, <2>3, <3>1 DEF Build!IsEdge
    <2>4. QED BY <2>1, <2>2, <2>3
  <1>3. CASE s.form # "node" /\ s.form # "relative"
    <2>1. \E r : c = Build!Violation(r, f)
      BY <1>3, Zenon DEF Build!ClassifySpecifier, Build!IsRelative
    <2>2. DOMAIN c = {"rule", "file"}
      BY <2>1 DEF Build!Violation
    <2>3. QED BY <2>2 DEF Build!IsEdge
  <1>4. QED BY <1>1, <1>2, <1>3

(* The folds of the module are those of Folding.                           *)
LEMMA PushingFolds == \A q, s : Build!FoldLeft(Build!Push, q, s) = Pushing!Fold(q, s)
  BY DEF Pushing!Fold, Pushes, Build!FoldLeft, Build!MapThenFoldSet, Build!Max,
         Pushing!FoldLeft, Pushing!MapThenFoldSet, Pushing!Max

LEMMA WalkingFolds == \A w, s : Build!FoldLeft(Build!Visit, w, s) = Walking!Fold(w, s)
  BY DEF Walking!Fold, Visits, Build!FoldLeft, Build!MapThenFoldSet, Build!Max,
         Walking!FoldLeft, Walking!MapThenFoldSet, Walking!Max

(* r is the queue q and, of what was found, the files that edges lead to.  *)
Extends(r, q, found) ==
  /\ r \in Seq(Nat)
  /\ Len(r) <= Len(q) + Len(found)
  /\ \A x : (\E i \in DOMAIN r : r[i] = x) <=>
              \/ \E i \in DOMAIN q : q[i] = x
              \/ \E i \in DOMAIN found : Build!IsEdge(found[i]) /\ found[i].to = x

LEMMA Pushed ==
  ASSUME NEW q \in Seq(Nat), NEW S, NEW found \in Seq(S), \A i \in 1..Len(found) : Build!IsEdge(found[i]) => found[i].to \in Nat,
         NEW r, r = Pushing!Fold(q, found)
  PROVE  Extends(r, q, found)
  <1> DEFINE At(k) == Pushing!Fold(q, SubSeq(found, 1, k))
             Holds(k) == /\ At(k) \in Seq(Nat)
                         /\ Len(At(k)) <= Len(q) + k
                         /\ \A x : (\E i \in DOMAIN At(k) : At(k)[i] = x) <=>
                               \/ \E i \in DOMAIN q : q[i] = x
                               \/ \E i \in 1..k : Build!IsEdge(found[i]) /\ found[i].to = x
             T == {k \in Nat : k <= Len(found) => Holds(k)}
  <1>1. 0 \in T
    <2>1. SubSeq(found, 1, 0) = <<>>
      OBVIOUS
    <2>2. At(0) = q
      BY <2>1, Pushing!FoldEmpty
    <2>3. QED BY <2>2
  <1>2. ASSUME NEW k \in Nat, k \in T PROVE k + 1 \in T
    <2> SUFFICES ASSUME k + 1 <= Len(found) PROVE Holds(k + 1)
      OBVIOUS
    <2>1. k \in 0..Len(found) - 1 /\ Len(found) \in Nat
      OBVIOUS
    <2>2. At(k + 1) = Build!Push(At(k), found[k + 1])
      BY <2>1, Pushing!FoldPrefix DEF Pushes
    <2>3. Holds(k)
      BY <1>2, <2>1
    <2> DEFINE a == At(k)
               b == At(k + 1)
    <2> HIDE DEF a, b
    <2>4. /\ a \in Seq(Nat) /\ Len(a) <= Len(q) + k
          /\ \A x : (\E i \in DOMAIN a : a[i] = x) <=>
                               \/ \E i \in DOMAIN q : q[i] = x
                               \/ \E i \in 1..k : Build!IsEdge(found[i]) /\ found[i].to = x
          /\ b = Build!Push(a, found[k + 1])
      BY <2>2, <2>3 DEF a, b
    <2>5. CASE Build!IsEdge(found[k + 1])
      <3> DEFINE y == found[k + 1].to
      <3>1. y \in Nat
        BY <2>1, <2>5
      <3>2. b = Append(a, y)
        BY <2>4, <2>5 DEF Build!Push
      <3> HIDE DEF y
      <3>3. b \in Seq(Nat) /\ Len(b) = Len(a) + 1 /\ DOMAIN b = 1..Len(a) + 1 /\ DOMAIN a = 1..Len(a) /\ Len(a) \in Nat
        BY <2>4, <3>1, <3>2
      <3>4. \A i \in 1..Len(a) : b[i] = a[i]
        BY <2>4, <3>1, <3>2
      <3>5. b[Len(a) + 1] = y
        BY <2>4, <3>1, <3>2
      <3>6. \A x : (\E i \in DOMAIN b : b[i] = x) <=> (\E i \in DOMAIN a : a[i] = x) \/ y = x
        <4>1. DOMAIN b = DOMAIN a \cup {Len(a) + 1}
          BY <3>3
        <4>2. QED BY <3>3, <3>4, <3>5, <4>1
      <3>7. \A x : (\E i \in 1..k + 1 : Build!IsEdge(found[i]) /\ found[i].to = x) <=>
                     (\E i \in 1..k : Build!IsEdge(found[i]) /\ found[i].to = x) \/ y = x
        <4>1. 1..k + 1 = 1..k \cup {k + 1}
          OBVIOUS
        <4>2. QED BY <2>5, <4>1 DEF y
      <3>8. Len(q) \in Nat
        OBVIOUS
      <3>9. Len(b) <= Len(q) + (k + 1)
        BY <2>4, <3>3, <3>8
      <3>10. \A x : (\E i \in DOMAIN b : b[i] = x) <=>
                               \/ \E i \in DOMAIN q : q[i] = x
                               \/ \E i \in 1..k + 1 : Build!IsEdge(found[i]) /\ found[i].to = x
        BY <2>4, <3>6, <3>7
      <3>11. QED BY <3>3, <3>9, <3>10 DEF b
    <2>6. CASE ~Build!IsEdge(found[k + 1])
      <3>1. b = a
        BY <2>4, <2>6 DEF Build!Push
      <3>2. \A x : (\E i \in 1..k + 1 : Build!IsEdge(found[i]) /\ found[i].to = x) <=>
                     (\E i \in 1..k : Build!IsEdge(found[i]) /\ found[i].to = x)
        <4>1. 1..k + 1 = 1..k \cup {k + 1}
          OBVIOUS
        <4>2. QED BY <2>6, <4>1
      <3>3. Len(b) <= Len(q) + (k + 1)
        <4>1. Len(q) \in Nat /\ Len(a) \in Nat
          BY <2>4
        <4>2. QED BY <2>4, <3>1, <4>1
      <3>4. QED BY <2>4, <3>1, <3>2, <3>3 DEF b
    <2>7. QED BY <2>5, <2>6
  <1> HIDE DEF T
  <1>3. Len(found) \in T
    <2>1. Nat \subseteq T
      BY <1>1, <1>2, Pushing!SetInduction
    <2>2. QED BY <2>1
  <1>4. Holds(Len(found))
    <2>1. Len(found) \in Nat
      OBVIOUS
    <2>2. QED BY <1>3, <2>1 DEF T
  <1>5. SubSeq(found, 1, Len(found)) = found
    OBVIOUS
  <1>6. At(Len(found)) = r
    BY <1>5
  <1>7. DOMAIN found = 1..Len(found)
    OBVIOUS
  <1>8. QED BY <1>4, <1>6, <1>7 DEF Extends

(* The walk.  What bounds it is its work: what is queued, and the          *)
(* specifiers in the files that it has not visited.                        *)
Pending(w) == {w.queue[i] : i \in DOMAIN w.queue}
At(tree, f) == {f} \X DOMAIN SitesOf(tree, f)
Left(w, tree) == {s \in Build!Sites(tree) : s[1] \notin w.nodes}

(* The sets that hold the entry and what their files lead to.              *)
Closed(tree) ==
  {S \in SUBSET (DOMAIN tree \cup {Entry}) :
     Entry \in S /\ \A f \in S : Build!Loads(tree, f) \cap DOMAIN tree \subseteq S}

(* A file that was visited without a violation: it can be read, nothing in *)
(* it is refused, and what its edges lead to is visited or queued.         *)
Accounted(w, tree, f) ==
  /\ f \in DOMAIN tree /\ tree[f].at = "file"
  /\ \A i \in DOMAIN SitesOf(tree, f) :
       LET s == SitesOf(tree, f)[i]
       IN s.form = "node" \/ (s.form = "relative" /\ s.to \in w.nodes \cup Pending(w))
  /\ tree[f].dynamic = 0 \/ (f = Sanctioned /\ tree[f].dynamic = 1)

IsWalk(w) ==
  /\ {"nodes", "queue", "violations", "edges", "bytes", "builtins"} \subseteq DOMAIN w
  /\ w.nodes \subseteq Nat /\ w.queue \in Seq(Nat)
Needed(w, tree) == \A S \in Closed(tree) : w.nodes \cup Pending(w) \subseteq S
InSight(w, tree) == Entry \in w.nodes \cup Pending(w)
AllAccounted(w, tree) == w.violations = {} => \A f \in w.nodes : Accounted(w, tree, f)
Work(w, tree) == Len(w.queue) + Cardinality(Left(w, tree))

LEMMA AtSize ==
  ASSUME NEW tree, IsTree(tree), NEW f \in DOMAIN tree, tree[f].at = "file"
  PROVE  IsFiniteSet(At(tree, f)) /\ Cardinality(At(tree, f)) = Len(SitesOf(tree, f))
  <1>1. SitesOf(tree, f) \in Seq(Specifier)
    BY SitesTyped
  <1> DEFINE n == Len(SitesOf(tree, f))
  <1>2. DOMAIN SitesOf(tree, f) = 1..n /\ n \in Nat
    BY <1>1
  <1>3. At(tree, f) = {f} \X (1..n)
    BY <1>2 DEF At
  <1> HIDE DEF n
  <1>4. IsFiniteSet(1..n) /\ Cardinality(1..n) = n
    <2>1. IsFiniteSet(1..n) /\ Cardinality(1..n) = IF 1 > n THEN 0 ELSE n - 1 + 1
      BY <1>2, FS_Interval
    <2>2. QED BY <1>2, <2>1
  <1>5. IsFiniteSet({f}) /\ Cardinality({f}) = 1
    BY FS_Singleton
  <1>6. IsFiniteSet({f} \X (1..n)) /\ Cardinality({f} \X (1..n)) = 1 * n
    <2>1. /\ IsFiniteSet({f} \X (1..n))
          /\ Cardinality({f} \X (1..n)) = Cardinality({f}) * Cardinality(1..n)
      BY <1>4, <1>5, FS_Product, Zenon
    <2>2. QED BY <1>4, <1>5, <2>1, Zenon
  <1>7. 1 * n = n
    BY <1>2
  <1>8. IsFiniteSet(At(tree, f)) /\ Cardinality(At(tree, f)) = n
    BY <1>3, <1>6, <1>7
  <1>9. QED BY <1>8 DEF n

LEMMA SitesFinite == ASSUME NEW tree, IsTree(tree) PROVE IsFiniteSet(Build!Sites(tree))
  <1> DEFINE files == {g \in DOMAIN tree : tree[g].at = "file"}
             m == [f \in files |-> At(tree, f)]
             S == {At(tree, f) : f \in files}
  <1>1. IsFiniteSet(files)
    <2>1. IsFiniteSet(DOMAIN tree) /\ files \in SUBSET DOMAIN tree
      BY DEF IsTree
    <2>2. QED BY <2>1, FS_Subset
  <1>2. m \in Surjection(files, S)
    <2>1. DOMAIN m = files /\ m = [f \in files |-> m[f]] /\ \A f \in files : m[f] = At(tree, f)
      OBVIOUS
    <2>2. \A f \in files : m[f] \in S
      BY <2>1
    <2>3. \A x \in S : \E f \in files : m[f] = x
      BY <2>1
    <2> HIDE DEF m, S, files
    <2>4. m \in [files -> S]
      BY <2>1, <2>2
    <2>5. QED BY <2>3, <2>4 DEF Surjection
  <1>3. \A f \in files : IsFiniteSet(At(tree, f))
    BY AtSize
  <1>4. IsFiniteSet(S) /\ \A x \in S : IsFiniteSet(x)
    <2>1. IsFiniteSet(S)
      <3> HIDE DEF m, S, files
      <3>1. QED BY <1>1, <1>2, FS_Surjection
    <2>2. QED BY <1>3, <2>1
  <1>5. Build!Sites(tree) = UNION S
    BY DEF Build!Sites, At, SitesOf
  <1> HIDE DEF S
  <1>6. QED BY <1>4, <1>5, FS_UNION

LEMMA SitesAre ==
  ASSUME NEW tree, NEW s
  PROVE  s \in Build!Sites(tree) <=>
           \E f \in DOMAIN tree : tree[f].at = "file" /\ s \in At(tree, f)
  BY DEF Build!Sites, At, SitesOf

LEMMA LeftFinite ==
  ASSUME NEW tree, IsTree(tree), NEW w
  PROVE  IsFiniteSet(Left(w, tree)) /\ Cardinality(Left(w, tree)) \in Nat
  <1>1. Left(w, tree) \in SUBSET Build!Sites(tree)
    BY DEF Left
  <1>2. IsFiniteSet(Left(w, tree))
    BY <1>1, SitesFinite, FS_Subset
  <1>3. QED BY <1>2, FS_CardinalityType

(* One visit: of a file that was visited before, of one that cannot be     *)
(* read, and of any other.                                                 *)
LEMMA QueueFacts ==
  ASSUME NEW q \in Seq(Nat), q # <<>>
  PROVE  /\ Head(q) \in Nat /\ Tail(q) \in Seq(Nat) /\ Len(Tail(q)) = Len(q) - 1 /\ Len(q) \in Nat
         /\ {q[i] : i \in DOMAIN q} = {Head(q)} \cup {Tail(q)[i] : i \in DOMAIN Tail(q)}
  <1>1. Head(q) \in Nat /\ Tail(q) \in Seq(Nat) /\ Len(Tail(q)) = Len(q) - 1 /\ Len(q) \in Nat /\ Len(q) > 0
    OBVIOUS
  <1>2. DOMAIN q = 1..Len(q) /\ DOMAIN Tail(q) = 1..Len(q) - 1
    BY <1>1
  <1>3. \A i \in 1..Len(q) - 1 : Tail(q)[i] = q[i + 1]
    BY <1>1
  <1>4. Head(q) = q[1]
    BY <1>1
  <1>5. \A i \in DOMAIN q : q[i] \in {Head(q)} \cup {Tail(q)[j] : j \in DOMAIN Tail(q)}
    <2> TAKE i \in DOMAIN q
    <2>1. CASE i = 1
      BY <1>4, <2>1
    <2>2. CASE i # 1
      <3>1. i - 1 \in 1..Len(q) - 1 /\ (i - 1) + 1 = i
        BY <1>1, <1>2, <2>2
      <3>2. Tail(q)[i - 1] = q[i]
        BY <1>3, <3>1
      <3>3. QED BY <1>2, <3>1, <3>2
    <2>3. QED BY <2>1, <2>2
  <1>6. \A j \in DOMAIN Tail(q) : j + 1 \in DOMAIN q /\ Tail(q)[j] = q[j + 1]
    BY <1>1, <1>2, <1>3
  <1>7. 1 \in DOMAIN q
    BY <1>1, <1>2
  <1>8. \A j \in DOMAIN Tail(q) : Tail(q)[j] \in {q[i] : i \in DOMAIN q}
    BY <1>6
  <1>9. Head(q) \in {q[i] : i \in DOMAIN q}
    BY <1>4, <1>7
  <1> DEFINE t == Tail(q)
             h == Head(q)
  <1> HIDE DEF t, h
  <1>10. {q[i] : i \in DOMAIN q} = {h} \cup {t[i] : i \in DOMAIN t}
    BY <1>5, <1>8, <1>9 DEF t, h
  <1>11. QED BY <1>1, <1>10 DEF t, h

Unread(tree, f) == f \notin DOMAIN tree \/ tree[f].at # "file" \/ ~tree[f].readable
Popped(w, v) == IsWalk(v) /\ v.queue = Tail(w.queue) /\ \A f : f \in v.nodes <=> f \in w.nodes \/ f = Head(w.queue)

FoundRule(tree, f) == \E c \in Build!ToSet(Classified(tree, f)) : "rule" \in DOMAIN c

LEMMA RepeatedVisit ==
  ASSUME NEW tree, NEW w, IsWalk(w), w.queue # <<>>, Head(w.queue) \in w.nodes, NEW v, v = Build!Visit(w, tree)
  PROVE  IsWalk(v) /\ v.queue = Tail(w.queue) /\ v.nodes = w.nodes /\ v.violations = w.violations
  <1>1. v = [w EXCEPT !.queue = Tail(@)]
    BY Zenon DEF Build!Visit
  <1>2. Tail(w.queue) \in Seq(Nat)
    BY QueueFacts DEF IsWalk
  <1>3. QED BY <1>1, <1>2 DEF IsWalk

LEMMA UnreadVisit ==
  ASSUME NEW tree, NEW w, IsWalk(w), w.queue # <<>>, Head(w.queue) \notin w.nodes, Unread(tree, Head(w.queue)),
         NEW v, v = Build!Visit(w, tree)
  PROVE  IsWalk(v) /\ v.queue = Tail(w.queue) /\ v.nodes = w.nodes \cup {Head(w.queue)} /\ v.violations # {}
  <1> DEFINE f == Head(w.queue)
             p == [w EXCEPT !.queue = Tail(@), !.nodes = @ \cup {f}]
  <1>1. v = [p EXCEPT !.violations = @ \cup {Build!Violation("unreadable-file", f)}]
    BY Zenon DEF Build!Visit, Unread
  <1>2. Tail(w.queue) \in Seq(Nat) /\ f \in Nat
    BY QueueFacts DEF IsWalk
  <1>3. IsWalk(p) /\ p.queue = Tail(w.queue) /\ p.nodes = w.nodes \cup {f}
    BY <1>2 DEF IsWalk
  <1> HIDE DEF p
  <1>4. QED BY <1>1, <1>3 DEF IsWalk

(* What a visit takes in of a file that can be read.                       *)
Took(v, w, tree, f) ==
  /\ IsWalk(v) /\ v.nodes = w.nodes \cup {f}
  /\ v.queue = Pushing!Fold(Tail(w.queue), Classified(tree, f))
  /\ v.violations = w.violations \cup Build!Constraint2Violations(tree[f], f) \cup Build!CapabilityViolations(tree[f], f)
                      \cup {c \in Build!ToSet(Classified(tree, f)) : "rule" \in DOMAIN c}
  /\ v.queue \in Seq(Nat) /\ Len(v.queue) <= Len(w.queue) - 1 + Len(SitesOf(tree, f))
  /\ \A x : x \in Pending(v) <=> \/ \E i \in DOMAIN Tail(w.queue) : Tail(w.queue)[i] = x
                                 \/ \E i \in DOMAIN SitesOf(tree, f) :
                                       Build!IsEdge(Classified(tree, f)[i]) /\ Classified(tree, f)[i].to = x

LEMMA ReadVisit ==
  ASSUME NEW tree, IsTree(tree), NEW w, IsWalk(w), w.queue # <<>>, Head(w.queue) \notin w.nodes, ~Unread(tree, Head(w.queue)),
         NEW v, v = Build!Visit(w, tree), NEW f, f = Head(w.queue)
  PROVE  Took(v, w, tree, f)
  <1> DEFINE q == Tail(w.queue)
             found == Classified(tree, f)
             r == Pushing!Fold(q, found)
             p == [w EXCEPT !.queue = Tail(@), !.nodes = @ \cup {f}]
             b == w.bytes \cup {f}
             u == p.violations \cup Build!Constraint2Violations(tree[f], f) \cup Build!CapabilityViolations(tree[f], f)
                             \cup {c \in Build!ToSet(found) : "rule" \in DOMAIN c}
  <1>1. v = [p EXCEPT
             !.bytes = @ \cup {f},
             !.edges = @ \cup {c \in Build!ToSet(found) : Build!IsEdge(c)},
             !.queue = Build!FoldLeft(Build!Push, @, found),
             !.builtins = @ \cup {c.builtin : c \in {d \in Build!ToSet(found) : "builtin" \in DOMAIN d}},
             !.violations = @ \cup Build!Constraint2Violations(tree[f], f)
                              \cup Build!CapabilityViolations(tree[f], f)
                              \cup {c \in Build!ToSet(found) : "rule" \in DOMAIN c}]
    BY Zenon DEF Build!Visit, Unread, Classified, SitesOf
  <1>2. q \in Seq(Nat) /\ f \in Nat /\ Len(q) = Len(w.queue) - 1
    BY QueueFacts DEF IsWalk
  <1>3. IsWalk(p) /\ p.queue = q /\ p.nodes = w.nodes \cup {f} /\ p.violations = w.violations
    BY <1>2 DEF IsWalk
  <1>4. f \in DOMAIN tree /\ tree[f].at = "file"
    BY DEF Unread
  <1>5. SitesOf(tree, f) \in Seq(Specifier)
    BY <1>4, SitesTyped
  <1>6. /\ Len(found) = Len(SitesOf(tree, f)) /\ found \in Seq({found[i] : i \in DOMAIN found})
        /\ DOMAIN found = DOMAIN SitesOf(tree, f) /\ DOMAIN found = 1..Len(found) /\ Len(found) \in Nat
    <2>1. DOMAIN SitesOf(tree, f) = 1..Len(SitesOf(tree, f)) /\ Len(SitesOf(tree, f)) \in Nat
      BY <1>5
    <2>2. found = [i \in 1..Len(SitesOf(tree, f)) |-> found[i]]
      BY <2>1 DEF Classified
    <2> DEFINE n == Len(SitesOf(tree, f))
    <2>3. DOMAIN found = 1..n
      BY <2>2
    <2> HIDE DEF found, n
    <2>4. found \in [1..n -> {found[i] : i \in DOMAIN found}]
      BY <2>2, <2>3 DEF n
    <2>5. found \in Seq({found[i] : i \in DOMAIN found}) /\ Len(found) = n
      BY <2>1, <2>4 DEF n
    <2>6. QED BY <2>1, <2>3, <2>5 DEF n
  <1>7. \A i \in 1..Len(found) : Build!IsEdge(found[i]) => found[i].to \in Nat
    <2> HIDE DEF found
    <2> TAKE i \in 1..Len(found)
    <2>0. i \in DOMAIN SitesOf(tree, f)
      BY <1>6
    <2>1. i \in DOMAIN SitesOf(tree, f) /\ SitesOf(tree, f)[i] \in Specifier
      BY <1>5, <2>0
    <2> DEFINE s == SitesOf(tree, f)[i]
    <2>2. found[i] = Build!ClassifySpecifier(tree, f, s)
      BY <2>1 DEF Classified, found
    <2> HIDE DEF s, found
    <2>3. s \in Specifier /\ s.to \in Nat
      BY <2>1 DEF s, Specifier
    <2>4. QED BY <2>2, <2>3, Classes
  <1> HIDE DEF p, found, q
  <1> DEFINE S == {found[i] : i \in DOMAIN found}
  <1>r. r = Pushing!Fold(q, found) /\ found \in Seq(S)
    BY <1>6
  <1> HIDE DEF r, S
  <1>8. Extends(r, q, found)
    BY <1>2, <1>7, <1>r, Pushed
  <1>9. Build!FoldLeft(Build!Push, q, found) = r
    BY <1>r, PushingFolds
  <1>10. v.queue = r /\ v.nodes = p.nodes /\ v.violations = u /\ DOMAIN v = DOMAIN p
    BY <1>1, <1>3, <1>9 DEF IsWalk
  <1> HIDE DEF u
  <1>11. IsWalk(v)
    BY <1>3, <1>8, <1>10, <1>2 DEF IsWalk, Extends
  <1>12. \A x : x \in Pending(v) <=> \E i \in DOMAIN r : r[i] = x
    BY <1>10 DEF Pending
  <1>13. Len(r) <= Len(w.queue) - 1 + Len(SitesOf(tree, f))
    BY <1>2, <1>6, <1>8 DEF Extends
  <1>14. v.nodes = w.nodes \cup {f} /\ v.queue = Pushing!Fold(Tail(w.queue), Classified(tree, f))
    BY <1>3, <1>10, Zenon DEF r, q, found
  <1>15. v.violations = w.violations \cup Build!Constraint2Violations(tree[f], f)
                          \cup Build!CapabilityViolations(tree[f], f)
                          \cup {c \in Build!ToSet(Classified(tree, f)) : "rule" \in DOMAIN c}
    BY <1>3, <1>10, Zenon DEF u, found
  <1>16. v.queue \in Seq(Nat) /\ Len(v.queue) <= Len(w.queue) - 1 + Len(SitesOf(tree, f))
    BY <1>8, <1>10, <1>13 DEF Extends
  <1>17. \A x : x \in Pending(v) <=> \/ \E i \in DOMAIN Tail(w.queue) : Tail(w.queue)[i] = x
                                     \/ \E i \in DOMAIN SitesOf(tree, f) :
                                           Build!IsEdge(Classified(tree, f)[i]) /\ Classified(tree, f)[i].to = x
    <2>1. \A x : x \in Pending(v) <=> \/ \E i \in DOMAIN q : q[i] = x
                                      \/ \E i \in DOMAIN found : Build!IsEdge(found[i]) /\ found[i].to = x
      BY <1>8, <1>12, Zenon DEF Extends
    <2>2. QED BY <1>6, <2>1, Zenon DEF q, found
  <1>18. QED BY <1>11, <1>14, <1>15, <1>16, <1>17, Zenon DEF Took

LEMMA PendingParts ==
  ASSUME NEW w, IsWalk(w), w.queue # <<>>
  PROVE  Pending(w) = {Head(w.queue)} \cup {Tail(w.queue)[i] : i \in DOMAIN Tail(w.queue)}
  BY QueueFacts DEF IsWalk, Pending

LEMMA NotLessKnown ==
  ASSUME NEW w, NEW v, NEW tree, NEW f, Accounted(w, tree, f), w.nodes \cup Pending(w) \subseteq v.nodes \cup Pending(v)
  PROVE  Accounted(v, tree, f)
  BY DEF Accounted

(* What every visit keeps.                                                 *)
Kept(w, tree) == IsWalk(w) /\ Needed(w, tree) /\ InSight(w, tree) /\ AllAccounted(w, tree)

LEMMA RepeatedKeeps ==
  ASSUME NEW tree, IsTree(tree), NEW w, Kept(w, tree), w.queue # <<>>, Head(w.queue) \in w.nodes,
         NEW v, v = Build!Visit(w, tree)
  PROVE  Kept(v, tree) /\ Work(v, tree) = Work(w, tree) - 1
  <1>1. IsWalk(v) /\ v.queue = Tail(w.queue) /\ v.nodes = w.nodes /\ v.violations = w.violations
    BY RepeatedVisit DEF Kept
  <1>2. v.nodes \cup Pending(v) = w.nodes \cup Pending(w)
    <2>1. Pending(v) = {Tail(w.queue)[i] : i \in DOMAIN Tail(w.queue)}
      BY <1>1 DEF Pending
    <2>2. QED BY <1>1, <2>1, PendingParts DEF Kept
  <1>3. Left(v, tree) = Left(w, tree)
    BY <1>1 DEF Left
  <1>4. Len(v.queue) = Len(w.queue) - 1 /\ Len(w.queue) \in Nat
    BY <1>1, QueueFacts DEF Kept, IsWalk
  <1>5. Work(v, tree) = Work(w, tree) - 1
    BY <1>3, <1>4, LeftFinite DEF Work
  <1>6. AllAccounted(v, tree)
    BY <1>1, <1>2, NotLessKnown DEF Kept, AllAccounted
  <1>7. QED BY <1>1, <1>2, <1>5, <1>6 DEF Kept, Needed, InSight

LEMMA UnreadKeeps ==
  ASSUME NEW tree, IsTree(tree), NEW w, Kept(w, tree), w.queue # <<>>, Head(w.queue) \notin w.nodes,
         Unread(tree, Head(w.queue)), NEW v, v = Build!Visit(w, tree)
  PROVE  Kept(v, tree) /\ Work(v, tree) <= Work(w, tree) - 1
  <1>1. IsWalk(v) /\ v.queue = Tail(w.queue) /\ v.nodes = w.nodes \cup {Head(w.queue)} /\ v.violations # {}
    BY UnreadVisit DEF Kept
  <1>2. v.nodes \cup Pending(v) = w.nodes \cup Pending(w)
    <2>1. Pending(v) = {Tail(w.queue)[i] : i \in DOMAIN Tail(w.queue)}
      BY <1>1 DEF Pending
    <2>2. QED BY <1>1, <2>1, PendingParts DEF Kept
  <1>3. Cardinality(Left(v, tree)) <= Cardinality(Left(w, tree))
    <2>1. Left(v, tree) \in SUBSET Left(w, tree)
      BY <1>1 DEF Left
    <2>2. QED BY <2>1, LeftFinite, FS_Subset
  <1>4. Len(v.queue) = Len(w.queue) - 1 /\ Len(w.queue) \in Nat
    BY <1>1, QueueFacts DEF Kept, IsWalk
  <1>5. Cardinality(Left(v, tree)) \in Nat /\ Cardinality(Left(w, tree)) \in Nat
    BY LeftFinite
  <1>6. Work(v, tree) <= Work(w, tree) - 1
    BY <1>3, <1>4, <1>5 DEF Work
  <1>7. QED BY <1>1, <1>2, <1>6 DEF Kept, Needed, InSight, AllAccounted

LEMMA ReadLeaves ==
  ASSUME NEW tree, IsTree(tree), NEW w, NEW v, NEW f \in DOMAIN tree, tree[f].at = "file",
         f \notin w.nodes, v.nodes = w.nodes \cup {f}
  PROVE  Cardinality(Left(w, tree)) = Cardinality(Left(v, tree)) + Len(SitesOf(tree, f))
  <1> DEFINE A == Left(v, tree)
             B == At(tree, f)
  <1>0. \A s \in B : s[1] = f
    BY DEF At
  <1>1. Left(w, tree) = A \cup B
    <2>1. A \subseteq Left(w, tree)
      BY DEF Left
    <2>2. B \subseteq Left(w, tree)
      BY <1>0, SitesAre DEF Left
    <2>3. ASSUME NEW s \in Left(w, tree), s \notin A PROVE s \in B
      <3>1. s \in Build!Sites(tree) /\ s[1] = f
        BY <2>3 DEF Left
      <3>2. PICK g \in DOMAIN tree : s \in At(tree, g)
        BY <3>1, SitesAre
      <3>3. s[1] = g
        BY <3>2 DEF At
      <3>4. QED BY <3>1, <3>2, <3>3
    <2> HIDE DEF A, B
    <2>4. QED BY <2>1, <2>2, <2>3
  <1>2. A \cap B = {}
    BY <1>0 DEF Left
  <1>3. IsFiniteSet(A) /\ IsFiniteSet(B) /\ Cardinality(B) = Len(SitesOf(tree, f)) /\ Cardinality(A) \in Nat
    BY LeftFinite, AtSize
  <1>4. SitesOf(tree, f) \in Seq(Specifier)
    BY SitesTyped
  <1>5. Len(SitesOf(tree, f)) \in Nat
    BY <1>4
  <1> HIDE DEF A, B
  <1>6. Cardinality(A \cup B) = Cardinality(A) + Cardinality(B) - Cardinality(A \cap B)
    BY <1>3, FS_Union
  <1>7. Cardinality(A \cap B) = 0
    BY <1>2, FS_EmptySet
  <1>8. Cardinality(Left(w, tree)) = Cardinality(A) + Len(SitesOf(tree, f))
    BY <1>1, <1>3, <1>5, <1>6, <1>7
  <1>9. QED BY <1>8 DEF A

LEMMA ReadKeeps ==
  ASSUME NEW tree, IsTree(tree), NEW w, Kept(w, tree), w.queue # <<>>, Head(w.queue) \notin w.nodes,
         ~Unread(tree, Head(w.queue)), NEW v, v = Build!Visit(w, tree)
  PROVE  Kept(v, tree) /\ Work(v, tree) <= Work(w, tree) - 1
  <1>0. PICK f : f = Head(w.queue)
    OBVIOUS
  <1> DEFINE sites == SitesOf(tree, f)
             found == Classified(tree, f)
  <1>1. /\ IsWalk(v) /\ v.nodes = w.nodes \cup {f}
        /\ v.violations = w.violations \cup Build!Constraint2Violations(tree[f], f) \cup Build!CapabilityViolations(tree[f], f)
                             \cup {c \in Build!ToSet(found) : "rule" \in DOMAIN c}
        /\ v.queue \in Seq(Nat) /\ Len(v.queue) <= Len(w.queue) - 1 + Len(sites)
        /\ \A x : x \in Pending(v) <=> \/ \E i \in DOMAIN Tail(w.queue) : Tail(w.queue)[i] = x
                                       \/ \E i \in DOMAIN sites : Build!IsEdge(found[i]) /\ found[i].to = x
    <2>1. Took(v, w, tree, f)
      BY <1>0, ReadVisit DEF Kept
    <2>2. QED BY <2>1, Zenon DEF Took
  <1>2. f \in DOMAIN tree /\ tree[f].at = "file" /\ IsFile(tree[f])
    BY <1>0 DEF Unread, IsTree
  <1>3. Pending(w) = {f} \cup {Tail(w.queue)[i] : i \in DOMAIN Tail(w.queue)}
    BY <1>0, PendingParts DEF Kept
  <1>4. sites \in Seq(Specifier)
    BY <1>2, SitesTyped
  <1>5. \A i \in DOMAIN sites : found[i] = Build!ClassifySpecifier(tree, f, sites[i]) /\ sites[i] \in Specifier
    <2> HIDE DEF sites
    <2>1. \A i \in DOMAIN sites : sites[i] \in Specifier
      BY <1>4
    <2>2. QED BY <2>1 DEF sites, Classified
  <1>6. \A i \in DOMAIN sites : found[i] \in Build!ToSet(found)
    <2>1. DOMAIN found = DOMAIN sites
      BY DEF Classified
    <2> HIDE DEF sites, found
    <2>2. QED BY <2>1 DEF Build!ToSet
  <1>7. tree[f].dynamic \in Nat
    BY <1>2 DEF IsFile
  <1>8. sites = tree[f].imports \o tree[f].exports
    BY DEF SitesOf, Build!StaticSpecifierSites
  <1> HIDE DEF sites, found
  <1>9. \A i \in DOMAIN sites :
          /\ Build!IsEdge(found[i]) => sites[i].form = "relative" /\ sites[i].to \in DOMAIN tree /\ found[i].to = sites[i].to
          /\ "rule" \notin DOMAIN found[i] => sites[i].form = "node" \/ Build!IsEdge(found[i])
    BY <1>5, Classes
  <1>10. w.nodes \cup Pending(w) \subseteq v.nodes \cup Pending(v)
    BY <1>1, <1>3
  <1>11. Needed(v, tree)
    <2> SUFFICES ASSUME NEW S \in Closed(tree), NEW x \in v.nodes \cup Pending(v) PROVE x \in S
      BY DEF Needed
    <2>1. w.nodes \cup Pending(w) \subseteq S
      BY DEF Kept, Needed
    <2>2. f \in S
      BY <1>3, <2>1
    <2>3. CASE \E i \in DOMAIN sites : Build!IsEdge(found[i]) /\ found[i].to = x
      <3>1. PICK i \in DOMAIN sites : sites[i].form = "relative" /\ sites[i].to \in DOMAIN tree /\ sites[i].to = x
        BY <1>9, <2>3
      <3>2. sites[i] \in {t \in Build!ToSet(tree[f].imports \o tree[f].exports) : t.form = "relative"}
        BY <1>8, <3>1 DEF Build!ToSet
      <3>3. x \in Build!Loads(tree, f)
        BY <1>2, <3>1, <3>2 DEF Build!Loads
      <3>4. QED BY <2>2, <3>1, <3>3 DEF Closed
    <2>4. QED BY <1>1, <1>3, <2>1, <2>2, <2>3
  <1>12. InSight(v, tree)
    BY <1>10 DEF Kept, InSight
  <1>13. AllAccounted(v, tree)
    <2> SUFFICES ASSUME v.violations = {}, NEW g \in v.nodes PROVE Accounted(v, tree, g)
      BY DEF AllAccounted
    <2>1. CASE g \in w.nodes
      BY <1>1, <1>10, <2>1, NotLessKnown DEF Kept, AllAccounted
    <2>2. CASE g = f
      <3>1. \A i \in DOMAIN sites : "rule" \notin DOMAIN found[i]
        BY <1>1, <1>6
      <3>2. \A i \in DOMAIN sites : sites[i].form = "node" \/ (sites[i].form = "relative" /\ sites[i].to \in v.nodes \cup Pending(v))
        BY <1>1, <1>9, <3>1
      <3>3. Build!Constraint2Violations(tree[f], f) = {}
        BY <1>1
      <3>4. tree[f].dynamic = 0 \/ (f = Sanctioned /\ tree[f].dynamic = 1)
        <4>1. CASE f = Sanctioned
          <5>1. 2..tree[f].dynamic = {}
            BY <3>3, <4>1 DEF Build!Constraint2Violations
          <5>2. ~(tree[f].dynamic >= 2)
            BY <1>7, <5>1
          <5>3. QED BY <1>7, <4>1, <5>2
        <4>2. CASE f # Sanctioned
          <5>1. 1..tree[f].dynamic = {}
            BY <3>3, <4>2 DEF Build!Constraint2Violations
          <5>2. ~(tree[f].dynamic >= 1)
            BY <1>7, <5>1
          <5>3. QED BY <1>7, <5>2
        <4>3. QED BY <4>1, <4>2
      <3>5. QED BY <1>2, <2>2, <3>2, <3>4 DEF Accounted, sites
    <2>3. QED BY <1>1, <2>1, <2>2
  <1>14. Work(v, tree) <= Work(w, tree) - 1
    <2>1. Cardinality(Left(w, tree)) = Cardinality(Left(v, tree)) + Len(sites)
      <3>1. f \notin w.nodes /\ v.nodes = w.nodes \cup {f} /\ f \in DOMAIN tree /\ tree[f].at = "file"
        BY <1>0, <1>1, <1>2
      <3>2. Cardinality(Left(w, tree)) = Cardinality(Left(v, tree)) + Len(SitesOf(tree, f))
        BY <3>1, ReadLeaves
      <3>3. QED BY <3>2 DEF sites
    <2>2. Cardinality(Left(v, tree)) \in Nat /\ Len(sites) \in Nat
      BY <1>4, LeftFinite
    <2>3. Len(v.queue) \in Nat /\ Len(w.queue) \in Nat
      BY <1>1 DEF Kept, IsWalk
    <2>4. QED BY <1>1, <2>1, <2>2, <2>3 DEF Work
  <1>15. QED BY <1>1, <1>11, <1>12, <1>13, <1>14 DEF Kept

LEMMA VisitKeeps ==
  ASSUME NEW tree, IsTree(tree), NEW w, Kept(w, tree), NEW v, v = Build!Visit(w, tree)
  PROVE  Kept(v, tree) /\ (IF w.queue = <<>> THEN v = w ELSE Work(v, tree) <= Work(w, tree) - 1)
  <1>1. CASE w.queue = <<>>
    BY <1>1, Zenon DEF Build!Visit
  <1>2. CASE w.queue # <<>> /\ Head(w.queue) \in w.nodes
    <2>1. Len(w.queue) \in Nat /\ Cardinality(Left(w, tree)) \in Nat
      BY LeftFinite DEF Kept, IsWalk
    <2>2. Work(w, tree) - 1 <= Work(w, tree) - 1
      BY <2>1 DEF Work
    <2>3. QED BY <1>2, <2>2, RepeatedKeeps
  <1>3. CASE w.queue # <<>> /\ Head(w.queue) \notin w.nodes
    BY <1>3, UnreadKeeps, ReadKeeps
  <1>4. QED BY <1>1, <1>2, <1>3

(* The whole walk.                                                         *)
LEMMA SameSize == \A S : Build!Cardinality(S) = Cardinality(S)
  BY DEF Build!Cardinality, Cardinality, Build!IsFiniteSet, IsFiniteSet

LEMMA StartKept ==
  ASSUME NEW tree, IsTree(tree), Entry \in Nat
  PROVE  Kept(Build!Start, tree) /\ Work(Build!Start, tree) = 1 + Cardinality(Build!Sites(tree))
  <1> DEFINE w == Build!Start
  <1>1. /\ w.nodes = {} /\ w.queue = <<Entry>> /\ w.violations = {}
        /\ DOMAIN w = {"nodes", "edges", "builtins", "violations", "bytes", "queue"}
    BY DEF Build!Start
  <1> HIDE DEF w
  <1>2. IsWalk(w)
    BY <1>1 DEF IsWalk
  <1>3. Pending(w) = {Entry}
    BY <1>1 DEF Pending
  <1>4. Needed(w, tree) /\ InSight(w, tree) /\ AllAccounted(w, tree)
    BY <1>1, <1>3 DEF Needed, InSight, AllAccounted, Closed
  <1>5. Left(w, tree) = Build!Sites(tree)
    BY <1>1 DEF Left
  <1>6. Len(w.queue) = 1
    BY <1>1
  <1>7. QED BY <1>2, <1>4, <1>5, <1>6 DEF Kept, Work, w

(* The fold of the model is long enough: it ends with an empty queue.      *)
LEMMA WalkEnds ==
  ASSUME NEW tree, IsTree(tree), Entry \in Nat, NEW w, w = Build!DeriveRunnerClosure(tree)
  PROVE  Kept(w, tree) /\ w.queue = <<>>
  <1> DEFINE Trees(k) == [n \in 1..k |-> tree]
             After(k) == Walking!Fold(Build!Start, Trees(k))
             all == 1 + Cardinality(Build!Sites(tree))
             Holds(k) == Kept(After(k), tree) /\ (After(k).queue = <<>> \/ Work(After(k), tree) <= all - k)
             T == {k \in Nat : Holds(k)}
  <1>0. all \in Nat /\ all > 0
    BY SitesFinite, FS_CardinalityType
  <1>1. 0 \in T
    <2>1. Trees(0) = <<>>
      OBVIOUS
    <2>2. After(0) = Build!Start
      BY <2>1, Walking!FoldEmpty
    <2>3. Kept(Build!Start, tree) /\ Work(Build!Start, tree) = all
      BY StartKept
    <2> HIDE DEF all
    <2>4. all <= all - 0
      BY <1>0
    <2>5. QED BY <2>2, <2>3, <2>4
  <1> HIDE DEF all
  <1>2. ASSUME NEW k \in Nat, k \in T PROVE k + 1 \in T
    <2> DEFINE s == Trees(k)
               t == Trees(k + 1)
               a == After(k)
               b == After(k + 1)
    <2>1. DOMAIN s = 1..k /\ DOMAIN t = 1..k + 1 /\ (\A i \in 1..k : s[i] = t[i]) /\ t[k + 1] = tree
      OBVIOUS
    <2>2. Kept(a, tree) /\ (a.queue = <<>> \/ Work(a, tree) <= all - k)
      BY <1>2
    <2>3. a = Walking!Fold(Build!Start, s) /\ b = Walking!Fold(Build!Start, t)
      OBVIOUS
    <2> HIDE DEF s, t, a, b
    <2>4. b = Visits(a, tree)
      BY <2>1, <2>3, Walking!FoldNext
    <2>5. b = Build!Visit(a, tree)
      BY <2>4 DEF Visits
    <2>6. Kept(b, tree) /\ (IF a.queue = <<>> THEN b = a ELSE Work(b, tree) <= Work(a, tree) - 1)
      BY <2>2, <2>5, VisitKeeps
    <2>7. b.queue = <<>> \/ Work(b, tree) <= all - (k + 1)
      <3>1. CASE a.queue = <<>>
        BY <2>6, <3>1
      <3>2. CASE a.queue # <<>>
        <4>1. Work(a, tree) \in Nat /\ Work(b, tree) \in Nat
          <5>1. Cardinality(Left(a, tree)) \in Nat /\ Cardinality(Left(b, tree)) \in Nat
            BY LeftFinite
          <5>2. Len(a.queue) \in Nat /\ Len(b.queue) \in Nat
            BY <2>2, <2>6 DEF Kept, IsWalk
          <5>3. QED BY <5>1, <5>2 DEF Work
        <4>2. QED BY <1>0, <2>2, <2>6, <3>2, <4>1
      <3>3. QED BY <3>1, <3>2
    <2>8. QED BY <2>6, <2>7 DEF b
  <1> HIDE DEF T
  <1>3. Holds(all)
    <2>1. Nat \subseteq T
      BY <1>1, <1>2, Walking!SetInduction
    <2>2. all \in T
      BY <1>0, <2>1
    <2>3. QED BY <2>2 DEF T
  <1>4. After(all) = w
    <2>1. w = Build!FoldLeft(Build!Visit, Build!Start, Trees(all))
      BY SameSize, Zenon DEF Build!DeriveRunnerClosure, all
    <2> HIDE DEF Trees
    <2>2. QED BY <2>1, WalkingFolds
  <1> HIDE DEF After
  <1>5. Kept(w, tree) /\ (w.queue = <<>> \/ Work(w, tree) <= all - all)
    BY <1>3, <1>4
  <1>6. w.queue = <<>>
    <2> SUFFICES ASSUME w.queue # <<>> PROVE FALSE
      OBVIOUS
    <2>1. w.queue \in Seq(Nat)
      BY <1>5 DEF Kept, IsWalk
    <2>2. Len(w.queue) \in Nat /\ Len(w.queue) # 0
      BY <2>1
    <2>3. Cardinality(Left(w, tree)) \in Nat
      BY LeftFinite
    <2>4. QED BY <1>0, <1>5, <2>2, <2>3 DEF Work
  <1>7. QED BY <1>5, <1>6

(* A closure without a violation is what the runner loads.                 *)
LEMMA ClosedIsLoaded ==
  ASSUME NEW tree, IsTree(tree), Entry \in Nat, NEW w, w = Build!DeriveRunnerClosure(tree), w.violations = {}
  PROVE  /\ w.nodes = Build!Loaded(tree) /\ w.nodes \subseteq DOMAIN tree
         /\ \A f \in w.nodes :
              /\ tree[f].at = "file"
              /\ \A s \in Build!ToSet(tree[f].imports \o tree[f].exports) : s.form = "node" \/ s.to \in w.nodes
              /\ tree[f].dynamic = 0 \/ (f = Sanctioned /\ tree[f].dynamic = 1)
  <1>1. Kept(w, tree) /\ w.queue = <<>>
    BY WalkEnds
  <1>2. Pending(w) = {}
    BY <1>1 DEF Pending
  <1>3. \A f \in w.nodes : Accounted(w, tree, f)
    BY <1>1 DEF Kept, AllAccounted
  <1>4. w.nodes \subseteq DOMAIN tree
    BY <1>3 DEF Accounted
  <1>5. ASSUME NEW f \in w.nodes, NEW s \in Build!ToSet(tree[f].imports \o tree[f].exports)
        PROVE  s.form = "node" \/ (s.form = "relative" /\ s.to \in w.nodes)
    <2>1. PICK i \in DOMAIN SitesOf(tree, f) : s = SitesOf(tree, f)[i]
      BY <1>5 DEF Build!ToSet, SitesOf, Build!StaticSpecifierSites
    <2>2. QED BY <1>2, <1>3, <2>1 DEF Accounted
  <1>6. w.nodes \in Closed(tree)
    <2>1. Entry \in w.nodes
      BY <1>1, <1>2 DEF Kept, InSight
    <2>2. ASSUME NEW f \in w.nodes, NEW x \in Build!Loads(tree, f) PROVE x \in w.nodes
      <3>1. PICK s \in Build!ToSet(tree[f].imports \o tree[f].exports) : s.form = "relative" /\ x = s.to
        BY <2>2 DEF Build!Loads
      <3>2. QED BY <1>5, <3>1
    <2>3. QED BY <1>4, <2>1, <2>2 DEF Closed
  <1>7. \A S \in Closed(tree) : w.nodes \subseteq S
    BY <1>1 DEF Kept, Needed
  <1>8. Build!Loaded(tree) = {f \in DOMAIN tree \cup {Entry} : \A S \in Closed(tree) : f \in S}
    BY DEF Build!Loaded, Closed
  <1>9. w.nodes = Build!Loaded(tree)
    BY <1>4, <1>6, <1>7, <1>8
  <1>10. QED BY <1>3, <1>4, <1>5, <1>9 DEF Accounted

(* The manifest, in order.                                                 *)
Lists(paths, S) == Build!ToSet(paths) = S /\ Build!InOrder(paths)

LEMMA ListExists ==
  ASSUME NEW S, S \subseteq Nat, IsFiniteSet(S)
  PROVE  \E paths \in [1..Cardinality(S) -> S] : Lists(paths, S)
  <1> DEFINE T == {k \in Nat : \A R \in SUBSET S : Cardinality(R) = k => \E p \in [1..k -> R] : Lists(p, R)}
  <1>1. 0 \in T
    <2> SUFFICES ASSUME NEW R \in SUBSET S, Cardinality(R) = 0 PROVE \E p \in [1..0 -> R] : Lists(p, R)
      OBVIOUS
    <2>1. R = {}
      BY FS_Subset, FS_EmptySet
    <2> DEFINE p == [i \in 1..0 |-> 0]
    <2>2. p \in [1..0 -> R] /\ DOMAIN p = {}
      OBVIOUS
    <2> HIDE DEF p
    <2>3. Lists(p, R)
      BY <2>1, <2>2 DEF Lists, Build!ToSet, Build!InOrder
    <2>4. QED BY <2>2, <2>3
  <1>2. ASSUME NEW k \in Nat, k \in T PROVE k + 1 \in T
    <2> SUFFICES ASSUME NEW R \in SUBSET S, Cardinality(R) = k + 1 PROVE \E p \in [1..k + 1 -> R] : Lists(p, R)
      OBVIOUS
    <2>1. IsFiniteSet(R)
      BY FS_Subset
    <2>2. R # {}
      BY FS_EmptySet
    <2>3. PICK x \in R : \A y \in R : x <= y
      BY <2>2, Walking!Least
    <2> DEFINE Q == R \ {x}
    <2>4. Cardinality(Q) = k /\ Q \in SUBSET S
      <3>1. Cardinality(Q) = Cardinality(R) - 1
        BY <2>1, <2>3, FS_RemoveElement
      <3>2. QED BY <3>1
    <2>5. PICK p \in [1..k -> Q] : Lists(p, Q)
      BY <1>2, <2>4
    <2> DEFINE r == [i \in 1..k + 1 |-> IF i = 1 THEN x ELSE p[i - 1]]
    <2>6. DOMAIN r = 1..k + 1 /\ r[1] = x /\ \A i \in 2..k + 1 : r[i] = p[i - 1] /\ i - 1 \in 1..k
      OBVIOUS
    <2>7. \A i \in 1..k : i + 1 \in 2..k + 1 /\ r[i + 1] = p[i]
      OBVIOUS
    <2>8. r = [i \in 1..k + 1 |-> r[i]]
      OBVIOUS
    <2> HIDE DEF r
    <2>9. \A i \in 1..k : p[i] \in Q
      OBVIOUS
    <2>10. \A i \in 1..k + 1 : i = 1 \/ i \in 2..k + 1
      OBVIOUS
    <2>11. \A i \in 1..k + 1 : r[i] \in R
      BY <2>6, <2>9, <2>10
    <2>12. r \in [1..k + 1 -> R]
      BY <2>8, <2>11
    <2>13. \A y \in R : \E i \in DOMAIN r : r[i] = y
      <3> TAKE y \in R
      <3>1. CASE y = x
        BY <2>6, <3>1
      <3>2. CASE y # x
        <4>1. y \in Build!ToSet(p)
          BY <2>5, <3>2 DEF Lists
        <4>2. PICK i \in 1..k : p[i] = y
          BY <4>1 DEF Build!ToSet
        <4>3. i + 1 \in DOMAIN r
          BY <2>6, <2>7
        <4>4. QED BY <2>7, <4>2, <4>3
      <3>3. QED BY <3>1, <3>2
    <2>14. Build!ToSet(r) = R
      <3>1. Build!ToSet(r) = {r[i] : i \in 1..k + 1}
        BY <2>6 DEF Build!ToSet
      <3>2. {r[i] : i \in 1..k + 1} \subseteq R
        BY <2>11
      <3>3. R \subseteq {r[i] : i \in 1..k + 1}
        BY <2>6, <2>13
      <3>4. QED BY <3>1, <3>2, <3>3
    <2>15. \A i, j \in DOMAIN r : i < j => r[i] < r[j]
      <3> SUFFICES ASSUME NEW i \in 1..k + 1, NEW j \in 1..k + 1, i < j PROVE r[i] < r[j]
        BY <2>6
      <3>1. j \in 2..k + 1
        OBVIOUS
      <3>2. r[j] = p[j - 1] /\ j - 1 \in 1..k /\ p[j - 1] \in Q
        BY <2>6, <2>9, <3>1
      <3>3. CASE i = 1
        <4>1. x <= r[j] /\ x # r[j] /\ x \in Nat /\ r[j] \in Nat
          BY <2>3, <3>2
        <4>2. QED BY <2>6, <3>3, <4>1
      <3>4. CASE i # 1
        <4>1. i \in 2..k + 1
          BY <3>4
        <4>2. r[i] = p[i - 1] /\ i - 1 \in 1..k
          BY <2>6, <4>1
        <4>3. i - 1 < j - 1
          OBVIOUS
        <4>4. \A m, n \in 1..k : m < n => p[m] < p[n]
          BY <2>5 DEF Lists, Build!InOrder
        <4>5. QED BY <3>2, <4>2, <4>3, <4>4
      <3>5. QED BY <3>3, <3>4
    <2>16. Lists(r, R)
      BY <2>14, <2>15 DEF Lists, Build!InOrder
    <2>17. QED BY <2>12, <2>16
  <1> HIDE DEF T
  <1>3. Nat \subseteq T
    BY <1>1, <1>2, Walking!SetInduction
  <1>4. Cardinality(S) \in Nat
    BY FS_CardinalityType
  <1>5. QED BY <1>3, <1>4 DEF T

LEMMA PathsAreListed ==
  ASSUME NEW nodes, nodes \subseteq Nat, IsFiniteSet(nodes)
  PROVE  Lists(Build!ManifestPaths(nodes), nodes \cup {Build!Package})
  <1> DEFINE all == nodes \cup {Build!Package}
  <1>1. all \subseteq Nat
    BY DEF Build!Package
  <1>2. IsFiniteSet(all)
    BY FS_AddElement
  <1>3. \E paths \in [1..Cardinality(all) -> all] : Lists(paths, all)
    <2> HIDE DEF all
    <2>1. QED BY <1>1, <1>2, ListExists
  <1>4. Build!ManifestPaths(nodes) = CHOOSE paths \in [1..Cardinality(all) -> all] : Lists(paths, all)
    BY SameSize, Zenon DEF Build!ManifestPaths, Lists
  <1>5. QED BY <1>3, <1>4

(* For a tree of any number of files with any imports and exports: a       *)
(* manifest is left only by a build with code 0, it names, once and in     *)
(* order, the package and the files that the runner loads before the       *)
(* author's module, and these import nothing else; a file that cannot be   *)
(* accounted for or a step that fails leaves no manifest, and no part of one*)
(* (deriveRunnerClosure, generate).                                        *)
THEOREM ManifestIsWhatRuns ==
  ASSUME NEW tree, IsTree(tree), Entry \in Nat, NEW disk, "temp" \in DOMAIN disk, NEW package, NEW fault
  PROVE  Build!ManifestNamesWhatRuns(tree, disk, package, fault)
  <1> DEFINE w == Build!DeriveRunnerClosure(tree)
             after == Build!Generate(tree, disk, package, fault)
             paths == Build!ManifestPaths(w.nodes)
             failed == [manifest |-> Build!None, temp |-> Build!None, code |-> 1]
             made == [manifest |-> paths, temp |-> Build!None, code |-> 0]
  <1>1. \/ after = failed
        \/ after = made /\ w.violations = {}
    <2>1. [disk EXCEPT !.temp = paths].temp = paths
      OBVIOUS
    <2>2. QED BY <2>1, Zenon DEF Build!Generate, Build!FailClosed
  <1>2. CASE after = failed
    <2>1. after.manifest = Build!None /\ after.temp = Build!None /\ after.code = 1
      BY <1>2
    <2> HIDE DEF after
    <2>2. ~(after.code = 0)
      BY <2>1
    <2>3. QED BY <2>1, <2>2, Zenon DEF Build!ManifestNamesWhatRuns, after
  <1>3. CASE after = made /\ w.violations = {}
    <2> DEFINE loaded == Build!Loaded(tree)
    <2>1. /\ w.nodes = loaded /\ w.nodes \subseteq DOMAIN tree
          /\ \A f \in w.nodes :
               /\ tree[f].at = "file"
               /\ \A s \in Build!ToSet(tree[f].imports \o tree[f].exports) : s.form = "node" \/ s.to \in w.nodes
               /\ tree[f].dynamic = 0 \/ (f = Sanctioned /\ tree[f].dynamic = 1)
      BY <1>3, ClosedIsLoaded
    <2>2. Lists(paths, w.nodes \cup {Build!Package})
      <3> HIDE DEF w
      <3>1. w.nodes \subseteq Nat /\ IsFiniteSet(w.nodes)
        BY <2>1, FS_Subset DEF IsTree
      <3>2. QED BY <3>1, PathsAreListed
    <2>3. paths # Build!None
      <3>1. Build!Package \in Build!ToSet(paths)
        BY <2>2 DEF Lists
      <3>2. Build!ToSet(Build!None) = {0}
        BY DEF Build!ToSet, Build!None
      <3>3. QED BY <3>1, <3>2 DEF Build!Package
    <2>4. after.manifest = paths /\ after.temp = Build!None /\ after.code = 0
      BY <1>3
    <2>5. Build!RegenBaseline(tree, Build!None).nodes = w.nodes
      BY <1>3 DEF Build!RegenBaseline
    <2> HIDE DEF after, paths, w, loaded
    <2>6. Build!ToSet(after.manifest) = loaded \cup {Build!Package} /\ Build!InOrder(after.manifest)
      BY <2>1, <2>2, <2>4 DEF Lists
    <2>7. QED BY <2>1, <2>3, <2>4, <2>5, <2>6 DEF Build!ManifestNamesWhatRuns, after, loaded
  <1>4. QED BY <1>1, <1>2, <1>3

-----------------------------------------------------------------------------
(* The verbs and their handles.                                            *)

Invokes(handle, call) == Author!Invoke(handle, call)
Takes(run, d) == Author!Take(run, d)
Resolves(kept, s) == Author!Resolve(kept, s)

Chaining == INSTANCE Folding WITH Step <- Invokes
Taking == INSTANCE Folding WITH Step <- Takes
Resolving == INSTANCE Folding WITH Step <- Resolves

LEMMA ChainFolds == \A path, calls : Author!Chain(path, calls) = Chaining!Fold(Author!Find(path), calls)
  BY DEF Author!Chain, Chaining!Fold, Invokes, Author!FoldLeft, Author!MapThenFoldSet, Author!Max,
         Chaining!FoldLeft, Chaining!MapThenFoldSet, Chaining!Max

LEMMA TakesFold == \A run, batch : Author!FoldLeft(Author!Take, run, batch) = Taking!Fold(run, batch)
  BY DEF Taking!Fold, Takes, Author!FoldLeft, Author!MapThenFoldSet, Author!Max,
         Taking!FoldLeft, Taking!MapThenFoldSet, Taking!Max

LEMMA ResolvesFold == \A kept, path : Author!FoldLeft(Author!Resolve, kept, path) = Resolving!Fold(kept, path)
  BY DEF Resolving!Fold, Resolves, Author!FoldLeft, Author!MapThenFoldSet, Author!Max,
         Resolving!FoldLeft, Resolving!MapThenFoldSet, Resolving!Max

(* A path has a segment at least.                                          *)
IsPath(path) == path # <<>> /\ \E S : path \in Seq(S)

LEMMA Widened == ASSUME NEW S, NEW Q, S \subseteq Q, NEW s \in Seq(S) PROVE s \in Seq(Q)
  OBVIOUS

LEMMA Alone == ASSUME NEW Q, NEW e \in Q PROVE <<e>> \in Seq(Q) /\ <<e>> # <<>>
  OBVIOUS

LEMMA ResolveKeeps ==
  ASSUME NEW Q, NEW k \in Seq(Q), NEW s \in Q
  PROVE  Resolves(k, s) \in Seq(Q)
  <1>1. Resolves(k, s) \in {k, Author!Front(k), Append(k, s)} /\ (Resolves(k, s) = Author!Front(k) => k # <<>> \/ Resolves(k, s) = k \/ Resolves(k, s) = Append(k, s))
    BY Zenon DEF Resolves, Author!Resolve
  <1>2. k # <<>> => Author!Front(k) \in Seq(Q)
    BY DEF Author!Front
  <1>3. Append(k, s) \in Seq(Q)
    OBVIOUS
  <1>4. QED BY <1>1, <1>2, <1>3

LEMMA JoinIsPath ==
  ASSUME NEW dir, NEW path, IsPath(dir), IsPath(path)
  PROVE  IsPath(Author!Join(dir, path))
  <1> DEFINE all == dir \o path
             kept == Author!FoldLeft(Author!Resolve, <<>>, all)
  <1>1. PICK S : dir \in Seq(S)
    BY DEF IsPath
  <1>2. PICK R : path \in Seq(R)
    BY DEF IsPath
  <1> DEFINE Q == S \cup R \cup {".", ""}
  <1>3. all \in Seq(Q)
    <2>1. dir \in Seq(Q) /\ path \in Seq(Q)
      <3>1. S \subseteq Q /\ R \subseteq Q
        OBVIOUS
      <3> HIDE DEF Q
      <3>2. QED BY <1>1, <1>2, <3>1, Widened
    <2> HIDE DEF Q
    <2>2. QED BY <2>1
  <1>4. kept \in Seq(Q)
    <2>1. <<>> \in Seq(Q)
      OBVIOUS
    <2>2. \A k \in Seq(Q), s \in Q : Resolves(k, s) \in Seq(Q)
      <3> HIDE DEF Q
      <3>1. QED BY ResolveKeeps
    <2> HIDE DEF Q, all
    <2>3. Resolving!Fold(<<>>, all) \in Seq(Q)
      BY <1>3, <2>1, <2>2, Resolving!FoldInvariant
    <2>4. QED BY <2>3, ResolvesFold
  <1> DEFINE first == Author!OrHere(kept)
             tail == IF Author!Last(all) = "" THEN <<"">> ELSE <<>>
  <1>5. first \in Seq(Q) /\ first # <<>>
    <2>1. "." \in Q
      OBVIOUS
    <2> HIDE DEF kept, Q
    <2>2. CASE kept = <<>>
      <3>1. first = <<".">>
        BY <2>2 DEF Author!OrHere
      <3>2. QED BY <2>1, <3>1
    <2>3. CASE kept # <<>>
      <3>1. first = kept
        BY <2>3 DEF Author!OrHere
      <3>2. QED BY <1>4, <2>3, <3>1
    <2>4. QED BY <2>2, <2>3
  <1>6. Author!Join(dir, path) = first \o tail
    BY DEF Author!Join, Author!Normalize
  <1>7. tail \in Seq(Q)
    <2>1. "" \in Q
      OBVIOUS
    <2>2. tail = <<"">> \/ tail = <<>>
      OBVIOUS
    <2> HIDE DEF tail, Q
    <2>3. <<"">> \in Seq(Q) /\ <<>> \in Seq(Q)
      <3>1. <<>> \in Seq(Q)
        OBVIOUS
      <3>2. QED BY <2>1, <3>1, Alone, Zenon
    <2>4. QED BY <2>2, <2>3, Zenon
  <1> HIDE DEF first, tail, Q
  <1>8. first \o tail \in Seq(Q) /\ first \o tail # <<>>
    BY <1>5, <1>7
  <1>9. QED BY <1>6, <1>8 DEF IsPath

LEMMA StrippedIsShorter ==
  ASSUME NEW S, NEW path \in Seq(S)
  PROVE  Author!Stripped(path) \in Seq(S)
  <1> DEFINE I == {i \in 1..Len(path) : path[i] # ""}
             n == IF I # {} THEN Author!Max(I) ELSE 0
  <1>1. Author!Stripped(path) = SubSeq(path, 1, n)
    BY Zenon DEF Author!Stripped, Author!SelectLastInSeq
  <1>2. n \in 0..Len(path)
    <2> USE DEF I
    <2>0. Len(path) \in Nat /\ I \subseteq 1..Len(path)
      <3>1. I \subseteq 1..Len(path)
        BY Zenon
      <3>2. Len(path) \in Nat
        OBVIOUS
      <3>3. QED BY <3>1, <3>2
    <2> HIDE DEF I
    <2>1. CASE I = {}
      <3>1. n = 0
        BY <2>1
      <3> HIDE DEF n
      <3>2. QED BY <2>0, <3>1
    <2>2. CASE I # {}
      <3>1. I \in SUBSET (1..Len(path)) /\ Len(path) \in Nat
        BY <2>0
      <3>2. Chaining!Max(I) \in I
        BY <2>2, <3>1, Chaining!Top
      <3>3. Author!Max(I) = Chaining!Max(I)
        BY DEF Author!Max, Chaining!Max
      <3>4. n \in I
        BY <2>2, <3>2, <3>3
      <3> HIDE DEF n
      <3>5. QED BY <3>1, <3>4
    <2>3. QED BY <2>1, <2>2
  <1> HIDE DEF n
  <1>3. QED BY <1>1, <1>2

LEMMA FrontIsPath ==
  ASSUME NEW S, NEW p \in Seq(S), ~(Len(p) <= 1)
  PROVE  Author!Front(p) \in Seq(S) /\ Author!Front(p) # <<>>
  <1>1. Len(p) \in Nat /\ Len(p) - 1 \in Nat \ {0}
    <2>1. \A n \in Nat : ~(n <= 1) => n - 1 \in Nat \ {0}
      OBVIOUS
    <2>2. Len(p) \in Nat
      OBVIOUS
    <2>3. QED BY <2>1, <2>2, Zenon
  <1>2. SubSeq(p, 1, Len(p) - 1) \in Seq(S) /\ Len(SubSeq(p, 1, Len(p) - 1)) = Len(p) - 1
    BY <1>1
  <1>3. Len(<<>>) = 0
    OBVIOUS
  <1>4. SubSeq(p, 1, Len(p) - 1) # <<>>
    BY <1>1, <1>2, <1>3, Zenon
  <1>5. QED BY <1>2, <1>4 DEF Author!Front

LEMMA DirnameIsPath ==
  ASSUME NEW path, IsPath(path)
  PROVE  IsPath(Author!Dirname(path))
  <1>1. PICK S : path \in Seq(S)
    BY DEF IsPath
  <1> DEFINE p == Author!Stripped(path)
  <1>2. p \in Seq(S)
    BY <1>1, StrippedIsShorter
  <1>3. CASE Len(p) <= 1
    <2>1. Author!Dirname(path) = <<".">>
      BY <1>3 DEF Author!Dirname
    <2>2. <<".">> \in Seq({"."}) /\ <<".">> # <<>>
      OBVIOUS
    <2>3. QED BY <2>1, <2>2 DEF IsPath
  <1>4. CASE ~(Len(p) <= 1)
    <2>1. Author!Dirname(path) = Author!Front(p)
      BY <1>4 DEF Author!Dirname
    <2>2. Author!Front(p) \in Seq(S) /\ Author!Front(p) # <<>>
      BY <1>2, <1>4, FrontIsPath
    <2>3. QED BY <2>1, <2>2 DEF IsPath
  <1>5. QED BY <1>3, <1>4

(* What an author hands to a verb: where a verb takes a name, a folder or  *)
(* a destination, it has a segment.                                        *)
IsCall(c) == c.verb \in {"rename", "move", "copy"} => IsPath(c.to)

LEMMA ResultIsPath ==
  ASSUME NEW c, c.verb \in Author!FoundOps, c.verb # "remove", IsCall(c), NEW p, IsPath(p)
  PROVE  IsPath(Author!ResultPath(c, p))
  <1>1. CASE c.verb = "replaceContent"
    BY <1>1 DEF Author!ResultPath
  <1>2. CASE c.verb = "rename"
    <2>1. IsPath(c.to) /\ IsPath(Author!Dirname(p))
      BY <1>2, DirnameIsPath DEF IsCall
    <2>2. IsPath(Author!Join(Author!Dirname(p), c.to))
      BY <2>1, JoinIsPath
    <2>3. Author!ResultPath(c, p) = Author!Renamed(p, c.to)
      BY <1>2 DEF Author!ResultPath
    <2>4. QED BY <2>1, <2>2, <2>3 DEF Author!Renamed
  <1>3. CASE c.verb = "move"
    <2>1. IsPath(c.to) /\ IsPath(<<Author!Basename(p)>>)
      <3>1. \A x : IsPath(<<x>>)
        <4> TAKE x
        <4>1. <<x>> \in Seq({x}) /\ <<x>> # <<>>
          BY Alone
        <4>2. QED BY <4>1 DEF IsPath
      <3>2. QED BY <1>3, <3>1 DEF IsCall
    <2>2. Author!ResultPath(c, p) = Author!Join(c.to, <<Author!Basename(p)>>)
      BY <1>3 DEF Author!ResultPath, Author!Moved
    <2>3. QED BY <2>1, <2>2, JoinIsPath
  <1>4. CASE c.verb = "copy"
    BY <1>4 DEF Author!ResultPath, IsCall
  <1>5. QED BY <1>1, <1>2, <1>3, <1>4 DEF Author!FoundOps, Author!WritableOps

(* The fields of a directive, and whether it may overwrite.                *)
LEMMA Forcing ==
  ASSUME NEW d, "force" \notin DOMAIN d, NEW force, NEW e, e = Author!ForceEntry(d, force)
  PROVE  /\ \A k \in DOMAIN d : k \in DOMAIN e /\ e[k] = d[k]
         /\ \A k \in DOMAIN e : k \in DOMAIN d \/ k = "force"
         /\ "force" \in DOMAIN e => e["force"] # Author!Undefined
  BY DEF Author!ForceEntry, Author!With

Fields(d, c, p) ==
  /\ d.op \in {"modify", "delete", "rename", "move", "copy"}
  /\ d.op = "copy" <=> c.verb = "copy"
  /\ c.verb = "replaceContent" <=> d.op = "modify"
  /\ c.verb = "remove" <=> d.op = "delete"
  /\ c.verb = "rename" <=> d.op = "rename"
  /\ c.verb = "move" <=> d.op = "move"
  /\ c.verb = "copy" => d.from = p /\ d.to = c.to
  /\ c.verb # "copy" => "path" \in DOMAIN d /\ d.path = p
  /\ c.verb = "replaceContent" => d.content = c.content
  /\ c.verb = "rename" => d.newName = c.to
  /\ c.verb = "move" => d.toDir = c.to
  /\ ~("force" \in DOMAIN d /\ d.force = Author!Undefined)

LEMMA DirectiveIs ==
  ASSUME NEW c, c.verb \in Author!FoundOps, NEW p
  PROVE  Fields(Author!Directive(c, p), c, p)
  <1> DEFINE d == Author!Directive(c, p)
  <1> SUFFICES Fields(d, c, p)
    OBVIOUS
  <1>1. CASE c.verb = "replaceContent"
    <2>1. d = [op |-> "modify", path |-> p, content |-> c.content]
      BY <1>1 DEF Author!Directive
    <2> HIDE DEF d
    <2>2. QED BY <1>1, <2>1 DEF Fields
  <1>2. CASE c.verb = "remove"
    <2>1. d = [op |-> "delete", path |-> p]
      BY <1>2 DEF Author!Directive
    <2> HIDE DEF d
    <2>2. QED BY <1>2, <2>1 DEF Fields
  <1>3. CASE c.verb = "rename"
    <2> DEFINE e == [op |-> "rename", path |-> p, newName |-> c.to]
    <2>1. d = Author!ForceEntry(e, c.force)
      BY <1>3 DEF Author!Directive
    <2>2. DOMAIN e = {"op", "path", "newName"} /\ e["op"] = "rename" /\ e["path"] = p /\ e["newName"] = c.to
      OBVIOUS
    <2> HIDE DEF d, e
    <2>3. QED BY <1>3, <2>1, <2>2, Forcing DEF Fields
  <1>4. CASE c.verb = "move"
    <2> DEFINE e == [op |-> "move", path |-> p, toDir |-> c.to]
    <2>1. d = Author!ForceEntry(e, c.force)
      BY <1>4 DEF Author!Directive
    <2>2. DOMAIN e = {"op", "path", "toDir"} /\ e["op"] = "move" /\ e["path"] = p /\ e["toDir"] = c.to
      OBVIOUS
    <2> HIDE DEF d, e
    <2>3. QED BY <1>4, <2>1, <2>2, Forcing DEF Fields
  <1>5. CASE c.verb = "copy"
    <2> DEFINE e == [op |-> "copy", from |-> p, to |-> c.to]
    <2>1. d = Author!ForceEntry(e, c.force)
      BY <1>5 DEF Author!Directive
    <2>2. DOMAIN e = {"op", "from", "to"} /\ e["op"] = "copy" /\ e["from"] = p /\ e["to"] = c.to
      OBVIOUS
    <2> HIDE DEF d, e
    <2>3. QED BY <1>5, <2>1, <2>2, Forcing DEF Fields
  <1>6. QED BY <1>1, <1>2, <1>3, <1>4, <1>5 DEF Author!FoundOps, Author!WritableOps

(* What a directive does that is taken: the file is where the handle says, *)
(* and any other is as it was unless the directive names it.               *)
IsNamed(d, r) == ("path" \in DOMAIN d /\ d.path = r) \/ (Author!Forced(d) /\ Author!Destination(d) = r)
Stands(t, r, content) == r \in DOMAIN t /\ t[r] = content

LEMMA WithIs ==
  ASSUME NEW t, NEW p, NEW content, NEW u, u = Author!With(t, p, content)
  PROVE  /\ Stands(u, p, content)
         /\ \A r \in DOMAIN t \ {p} : Stands(u, r, t[r])
         /\ DOMAIN u = DOMAIN t \cup {p}
  BY DEF Author!With, Stands

LEMMA WithoutIs ==
  ASSUME NEW t, NEW p, NEW u, u = Author!Without(t, p)
  PROVE  /\ \A r \in DOMAIN t \ {p} : Stands(u, r, t[r])
         /\ DOMAIN u = DOMAIN t \ {p}
  BY DEF Author!Without, Stands

LEMMA Landing ==
  ASSUME NEW c, c.verb \in {"rename", "move", "copy"}, NEW p, NEW d, Fields(d, c, p)
  PROVE  Author!Destination(d) = Author!ResultPath(c, p)
  <1>1. CASE c.verb = "rename"
    BY <1>1 DEF Fields, Author!Destination, Author!ResultPath, Author!Renamed
  <1>2. CASE c.verb = "move"
    BY <1>2 DEF Fields, Author!Destination, Author!ResultPath, Author!Moved
  <1>3. CASE c.verb = "copy"
    BY <1>3 DEF Fields, Author!Destination, Author!ResultPath
  <1>4. QED BY <1>1, <1>2, <1>3

Lands(t, u, c, p, d) ==
  /\ c.verb # "remove" =>
       Stands(u, Author!ResultPath(c, p), IF c.verb = "replaceContent" THEN c.content ELSE t[p])
  /\ c.verb = "remove" => p \notin DOMAIN u
  /\ \A r \in DOMAIN t : Stands(u, r, t[r]) \/ IsNamed(d, r)

LEMMA TakenHas ==
  ASSUME NEW t, NEW c, c.verb \in Author!FoundOps, NEW p, NEW d, Fields(d, c, p), Author!Check(t, d) = "ok"
  PROVE  Lands(t, Author!Applied(t, d), c, p, d)
  <1> DEFINE u == Author!Applied(t, d)
             q == Author!Destination(d)
             s == IF d.op = "copy" THEN d.from ELSE d.path
  <1> SUFFICES Lands(t, u, c, p, d)
    OBVIOUS
  <1>1. s = p
    BY DEF Fields
  <1>2. Author!CheckFrom(t, d, p) = "ok"
    BY <1>1 DEF Author!Check
  <1>3. /\ d.op \notin {"create", "delete"} => p \in DOMAIN t
        /\ ~Author!Collides(t, d, p, q)
    BY <1>2, Zenon DEF Author!CheckFrom
  <1>4. CASE c.verb = "replaceContent"
    <2>1. u = Author!With(t, p, c.content)
      BY <1>4 DEF Fields, Author!Applied
    <2>2. Author!ResultPath(c, p) = p
      BY <1>4 DEF Author!ResultPath
    <2>3. "path" \in DOMAIN d /\ d.path = p
      BY <1>4 DEF Fields
    <2> HIDE DEF u, q
    <2>4. Stands(u, p, c.content) /\ \A r \in DOMAIN t \ {p} : Stands(u, r, t[r])
      BY <2>1, WithIs
    <2>5. \A r \in DOMAIN t : Stands(u, r, t[r]) \/ IsNamed(d, r)
      BY <2>3, <2>4 DEF IsNamed
    <2>6. QED BY <1>4, <2>2, <2>4, <2>5 DEF Lands
  <1>5. CASE c.verb = "remove"
    <2>1. u = Author!Without(t, p)
      BY <1>5 DEF Fields, Author!Applied
    <2>2. "path" \in DOMAIN d /\ d.path = p
      BY <1>5 DEF Fields
    <2> HIDE DEF u, q
    <2>3. DOMAIN u = DOMAIN t \ {p} /\ \A r \in DOMAIN t \ {p} : Stands(u, r, t[r])
      BY <2>1, WithoutIs
    <2>4. \A r \in DOMAIN t : Stands(u, r, t[r]) \/ IsNamed(d, r)
      BY <2>2, <2>3 DEF IsNamed
    <2>5. QED BY <1>5, <2>3, <2>4 DEF Lands
  <1>6. CASE c.verb \in {"rename", "move", "copy"}
    <2>1. q = Author!ResultPath(c, p)
      BY <1>6, Landing
    <2>2. d.op \in {"rename", "move", "copy"} /\ p \in DOMAIN t
      BY <1>3, <1>6 DEF Fields
    <2>3. q \in DOMAIN t => Author!Forced(d) \/ (d.op = "move" /\ q = p)
      BY <1>3, <2>2 DEF Author!Collides
    <2>4. CASE c.verb # "copy"
      <3>1. u = Author!With(Author!Without(t, p), q, t[p])
        BY <1>6, <2>4 DEF Fields, Author!Applied
      <3>2. "path" \in DOMAIN d /\ d.path = p
        BY <2>4 DEF Fields
      <3>3. Stands(u, q, t[p])
        BY <3>1, WithIs
      <3>4. \A r \in DOMAIN t : r # p /\ r # q => Stands(u, r, t[r])
        <4> DEFINE w == Author!Without(t, p)
        <4>1. \A r \in DOMAIN t \ {p} : Stands(w, r, t[r])
          BY WithoutIs
        <4> HIDE DEF w
        <4>2. \A r \in DOMAIN w \ {q} : Stands(u, r, w[r])
          BY <3>1, WithIs DEF w
        <4>3. QED BY <4>1, <4>2 DEF Stands
      <3> HIDE DEF u, q
      <3>5. \A r \in DOMAIN t : Stands(u, r, t[r]) \/ IsNamed(d, r)
        BY <2>3, <3>2, <3>4 DEF IsNamed, q
      <3>6. QED BY <1>6, <2>1, <3>3, <3>5 DEF Lands
    <2>5. CASE c.verb = "copy"
      <3>1. u = Author!With(t, q, t[p])
        <4>1. u = Author!With(t, d.to, t[d.from])
          BY <2>5 DEF Fields, Author!Applied
        <4>2. q = d.to /\ d.from = p
          BY <2>5 DEF Fields, Author!Destination
        <4>3. QED BY <4>1, <4>2
      <3>2. Stands(u, q, t[p]) /\ \A r \in DOMAIN t \ {q} : Stands(u, r, t[r])
        BY <3>1, WithIs
      <3>3. d.op = "copy"
        BY <2>5 DEF Fields
      <3> HIDE DEF u, q
      <3>4. \A r \in DOMAIN t : Stands(u, r, t[r]) \/ IsNamed(d, r)
        BY <2>3, <3>2, <3>3 DEF IsNamed, q
      <3>5. QED BY <2>1, <2>5, <3>2, <3>4 DEF Lands
    <2>6. QED BY <2>4, <2>5
  <1>7. QED BY <1>4, <1>5, <1>6 DEF Author!FoundOps, Author!WritableOps

(* A handle with its buffer.                                               *)
Buffered(d) ==
  /\ d.op \in {"modify", "delete", "rename", "move", "copy"}
  /\ ~("force" \in DOMAIN d /\ d.force = Author!Undefined)

IsHandle(h) ==
  /\ \E S : h.buffer \in Seq(S)
  /\ h.ops \subseteq Author!FoundOps
  /\ h.ops # {} => IsPath(h.path)
  /\ h.ops = {} => h.path = Author!NoHandle /\ h.buffer # <<>> /\ h.buffer[Len(h.buffer)].op = "delete"
  /\ \A i \in DOMAIN h.buffer : Buffered(h.buffer[i])

Grows(b, s, d) ==
  /\ DOMAIN b = 1..(Len(s) + 1) /\ Len(b) = Len(s) + 1 /\ b # <<>>
  /\ \A i \in 1..Len(s) : b[i] = s[i]
  /\ b[Len(s) + 1] = d
  /\ \E S : b \in Seq(S)

LEMMA Grown ==
  ASSUME NEW S, NEW s \in Seq(S), NEW d
  PROVE  Grows(Append(s, d), s, d)
  <1> DEFINE Q == S \cup {d}
  <1>1. S \subseteq Q /\ d \in Q
    OBVIOUS
  <1> HIDE DEF Q
  <1>2. s \in Seq(Q)
    BY <1>1, Widened
  <1>3. Append(s, d) \in Seq(Q)
    BY <1>1, <1>2
  <1>4. QED BY <1>2, <1>3 DEF Grows

LEMMA HandleStep ==
  ASSUME NEW h, IsHandle(h), NEW c, Author!Legal(h, c), IsCall(c), NEW g, g = Author!Invoke(h, c)
  PROVE  /\ IsHandle(g) /\ c.verb \in Author!FoundOps /\ IsPath(h.path)
         /\ g.buffer = Append(h.buffer, Author!Directive(c, h.path))
         /\ g.ops = {} <=> c.verb = "remove"
         /\ g.path = Author!ResultPath(c, h.path)
         /\ Grows(g.buffer, h.buffer, Author!Directive(c, h.path))
  <1> DEFINE d == Author!Directive(c, h.path)
  <1>1. c.verb \in h.ops /\ c.verb \in Author!FoundOps /\ IsPath(h.path)
    BY DEF Author!Legal, IsHandle
  <1>2. Fields(d, c, h.path)
    BY <1>1, DirectiveIs
  <1>3. /\ g.path = Author!ResultPath(c, h.path)
        /\ g.ops = (IF c.verb = "remove" THEN {} ELSE Author!WritableOps)
        /\ g.buffer = Append(h.buffer, d)
    BY DEF Author!Invoke
  <1>4. g.ops \subseteq Author!FoundOps /\ (g.ops = {} <=> c.verb = "remove")
    BY <1>3 DEF Author!FoundOps, Author!WritableOps
  <1> HIDE DEF d
  <1>5. Buffered(d) /\ (c.verb = "remove" => d.op = "delete")
    BY <1>2 DEF Fields, Buffered
  <1>6. Grows(g.buffer, h.buffer, d)
    BY <1>3, Grown DEF IsHandle
  <1>7. c.verb # "remove" => IsPath(g.path)
    BY <1>1, <1>3, ResultIsPath
  <1>8. c.verb = "remove" => g.path = Author!NoHandle
    BY <1>3 DEF Author!ResultPath
  <1>9. \A i \in DOMAIN g.buffer : Buffered(g.buffer[i])
    <2>1. Len(h.buffer) \in Nat /\ DOMAIN h.buffer = 1..Len(h.buffer)
      BY DEF IsHandle
    <2>2. \A i \in 1..(Len(h.buffer) + 1) : i \in 1..Len(h.buffer) \/ i = Len(h.buffer) + 1
      BY <2>1
    <2>3. \A i \in DOMAIN h.buffer : Buffered(h.buffer[i])
      BY DEF IsHandle
    <2>4. QED BY <1>5, <1>6, <2>1, <2>2, <2>3 DEF Grows
  <1>10. c.verb = "remove" => g.buffer # <<>> /\ g.buffer[Len(g.buffer)].op = "delete"
    BY <1>5, <1>6 DEF Grows
  <1>11. \E S : g.buffer \in Seq(S)
    BY <1>6 DEF Grows
  <1>12. IsHandle(g)
    BY <1>4, <1>7, <1>8, <1>9, <1>10, <1>11 DEF IsHandle
  <1>13. QED BY <1>1, <1>3, <1>4, <1>6, <1>12 DEF d

(* What the last write of a chain leaves in the file.                      *)
Writes(s) == {i \in DOMAIN s : s[i].verb = "replaceContent"}

LEMMA TextStep ==
  ASSUME NEW C, NEW s \in Seq(C), NEW c \in C, NEW content
  PROVE  Author!Text(content, Append(s, c)) =
           IF c.verb = "replaceContent" THEN c.content ELSE Author!Text(content, s)
  <1> DEFINE t == Append(s, c)
             n == Len(s)
             Latest(u) == CHOOSE i \in Writes(u) : \A j \in Writes(u) : j <= i
  <1>1. n \in Nat /\ DOMAIN s = 1..n /\ DOMAIN t = 1..(n + 1) /\ t[n + 1] = c /\ \A i \in 1..n : t[i] = s[i]
    OBVIOUS
  <1>2. \A u : Author!Text(content, u) = IF Writes(u) = {} THEN content ELSE u[Latest(u)].content
    BY DEF Author!Text, Writes
  <1> SUFFICES Author!Text(content, t) = IF c.verb = "replaceContent" THEN c.content ELSE Author!Text(content, s)
    OBVIOUS
  <1> HIDE DEF t, n
  <1>3. CASE c.verb = "replaceContent"
    <2>1. n + 1 \in Writes(t) /\ \A j \in Writes(t) : j \in 1..(n + 1)
      BY <1>1, <1>3 DEF Writes
    <2>2. \A j \in Writes(t) : j <= n + 1
      BY <1>1, <2>1
    <2>3. \A i \in Writes(t) : (\A j \in Writes(t) : j <= i) => i = n + 1
      BY <1>1, <2>1
    <2>4. Latest(t) = n + 1
      BY <2>1, <2>2, <2>3
    <2>5. Writes(t) # {}
      BY <2>1
    <2> HIDE DEF Latest
    <2>6. QED BY <1>1, <1>2, <1>3, <2>4, <2>5
  <1>4. CASE c.verb # "replaceContent"
    <2>1. Writes(t) = Writes(s)
      <3>1. \A i \in 1..(n + 1) : i \in 1..n \/ i = n + 1
        BY <1>1
      <3>2. 1..n \subseteq 1..(n + 1)
        BY <1>1
      <3>3. QED BY <1>1, <1>4, <3>1, <3>2 DEF Writes
    <2>2. Latest(t) = Latest(s)
      BY <2>1
    <2>3. Writes(s) # {} => Latest(s) \in 1..n
      <3> SUFFICES ASSUME Writes(s) # {} PROVE Latest(s) \in Writes(s)
        BY <1>1 DEF Writes
      <3>1. Writes(s) \in SUBSET (1..n)
        BY <1>1 DEF Writes
      <3>2. Chaining!Max(Writes(s)) \in Writes(s) /\ \A y \in Writes(s) : y <= Chaining!Max(Writes(s))
        BY <1>1, <3>1, Chaining!Top
      <3>3. QED BY <3>2, Zenon
    <2> HIDE DEF Latest
    <2>4. QED BY <1>1, <1>2, <1>4, <2>1, <2>2, <2>3
  <1>5. QED BY <1>3, <1>4

(* The batch of a chain, and what the engine makes of it.                  *)
Start == [tree |-> {}, done |-> 0, code |-> "ok"]
Begun(tree) == [Start EXCEPT !.tree = tree]

IsRun(run, n) ==
  /\ DOMAIN run = {"tree", "done", "code"} /\ run.done \in Nat
  /\ run.code = "ok" => run.done = n
  /\ run.code # "ok" => run.code \in {"not-found", "collision"} /\ run.done < n

Told(tree, path, made, h, run) ==
  run.code = "ok" =>
    /\ h.ops # {} /\ path \in DOMAIN tree => Stands(run.tree, h.path, Author!Text(tree[path], made))
    /\ h.ops = {} => h.buffer[Len(h.buffer)].path \notin DOMAIN run.tree
    /\ \A r \in DOMAIN tree : Stands(run.tree, r, tree[r]) \/ \E i \in DOMAIN h.buffer : IsNamed(h.buffer[i], r)

LEMMA RunStep ==
  ASSUME NEW n \in Nat, NEW run, IsRun(run, n), NEW d, NEW next, next = Author!Take(run, d)
  PROVE  /\ IsRun(next, n + 1)
         /\ next.code = "ok" =>
              run.code = "ok" /\ Author!Check(run.tree, d) = "ok" /\ next.tree = Author!Applied(run.tree, d)
  <1> DEFINE code == Author!Check(run.tree, d)
             u == Author!Applied(run.tree, d)
  <1>1. code \in {"ok", "not-found", "collision"}
    BY Zenon DEF Author!Check, Author!CheckFrom
  <1>2. CASE run.code # "ok"
    <2>1. next = run
      BY <1>2 DEF Author!Take
    <2>2. QED BY <1>2, <2>1 DEF IsRun
  <1>3. CASE run.code = "ok" /\ code = "ok"
    <2>1. next = [run EXCEPT !.tree = u, !.done = run.done + 1]
      BY <1>3 DEF Author!Take, Author!Took
    <2> HIDE DEF u
    <2>2. DOMAIN next = {"tree", "done", "code"} /\ next.tree = u /\ next.done = run.done + 1 /\ next.code = "ok"
      BY <1>3, <2>1 DEF IsRun
    <2>3. run.done = n
      BY <1>3 DEF IsRun
    <2>4. QED BY <1>3, <2>2, <2>3 DEF IsRun, u
  <1>4. CASE run.code = "ok" /\ code # "ok"
    <2>1. next = [run EXCEPT !.code = code]
      BY <1>4 DEF Author!Take, Author!Took
    <2> HIDE DEF code
    <2>2. DOMAIN next = {"tree", "done", "code"} /\ next.done = run.done /\ next.code = code
      BY <2>1 DEF IsRun
    <2>3. QED BY <1>1, <1>4, <2>2 DEF IsRun
  <1>5. QED BY <1>2, <1>3, <1>4

LEMMA ToldStep ==
  ASSUME NEW tree, NEW path, NEW C, NEW made \in Seq(C), NEW c \in C,
         NEW h, IsHandle(h), Author!Legal(h, c), IsCall(c), NEW g, g = Author!Invoke(h, c),
         NEW run, IsRun(run, Len(h.buffer)), Told(tree, path, made, h, run),
         NEW next, next = Author!Take(run, Author!Directive(c, h.path))
  PROVE  Told(tree, path, Append(made, c), g, next)
  <1> DEFINE d == Author!Directive(c, h.path)
             n == Len(h.buffer)
             p == h.path
  <1> SUFFICES ASSUME next.code = "ok"
               PROVE  /\ g.ops # {} /\ path \in DOMAIN tree =>
                           Stands(next.tree, g.path, Author!Text(tree[path], Append(made, c)))
                      /\ g.ops = {} => g.buffer[Len(g.buffer)].path \notin DOMAIN next.tree
                      /\ \A r \in DOMAIN tree : Stands(next.tree, r, tree[r]) \/ \E i \in DOMAIN g.buffer : IsNamed(g.buffer[i], r)
    BY DEF Told
  <1>1. /\ c.verb \in Author!FoundOps /\ g.path = Author!ResultPath(c, p) /\ (g.ops = {} <=> c.verb = "remove")
        /\ Grows(g.buffer, h.buffer, d)
    BY HandleStep
  <1>2. n \in Nat /\ DOMAIN h.buffer = 1..n
    BY DEF IsHandle
  <1>3. Fields(d, c, p)
    BY <1>1, DirectiveIs
  <1>4. run.code = "ok" /\ Author!Check(run.tree, d) = "ok" /\ next.tree = Author!Applied(run.tree, d)
    BY <1>2, RunStep
  <1> HIDE DEF d
  <1>5. Lands(run.tree, next.tree, c, p, d)
    BY <1>1, <1>3, <1>4, TakenHas
  <1>6. h.ops # {}
    BY DEF Author!Legal
  <1>7. ASSUME g.ops # {}, path \in DOMAIN tree
        PROVE  Stands(next.tree, g.path, Author!Text(tree[path], Append(made, c)))
    <2>1. Stands(run.tree, p, Author!Text(tree[path], made))
      BY <1>4, <1>6, <1>7 DEF Told
    <2>2. run.tree[p] = Author!Text(tree[path], made)
      BY <2>1 DEF Stands
    <2>3. Author!Text(tree[path], Append(made, c)) =
            IF c.verb = "replaceContent" THEN c.content ELSE run.tree[p]
      BY <2>2, TextStep
    <2>4. Stands(next.tree, g.path, IF c.verb = "replaceContent" THEN c.content ELSE run.tree[p])
      BY <1>1, <1>5, <1>7 DEF Lands
    <2>5. QED BY <2>3, <2>4
  <1>8. ASSUME g.ops = {}
        PROVE  g.buffer[Len(g.buffer)].path \notin DOMAIN next.tree
    <2>1. g.buffer[Len(g.buffer)] = d /\ d.path = p /\ c.verb = "remove"
      BY <1>1, <1>3, <1>8 DEF Grows, Fields
    <2>2. QED BY <1>5, <2>1 DEF Lands
  <1>9. ASSUME NEW r \in DOMAIN tree
        PROVE  Stands(next.tree, r, tree[r]) \/ \E i \in DOMAIN g.buffer : IsNamed(g.buffer[i], r)
    <2>1. CASE \E i \in DOMAIN h.buffer : IsNamed(h.buffer[i], r)
      <3>1. PICK i \in 1..n : IsNamed(h.buffer[i], r)
        BY <1>2, <2>1
      <3>2. i \in DOMAIN g.buffer /\ g.buffer[i] = h.buffer[i]
        BY <1>1, <1>2, <3>1 DEF Grows
      <3>3. QED BY <3>1, <3>2
    <2>2. CASE Stands(run.tree, r, tree[r])
      <3>1. Stands(next.tree, r, tree[r]) \/ IsNamed(d, r)
        BY <1>5, <2>2 DEF Lands, Stands
      <3>2. n + 1 \in DOMAIN g.buffer /\ g.buffer[n + 1] = d
        BY <1>1, <1>2 DEF Grows
      <3>3. QED BY <3>1, <3>2
    <2>3. QED BY <1>4, <2>1, <2>2 DEF Told
  <1>10. QED BY <1>7, <1>8, <1>9

(* The whole chain.                                                        *)
Fits(tree, path, made, h, run) ==
  IsHandle(h) /\ Len(h.buffer) = Len(made) /\ IsRun(run, Len(h.buffer)) /\ Told(tree, path, made, h, run)

LEMMA FirstFits ==
  ASSUME NEW tree, NEW path, IsPath(path)
  PROVE  Fits(tree, path, <<>>, Author!Find(path), Begun(tree))
  <1> DEFINE h == Author!Find(path)
             run == Begun(tree)
  <1>1. h.path = path /\ h.ops = Author!FoundOps /\ h.buffer = <<>>
    BY DEF Author!Find
  <1>2. run.tree = tree /\ run.done = 0 /\ run.code = "ok" /\ DOMAIN run = {"tree", "done", "code"}
    BY DEF Begun, Start
  <1>3. "remove" \in Author!FoundOps
    BY DEF Author!FoundOps
  <1> SUFFICES Fits(tree, path, <<>>, h, run)
    OBVIOUS
  <1> HIDE DEF h, run
  <1>4. <<>> \in Seq({}) /\ Len(<<>>) = 0 /\ DOMAIN <<>> = {}
    OBVIOUS
  <1>5. IsHandle(h)
    <2>1. \E S : h.buffer \in Seq(S)
      BY <1>1, <1>4
    <2>2. DOMAIN h.buffer = {}
      BY <1>1, <1>4
    <2>3. QED BY <1>1, <1>3, <2>1, <2>2 DEF IsHandle
  <1>6. IsRun(run, Len(h.buffer))
    BY <1>1, <1>2, <1>4 DEF IsRun
  <1>7. \A content : Author!Text(content, <<>>) = content
    BY <1>4 DEF Author!Text
  <1>8. Told(tree, path, <<>>, h, run)
    BY <1>1, <1>2, <1>3, <1>7 DEF Told, Stands
  <1>9. QED BY <1>1, <1>4, <1>5, <1>6, <1>8 DEF Fits

LEMMA ChainFits ==
  ASSUME NEW tree, NEW path, IsPath(path), NEW C, NEW calls \in Seq(C), \A c \in C : IsCall(c), Author!IsLegal(path, calls)
  PROVE  Fits(tree, path, calls, Author!Chain(path, calls), Taking!Fold(Begun(tree), Author!Chain(path, calls).buffer))
  <1> DEFINE first(k) == SubSeq(calls, 1, k)
             h(k) == Author!Chain(path, first(k))
             run(k) == Taking!Fold(Begun(tree), h(k).buffer)
             Ok(k) == Fits(tree, path, first(k), h(k), run(k))
             T == {k \in Nat : k <= Len(calls) => Ok(k)}
  <1>1. 0 \in T
    <2>1. first(0) = <<>>
      OBVIOUS
    <2>2. h(0) = Author!Find(path)
      BY <2>1, ChainFolds, Chaining!FoldEmpty
    <2>3. h(0).buffer = <<>>
      BY <2>2 DEF Author!Find
    <2>4. run(0) = Begun(tree)
      BY <2>3, Taking!FoldEmpty
    <2> HIDE DEF first, h, run
    <2>5. Ok(0)
      BY <2>1, <2>2, <2>4, FirstFits
    <2>6. QED BY <2>5
  <1>2. ASSUME NEW k \in Nat, k \in T
        PROVE  k + 1 \in T
    <2> SUFFICES ASSUME k + 1 <= Len(calls) PROVE Ok(k + 1)
      OBVIOUS
    <2> DEFINE c == calls[k + 1]
               d == Author!Directive(c, h(k).path)
    <2>1. k \in 0..Len(calls) - 1 /\ k + 1 \in DOMAIN calls /\ c \in C /\ Ok(k) /\ k \in Nat
      BY <1>2
    <2>2. h(k + 1) = Author!Invoke(h(k), c)
      <3>1. Chaining!Fold(Author!Find(path), first(k + 1)) = Invokes(Chaining!Fold(Author!Find(path), first(k)), c)
        BY <2>1, Chaining!FoldPrefix
      <3>2. QED BY <3>1, ChainFolds DEF Invokes
    <2>3. Author!Legal(h(k), c)
      <3>1. (k + 1) - 1 = k
        BY <2>1
      <3>2. Author!Legal(Author!Chain(path, SubSeq(calls, 1, (k + 1) - 1)), calls[k + 1])
        BY <2>1, Zenon DEF Author!IsLegal
      <3>3. QED BY <3>1, <3>2
    <2>4. first(k + 1) = Append(first(k), c) /\ first(k) \in Seq(C) /\ Len(first(k)) = k
      BY <2>1
    <2> HIDE DEF first, h
    <2>5. IsHandle(h(k)) /\ Len(h(k).buffer) = k /\ IsRun(run(k), Len(h(k).buffer)) /\ Told(tree, path, first(k), h(k), run(k))
      BY <2>1, <2>4 DEF Fits
    <2>6. IsCall(c)
      BY <2>1
    <2> HIDE DEF c
    <2>7. IsHandle(h(k + 1)) /\ h(k + 1).buffer = Append(h(k).buffer, d) /\ Grows(h(k + 1).buffer, h(k).buffer, d)
      BY <2>2, <2>3, <2>5, <2>6, HandleStep
    <2>8. run(k + 1) = Author!Take(run(k), d)
      <3>1. PICK S : h(k).buffer \in Seq(S)
        BY <2>5 DEF IsHandle
      <3> DEFINE Q == S \cup {d}
      <3>2. S \subseteq Q /\ d \in Q
        OBVIOUS
      <3> HIDE DEF Q, d
      <3>3. h(k).buffer \in Seq(Q)
        BY <3>1, <3>2, Widened
      <3>4. Taking!Fold(Begun(tree), Append(h(k).buffer, d)) = Takes(run(k), d)
        BY <3>2, <3>3, Taking!FoldAppend
      <3>5. QED BY <2>7, <3>4 DEF Takes
    <2> HIDE DEF run
    <2>9. IsRun(run(k + 1), k + 1)
      BY <2>1, <2>5, <2>8, RunStep
    <2>10. Told(tree, path, first(k + 1), h(k + 1), run(k + 1))
      <3>1. Told(tree, path, Append(first(k), c), h(k + 1), run(k + 1))
        BY <2>1, <2>2, <2>3, <2>4, <2>5, <2>6, <2>8, ToldStep DEF c
      <3>2. QED BY <2>4, <3>1
    <2>11. Len(h(k + 1).buffer) = k + 1 /\ Len(first(k + 1)) = k + 1
      <3>1. Len(h(k + 1).buffer) = k + 1
        BY <2>5, <2>7 DEF Grows
      <3>2. Len(first(k + 1)) = k + 1
        BY <2>1, <2>4
      <3>3. QED BY <3>1, <3>2
    <2>12. QED BY <2>7, <2>9, <2>10, <2>11 DEF Fits
  <1>3. Nat \subseteq T
    <2> HIDE DEF T
    <2>1. QED BY <1>1, <1>2, Chaining!SetInduction
  <1>4. Ok(Len(calls))
    BY <1>3
  <1>5. first(Len(calls)) = calls
    OBVIOUS
  <1>6. QED BY <1>4, <1>5

LEMMA ListedAsShown ==
  ASSUME NEW batch, NEW i \in Nat, i + 1 \in DOMAIN batch, Buffered(batch[i + 1]), NEW code
  PROVE  Author!IsListed(Author!ToAuthoringError(Author!EmitRejection(code, i, i), batch), Author!RenderPending(batch)[i + 1])
  <1> DEFINE d == batch[i + 1]
             error == Author!ToAuthoringError(Author!EmitRejection(code, i, i), batch)
             entry == [verb |-> IF d.op = "delete" THEN "remove" ELSE d.op,
                       path |-> IF d.op \in {"copy", "copyIn"} THEN d.from ELSE d.path]
  <1>1. d.op # "create" /\ d.op # "copyIn"
    BY DEF Buffered
  <1>2. Author!RenderPending(batch)[i + 1] = entry
    BY <1>1, Zenon DEF Author!RenderPending
  <1>3. Author!EmitRejection(code, i, i).index = i
    BY DEF Author!EmitRejection
  <1>4. error.verb = Author!VerbFor(d.op) /\ error.path = Author!PrimaryPath(d)
    BY <1>3 DEF Author!ToAuthoringError, Author!AuthoringError
  <1>5. entry.verb = Author!VerbFor(d.op) /\ entry.path = Author!PrimaryPath(d)
    BY DEF Author!VerbFor, Author!PrimaryPath
  <1> SUFFICES Author!IsListed(error, Author!RenderPending(batch)[i + 1])
    OBVIOUS
  <1> HIDE DEF error, entry
  <1>6. QED BY <1>2, <1>4, <1>5 DEF Author!IsListed

LEMMA EmitsAll ==
  ASSUME NEW tree, NEW batch, \A i \in DOMAIN batch : Buffered(batch[i])
  PROVE  Author!Emit(tree, batch) = Taking!Fold(Begun(tree), batch)
  <1>1. Begun(tree) = [tree |-> tree, done |-> 0, code |-> "ok"]
    BY DEF Begun, Start
  <1>2. ~\E i \in DOMAIN batch : "force" \in DOMAIN batch[i] /\ batch[i].force = Author!Undefined
    BY DEF Buffered
  <1>3. Author!Emit(tree, batch) = Author!FoldLeft(Author!Take, [tree |-> tree, done |-> 0, code |-> "ok"], batch)
    BY <1>2, Zenon DEF Author!Emit
  <1>4. QED BY <1>1, <1>3, TakesFold

(* For a file and a chain of verbs of any length, whatever the tree holds: *)
(* when the engine takes what the chain has buffered, the handle that it   *)
(* ended with reads what the chain has made of the file, and nothing that  *)
(* no directive names or was forced over has changed; when it refuses one, *)
(* it is for a missing file or a collision, and the error names the verb   *)
(* and the path of the author's own list (find and its handles, #apply of  *)
(* the fake, toAuthoringError, renderPendingDirectives).                   *)
THEOREM HandlesFollowFiles ==
  ASSUME NEW tree, NEW path, IsPath(path), NEW C, NEW calls \in Seq(C), \A c \in C : IsCall(c)
  PROVE  Author!HandleFollowsFile(tree, path, calls)
  <1> SUFFICES ASSUME Author!IsLegal(path, calls)
               PROVE  \E handle \in {Author!Chain(path, calls)} : \E run \in {Author!Emit(tree, handle.buffer)} :
                        IF run.code = "ok" THEN Author!Follows(tree, path, calls, handle, run.tree)
                        ELSE /\ run.code \in {"not-found", "collision"}
                             /\ Author!IsListed(Author!ToAuthoringError(Author!EmitRejection(run.code, run.done, run.done), handle.buffer),
                                                Author!RenderPending(handle.buffer)[run.done + 1])
    BY Zenon DEF Author!HandleFollowsFile
  <1> DEFINE h == Author!Chain(path, calls)
             run == Author!Emit(tree, h.buffer)
             n == Len(h.buffer)
  <1>1. Fits(tree, path, calls, h, Taking!Fold(Begun(tree), h.buffer))
    BY ChainFits
  <1>2. IsHandle(h)
    BY <1>1 DEF Fits
  <1>3. run = Taking!Fold(Begun(tree), h.buffer)
    BY <1>2, EmitsAll DEF IsHandle
  <1> HIDE DEF h, run
  <1>4. n = Len(calls) /\ IsRun(run, n) /\ Told(tree, path, calls, h, run)
    BY <1>1, <1>3 DEF Fits
  <1>5. n \in Nat /\ DOMAIN h.buffer = 1..n /\ h.buffer \in Seq({h.buffer[i] : i \in DOMAIN h.buffer})
    BY <1>2 DEF IsHandle
  <1>6. CASE run.code = "ok"
    <2>1. h.path # Author!NoHandle => h.ops # {}
      BY <1>2 DEF IsHandle
    <2>2. h.path # Author!NoHandle /\ path \in DOMAIN tree =>
            h.path \in DOMAIN run.tree /\ run.tree[h.path] = Author!Text(tree[path], calls)
      BY <1>4, <1>6, <2>1 DEF Told, Stands
    <2>3. ASSUME calls # <<>>, h.path = Author!NoHandle
          PROVE  Author!Last(Author!RenderPending(h.buffer)).path \notin DOMAIN run.tree
      <3>1. h.ops = {}
        <4>1. ~IsPath(h.path)
          BY <2>3 DEF IsPath, Author!NoHandle
        <4>2. QED BY <1>2, <4>1 DEF IsHandle
      <3>2. h.buffer # <<>> /\ h.buffer[n].op = "delete"
        BY <1>2, <3>1 DEF IsHandle
      <3>3. n \in 1..n
        BY <1>5, <3>2
      <3>4. h.buffer[n].path \notin DOMAIN run.tree
        BY <1>4, <1>6, <3>1 DEF Told
      <3> DEFINE list == Author!RenderPending(h.buffer)
      <3>5. list[n].path = h.buffer[n].path
        BY <1>5, <3>2, <3>3 DEF Author!RenderPending
      <3>6. Author!Last(list) = list[n]
        <4>1. DOMAIN list = 1..n
          BY <1>5 DEF Author!RenderPending
        <4>2. list = [i \in 1..n |-> list[i]]
          BY <1>5 DEF Author!RenderPending
        <4> HIDE DEF list
        <4>3. Len(list) = n
          BY <1>5, <4>2
        <4>4. QED BY <4>3 DEF Author!Last
      <3>7. QED BY <3>4, <3>5, <3>6
    <2>4. ASSUME NEW r \in DOMAIN tree
          PROVE  \/ r \in DOMAIN run.tree /\ run.tree[r] = tree[r]
                 \/ \E d \in Author!ToSet(h.buffer) :
                      ("path" \in DOMAIN d /\ d.path = r) \/ (Author!Forced(d) /\ Author!Destination(d) = r)
      <3>1. Stands(run.tree, r, tree[r]) \/ \E i \in DOMAIN h.buffer : IsNamed(h.buffer[i], r)
        BY <1>4, <1>6 DEF Told
      <3>2. \A i \in DOMAIN h.buffer : h.buffer[i] \in Author!ToSet(h.buffer)
        BY DEF Author!ToSet
      <3>3. QED BY <3>1, <3>2, Zenon DEF Stands, IsNamed
    <2>5. Author!Follows(tree, path, calls, h, run.tree)
      BY <2>2, <2>3, <2>4, Zenon DEF Author!Follows
    <2>6. QED BY <1>6, <2>5, Zenon DEF h, run
  <1>7. CASE run.code # "ok"
    <2>1. run.code \in {"not-found", "collision"} /\ run.done \in Nat /\ run.done < n
      BY <1>4, <1>7 DEF IsRun
    <2>2. run.done + 1 \in DOMAIN h.buffer
      BY <1>5, <2>1
    <2>3. Buffered(h.buffer[run.done + 1])
      BY <1>2, <2>2 DEF IsHandle
    <2>4. Author!IsListed(Author!ToAuthoringError(Author!EmitRejection(run.code, run.done, run.done), h.buffer),
                          Author!RenderPending(h.buffer)[run.done + 1])
      BY <2>1, <2>2, <2>3, ListedAsShown
    <2>5. QED BY <1>7, <2>1, <2>4, Zenon DEF h, run
  <1>8. QED BY <1>6, <1>7

(* One slot, however many copies of the SDK have touched it in whatever    *)
(* order (resolveSessionAls, getSessionAls, currentContext).               *)
THEOREM OneSession ==
  ASSUME NEW slot, slot \in {Author!Absent, Author!Foreign} \/ \E r : slot = Author!Storage(r),
         NEW early, NEW runner, NEW caller
  PROVE  Author!OneSessionForAllRealms(slot, early, runner, caller)
  <1> DEFINE touched == Author!Installed(slot, early)
             running == Author!ResolveSessionAls(touched, runner)
             during == Author!Installed(touched, runner)
  <1>1. \A r : Author!Storage(r) \notin {Author!Absent, Author!Foreign, Author!Failed}
    <2> TAKE r
    <2>1. Len(<<"storage", r>>) = 2 /\ Len(<<"absent">>) = 1 /\ Len(<<"foreign">>) = 1 /\ Len(<<"error">>) = 1
      OBVIOUS
    <2>2. QED BY <2>1 DEF Author!Storage, Author!Absent, Author!Foreign, Author!Failed
  <1>2. Author!Absent # Author!Foreign /\ Author!Failed # Author!Foreign /\ Author!Failed # Author!Absent
    <2>1. <<"absent">>[1] # <<"foreign">>[1] /\ <<"error">>[1] # <<"foreign">>[1] /\ <<"error">>[1] # <<"absent">>[1]
      OBVIOUS
    <2>2. QED BY <2>1, Zenon DEF Author!Absent, Author!Foreign, Author!Failed
  <1>3. CASE slot = Author!Foreign
    <2>1. touched = Author!Foreign /\ during = Author!Foreign /\ running = Author!Failed
      BY <1>2, <1>3 DEF Author!Installed, Author!ResolveSessionAls
    <2> HIDE DEF touched, running, during
    <2>2. QED BY <1>3, <2>1, Zenon DEF Author!OneSessionForAllRealms, touched, running, during
  <1>4. CASE slot # Author!Foreign
    <2>1. PICK r : touched = Author!Storage(r)
      BY <1>4 DEF Author!Installed, Author!ResolveSessionAls
    <2>2. \A q : Author!ResolveSessionAls(Author!Storage(r), q) = Author!Storage(r)
      BY <1>1, Zenon DEF Author!ResolveSessionAls
    <2>3. \A q : Author!Installed(Author!Storage(r), q) = Author!Storage(r)
      BY <1>1, Zenon DEF Author!Installed
    <2>4. running = Author!Storage(r) /\ during = Author!Storage(r)
      BY <2>1, <2>2, <2>3
    <2>5. Author!CurrentContext(during, caller, running) = "session"
      BY <1>1, <2>2, <2>4, Zenon DEF Author!CurrentContext
    <2>6. Author!CurrentContext(slot, early, Author!Absent) = "outside-session"
      <3>1. \E q : Author!ResolveSessionAls(slot, early) = Author!Storage(q)
        BY <1>1, <1>2, <1>4, Zenon DEF Author!ResolveSessionAls
      <3>2. QED BY <1>1, <3>1, Zenon DEF Author!CurrentContext
    <2>7. during = touched
      BY <2>1, <2>4
    <2>8. QED BY <1>4, <2>5, <2>6, <2>7, Zenon DEF Author!OneSessionForAllRealms
  <1>5. QED BY <1>3, <1>4

-----------------------------------------------------------------------------
(* Options.                                                                *)

(* The values that an object can hold.                                     *)
IsValue(heap, v) ==
  /\ v[1] \in STRING \ {"json"}   \* which marks what is encoded
  /\ v[1] = "ref" => v[2] \in DOMAIN heap
  /\ v[1] = "nan" => v = <<"nan">>

(* Any number of objects, each with any number of values.                  *)
IsHeap(heap) ==
  /\ IsFiniteSet(DOMAIN heap)
  /\ \A i \in DOMAIN heap :
        /\ heap[i].class \in {"array", "object", "map"}
        /\ \A v \in Author!ToSet(heap[i].holds) : IsValue(heap, v)

(* The three walks, each step of which is told the heap, the kinds it      *)
(* refuses, the object and its ancestors, and the walk so far.             *)
AdmitsAt(heap, refused, at, inside) ==
  /\ heap[at[2]].class \in {"array", "object"} /\ at[2] \notin at[1]
  /\ \A v \in Author!ToSet(heap[at[2]].holds) :
        v[1] \notin refused /\ (Author!Is(v, "ref") => inside[<<at[1] \cup {at[2]}, v[2]>>])

TextAt(heap, at, text) ==
  LET class == heap[at[2]].class
      Below(v) == IF Author!Is(v, "ref") THEN text[<<at[1] \cup {at[2]}, v[2]>>] ELSE Author!Plain(v)
      Field(v) == IF v[1] \notin Author!Lost THEN Below(v) ELSE IF class = "array" THEN <<"null">> ELSE Author!Gone
  IN CASE class = "map" -> <<"object", <<>>>>
       [] class \in {"array", "object"} /\ at[2] \notin at[1] ->
            <<class, [i \in DOMAIN heap[at[2]].holds |-> Field(heap[at[2]].holds[i])]>>
       [] OTHER -> Author!Gone

MeaningAt(heap, at, meaning) ==
  LET object == heap[at[2]]
  IN <<object.class, IF at[2] \in at[1] THEN "itself" ELSE
        [i \in DOMAIN object.holds |->
           IF Author!Is(object.holds[i], "ref") THEN meaning[<<at[1] \cup {at[2]}, object.holds[i][2]>>]
           ELSE Author!Plain(object.holds[i])]>>

AdmitOf(x, f) == AdmitsAt(x[1][1], x[1][2], x[2], f)
TextOf(x, f) == TextAt(x[1], x[2], f)
MeaningOf(x, f) == MeaningAt(x[1], x[2], f)

Admitting == INSTANCE Folding WITH Step <- AdmitOf
Texting == INSTANCE Folding WITH Step <- TextOf
Meaning == INSTANCE Folding WITH Step <- MeaningOf

(* What bounds a walk: the objects that are no ancestors yet.              *)
Apart(heap) == [at \in Author!Visits(heap) |-> Cardinality(DOMAIN heap \ at[1])]

LEMMA FewerApart ==
  ASSUME NEW heap, IsHeap(heap), NEW at \in Author!Visits(heap)
  PROVE  /\ Apart(heap)[at] \in 0 .. Cardinality(DOMAIN heap)
         /\ Cardinality(DOMAIN heap) \in Nat
         /\ at[2] \notin at[1] => \A k \in DOMAIN heap :
              /\ <<at[1] \cup {at[2]}, k>> \in Author!Visits(heap)
              /\ Apart(heap)[<<at[1] \cup {at[2]}, k>>] < Apart(heap)[at]
  <1> DEFINE D == DOMAIN heap
             A == at[1]
             i == at[2]
             B == A \cup {i}
  <1>1. IsFiniteSet(D) /\ A \subseteq D /\ i \in D
    <2>1. IsFiniteSet(D)
      BY DEF IsHeap
    <2>2. at[1] \in SUBSET DOMAIN heap /\ at[2] \in DOMAIN heap
      BY DEF Author!Visits
    <2>3. QED BY <2>1, <2>2
  <1>2. IsFiniteSet(D \ A) /\ Cardinality(D \ A) <= Cardinality(D) /\ Cardinality(D \ A) \in Nat /\ Cardinality(D) \in Nat
    <2>1. D \ A \subseteq D
      OBVIOUS
    <2>2. IsFiniteSet(D \ A) /\ Cardinality(D \ A) <= Cardinality(D)
      BY <1>1, <2>1, FS_Subset
    <2>3. QED BY <1>1, <2>2, FS_CardinalityType
  <1>3. Apart(heap)[at] = Cardinality(D \ A)
    BY DEF Apart
  <1>4. ASSUME i \notin A, NEW k \in D
        PROVE  <<B, k>> \in Author!Visits(heap) /\ Apart(heap)[<<B, k>>] < Apart(heap)[at]
    <2>1. <<B, k>> \in Author!Visits(heap)
      BY <1>1 DEF Author!Visits
    <2>2. Apart(heap)[<<B, k>>] = Cardinality(D \ B)
      BY <2>1 DEF Apart
    <2>3. D \ B = (D \ A) \ {i} /\ i \in D \ A
      BY <1>1, <1>4
    <2>4. Cardinality(D \ B) = Cardinality(D \ A) - 1
      <3> DEFINE S == D \ A
      <3>1. IsFiniteSet(S) /\ i \in S
        BY <1>2, <2>3
      <3> HIDE DEF S, i
      <3>2. Cardinality(S \ {i}) = Cardinality(S) - 1
        BY <3>1, FS_RemoveElement
      <3>3. QED BY <2>3, <3>2 DEF S
    <2>5. QED BY <1>2, <1>3, <2>1, <2>2, <2>4
  <1>5. QED BY <1>2, <1>3, <1>4

(* Of the walk so far, a step looks at what the object holds, one level    *)
(* deeper, and at nothing where the object is its own ancestor.            *)
Alikes(heap, at, g, h) == \A k \in DOMAIN heap : g[<<at[1] \cup {at[2]}, k>>] = h[<<at[1] \cup {at[2]}, k>>]

LEMMA AlikeBelow ==
  ASSUME NEW heap, IsHeap(heap), NEW at \in Author!Visits(heap), at[2] \notin at[1], NEW g, NEW h,
         \A y \in Author!Visits(heap) : Apart(heap)[y] < Apart(heap)[at] => g[y] = h[y]
  PROVE  Alikes(heap, at, g, h)
  BY FewerApart DEF Alikes

LEMMA HeldIs ==
  ASSUME NEW heap, IsHeap(heap), NEW at \in Author!Visits(heap)
  PROVE  /\ heap[at[2]].class \in {"array", "object", "map"}
         /\ \A v \in Author!ToSet(heap[at[2]].holds) : IsValue(heap, v)
         /\ \A i \in DOMAIN heap[at[2]].holds : IsValue(heap, heap[at[2]].holds[i])
  <1>1. at[2] \in DOMAIN heap
    BY DEF Author!Visits
  <1>2. QED BY <1>1 DEF IsHeap, Author!ToSet

LEMMA AdmitsFounded ==
  ASSUME NEW heap, IsHeap(heap), NEW refused
  PROVE  Admitting!Founded(<<heap, refused>>, Author!Visits(heap), Apart(heap))
  <1>1. ASSUME NEW at \in Author!Visits(heap), NEW g, NEW h,
               \A y \in Author!Visits(heap) : Apart(heap)[y] < Apart(heap)[at] => g[y] = h[y]
        PROVE  AdmitsAt(heap, refused, at, g) = AdmitsAt(heap, refused, at, h)
    <2>1. CASE at[2] \in at[1]
      BY <2>1 DEF AdmitsAt
    <2>2. CASE at[2] \notin at[1]
      <3>1. Alikes(heap, at, g, h)
        BY <1>1, <2>2, AlikeBelow
      <3>2. \A v \in Author!ToSet(heap[at[2]].holds) : Author!Is(v, "ref") =>
               g[<<at[1] \cup {at[2]}, v[2]>>] = h[<<at[1] \cup {at[2]}, v[2]>>]
        BY <3>1, HeldIs DEF Alikes, IsValue, Author!Is
      <3>3. QED BY <3>2, Zenon DEF AdmitsAt
    <2>3. QED BY <2>1, <2>2
  <1>2. \A at, g : AdmitOf(<<<<heap, refused>>, at>>, g) = AdmitsAt(heap, refused, at, g)
    BY DEF AdmitOf
  <1>3. ASSUME NEW at \in Author!Visits(heap), NEW g, NEW h,
               \A y \in Author!Visits(heap) : Apart(heap)[y] < Apart(heap)[at] => g[y] = h[y]
        PROVE  AdmitOf(<<<<heap, refused>>, at>>, g) = AdmitOf(<<<<heap, refused>>, at>>, h)
    BY <1>1, <1>2, <1>3
  <1>4. QED BY <1>3, Zenon DEF Admitting!Founded

LEMMA TextFounded ==
  ASSUME NEW heap, IsHeap(heap)
  PROVE  Texting!Founded(heap, Author!Visits(heap), Apart(heap))
  <1>1. ASSUME NEW at \in Author!Visits(heap), NEW g, NEW h,
               \A y \in Author!Visits(heap) : Apart(heap)[y] < Apart(heap)[at] => g[y] = h[y]
        PROVE  TextAt(heap, at, g) = TextAt(heap, at, h)
    <2>1. CASE at[2] \in at[1]
      BY <2>1, HeldIs DEF TextAt
    <2>2. CASE at[2] \notin at[1]
      <3>1. Alikes(heap, at, g, h)
        BY <1>1, <2>2, AlikeBelow
      <3>2. \A i \in DOMAIN heap[at[2]].holds : Author!Is(heap[at[2]].holds[i], "ref") =>
               g[<<at[1] \cup {at[2]}, heap[at[2]].holds[i][2]>>] = h[<<at[1] \cup {at[2]}, heap[at[2]].holds[i][2]>>]
        BY <3>1, HeldIs DEF Alikes, IsValue, Author!Is
      <3>3. QED BY <3>2, <2>2, HeldIs DEF TextAt
    <2>3. QED BY <2>1, <2>2
  <1>2. \A at, g : TextOf(<<heap, at>>, g) = TextAt(heap, at, g)
    BY DEF TextOf
  <1>3. ASSUME NEW at \in Author!Visits(heap), NEW g, NEW h,
               \A y \in Author!Visits(heap) : Apart(heap)[y] < Apart(heap)[at] => g[y] = h[y]
        PROVE  TextOf(<<heap, at>>, g) = TextOf(<<heap, at>>, h)
    BY <1>1, <1>2, <1>3
  <1>4. QED BY <1>3, Zenon DEF Texting!Founded

LEMMA MeaningFounded ==
  ASSUME NEW heap, IsHeap(heap)
  PROVE  Meaning!Founded(heap, Author!Visits(heap), Apart(heap))
  <1>1. ASSUME NEW at \in Author!Visits(heap), NEW g, NEW h,
               \A y \in Author!Visits(heap) : Apart(heap)[y] < Apart(heap)[at] => g[y] = h[y]
        PROVE  MeaningAt(heap, at, g) = MeaningAt(heap, at, h)
    <2>1. CASE at[2] \in at[1]
      BY <2>1 DEF MeaningAt
    <2>2. CASE at[2] \notin at[1]
      <3>1. Alikes(heap, at, g, h)
        BY <1>1, <2>2, AlikeBelow
      <3>2. \A i \in DOMAIN heap[at[2]].holds : Author!Is(heap[at[2]].holds[i], "ref") =>
               g[<<at[1] \cup {at[2]}, heap[at[2]].holds[i][2]>>] = h[<<at[1] \cup {at[2]}, heap[at[2]].holds[i][2]>>]
        BY <3>1, HeldIs DEF Alikes, IsValue, Author!Is
      <3>3. QED BY <3>2, <2>2 DEF MeaningAt
    <2>3. QED BY <2>1, <2>2
  <1>2. \A at, g : MeaningOf(<<heap, at>>, g) = MeaningAt(heap, at, g)
    BY DEF MeaningOf
  <1>3. ASSUME NEW at \in Author!Visits(heap), NEW g, NEW h,
               \A y \in Author!Visits(heap) : Apart(heap)[y] < Apart(heap)[at] => g[y] = h[y]
        PROVE  MeaningOf(<<heap, at>>, g) = MeaningOf(<<heap, at>>, h)
    BY <1>1, <1>2, <1>3
  <1>4. QED BY <1>3, Zenon DEF Meaning!Founded

LEMMA Bounded ==
  ASSUME NEW heap, IsHeap(heap)
  PROVE  \E n \in Nat : \A at \in Author!Visits(heap) : Apart(heap)[at] \in 0 .. n
  <1>1. Cardinality(DOMAIN heap) \in Nat
    BY FS_CardinalityType DEF IsHeap
  <1>2. QED BY <1>1, FewerApart

(* Each walk is a function, though it is defined by itself, and what the   *)
(* model computes is the value of one such function.                       *)
LEMMA AdmitsIs ==
  ASSUME NEW heap, IsHeap(heap), NEW refused
  PROVE  \E f : /\ f = [at \in Author!Visits(heap) |-> AdmitsAt(heap, refused, at, f)]
                /\ \A value : Author!Admits(heap, value, refused) <=>
                      value[1] \notin refused /\ (Author!Is(value, "ref") => f[<<{}, value[2]>>])
  <1> DEFINE f == CHOOSE f : f = [at \in Author!Visits(heap) |-> AdmitsAt(heap, refused, at, f)]
  <1>1. \E g : Admitting!Recurs(g, <<heap, refused>>, Author!Visits(heap))
    BY Bounded, AdmitsFounded, Admitting!Recursion
  <1>2. \E g : g = [at \in Author!Visits(heap) |-> AdmitsAt(heap, refused, at, g)]
    <2>1. PICK g : Admitting!Recurs(g, <<heap, refused>>, Author!Visits(heap))
      BY <1>1
    <2>2. g = [at \in Author!Visits(heap) |-> AdmitOf(<<<<heap, refused>>, at>>, g)]
      BY <2>1, Zenon DEF Admitting!Recurs
    <2>3. \A at : AdmitOf(<<<<heap, refused>>, at>>, g) = AdmitsAt(heap, refused, at, g)
      BY DEF AdmitOf
    <2>4. g = [at \in Author!Visits(heap) |-> AdmitsAt(heap, refused, at, g)]
      BY <2>2, <2>3, Zenon
    <2>5. QED BY <2>4, Zenon
  <1>3. f = [at \in Author!Visits(heap) |-> AdmitsAt(heap, refused, at, f)]
    BY <1>2, Zenon
  <1>4. ASSUME NEW value
        PROVE  Author!Admits(heap, value, refused) <=>
                 value[1] \notin refused /\ (Author!Is(value, "ref") => f[<<{}, value[2]>>])
    BY Zenon DEF Author!Admits, AdmitsAt
  <1> HIDE DEF f
  <1>5. QED BY <1>3, <1>4

LEMMA TextIs ==
  ASSUME NEW heap, IsHeap(heap)
  PROVE  \E f : /\ f = [at \in Author!Visits(heap) |-> TextAt(heap, at, f)]
                /\ \A value : Author!Serialized(heap, value) =
                      IF Author!Is(value, "ref") THEN f[<<{}, value[2]>>] ELSE Author!Plain(value)
  <1> DEFINE f == CHOOSE f : f = [at \in Author!Visits(heap) |-> TextAt(heap, at, f)]
  <1>1. \E g : Texting!Recurs(g, heap, Author!Visits(heap))
    BY Bounded, TextFounded, Texting!Recursion
  <1>2. \E g : g = [at \in Author!Visits(heap) |-> TextAt(heap, at, g)]
    <2>1. PICK g : Texting!Recurs(g, heap, Author!Visits(heap))
      BY <1>1
    <2>2. g = [at \in Author!Visits(heap) |-> TextOf(<<heap, at>>, g)]
      BY <2>1, Zenon DEF Texting!Recurs
    <2>3. \A at : TextOf(<<heap, at>>, g) = TextAt(heap, at, g)
      BY DEF TextOf
    <2>4. g = [at \in Author!Visits(heap) |-> TextAt(heap, at, g)]
      BY <2>2, <2>3, Zenon
    <2>5. QED BY <2>4, Zenon
  <1>3. f = [at \in Author!Visits(heap) |-> TextAt(heap, at, f)]
    BY <1>2, Zenon
  <1>4. ASSUME NEW value
        PROVE  Author!Serialized(heap, value) =
                 IF Author!Is(value, "ref") THEN f[<<{}, value[2]>>] ELSE Author!Plain(value)
    BY Zenon DEF Author!Serialized, TextAt
  <1> HIDE DEF f
  <1>5. QED BY <1>3, <1>4

LEMMA MeaningIs ==
  ASSUME NEW heap, IsHeap(heap)
  PROVE  \E f : /\ f = [at \in Author!Visits(heap) |-> MeaningAt(heap, at, f)]
                /\ \A value : Author!Meant(heap, value) =
                      IF Author!Is(value, "ref") THEN f[<<{}, value[2]>>] ELSE Author!Plain(value)
  <1> DEFINE f == CHOOSE f : f = [at \in Author!Visits(heap) |-> MeaningAt(heap, at, f)]
  <1>1. \E g : Meaning!Recurs(g, heap, Author!Visits(heap))
    BY Bounded, MeaningFounded, Meaning!Recursion
  <1>2. \E g : g = [at \in Author!Visits(heap) |-> MeaningAt(heap, at, g)]
    <2>1. PICK g : Meaning!Recurs(g, heap, Author!Visits(heap))
      BY <1>1
    <2>2. g = [at \in Author!Visits(heap) |-> MeaningOf(<<heap, at>>, g)]
      BY <2>1, Zenon DEF Meaning!Recurs
    <2>3. \A at : MeaningOf(<<heap, at>>, g) = MeaningAt(heap, at, g)
      BY DEF MeaningOf
    <2>4. g = [at \in Author!Visits(heap) |-> MeaningAt(heap, at, g)]
      BY <2>2, <2>3, Zenon
    <2>5. QED BY <2>4, Zenon
  <1>3. f = [at \in Author!Visits(heap) |-> MeaningAt(heap, at, f)]
    BY <1>2, Zenon
  <1>4. ASSUME NEW value
        PROVE  Author!Meant(heap, value) =
                 IF Author!Is(value, "ref") THEN f[<<{}, value[2]>>] ELSE Author!Plain(value)
    BY Zenon DEF Author!Meant, MeaningAt
  <1> HIDE DEF f
  <1>5. QED BY <1>3, <1>4

(* What can be reached from some objects is the least set that holds them  *)
(* and what its objects hold.                                              *)
Spans(heap, ids, S) == S \subseteq DOMAIN heap /\ ids \subseteq S /\ Author!Next(heap, S) \subseteq S

LEMMA NextIs ==
  ASSUME NEW heap, NEW ids, NEW k
  PROVE  k \in Author!Next(heap, ids) <=>
           \E i \in ids : \E v \in Author!ToSet(heap[i].holds) : Author!Is(v, "ref") /\ v[2] = k
  BY DEF Author!Next

LEMMA NextGrows ==
  ASSUME NEW heap, NEW S, NEW T, S \subseteq T
  PROVE  Author!Next(heap, S) \subseteq Author!Next(heap, T)
  BY NextIs

LEMMA NextWithin ==
  ASSUME NEW heap, IsHeap(heap), NEW ids, ids \subseteq DOMAIN heap
  PROVE  Author!Next(heap, ids) \subseteq DOMAIN heap
  BY NextIs DEF IsHeap, IsValue, Author!Is

LEMMA ReachedIs ==
  ASSUME NEW heap, IsHeap(heap), NEW ids, ids \subseteq DOMAIN heap
  PROVE  /\ Spans(heap, ids, Author!Reached(heap, ids))
         /\ \A S : Spans(heap, ids, S) => Author!Reached(heap, ids) \subseteq S
  <1> DEFINE R == {i \in DOMAIN heap : \A S : Spans(heap, ids, S) => i \in S}
             IsReached(S) == /\ ids \cup Author!Next(heap, S) \subseteq S
                             /\ \A T \in SUBSET S : ids \cup Author!Next(heap, T) \subseteq T => T = S
  <1>1. Spans(heap, ids, R)
    <2>1. ids \subseteq R
      BY DEF Spans
    <2>2. ASSUME NEW k \in Author!Next(heap, R) PROVE k \in R
      <3>1. R \subseteq DOMAIN heap
        OBVIOUS
      <3>2. k \in DOMAIN heap
        BY <2>2, <3>1, NextWithin
      <3>3. ASSUME NEW S, Spans(heap, ids, S) PROVE k \in S
        <4>1. R \subseteq S
          BY <3>3
        <4>2. k \in Author!Next(heap, S)
          BY <2>2, <4>1, NextGrows
        <4>3. QED BY <3>3, <4>2 DEF Spans
      <3>4. QED BY <3>2, <3>3
    <2>3. QED BY <2>1, <2>2 DEF Spans
  <1>2. \A S : Spans(heap, ids, S) => R \subseteq S
    OBVIOUS
  <1> HIDE DEF R
  <1>3. R \in SUBSET DOMAIN heap /\ IsReached(R)
    <2>1. R \subseteq DOMAIN heap /\ ids \cup Author!Next(heap, R) \subseteq R
      BY <1>1 DEF Spans
    <2>2. ASSUME NEW T \in SUBSET R, ids \cup Author!Next(heap, T) \subseteq T PROVE T = R
      <3>1. Spans(heap, ids, T)
        BY <2>1, <2>2 DEF Spans
      <3>2. QED BY <1>2, <3>1
    <2>3. QED BY <2>1, <2>2
  <1>4. ASSUME NEW S \in SUBSET DOMAIN heap, IsReached(S) PROVE S = R
    <2>1. Spans(heap, ids, S)
      BY <1>4 DEF Spans
    <2>2. R \in SUBSET S /\ ids \cup Author!Next(heap, R) \subseteq R
      BY <1>1, <1>2, <2>1 DEF Spans
    <2>3. QED BY <1>4, <2>2
  <1>5. Author!Reached(heap, ids) = CHOOSE S \in SUBSET DOMAIN heap : IsReached(S)
    BY Zenon DEF Author!Reached
  <1> HIDE DEF IsReached
  <1>6. Author!Reached(heap, ids) = R
    BY <1>3, <1>4, <1>5
  <1>7. QED BY <1>1, <1>2, <1>6

(* From one object: itself, and what can be reached from what it holds.    *)
Reach(heap, i) == Author!Reached(heap, {i})

LEMMA ReachedFromEach ==
  ASSUME NEW heap, IsHeap(heap), NEW ids, ids \subseteq DOMAIN heap
  PROVE  Author!Reached(heap, ids) = UNION {Reach(heap, k) : k \in ids}
  <1> DEFINE U == UNION {Reach(heap, k) : k \in ids}
             R == Author!Reached(heap, ids)
  <1>1. \A k \in ids : Spans(heap, {k}, Reach(heap, k)) /\ \A S : Spans(heap, {k}, S) => Reach(heap, k) \subseteq S
    BY ReachedIs DEF Reach
  <1>2. Spans(heap, ids, U)
    <2>1. U \subseteq DOMAIN heap /\ ids \subseteq U
      BY <1>1 DEF Spans
    <2>2. ASSUME NEW j \in Author!Next(heap, U) PROVE j \in U
      <3>1. PICK i \in U : \E v \in Author!ToSet(heap[i].holds) : Author!Is(v, "ref") /\ v[2] = j
        BY <2>2, NextIs
      <3>2. PICK k \in ids : i \in Reach(heap, k)
        OBVIOUS
      <3>3. j \in Author!Next(heap, Reach(heap, k))
        BY <3>1, <3>2, NextIs
      <3>4. j \in Reach(heap, k)
        BY <1>1, <3>3 DEF Spans
      <3>5. QED BY <3>4
    <2>3. QED BY <2>1, <2>2 DEF Spans
  <1>3. Spans(heap, ids, R) /\ \A S : Spans(heap, ids, S) => R \subseteq S
    BY ReachedIs
  <1>4. \A k \in ids : Spans(heap, {k}, R)
    BY <1>3 DEF Spans
  <1>5. U \subseteq R
    BY <1>1, <1>4
  <1>6. R \subseteq U
    BY <1>2, <1>3
  <1>7. QED BY <1>5, <1>6

LEMMA FromIs ==
  ASSUME NEW heap, IsHeap(heap), NEW i \in DOMAIN heap
  PROVE  Reach(heap, i) = {i} \cup Author!Reached(heap, Author!Next(heap, {i}))
  <1> DEFINE N == Author!Next(heap, {i})
             R == Author!Reached(heap, N)
  <1>1. N \subseteq DOMAIN heap
    BY NextWithin
  <1>2. Spans(heap, N, R) /\ \A S : Spans(heap, N, S) => R \subseteq S
    BY <1>1, ReachedIs
  <1>3. Spans(heap, {i}, Reach(heap, i)) /\ \A S : Spans(heap, {i}, S) => Reach(heap, i) \subseteq S
    BY ReachedIs DEF Reach
  <1>4. Spans(heap, {i}, {i} \cup R)
    <2>1. ASSUME NEW j \in Author!Next(heap, {i} \cup R) PROVE j \in R
      <3>1. PICK h \in {i} \cup R : \E v \in Author!ToSet(heap[h].holds) : Author!Is(v, "ref") /\ v[2] = j
        BY <2>1, NextIs
      <3>2. CASE h = i
        <4>1. j \in N
          BY <3>1, <3>2, NextIs
        <4>2. QED BY <1>2, <4>1 DEF Spans
      <3>3. CASE h \in R
        <4>1. j \in Author!Next(heap, R)
          BY <3>1, <3>3, NextIs
        <4>2. QED BY <1>2, <4>1 DEF Spans
      <3>4. QED BY <3>2, <3>3
    <2>2. QED BY <1>2, <2>1 DEF Spans
  <1>5. Spans(heap, N, Reach(heap, i))
    <2>1. N \subseteq Author!Next(heap, Reach(heap, i))
      BY <1>3, NextGrows DEF Spans
    <2>2. QED BY <1>3, <2>1 DEF Spans
  <1>6. i \in Reach(heap, i)
    BY <1>3 DEF Spans
  <1>7. QED BY <1>2, <1>3, <1>4, <1>5, <1>6

LEMMA InFrom == ASSUME NEW heap, IsHeap(heap), NEW i \in DOMAIN heap PROVE i \in Reach(heap, i)
  BY FromIs

(* An object below which nothing is refused: neither a kind, nor a class,  *)
(* nor an object that holds itself.                                        *)
IsClean(heap, refused, i) ==
  \A j \in Reach(heap, i) :
     /\ heap[j].class \in {"array", "object"}
     /\ \A v \in Author!ToSet(heap[j].holds) : v[1] \notin refused
     /\ j \notin Author!Reached(heap, Author!Next(heap, {j}))

(* One step of it, below the ancestors A.                                  *)
HoldsClean(heap, refused, i, A) ==
  /\ heap[i].class \in {"array", "object"}
  /\ \A v \in Author!ToSet(heap[i].holds) :
        v[1] \notin refused /\
        (Author!Is(v, "ref") => IsClean(heap, refused, v[2]) /\ Reach(heap, v[2]) \cap (A \cup {i}) = {})

LEMMA CleanStep ==
  ASSUME NEW heap, IsHeap(heap), NEW refused, NEW i \in DOMAIN heap, NEW A, i \notin A
  PROVE  IsClean(heap, refused, i) /\ Reach(heap, i) \cap A = {} <=> HoldsClean(heap, refused, i, A)
  <1> DEFINE N == Author!Next(heap, {i})
             R == Author!Reached(heap, N)
  <1>1. N \subseteq DOMAIN heap
    BY NextWithin
  <1>2. Reach(heap, i) = {i} \cup R /\ R = UNION {Reach(heap, k) : k \in N}
    BY <1>1, FromIs, ReachedFromEach
  <1>3. \A k : k \in N <=> \E v \in Author!ToSet(heap[i].holds) : Author!Is(v, "ref") /\ v[2] = k
    BY NextIs
  <1>4. ASSUME IsClean(heap, refused, i), Reach(heap, i) \cap A = {}
        PROVE  /\ heap[i].class \in {"array", "object"}
               /\ \A v \in Author!ToSet(heap[i].holds) : v[1] \notin refused
               /\ \A k \in N : IsClean(heap, refused, k) /\ Reach(heap, k) \cap (A \cup {i}) = {}
    <2>1. i \in Reach(heap, i) /\ i \notin R
      BY <1>2, <1>4 DEF IsClean
    <2>2. ASSUME NEW k \in N PROVE IsClean(heap, refused, k) /\ Reach(heap, k) \cap (A \cup {i}) = {}
      <3>1. Reach(heap, k) \subseteq R
        BY <1>2
      <3>2. IsClean(heap, refused, k)
        BY <1>2, <1>4, <3>1 DEF IsClean
      <3>3. Reach(heap, k) \cap (A \cup {i}) = {}
        BY <1>2, <1>4, <2>1, <3>1
      <3>4. QED BY <3>2, <3>3
    <2>3. QED BY <1>4, <2>1, <2>2 DEF IsClean
  <1>5. ASSUME heap[i].class \in {"array", "object"},
               \A v \in Author!ToSet(heap[i].holds) : v[1] \notin refused,
               \A k \in N : IsClean(heap, refused, k) /\ Reach(heap, k) \cap (A \cup {i}) = {}
        PROVE  IsClean(heap, refused, i) /\ Reach(heap, i) \cap A = {}
    <2>1. R \cap (A \cup {i}) = {}
      BY <1>2, <1>5
    <2>2. Reach(heap, i) \cap A = {}
      BY <1>2, <2>1
    <2>3. ASSUME NEW j \in R
          PROVE  /\ heap[j].class \in {"array", "object"}
                 /\ \A v \in Author!ToSet(heap[j].holds) : v[1] \notin refused
                 /\ j \notin Author!Reached(heap, Author!Next(heap, {j}))
      <3>1. PICK k \in N : j \in Reach(heap, k)
        BY <1>2
      <3>2. QED BY <1>5, <3>1 DEF IsClean
    <2>4. i \notin R
      BY <2>1
    <2>5. QED BY <1>2, <1>5, <2>2, <2>3, <2>4 DEF IsClean
  <1>6. QED BY <1>3, <1>4, <1>5 DEF HoldsClean

(* Induction over the objects that are no ancestors yet.                   *)
LEMMA Deepening ==
  ASSUME NEW heap, IsHeap(heap), NEW P,
         \A at \in Author!Visits(heap) :
            (at[2] \notin at[1] => \A k \in DOMAIN heap : <<at[1] \cup {at[2]}, k>> \in P) => at \in P
  PROVE  Author!Visits(heap) \subseteq P
  <1> DEFINE V == Author!Visits(heap)
             m == Apart(heap)
             T == {n \in Nat : \A at \in V : m[at] < n => at \in P}
  <1>1. PICK n \in Nat : \A at \in V : m[at] \in 0 .. n
    BY Bounded
  <1>2. 0 \in T
    BY <1>1
  <1>3. ASSUME NEW k \in Nat, k \in T PROVE k + 1 \in T
    <2>1. ASSUME NEW at \in V, m[at] < k + 1 PROVE at \in P
      <3>1. ASSUME at[2] \notin at[1], NEW o \in DOMAIN heap PROVE <<at[1] \cup {at[2]}, o>> \in P
        <4> DEFINE below == <<at[1] \cup {at[2]}, o>>
        <4>1. below \in V /\ m[below] < m[at]
          BY <3>1, FewerApart
        <4> HIDE DEF below, V, m
        <4>2. m[below] < k
          BY <1>1, <2>1, <4>1
        <4>3. below \in P
          BY <1>3, <4>1, <4>2
        <4>4. QED BY <4>3 DEF below
      <3>2. QED BY <3>1
    <2>2. QED BY <2>1
  <1> HIDE DEF T
  <1>4. n + 1 \in T
    BY <1>2, <1>3, Admitting!SetInduction
  <1>5. \A at \in V : m[at] < n + 1
    BY <1>1
  <1>6. QED BY <1>4, <1>5 DEF T

(* What a walk admits is what is clean.                                    *)
LEMMA WalkAdmits ==
  ASSUME NEW heap, IsHeap(heap), NEW refused, NEW f,
         f = [at \in Author!Visits(heap) |-> AdmitsAt(heap, refused, at, f)]
  PROVE  \A at \in Author!Visits(heap) :
            f[at] <=> IsClean(heap, refused, at[2]) /\ Reach(heap, at[2]) \cap at[1] = {}
  <1> DEFINE Right(at) == f[at] <=> IsClean(heap, refused, at[2]) /\ Reach(heap, at[2]) \cap at[1] = {}
             P == {at \in Author!Visits(heap) : Right(at)}
  <1>1. ASSUME NEW at \in Author!Visits(heap),
               at[2] \notin at[1] => \A k \in DOMAIN heap : <<at[1] \cup {at[2]}, k>> \in P
        PROVE  Right(at)
    <2>1. f[at] = AdmitsAt(heap, refused, at, f)
      BY Zenon
    <2>2. at[2] \in DOMAIN heap
      BY DEF Author!Visits
    <2>3. CASE at[2] \in at[1]
      <3>1. at[2] \in Reach(heap, at[2])
        BY <2>2, InFrom, Zenon
      <3>2. ~f[at]
        BY <2>1, <2>3, Zenon DEF AdmitsAt
      <3>3. QED BY <2>3, <3>1, <3>2
    <2>4. CASE at[2] \notin at[1]
      <3>1. \A k \in DOMAIN heap :
               f[<<at[1] \cup {at[2]}, k>>] <=> IsClean(heap, refused, k) /\ Reach(heap, k) \cap (at[1] \cup {at[2]}) = {}
        BY <1>1, <2>4
      <3>2. \A v \in Author!ToSet(heap[at[2]].holds) : Author!Is(v, "ref") =>
               (f[<<at[1] \cup {at[2]}, v[2]>>] <=>
                  IsClean(heap, refused, v[2]) /\ Reach(heap, v[2]) \cap (at[1] \cup {at[2]}) = {})
        BY <3>1, HeldIs DEF IsValue, Author!Is
      <3>3. f[at] <=> HoldsClean(heap, refused, at[2], at[1])
        BY <2>1, <2>4, <3>2, Zenon DEF AdmitsAt, HoldsClean
      <3>4. QED BY <2>2, <2>4, <3>3, CleanStep
    <2>5. QED BY <2>3, <2>4
  <1>2. \A at \in Author!Visits(heap) :
           (at[2] \notin at[1] => \A k \in DOMAIN heap : <<at[1] \cup {at[2]}, k>> \in P) => at \in P
    <2> HIDE DEF P
    <2>1. \A at \in Author!Visits(heap) : Right(at) => at \in P
      BY DEF P
    <2>2. QED BY <1>1, <2>1
  <1> HIDE DEF P
  <1>3. Author!Visits(heap) \subseteq P
    BY <1>2, Deepening
  <1>4. QED BY <1>3 DEF P

LEMMA AdmitsWhatIsClean ==
  ASSUME NEW heap, IsHeap(heap), NEW refused, NEW v, IsValue(heap, v)
  PROVE  Author!Admits(heap, v, refused) <=> v[1] \notin refused /\ (v[1] = "ref" => IsClean(heap, refused, v[2]))
  <1>1. PICK f : /\ f = [at \in Author!Visits(heap) |-> AdmitsAt(heap, refused, at, f)]
                 /\ Author!Admits(heap, v, refused) <=>
                      v[1] \notin refused /\ (Author!Is(v, "ref") => f[<<{}, v[2]>>])
    BY AdmitsIs
  <1>2. ASSUME v[1] = "ref" PROVE f[<<{}, v[2]>>] <=> IsClean(heap, refused, v[2])
    <2>1. <<{}, v[2]>> \in Author!Visits(heap)
      BY <1>2 DEF IsValue, Author!Visits
    <2>2. f[<<{}, v[2]>>] <=> IsClean(heap, refused, v[2]) /\ Reach(heap, v[2]) \cap {} = {}
      BY <1>1, <2>1, WalkAdmits
    <2>3. QED BY <2>2
  <1>3. QED BY <1>1, <1>2 DEF Author!Is

(* What is admitted means as text what it is.                              *)
LEMMA WalkMeans ==
  ASSUME NEW heap, IsHeap(heap), NEW f, NEW t, NEW m,
         f = [at \in Author!Visits(heap) |-> AdmitsAt(heap, Author!Lost, at, f)],
         t = [at \in Author!Visits(heap) |-> TextAt(heap, at, t)],
         m = [at \in Author!Visits(heap) |-> MeaningAt(heap, at, m)]
  PROVE  \A at \in Author!Visits(heap) : f[at] => t[at] = m[at]
  <1> DEFINE Right(at) == f[at] => t[at] = m[at]
             P == {at \in Author!Visits(heap) : Right(at)}
  <1>1. ASSUME NEW at \in Author!Visits(heap), f[at],
               at[2] \notin at[1] => \A k \in DOMAIN heap : <<at[1] \cup {at[2]}, k>> \in P
        PROVE  t[at] = m[at]
    <2> DEFINE o == heap[at[2]]
               B == at[1] \cup {at[2]}
    <2>1. f[at] = AdmitsAt(heap, Author!Lost, at, f) /\ t[at] = TextAt(heap, at, t) /\ m[at] = MeaningAt(heap, at, m)
      BY Zenon
    <2>2. /\ o.class \in {"array", "object"} /\ at[2] \notin at[1]
          /\ \A v \in Author!ToSet(o.holds) :
                v[1] \notin Author!Lost /\ (Author!Is(v, "ref") => f[<<B, v[2]>>])
      BY <1>1, <2>1, Zenon DEF AdmitsAt
    <2>3. \A i \in DOMAIN o.holds :
             /\ o.holds[i][1] \notin Author!Lost
             /\ Author!Is(o.holds[i], "ref") => t[<<B, o.holds[i][2]>>] = m[<<B, o.holds[i][2]>>]
      <3> TAKE i \in DOMAIN o.holds
      <3>1. o.holds[i] \in Author!ToSet(o.holds)
        BY DEF Author!ToSet
      <3>2. Author!Is(o.holds[i], "ref") => o.holds[i][2] \in DOMAIN heap
        <4>1. IsValue(heap, o.holds[i])
          BY HeldIs, Zenon
        <4>2. QED BY <4>1 DEF IsValue, Author!Is
      <3>3. QED BY <1>1, <2>2, <3>1, <3>2
    <2>4. TextAt(heap, at, t) =
            <<o.class, [i \in DOMAIN o.holds |-> IF Author!Is(o.holds[i], "ref") THEN t[<<B, o.holds[i][2]>>]
                                                 ELSE Author!Plain(o.holds[i])]>>
      BY <2>2, <2>3, ZenonT(60) DEF TextAt
    <2>5. MeaningAt(heap, at, m) =
            <<o.class, [i \in DOMAIN o.holds |-> IF Author!Is(o.holds[i], "ref") THEN m[<<B, o.holds[i][2]>>]
                                                 ELSE Author!Plain(o.holds[i])]>>
      BY <2>2, ZenonT(60) DEF MeaningAt
    <2>6. [i \in DOMAIN o.holds |-> IF Author!Is(o.holds[i], "ref") THEN t[<<B, o.holds[i][2]>>]
                                    ELSE Author!Plain(o.holds[i])]
          = [i \in DOMAIN o.holds |-> IF Author!Is(o.holds[i], "ref") THEN m[<<B, o.holds[i][2]>>]
                                      ELSE Author!Plain(o.holds[i])]
      BY <2>3
    <2>7. QED BY <2>1, <2>4, <2>5, <2>6
  <1>2. \A at \in Author!Visits(heap) :
           (at[2] \notin at[1] => \A k \in DOMAIN heap : <<at[1] \cup {at[2]}, k>> \in P) => at \in P
    <2> HIDE DEF P
    <2>1. \A at \in Author!Visits(heap) : Right(at) => at \in P
      BY DEF P
    <2>2. QED BY <1>1, <2>1
  <1> HIDE DEF P
  <1>3. Author!Visits(heap) \subseteq P
    BY <1>2, Deepening
  <1>4. QED BY <1>3 DEF P

LEMMA SerializedIsMeant ==
  ASSUME NEW heap, IsHeap(heap), NEW v, IsValue(heap, v), Author!Admits(heap, v, Author!Lost)
  PROVE  Author!Serialized(heap, v) = Author!Meant(heap, v)
  <1>1. PICK f : /\ f = [at \in Author!Visits(heap) |-> AdmitsAt(heap, Author!Lost, at, f)]
                 /\ \A value : Author!Admits(heap, value, Author!Lost) <=>
                      value[1] \notin Author!Lost /\ (Author!Is(value, "ref") => f[<<{}, value[2]>>])
    BY AdmitsIs
  <1>2. PICK t : /\ t = [at \in Author!Visits(heap) |-> TextAt(heap, at, t)]
                 /\ \A value : Author!Serialized(heap, value) =
                      IF Author!Is(value, "ref") THEN t[<<{}, value[2]>>] ELSE Author!Plain(value)
    BY TextIs
  <1>3. PICK m : /\ m = [at \in Author!Visits(heap) |-> MeaningAt(heap, at, m)]
                 /\ \A value : Author!Meant(heap, value) =
                      IF Author!Is(value, "ref") THEN m[<<{}, value[2]>>] ELSE Author!Plain(value)
    BY MeaningIs
  <1>4. ASSUME Author!Is(v, "ref") PROVE t[<<{}, v[2]>>] = m[<<{}, v[2]>>]
    <2>1. <<{}, v[2]>> \in Author!Visits(heap)
      BY <1>4 DEF IsValue, Author!Visits, Author!Is
    <2>2. f[<<{}, v[2]>>]
      BY <1>1, <1>4
    <2>3. QED BY <1>1, <1>2, <1>3, <2>1, <2>2, WalkMeans
  <1>5. QED BY <1>2, <1>3, <1>4

(* The walk of assertEncodable, and that of assertJsonValue, in the terms  *)
(* of the reference.                                                       *)
LEMMA CleanHasJson ==
  ASSUME NEW heap, IsHeap(heap), NEW v, IsValue(heap, v), NEW kinds
  PROVE  Author!Admits(heap, v, Author!Lost \cup kinds) <=>
           ~Author!HasNoJson(heap, v) /\ ~Author!Holds(heap, v, kinds)
  <1>1. Author!Admits(heap, v, Author!Lost \cup kinds) <=>
          /\ v[1] \notin Author!Lost \cup kinds
          /\ v[1] = "ref" => IsClean(heap, Author!Lost \cup kinds, v[2])
    BY AdmitsWhatIsClean
  <1>2. CASE v[1] = "ref"
    <2>1. Author!From(heap, v) = Reach(heap, v[2]) /\ v[2] \in DOMAIN heap
      BY <1>2 DEF Author!From, Reach, Author!Is, IsValue
    <2>2. Spans(heap, {v[2]}, Reach(heap, v[2]))
      BY <2>1, ReachedIs DEF Reach
    <2>3. \A j \in Reach(heap, v[2]) : heap[j].class \in {"array", "object"} <=> heap[j].class # "map"
      BY <2>2 DEF Spans, IsHeap
    <2>4. QED BY <1>1, <1>2, <2>1, <2>3 DEF IsClean, Author!HasNoJson, Author!Holds
  <1>3. CASE v[1] # "ref"
    <2>1. Author!From(heap, v) = {}
      BY <1>3 DEF Author!From, Author!Is
    <2>2. QED BY <1>1, <1>3, <2>1 DEF Author!HasNoJson, Author!Holds
  <1>4. QED BY <1>2, <1>3

(* Whatever the options of an author are, of any depth, with any values    *)
(* shared: they are refused if one has no JSON and only then, and else     *)
(* arrive as they are meant, but for a number that is not finite, which    *)
(* the engine refuses at the top and which is null below (encodeOptions,   *)
(* assertEncodable, JSON.stringify; assertJsonValue of the JSON dialect).  *)
THEOREM OptionsAreMeant ==
  ASSUME NEW heap, IsHeap(heap), 1 \in DOMAIN heap
  PROVE  Author!OptionsArrive(heap)
<1> DEFINE bag == Author!Bag(heap)
           sent == Author!EncodeOptions(heap)
<1>1. \A v \in Author!ToSet(bag) : IsValue(heap, v)
  BY DEF IsHeap, Author!Bag
<1>2. \A v \in Author!ToSet(bag) :
        /\ Author!AssertEncodable(heap, v) <=> ~Author!HasNoJson(heap, v)
        /\ Author!AssertJsonValue(heap, v) <=> ~Author!HasNoJson(heap, v) /\ ~Author!Holds(heap, v, {"nan"})
  <2> TAKE v \in Author!ToSet(bag)
  <2>1. Author!Lost \cup {} = Author!Lost /\ ~Author!Holds(heap, v, {})
    BY DEF Author!Holds
  <2>2. Author!Admits(heap, v, Author!Lost) <=> ~Author!HasNoJson(heap, v)
    BY <1>1, <2>1, CleanHasJson
  <2>3. Author!Admits(heap, v, Author!Lost \cup {"nan"}) <=>
          ~Author!HasNoJson(heap, v) /\ ~Author!Holds(heap, v, {"nan"})
    BY <1>1, CleanHasJson
  <2>4. QED BY <2>2, <2>3 DEF Author!AssertEncodable, Author!AssertJsonValue
<1>3. Author!Refuses(heap) <=> \E v \in Author!ToSet(bag) : Author!HasNoJson(heap, v)
  BY <1>2 DEF Author!Refuses
<1>4. ASSUME ~Author!Refuses(heap)
      PROVE  /\ Author!RoundTrips(sent) <=> <<"nan">> \notin Author!ToSet(bag)
             /\ Author!RoundTrips(sent) =>
                  \A i \in DOMAIN sent :
                    (IF Author!Is(sent[i], "json") THEN sent[i][2] ELSE sent[i]) = Author!Meant(heap, bag[i])
  <2>1. DOMAIN sent = DOMAIN bag
        /\ \A i \in DOMAIN bag : sent[i] = IF Author!Composite(heap, bag[i])
                                            THEN <<"json", Author!Serialized(heap, bag[i])>> ELSE bag[i]
    BY DEF Author!EncodeOptions
  <2>2. ASSUME NEW i \in DOMAIN bag
        PROVE  /\ bag[i] \in Author!ToSet(bag) /\ IsValue(heap, bag[i])
               /\ Author!Admits(heap, bag[i], Author!Lost)
               /\ bag[i][1] \notin Author!Lost
               /\ bag[i][1] = "ref" <=> Author!Composite(heap, bag[i])
    <3>1. bag[i] \in Author!ToSet(bag)
      BY DEF Author!ToSet
    <3>2. Author!Admits(heap, bag[i], Author!Lost) /\ IsValue(heap, bag[i])
      BY <1>1, <1>4, <3>1 DEF Author!Refuses, Author!AssertEncodable
    <3>3. bag[i][1] \notin Author!Lost /\ (bag[i][1] = "ref" => IsClean(heap, Author!Lost, bag[i][2]))
      BY <3>2, AdmitsWhatIsClean
    <3>4. ASSUME bag[i][1] = "ref" PROVE heap[bag[i][2]].class \in {"array", "object"}
      <4>1. bag[i][2] \in DOMAIN heap
        BY <3>2, <3>4 DEF IsValue
      <4>2. bag[i][2] \in Reach(heap, bag[i][2])
        BY <4>1, InFrom
      <4>3. QED BY <3>3, <3>4, <4>2 DEF IsClean
    <3>5. bag[i][1] = "ref" <=> Author!Composite(heap, bag[i])
      BY <3>4 DEF Author!Composite, Author!ClassOf, Author!Is
    <3>6. QED BY <3>1, <3>2, <3>3, <3>5
  <2> HIDE DEF sent, bag
  <2>3. \A i \in DOMAIN bag : sent[i][1] \notin Author!Lost \cup {"nan", "ref"} <=> bag[i][1] # "nan"
    <3> TAKE i \in DOMAIN bag
    <3>1. CASE Author!Composite(heap, bag[i])
      <4>1. sent[i][1] = "json" /\ bag[i][1] = "ref"
        BY <2>1, <2>2, <3>1
      <4>2. QED BY <4>1 DEF Author!Lost
    <3>2. CASE ~Author!Composite(heap, bag[i])
      BY <2>1, <2>2, <3>2
    <3>3. QED BY <3>1, <3>2
  <2>4. <<"nan">> \in Author!ToSet(bag) <=> \E i \in DOMAIN bag : bag[i][1] = "nan"
    <3>1. \A i \in DOMAIN bag : bag[i][1] = "nan" => bag[i] = <<"nan">>
      BY <2>2 DEF IsValue
    <3>2. <<"nan">>[1] = "nan"
      OBVIOUS
    <3>3. QED BY <3>1, <3>2 DEF Author!ToSet
  <2>5. Author!RoundTrips(sent) <=> <<"nan">> \notin Author!ToSet(bag)
    BY <2>1, <2>3, <2>4 DEF Author!RoundTrips
  <2>6. ASSUME Author!RoundTrips(sent), NEW i \in DOMAIN bag
        PROVE  (IF Author!Is(sent[i], "json") THEN sent[i][2] ELSE sent[i]) = Author!Meant(heap, bag[i])
    <3>1. Author!Serialized(heap, bag[i]) = Author!Meant(heap, bag[i])
      BY <2>2, SerializedIsMeant
    <3>2. CASE Author!Composite(heap, bag[i])
      <4>1. sent[i] = <<"json", Author!Serialized(heap, bag[i])>>
        BY <2>1, <3>2
      <4>2. QED BY <3>1, <4>1 DEF Author!Is
    <3>3. CASE ~Author!Composite(heap, bag[i])
      <4>1. sent[i] = bag[i] /\ bag[i][1] \notin {"ref", "nan", "json"}
        BY <2>1, <2>2, <2>3, <2>6, <3>3 DEF Author!RoundTrips, IsValue
      <4>2. Author!Meant(heap, bag[i]) = bag[i]
        <5>1. Author!Meant(heap, bag[i]) = Author!Plain(bag[i])
          BY <4>1, MeaningIs DEF Author!Is
        <5>2. QED BY <4>1, <5>1 DEF Author!Plain, Author!Is
      <4>3. QED BY <4>1, <4>2 DEF Author!Is
    <3>4. QED BY <3>2, <3>3
  <2>7. QED BY <2>1, <2>5, <2>6
<1>5. QED BY <1>2, <1>3, <1>4 DEF Author!OptionsArrive

-----------------------------------------------------------------------------
(* The properties of the run, of any subject that its question is put of.  *)

(* Whatever the engine refuses and wherever the two hosts put it, a batch  *)
(* of any length is refused with one error, and what a host answers blames *)
(* no directive that it did not name (reconstructEmitRejection,            *)
(* toAuthoringError, WriteRejectedError).                                  *)
THEOREM RejectionsAreFaithful ==
  ASSUME Of("emit") => DOMAIN subject[2] \subseteq Nat \ {0} /\ subject[3].index \in Int
  PROVE  RejectionIsFaithful
  BY RefusalsAreFaithful, Zenon DEF RejectionIsFaithful

(* The gate and the generated type agree on every package and every input  *)
(* (validateAtRunBoundary, emitPropertyType).                              *)
THEOREM GateAndTypeAlwaysAgree == GateKeepsTheType
  BY GateAndTypeAgree, Zenon DEF GateKeepsTheType

(* Any two packs over any dialect whose operations have no verb's name,    *)
(* and any router over any name (withOps, withoutOps, overrideOps,         *)
(* byExtension).                                                           *)
IsDialect(d) ==
  \E extensions, ops : d = Ops!Dialect(extensions, ops) /\ DOMAIN ops \cap BaseVerbs = {}
IsRouted(routes, base) == \E Chars : base \in Seq(Chars) /\ DOMAIN routes \subseteq Seq(Chars)

THEOREM DialectsAlwaysCompose ==
  ASSUME Of("ops") => IsDialect(subject[2]) /\ IsRouted(subject[5], subject[6])
  PROVE  DialectsCompose
  BY CompositionIsSound, Zenon DEF DialectsCompose, IsDialect, IsRouted

(* Whatever the files of the package import, and at whatever step a build  *)
(* fails, the manifest names what the runner loads before the author's     *)
(* module, or there is none (deriveRunnerClosure, generate).               *)
THEOREM ManifestsAreExact ==
  ASSUME Entry \in Nat, Of("build") => IsTree(subject[2]) /\ "temp" \in DOMAIN subject[3]
  PROVE  ManifestNamesWhatRuns
  BY ManifestIsWhatRuns, Zenon DEF ManifestNamesWhatRuns

(* A handle follows its file through any chain of verbs from any file, a   *)
(* refused verb is named as the author's own list names it, and a verb     *)
(* finds its run whatever copies of the SDK have touched the slot that     *)
(* they share; and options arrive as they are meant or are refused         *)
(* (find and its handles, resolveSessionAls, encodeOptions).               *)
IsChain(path, calls) == IsPath(path) /\ \E C : calls \in Seq(C) /\ \A c \in C : IsCall(c)
IsSlot(slot) == slot \in {Author!Absent, Author!Foreign} \/ \E r : slot = Author!Storage(r)

THEOREM VerbsAlwaysReachTheEngine ==
  ASSUME Of("verbs") => IsChain(subject[3], subject[4]), Of("realms") => IsSlot(subject[2]),
         Of("options") => IsHeap(subject[2]) /\ 1 \in DOMAIN subject[2]
  PROVE  VerbsReachTheEngine
<1>1. Of("verbs") => Author!HandleFollowsFile(subject[2], subject[3], subject[4])
  BY HandlesFollowFiles, Zenon DEF IsChain
<1>2. Of("realms") =>
        LET r == subject[3] IN Author!OneSessionForAllRealms(subject[2], r[1], r[2], r[3])
  BY OneSession, Zenon DEF IsSlot
<1>3. Of("options") => Author!OptionsArrive(subject[2])
  BY OptionsAreMeant
<1>4. QED BY <1>1, <1>2, <1>3, Zenon DEF VerbsReachTheEngine

=============================================================================
