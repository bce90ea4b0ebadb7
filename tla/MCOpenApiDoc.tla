----------------------------- MODULE MCOpenApiDoc -----------------------------
(***************************************************************************)
(* Sets of files for model checking OpenApiDoc and DocumentedCalls: four   *)
(* message types, nested up to three deep, some of them map entries, with  *)
(* two fields between them, and four methods of four services.             *)
(***************************************************************************)
EXTENDS DocumentedCalls

CONSTANTS a, b, c, d, f1, f2, Greeter, MyGreeter, demo, Greet

\* a is top-level, b perhaps in it, c anywhere in these, d a map entry or in c.
Parent == {p \in [Message -> {Null, a, b, c}] :
             /\ p[a] = Null /\ p[b] \in {Null, a}
             /\ p[c] \in {a, b} /\ p[d] \in {b, c}}

Entries == SUBSET {d}

Value == {[m \in Message |-> t] : t \in {"SFIXED32", b, c}}

\* protoc: a map field is repeated and stands in the parent of its entry type, and
\* no field but that has the entry's type or stands in it.
FieldsIn(p, entries) ==
  {fields \in [Field -> [owner : Message, repeated : BOOLEAN, type : Scalar \cup Message]] :
     /\ \A f \in Field : fields[f].owner \notin entries
     /\ \A f \in Field : fields[f].type \in entries =>
          fields[f].repeated /\ fields[f].owner = p[fields[f].type]
     /\ fields[f1].owner \in {a, b} /\ fields[f2].owner \in {c, d}
     /\ fields[f2].type \in {a, c, d}}

\* Greeter without a package, in package demo, and at the end of a longer name;
\* and another service in a package that is called like it.
Declared ==
  {[package |-> p, service |-> Greeter, method |-> Greet] : p \in {<<>>, <<demo>>}} \cup
  {[package |-> p, service |-> MyGreeter, method |-> Greet] : p \in {<<>>, <<demo, Greeter>>}}

Endings == {<<p, p>> : p \in Part} \cup {<<MyGreeter, Greeter>>}

BlockedOne == {<<demo, Greeter>>}

ServedNames == {<<Greeter>>, <<demo, Greeter>>, <<demo, Greeter, MyGreeter>>}

\* Names that are too short, that lack the package, and of no method.
TypedNames == {<<Greet>>, <<demo, MyGreeter, Greet>>, <<Greeter, Greeter>>}

Methods == {[m \in Method |-> [input |-> IF m.package = <<>> THEN a ELSE b, output |-> c]]}

AnySchema ==
  UNION {[parent : {p}, entries : {e}, value : IF e = {} THEN {[m \in Message |-> a]} ELSE Value,
          field : FieldsIn(p, e), method : Methods] : p \in Parent, e \in Entries}
=============================================================================
