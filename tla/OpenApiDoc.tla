------------------------------ MODULE OpenApiDoc ------------------------------
(***************************************************************************)
(* OpenApiParser.parseDefinition and OpenApiDefinitionHandler: from the    *)
(* message types and methods of a resolver's files to the definitions and  *)
(* paths of a Swagger document.  Three passes: enter the types, describe   *)
(* their fields, describe the methods; the last two refer to what the      *)
(* first has entered.  HashMaps are iterated in any order.                 *)
(***************************************************************************)
CONSTANTS
  Message,  \* full names of message types
  Field,    \* fields of messages
  Method,   \* full names of methods
  Scalar,   \* the protobuf types other than MESSAGE considered
  Null,     \* Java's null
  Schemas   \* the sets of files considered

(***************************************************************************)
(* What the files declare.  parent[m] is the type m is nested in, or Null; *)
(* entries are the types protoc generates, each for a repeated field that  *)
(* is a map, with the type of their values, which is no map.               *)
(***************************************************************************)
SchemaType ==
  [parent : [Message -> Message \cup {Null}],
   entries : SUBSET Message,
   value : [Message -> Scalar \cup Message],
   field : [Field -> [owner : Message, repeated : BOOLEAN,
                      type : Scalar \cup Message]],
   method : [Method -> [input : Message, output : Message]]]

ASSUME DocAssumption ==
  /\ Null \notin Message
  /\ Message \cap Scalar = {}
  /\ Schemas \subseteq SchemaType
  /\ \A s \in Schemas :
       /\ \A m \in s.entries : s.parent[m] # Null /\ s.value[m] \notin s.entries
       /\ \A f \in Field : s.field[f].type \in s.entries => s.field[f].repeated

VARIABLES
  schema,      \* the files
  pass,        \* "types", "fields", "paths" or "done"
  todo,        \* what the current pass still has to visit
  defined,     \* keys of typeLookupTable and typeDescriptorLookupTable
  properties,  \* the properties put so far, of all types, by field
  paths        \* pathItemMap: the $refs of a method's parameter and response

vars == <<schema, pass, todo, defined, properties, paths>>

-----------------------------------------------------------------------------
\* FieldTypeEnum.getByFieldType; a name stands for its type and format.
FieldTypeEnum(t) ==
  CASE t \in Message -> "OBJECT"
    [] t \in {"INT64", "UINT64", "FIXED64", "SINT64"} -> "INT64"
    [] t \in {"INT32", "UINT32", "FIXED32", "SINT32"} -> "INT32"
    [] t \in {"FLOAT", "DOUBLE", "STRING", "ENUM"} -> t
    [] t = "BOOL" -> "BOOLEAN"
    [] t = "BYTES" -> "BYTE"
    [] OTHER -> "UNKNOWN"

FieldTypes == {"OBJECT", "INT64", "INT32", "FLOAT", "DOUBLE", "STRING", "ENUM",
               "BOOLEAN", "BYTE", "UNKNOWN"}

\* A FieldProperty: of a field, of the items of an array, or of the values of a map
\* (additionalProperties).  An object that is neither item nor map has a $ref and no type.
Property == [shape : {"plain", "array", "map"}, type : FieldTypes \cup {Null},
             ref : Message \cup {Null}]

\* A fault: the $ref of any type, entered or not.
FindRefAlways(t) == t

FindRef(t) == IF t \in defined THEN t ELSE Null

\* A fault: a $ref for whatever type.
DescribeAllRefs(shape, t) ==
  [shape |-> shape,
   type |-> IF t \in Message /\ shape # "array" THEN Null ELSE FieldTypeEnum(t),
   ref |-> t]

Describe(shape, t) ==
  [shape |-> shape,
   type |-> IF t \in Message /\ shape # "array" THEN Null ELSE FieldTypeEnum(t),
   ref |-> IF t \in Message THEN FindRef(t) ELSE Null]

\* parseFieldProperty: a map is a repeated field of an entry type.
ParseFieldProperty(f) ==
  CASE f.repeated /\ f.type \in schema.entries -> Describe("map", schema.value[f.type])
    [] f.repeated /\ f.type \notin schema.entries -> Describe("array", f.type)
    [] OTHER -> Describe("plain", f.type)

FieldsOf(m) == {f \in Field : schema.field[f].owner = m}

TopLevel(s) == {m \in Message : s.parent[m] = Null}

-----------------------------------------------------------------------------
TypeOK ==
  /\ schema \in SchemaType
  /\ pass \in {"types", "fields", "paths", "done"}
  /\ todo \subseteq Message \cup Method
  /\ defined \subseteq Message
  /\ \E D \in SUBSET Field : properties \in [D -> Property]
  /\ \E D \in SUBSET Method :
       paths \in [D -> [input : Message \cup {Null}, output : Message \cup {Null}]]

Init ==
  /\ schema \in Schemas
  /\ pass = "types" /\ todo = TopLevel(schema)
  /\ defined = {}
  /\ properties = [f \in {} |-> Null] /\ paths = [m \in {} |-> Null]

\* A fault: nested types are left out.
ParseModelTypesFlat(m) ==
  /\ pass = "types" /\ m \in todo
  /\ defined' = defined \cup {m}
  /\ todo' = todo \ {m}
  /\ UNCHANGED <<schema, pass, properties, paths>>

\* parseModelTypes: a top-level type and the types directly in it, entries excepted.
ParseModelTypes(m) ==
  /\ pass = "types" /\ m \in todo
  /\ defined' = defined \cup {m}
                  \cup {n \in Message : schema.parent[n] = m /\ n \notin schema.entries}
  /\ todo' = todo \ {m}
  /\ UNCHANGED <<schema, pass, properties, paths>>

\* processMessageFields, for one type of the table.
ProcessMessageFields(m) ==
  /\ pass = "fields" /\ m \in todo
  /\ properties' = [f \in DOMAIN properties \cup FieldsOf(m) |->
                      IF f \in FieldsOf(m) THEN ParseFieldProperty(schema.field[f])
                                           ELSE properties[f]]
  /\ todo' = todo \ {m}
  /\ UNCHANGED <<schema, pass, defined, paths>>

\* parsePaths, for one method of one service.
ParsePaths(m) ==
  /\ pass = "paths" /\ m \in todo
  /\ paths' = [k \in DOMAIN paths \cup {m} |->
                 IF k = m THEN [input |-> FindRef(schema.method[m].input),
                                output |-> FindRef(schema.method[m].output)]
                          ELSE paths[k]]
  /\ todo' = todo \ {m}
  /\ UNCHANGED <<schema, pass, defined, properties>>

\* parseDefinition: one pass after the other.
NextPass ==
  /\ todo = {}
  /\ \/ pass = "types" /\ pass' = "fields" /\ todo' = defined
     \/ pass = "fields" /\ pass' = "paths" /\ todo' = Method
     \/ pass = "paths" /\ pass' = "done" /\ todo' = {}
  /\ UNCHANGED <<schema, defined, properties, paths>>

Next ==
  \/ \E m \in Message : ParseModelTypes(m) \/ ProcessMessageFields(m)
  \/ \E m \in Method : ParsePaths(m)
  \/ NextPass

Spec == Init /\ [][Next]_vars

-----------------------------------------------------------------------------
(***************************************************************************)
(* Properties.                                                             *)
(***************************************************************************)

\* Types that a document describes: neither generated for a map nor nested in a
\* type that is nested itself.
Described(m) ==
  /\ m \notin schema.entries
  /\ schema.parent[m] # Null => schema.parent[schema.parent[m]] = Null

\* A $ref of a property or a path always leads to a definition.
NoDangling ==
  /\ \A f \in DOMAIN properties : properties[f].ref \in defined \cup {Null}
  /\ \A m \in DOMAIN paths : {paths[m].input, paths[m].output} \subseteq defined \cup {Null}

\* The type whose objects a field carries: the values', if it is a map.
Carried(f) ==
  LET t == schema.field[f].type
  IN  IF t \in schema.entries THEN schema.value[t] ELSE t

\* A finished document defines exactly the described types, has a property for
\* every field of theirs, and a path for every method, and whatever of these
\* has objects of a described type refers to it, in whatever order tables are
\* gone through.
RefsComplete ==
  pass = "done" =>
    /\ defined = {m \in Message : Described(m)}
    /\ DOMAIN properties = {f \in Field : Described(schema.field[f].owner)}
    /\ DOMAIN paths = Method
    /\ \A f \in DOMAIN properties :
         Carried(f) \in Message /\ Described(Carried(f)) => properties[f].ref = Carried(f)
    /\ \A m \in Method :
         LET method == schema.method[m] IN
         /\ Described(method.input) => paths[m].input = method.input
         /\ Described(method.output) => paths[m].output = method.output

\* The comment on processMessageFields: an object type is expressed by a $ref.
ObjectsAreRefs ==
  pass = "done" =>
    \A f \in DOMAIN properties : Carried(f) \in Message => properties[f].ref # Null

-----------------------------------------------------------------------------
(***************************************************************************)
(* The invariant behind them: what each pass has done so far.              *)
(***************************************************************************)

\* What is entered once the top-level types T have been visited.
Entered(T) ==
  T \cup {n \in Message : schema.parent[n] \in T /\ n \notin schema.entries}

Invariant ==
  /\ pass = "types" => /\ todo \subseteq TopLevel(schema)
                       /\ defined = Entered(TopLevel(schema) \ todo)
                       /\ DOMAIN properties = {}
  /\ pass # "types" => defined = {m \in Message : Described(m)}
  /\ pass = "fields" => /\ todo \subseteq defined
                        /\ DOMAIN properties = {f \in Field : schema.field[f].owner \in defined \ todo}
  /\ pass \in {"paths", "done"} =>
       DOMAIN properties = {f \in Field : Described(schema.field[f].owner)}
  /\ DOMAIN paths = IF pass = "paths" THEN Method \ todo
                    ELSE IF pass = "done" THEN Method ELSE {}
  /\ \A f \in DOMAIN properties : properties[f] = ParseFieldProperty(schema.field[f])
  /\ \A m \in DOMAIN paths : paths[m] = [input |-> FindRef(schema.method[m].input),
                                         output |-> FindRef(schema.method[m].output)]
=============================================================================
