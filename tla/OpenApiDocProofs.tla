--------------------------- MODULE OpenApiDocProofs ---------------------------
(***************************************************************************)
(* Theorems about documents, for any files: any number of types, nested    *)
(* and referring to each other in any way.                                 *)
(***************************************************************************)
EXTENDS OpenApiDoc, TLAPS

Sound == TypeOK /\ schema \in Schemas

-----------------------------------------------------------------------------
(***************************************************************************)
(* Types.                                                                  *)
(***************************************************************************)

\* What FieldTypeEnum and a description return.
LEMMA FieldTypeTyping ==
  ASSUME NEW t
  PROVE  FieldTypeEnum(t) \in FieldTypes
BY DEF FieldTypeEnum, FieldTypes

LEMMA DescribeTyping ==
  ASSUME NEW shape \in {"plain", "array", "map"}, NEW t, defined \subseteq Message
  PROVE  Describe(shape, t) \in Property
<1>1. FieldTypeEnum(t) \in FieldTypes
  BY FieldTypeTyping
<1>2. FindRef(t) \in Message \cup {Null}
  BY DEF FindRef
<1> QED BY ONLY <1>1, <1>2, shape \in {"plain", "array", "map"} DEF Describe, Property

LEMMA ParseTyping ==
  ASSUME NEW f, f.repeated \in BOOLEAN, defined \subseteq Message
  PROVE  ParseFieldProperty(f) \in Property
<1>1. CASE f.repeated /\ f.type \in schema.entries
  BY <1>1, DescribeTyping DEF ParseFieldProperty
<1>2. CASE f.repeated /\ f.type \notin schema.entries
  BY <1>2, DescribeTyping DEF ParseFieldProperty
<1>3. CASE ~f.repeated
  BY <1>3, DescribeTyping DEF ParseFieldProperty
<1> QED BY <1>1, <1>2, <1>3

LEMMA SoundInit ==
  Init => Sound
<1> SUFFICES ASSUME Init PROVE Sound
  OBVIOUS
<1>1. schema \in Schemas /\ schema \in SchemaType
  BY DocAssumption DEF Init
<1>2. properties \in [{} -> Property]
  BY DEF Init
<1>3. paths \in [{} -> [input : Message \cup {Null}, output : Message \cup {Null}]]
  BY DEF Init
<1>4. todo \subseteq Message \cup Method /\ defined \subseteq Message /\ pass = "types"
  BY DEF Init, TopLevel
<1>5. {} \in SUBSET Field /\ {} \in SUBSET Method
  OBVIOUS
<1> QED BY <1>1, <1>2, <1>3, <1>4, <1>5 DEF Sound, TypeOK

LEMMA SoundNext ==
  ASSUME Sound, [Next]_vars
  PROVE  Sound'
<1>1. ASSUME NEW m \in Message, ParseModelTypes(m)
      PROVE  Sound'
  BY <1>1 DEF ParseModelTypes, Sound, TypeOK
<1>2. ASSUME NEW m \in Message, ProcessMessageFields(m)
      PROVE  Sound'
  <2>1. PICK D \in SUBSET Field : properties \in [D -> Property]
    BY DEF Sound, TypeOK
  <2>2. ASSUME NEW f \in FieldsOf(m)
        PROVE  ParseFieldProperty(schema.field[f]) \in Property
    <3>1. schema.field[f].repeated \in BOOLEAN
      BY <2>2 DEF Sound, TypeOK, SchemaType, FieldsOf
    <3> QED BY <3>1, ParseTyping DEF Sound, TypeOK
  <2>3. properties' \in [D \cup FieldsOf(m) -> Property]
    BY <1>2, <2>1, <2>2 DEF ProcessMessageFields
  <2>4. D \cup FieldsOf(m) \in SUBSET Field
    BY DEF FieldsOf
  <2>5. UNCHANGED <<schema, pass, defined, paths>> /\ todo' \subseteq Message \cup Method
    BY <1>2 DEF ProcessMessageFields, Sound, TypeOK
  <2> QED BY <2>3, <2>4, <2>5 DEF Sound, TypeOK
<1>3. ASSUME NEW m \in Method, ParsePaths(m)
      PROVE  Sound'
  <2> DEFINE Refs == [input : Message \cup {Null}, output : Message \cup {Null}]
  <2>1. PICK D \in SUBSET Method : paths \in [D -> Refs]
    BY DEF Sound, TypeOK
  <2>2. [input |-> FindRef(schema.method[m].input),
         output |-> FindRef(schema.method[m].output)] \in Refs
    BY DEF FindRef, Sound, TypeOK
  <2>3. paths' \in [D \cup {m} -> Refs]
    BY <1>3, <2>1, <2>2 DEF ParsePaths
  <2>4. D \cup {m} \in SUBSET Method
    OBVIOUS
  <2>5. UNCHANGED <<schema, pass, defined, properties>> /\ todo' \subseteq Message \cup Method
    BY <1>3 DEF ParsePaths, Sound, TypeOK
  <2> QED BY <2>3, <2>4, <2>5 DEF Sound, TypeOK
<1>4. CASE NextPass
  <2>1. UNCHANGED <<schema, defined, properties, paths>>
        /\ pass' \in {"fields", "paths", "done"} /\ todo' \subseteq Message \cup Method
    BY <1>4 DEF NextPass, Sound, TypeOK
  <2> QED BY <2>1 DEF Sound, TypeOK
<1>5. CASE UNCHANGED vars
  BY <1>5 DEF vars, Sound, TypeOK
<1> QED BY <1>1, <1>2, <1>3, <1>4, <1>5 DEF Next

LEMMA AlwaysSound ==
  Spec => []Sound
<1>1. Sound /\ [Next]_vars => Sound'
  BY SoundNext
<1> QED BY SoundInit, <1>1, PTL DEF Spec

\* Types of all variables of a document under construction.
THEOREM Typing ==
  Spec => []TypeOK
<1>1. Sound => TypeOK
  BY DEF Sound
<1> QED BY AlwaysSound, <1>1, PTL

-----------------------------------------------------------------------------
(***************************************************************************)
(* What each pass has done so far.                                         *)
(***************************************************************************)

\* Entering all top-level types enters the described types and no others.
LEMMA AllEntered ==
  ASSUME schema \in Schemas
  PROVE  Entered(TopLevel(schema)) = {m \in Message : Described(m)}
<1>1. \A m \in schema.entries : schema.parent[m] # Null
  BY DocAssumption
<1>2. \A m \in Message : schema.parent[m] \in Message \cup {Null}
  BY DocAssumption DEF SchemaType
<1>3. schema.entries \subseteq Message
  BY DocAssumption DEF SchemaType
<1> QED
  BY <1>1, <1>2, <1>3, DocAssumption DEF Entered, TopLevel, Described

\* One more top-level type, and what is directly in it.
LEMMA OneEntered ==
  ASSUME NEW T, NEW m \in Message
  PROVE  Entered(T \cup {m}) =
           Entered(T) \cup {m}
             \cup {n \in Message : schema.parent[n] = m /\ n \notin schema.entries}
BY DEF Entered

LEMMA InvariantInit ==
  Init => Invariant
<1> SUFFICES ASSUME Init PROVE Invariant
  OBVIOUS
<1>1. Entered(TopLevel(schema) \ todo) = {}
  BY DEF Init, Entered
<1>2. pass = "types" /\ todo = TopLevel(schema) /\ defined = {}
      /\ DOMAIN properties = {} /\ DOMAIN paths = {}
  BY DEF Init
<1> QED BY <1>1, <1>2 DEF Invariant

\* The table is complete before anything refers to it, so a description does not
\* depend on when it is made.
LEMMA InvariantNext ==
  ASSUME Sound, Invariant, [Next]_vars
  PROVE  Invariant'
<1>1. ASSUME NEW m \in Message, ParseModelTypes(m)
      PROVE  Invariant'
  <2>1. /\ pass = "types" /\ m \in todo /\ todo \subseteq TopLevel(schema)
        /\ todo' = todo \ {m}
        /\ UNCHANGED <<schema, pass, properties, paths>>
        /\ DOMAIN properties = {} /\ DOMAIN paths = {}
    BY <1>1 DEF ParseModelTypes, Invariant
  <2>2. TopLevel(schema) \ todo' = (TopLevel(schema) \ todo) \cup {m}
    BY <2>1
  <2>3. defined' = Entered(TopLevel(schema) \ todo')
    BY <1>1, <2>2, OneEntered DEF ParseModelTypes, Invariant
  <2>4. Entered(TopLevel(schema) \ todo') = Entered(TopLevel(schema) \ todo)'
    BY <2>1 DEF Entered, TopLevel
  <2>5. todo' \subseteq TopLevel(schema')
    BY <2>1
  <2> QED BY <2>1, <2>3, <2>4, <2>5 DEF Invariant
<1>2. ASSUME NEW m \in Message, ProcessMessageFields(m)
      PROVE  Invariant'
  <2>1. /\ pass = "fields" /\ m \in todo /\ todo' = todo \ {m}
        /\ UNCHANGED <<schema, pass, defined, paths>>
    BY <1>2 DEF ProcessMessageFields
  <2>2. /\ defined = {n \in Message : Described(n)}
        /\ todo \subseteq defined
        /\ DOMAIN properties = {f \in Field : schema.field[f].owner \in defined \ todo}
        /\ DOMAIN paths = {}
    BY <2>1 DEF Invariant
  <2>3. /\ DOMAIN properties' = DOMAIN properties \cup FieldsOf(m)
        /\ \A f \in DOMAIN properties' :
             properties'[f] = IF f \in FieldsOf(m) THEN ParseFieldProperty(schema.field[f])
                                                   ELSE properties[f]
    BY <1>2 DEF ProcessMessageFields
  <2>4. DOMAIN properties' = {f \in Field : schema.field[f].owner \in defined \ todo'}
    BY <2>1, <2>2, <2>3 DEF FieldsOf
  <2>5. \A f \in DOMAIN properties' : properties'[f] = ParseFieldProperty(schema.field[f])
    BY <2>3 DEF Invariant
  <2>6. \A f : ParseFieldProperty(f) = ParseFieldProperty(f)'
    BY <2>1 DEF ParseFieldProperty, Describe, FindRef
  <2>7. {n \in Message : Described(n)} = {n \in Message : Described(n)}'
    BY <2>1 DEF Described
  <2> QED BY <2>1, <2>2, <2>4, <2>5, <2>6, <2>7 DEF Invariant
<1>3. ASSUME NEW m \in Method, ParsePaths(m)
      PROVE  Invariant'
  <2>1. /\ pass = "paths" /\ m \in todo /\ todo' = todo \ {m}
        /\ UNCHANGED <<schema, pass, defined, properties>>
    BY <1>3 DEF ParsePaths
  <2> DEFINE Refs(k) == [input |-> FindRef(schema.method[k].input),
                         output |-> FindRef(schema.method[k].output)]
  <2>2. /\ DOMAIN paths' = DOMAIN paths \cup {m}
        /\ \A k \in DOMAIN paths' : paths'[k] = IF k = m THEN Refs(m) ELSE paths[k]
    BY <1>3 DEF ParsePaths
  <2>3. DOMAIN paths' = Method \ todo'
    BY <2>1, <2>2 DEF Invariant
  <2>4. \A k \in DOMAIN paths' : paths'[k] = Refs(k)
    BY <2>2 DEF Invariant
  <2>5. \A k : Refs(k) = [input |-> FindRef(schema.method[k].input),
                          output |-> FindRef(schema.method[k].output)]'
    BY <2>1 DEF FindRef
  <2>6. /\ \A f : ParseFieldProperty(f) = ParseFieldProperty(f)'
        /\ \A n : Described(n) = Described(n)'
    BY <2>1 DEF ParseFieldProperty, Describe, FindRef, Described
  <2> HIDE DEF Refs
  <2>7. /\ defined = {n \in Message : Described(n)}
        /\ DOMAIN properties = {f \in Field : Described(schema.field[f].owner)}
        /\ \A f \in DOMAIN properties : properties[f] = ParseFieldProperty(schema.field[f])
    BY <2>1 DEF Invariant
  <2> QED BY <2>1, <2>3, <2>4, <2>5, <2>6, <2>7 DEF Invariant
<1>4. CASE NextPass
  <2>1. todo = {} /\ UNCHANGED <<schema, defined, properties, paths>>
    BY <1>4 DEF NextPass
  <2>2. /\ \A f : ParseFieldProperty(f) = ParseFieldProperty(f)'
        /\ \A n : Described(n) = Described(n)'
        /\ \A n : FindRef(n) = FindRef(n)'
    BY <2>1 DEF ParseFieldProperty, Describe, FindRef, Described
  <2>3. CASE pass = "types" /\ pass' = "fields" /\ todo' = defined
    <3>1. defined = {n \in Message : Described(n)}
      BY <2>1, <2>3, AllEntered DEF Invariant, Sound
    <3>2. DOMAIN properties = {} /\ DOMAIN paths = {}
      BY <2>3 DEF Invariant
    <3> QED BY <2>1, <2>2, <2>3, <3>1, <3>2 DEF Invariant
  <2>4. CASE pass = "fields" /\ pass' = "paths" /\ todo' = Method
    <3>1. /\ defined = {n \in Message : Described(n)}
          /\ DOMAIN properties = {f \in Field : schema.field[f].owner \in defined}
          /\ DOMAIN paths = {}
          /\ \A f \in DOMAIN properties : properties[f] = ParseFieldProperty(schema.field[f])
      BY <2>1, <2>4 DEF Invariant
    <3>2. \A f \in Field : schema.field[f].owner \in Message
      BY DEF Sound, TypeOK, SchemaType
    <3>3. DOMAIN properties = {f \in Field : Described(schema.field[f].owner)}
      BY <3>1, <3>2
    <3> QED BY <2>1, <2>2, <2>4, <3>1, <3>3 DEF Invariant
  <2>5. CASE pass = "paths" /\ pass' = "done" /\ todo' = {}
    BY <2>1, <2>2, <2>5 DEF Invariant
  <2> QED BY <1>4, <2>3, <2>4, <2>5 DEF NextPass
<1>5. CASE UNCHANGED vars
  <2>1. UNCHANGED <<schema, pass, todo, defined, properties, paths>>
    BY <1>5 DEF vars
  <2>2. /\ \A f : ParseFieldProperty(f) = ParseFieldProperty(f)'
        /\ \A n : Described(n) = Described(n)'
        /\ \A n : FindRef(n) = FindRef(n)'
    BY <2>1 DEF ParseFieldProperty, Describe, FindRef, Described
  <2>3. TopLevel(schema)' = TopLevel(schema)
    BY <2>1
  <2>4. Entered(TopLevel(schema) \ todo)' = Entered(TopLevel(schema) \ todo)
    BY <2>1, <2>3 DEF Entered
  <2> QED
    BY <2>1, <2>2, <2>3, <2>4 DEF Invariant
<1> QED BY <1>1, <1>2, <1>3, <1>4, <1>5 DEF Next

LEMMA AlwaysInvariant ==
  Spec => [](Sound /\ Invariant)
<1>1. Sound /\ Invariant /\ [Next]_vars => Invariant'
  BY InvariantNext
<1> QED BY AlwaysSound, InvariantInit, <1>1, PTL DEF Spec

\* A $ref always leads to a definition, at every moment of the construction.
THEOREM RefsLeadSomewhere ==
  Spec => []NoDangling
<1>1. Sound /\ Invariant => NoDangling
  <2> SUFFICES ASSUME Sound, Invariant PROVE NoDangling
    OBVIOUS
  <2>1. \A t : FindRef(t) \in defined \cup {Null}
    BY DEF FindRef
  <2>2. \A shape, t : Describe(shape, t).ref \in defined \cup {Null}
    BY <2>1 DEF Describe
  <2>3. \A f : ParseFieldProperty(f).ref \in defined \cup {Null}
    BY <2>2 DEF ParseFieldProperty
  <2>4. \A f \in DOMAIN properties : properties[f] = ParseFieldProperty(schema.field[f])
    BY DEF Invariant
  <2>5. \A m \in DOMAIN paths : paths[m] = [input |-> FindRef(schema.method[m].input),
                                            output |-> FindRef(schema.method[m].output)]
    BY DEF Invariant
  <2>6. \A f \in DOMAIN properties : properties[f].ref \in defined \cup {Null}
    BY <2>3, <2>4
  <2>7. \A m \in DOMAIN paths : {paths[m].input, paths[m].output} \subseteq defined \cup {Null}
    BY <2>1, <2>5
  <2> QED BY <2>6, <2>7 DEF NoDangling
<1> QED BY AlwaysInvariant, <1>1, PTL

\* A description refers to the type carried, if that is in the table.
LEMMA CarriedRef ==
  ASSUME Sound, NEW f \in Field, Carried(f) \in Message, Carried(f) \in defined
  PROVE  ParseFieldProperty(schema.field[f]).ref = Carried(f)
<1>1. \A shape : Describe(shape, Carried(f)).ref = Carried(f)
  BY DEF Describe, FindRef
<1>2. schema.field[f].repeated \in BOOLEAN
  BY DEF Sound, TypeOK, SchemaType
<1>3. CASE schema.field[f].type \in schema.entries
  BY <1>1, <1>3, DocAssumption DEF Sound, Carried, ParseFieldProperty
<1>4. CASE schema.field[f].type \notin schema.entries /\ schema.field[f].repeated
  BY <1>1, <1>4 DEF Carried, ParseFieldProperty
<1>5. CASE schema.field[f].type \notin schema.entries /\ ~schema.field[f].repeated
  BY <1>1, <1>5 DEF Carried, ParseFieldProperty
<1> QED BY <1>2, <1>3, <1>4, <1>5

\* A finished document is complete up to the types it does not describe, for any
\* files and any order in which the tables are gone through.
THEOREM DocumentIsComplete ==
  Spec => []RefsComplete
<1>1. Sound /\ Invariant => RefsComplete
  <2> SUFFICES ASSUME Sound, Invariant, pass = "done" PROVE RefsComplete
    BY DEF RefsComplete
  <2>1. /\ defined = {m \in Message : Described(m)}
        /\ DOMAIN properties = {f \in Field : Described(schema.field[f].owner)}
        /\ DOMAIN paths = Method
        /\ \A f \in DOMAIN properties : properties[f] = ParseFieldProperty(schema.field[f])
        /\ \A m \in DOMAIN paths : paths[m] = [input |-> FindRef(schema.method[m].input),
                                               output |-> FindRef(schema.method[m].output)]
    BY DEF Invariant
  <2>2. ASSUME NEW f \in DOMAIN properties, Carried(f) \in Message, Described(Carried(f))
        PROVE  properties[f].ref = Carried(f)
    <3>1. f \in Field /\ Carried(f) \in defined
      BY <2>1, <2>2
    <3>2. ParseFieldProperty(schema.field[f]).ref = Carried(f)
      BY <2>2, <3>1, CarriedRef
    <3> QED BY <2>1, <3>2
  <2>3. ASSUME NEW m \in Method
        PROVE  /\ Described(schema.method[m].input) => paths[m].input = schema.method[m].input
               /\ Described(schema.method[m].output) => paths[m].output = schema.method[m].output
    <3>1. schema.method[m].input \in Message /\ schema.method[m].output \in Message
      BY DEF Sound, TypeOK, SchemaType
    <3>2. \A n \in Message : Described(n) => FindRef(n) = n
      BY <2>1 DEF FindRef
    <3> QED BY <2>1, <3>1, <3>2
  <2> QED BY <2>1, <2>2, <2>3 DEF RefsComplete
<1> QED BY AlwaysInvariant, <1>1, PTL
=============================================================================
