\* A type nested in a nested type has no definition to refer to.
CONSTANTS
  a = a
  b = b
  c = c
  d = d
  f1 = f1
  f2 = f2
  Greeter = Greeter
  MyGreeter = MyGreeter
  demo = demo
  Greet = Greet
  Message = {a, b, c, d}
  Field = {f1, f2}
  Method <- Declared
  Part = {Greeter, MyGreeter, demo, Greet}
  EndsWith <- Endings
  Blocked <- BlockedOne
  Served <- ServedNames
  Typed <- TypedNames
  Scalar = {"SINT64", "SFIXED32", "ENUM"}
  Null = Null
  Schemas <- AnySchema
SPECIFICATION CallSpec
INVARIANT ObjectsAreRefs
CHECK_DEADLOCK FALSE
