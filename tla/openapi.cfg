\* Documents of files with types nested, mapped, repeated and recursive, the pages
\* of their services and the calls made from them.
CONSTANTS
  a = a
  b = b
  c = c
  d = d
  f1 = f1
  f2 = f2
  Greeter = Greeter
  MyGreeter = MyGreeter
  demo = demo
  Greet = Greet
  Message = {a, b, c, d}
  Field = {f1, f2}
  Method <- Declared
  Part = {Greeter, MyGreeter, demo, Greet}
  EndsWith <- Endings
  Blocked <- BlockedOne
  Served <- ServedNames
  Typed <- TypedNames
  Scalar = {"SINT64", "SFIXED32", "ENUM"}
  Null = Null
  Schemas <- AnySchema
SPECIFICATION CallSpec
INVARIANTS TypeOK NoDangling RefsComplete PageComplete CallsReach
CHECK_DEADLOCK FALSE
