------------------------ MODULE DocumentedCallsProofs ------------------------
(***************************************************************************)
(* Theorems about pages and the calls made from them, for any files and    *)
(* any names: parts that end alike, and services called like packages.     *)
(***************************************************************************)
EXTENDS DocumentedCalls, OpenApiDocProofs, SequenceTheorems

-----------------------------------------------------------------------------
(***************************************************************************)
(* Names.                                                                  *)
(***************************************************************************)

\* The parts of the names of a method and its service.
LEMMA NameParts ==
  ASSUME NEW d \in Method
  PROVE  LET s == FullServiceName(d)
             n == FullName(d)
         IN  /\ d.package \in Seq(Part) /\ d.service \in Part /\ d.method \in Part
             /\ s \in Seq(Part) /\ Len(s) = Len(d.package) + 1
             /\ n \in Seq(Part) /\ Len(n) = Len(s) + 1
             /\ \A i \in 1..Len(s) : n[i] = s[i]
             /\ \A i \in 1..Len(d.package) : n[i] = d.package[i]
             /\ n[Len(n) - 1] = d.service /\ n[Len(n)] = d.method
<1> DEFINE s == FullServiceName(d)
           n == FullName(d)
<1>1. d.package \in Seq(Part) /\ d.service \in Part /\ d.method \in Part
  BY NamesAssumption
<1>2. /\ s \in Seq(Part) /\ Len(s) = Len(d.package) + 1 /\ s[Len(s)] = d.service
      /\ \A i \in 1..Len(d.package) : s[i] = d.package[i]
  BY <1>1 DEF FullServiceName
<1>3. /\ n \in Seq(Part) /\ Len(n) = Len(s) + 1 /\ n[Len(n)] = d.method
      /\ \A i \in 1..Len(s) : n[i] = s[i]
  BY <1>1, <1>2 DEF FullName
<1> QED BY <1>1, <1>2, <1>3

\* Taking the name of a method apart gives the method.
LEMMA ParseOfName ==
  ASSUME NEW d \in Method
  PROVE  ParseToMethodDefinition(FullName(d)) = d
<1> DEFINE n == FullName(d)
           p == SubSeq(n, 1, Len(n) - 2)
<1>1. /\ n \in Seq(Part) /\ Len(n) - 2 = Len(d.package) /\ d.package \in Seq(Part)
      /\ n[Len(n) - 1] = d.service /\ n[Len(n)] = d.method
      /\ \A i \in 1..Len(d.package) : n[i] = d.package[i]
  BY NameParts
<1>2. p = d.package
  <2>1. Len(d.package) \in Nat /\ Len(n) - 2 \in Int
    BY <1>1
  <2>2. \A i \in 1..(Len(n) - 2) : n[i] \in Part
    BY <1>1
  <2>3. /\ p \in Seq(Part) /\ Len(p) = Len(d.package)
        /\ \A i \in 1..Len(p) : p[i] = n[i]
    BY <1>1, <2>1, <2>2, SubSeqProperties
  <2>4. \A i \in 1..Len(p) : p[i] = d.package[i]
    BY <1>1, <2>3
  <2> HIDE DEF p
  <2> QED BY <1>1, <2>3, <2>4, SeqEqual
<1>3. d = [package |-> d.package, service |-> d.service, method |-> d.method]
  BY NamesAssumption
<1> QED BY <1>1, <1>2, <1>3 DEF ParseToMethodDefinition

\* Putting what a name was taken apart into together gives the name.
LEMMA NameOfParse ==
  ASSUME NEW n \in Seq(Part), Len(n) > 1
  PROVE  FullName(ParseToMethodDefinition(n)) = n
<1>1. /\ 1 \in 1..Len(n) /\ Len(n) - 1 \in 1..Len(n) /\ Len(n) \in 1..Len(n)
      /\ Len(n) - 1 - 1 = Len(n) - 2
  OBVIOUS
<1>2. SubSeq(n, 1, Len(n) - 1) = SubSeq(n, 1, Len(n) - 2) \o <<n[Len(n) - 1]>>
  BY <1>1, SubSeqRecursiveSecond
<1>3. SubSeq(n, 1, Len(n)) = SubSeq(n, 1, Len(n) - 1) \o <<n[Len(n)]>>
  BY <1>1, SubSeqRecursiveSecond
<1>4. SubSeq(n, 1, Len(n)) = n
  BY SubSeqFull
<1> QED
  BY <1>2, <1>3, <1>4 DEF FullName, FullServiceName, ParseToMethodDefinition

\* The name of a method contains its service's, followed by a dot.
LEMMA ContainsService ==
  ASSUME NEW d \in Method
  PROVE  Contains(FullName(d), FullServiceName(d))
<1> DEFINE s == FullServiceName(d)
           n == FullName(d)
<1>1. /\ n \in Seq(Part) /\ s \in Seq(Part)
      /\ Len(n) - Len(s) = 1 /\ Len(s) \in Nat \ {0}
      /\ \A j \in 1..Len(s) : n[j] = s[j]
  BY NameParts
<1>2. 1 \in 1..(Len(n) - Len(s)) /\ s[1] \in Part /\ n[1] = s[1]
  BY <1>1
<1>3. <<n[1], s[1]>> \in EndsWith
  BY <1>2, NamesAssumption
<1>4. \A j \in 2..Len(s) : n[1 + j - 1] = s[j]
  BY <1>1
<1> HIDE DEF s, n
<1>5. Contains(n, s)
  BY <1>2, <1>3, <1>4 DEF Contains
<1> QED BY <1>5 DEF s, n

\* Any call reaches the method it names, if it reaches one.
LEMMA ReachedIsNamed ==
  ASSUME NEW n \in Seq(Part), NEW endpoint, Reached(n, endpoint) # Null
  PROVE  Reached(n, endpoint) \in Method /\ FullName(Reached(n, endpoint)) = n
<1> DEFINE d == ParseToMethodDefinition(n)
           m == Reached(n, endpoint)
<1>1. Len(n) > 1 /\ m = ResolveServiceMethod(d) /\ m # Null
  BY DEF Reached
<1>2. m \in Method /\ m.package = d.package /\ m.service = d.service /\ m.method = d.method
  BY <1>1 DEF ResolveServiceMethod
<1>3. FullName(m) = FullName(d)
  BY <1>2 DEF FullName, FullServiceName
<1> QED BY <1>1, <1>2, <1>3, NameOfParse

\* What a call of a method's own name reaches.
LEMMA ReachedByName ==
  ASSUME NEW d \in Method, NEW endpoint \in BOOLEAN
  PROVE  Reached(FullName(d), endpoint) =
           IF /\ FullServiceName(d) \in Served
              /\ endpoint \/ FullServiceName(d) \notin Blocked
             THEN d ELSE Null
<1>1. Len(FullName(d)) > 1
  BY NameParts
<1>2. ParseToMethodDefinition(FullName(d)) = d
  BY ParseOfName
<1>3. FullServiceName(d) \in Registered <=> FullServiceName(d) \notin Blocked
  BY DEF Registered, Services
<1>4. ResolveServiceMethod(d) = d
  <2>1. \A m \in Method :
          m.package = d.package /\ m.service = d.service /\ m.method = d.method => m = d
    BY NamesAssumption
  <2> QED BY <2>1 DEF ResolveServiceMethod
<1> QED BY <1>1, <1>2, <1>3, <1>4 DEF Reached

-----------------------------------------------------------------------------
(***************************************************************************)
(* Pages and calls.                                                        *)
(***************************************************************************)

\* A page stays as it was made: the document is finished.
PageAndCall ==
  /\ viewed = Null => shown = {}
  /\ viewed # Null =>
       /\ pass = "done" /\ viewed \in Services
       /\ shown = {FullName(d) : d \in {m \in DOMAIN paths : Contains(FullName(m), viewed)}}
  /\ call # Null =>
       /\ call.name \in Seq(Part) /\ call.endpoint \in BOOLEAN
       /\ call.reached = Reached(call.name, call.endpoint)

\* What is done with a finished document does not change it.
THEOREM CallsLeaveDocuments ==
  CallSpec => Spec
<1>1. CallInit => Init
  BY DEF CallInit
<1>2. [CallNext]_callVars => [Next]_vars
  BY DEF CallNext, View, Call, callVars
<1> QED BY <1>1, <1>2, PTL DEF CallSpec, Spec

LEMMA AlwaysDocument ==
  CallSpec => [](Sound /\ Invariant)
BY CallsLeaveDocuments, AlwaysInvariant, AlwaysSound, PTL

\* A finished document has been finished.
LEMMA DoneIsDone ==
  ASSUME pass = "done", [Next]_vars
  PROVE  UNCHANGED <<pass, paths>>
BY DEF Next, ParseModelTypes, ProcessMessageFields, ParsePaths, NextPass, vars

\* Names on pages are names.
LEMMA ShownIsNamed ==
  ASSUME Sound, PageAndCall, NEW n \in shown
  PROVE  \E d \in Method : n = FullName(d) /\ n \in Seq(Part)
<1>1. DOMAIN paths \subseteq Method
  BY DEF Sound, TypeOK
<1>2. PICK d \in DOMAIN paths : n = FullName(d)
  BY DEF PageAndCall
<1> QED BY <1>1, <1>2, NameParts

LEMMA PageAndCallNext ==
  ASSUME Sound, PageAndCall, [CallNext]_callVars
  PROVE  PageAndCall'
<1>1. CASE Next /\ UNCHANGED <<viewed, shown, call>>
  BY <1>1, DoneIsDone DEF PageAndCall
<1>2. ASSUME NEW s \in Services, View(s)
      PROVE  PageAndCall'
  <2>1. PICK d \in Method : s = FullServiceName(d)
    BY DEF Services
  <2>2. s \in Seq(Part)
    BY <2>1, NameParts
  <2>3. s # Null
    BY <2>2, NamesAssumption
  <2> QED BY <1>2, <2>3 DEF View, PageAndCall, vars
<1>3. ASSUME NEW n \in shown \cup Typed, NEW endpoint \in BOOLEAN, Call(n, endpoint)
      PROVE  PageAndCall'
  <2>1. n \in Seq(Part)
    BY ShownIsNamed, NamesAssumption
  <2>2. call' = [name |-> n, endpoint |-> endpoint, reached |-> Reached(n, endpoint)]
    BY <1>3 DEF Call
  <2>3. Reached(n, endpoint)' = Reached(n, endpoint)
    BY DEF Reached, ResolveServiceMethod, Registered, Services
  <2>4. UNCHANGED <<pass, paths, viewed, shown>>
    BY <1>3 DEF Call, vars
  <2> QED BY <2>1, <2>2, <2>3, <2>4 DEF PageAndCall
<1>4. CASE UNCHANGED callVars
  BY <1>4 DEF callVars, vars, PageAndCall
<1> QED BY <1>1, <1>2, <1>3, <1>4 DEF CallNext

LEMMA AlwaysPageAndCall ==
  CallSpec => []PageAndCall
<1>1. CallInit => PageAndCall
  BY DEF CallInit, PageAndCall
<1>2. Sound /\ PageAndCall /\ [CallNext]_callVars => PageAndCall'
  BY PageAndCallNext
<1> QED BY AlwaysDocument, <1>1, <1>2, PTL DEF CallSpec

\* No method of a service is missing on its page, for any files and any names.
THEOREM PagesAreComplete ==
  CallSpec => []PageComplete
<1>1. Sound /\ Invariant /\ PageAndCall => PageComplete
  <2> SUFFICES ASSUME Sound, Invariant, PageAndCall, viewed # Null PROVE PageComplete
    BY DEF PageComplete
  <2>1. /\ pass = "done"
        /\ shown = {FullName(d) : d \in {m \in DOMAIN paths : Contains(FullName(m), viewed)}}
    BY DEF PageAndCall
  <2>2. DOMAIN paths = Method
    BY <2>1 DEF Invariant
  <2>3. ASSUME NEW d \in Method, FullServiceName(d) = viewed
        PROVE  FullName(d) \in shown
    BY <2>1, <2>2, <2>3, ContainsService
  <2> QED BY <2>1, <2>3 DEF PageComplete
<1> QED BY AlwaysDocument, AlwaysPageAndCall, <1>1, PTL

\* Whatever a path on a page is called like, it calls the method it was written
\* for or, for lack of a server, none.
THEOREM PathsAreCalls ==
  CallSpec => []CallsReach
<1>1. Sound /\ PageAndCall => CallsReach
  <2> SUFFICES ASSUME Sound, PageAndCall, call # Null PROVE CallsReach
    BY DEF CallsReach
  <2>1. /\ call.name \in Seq(Part) /\ call.endpoint \in BOOLEAN
        /\ call.reached = Reached(call.name, call.endpoint)
    BY DEF PageAndCall
  <2>2. call.reached # Null => FullName(call.reached) = call.name
    BY <2>1, ReachedIsNamed
  <2>3. ASSUME call.name \in shown
        PROVE  \E d \in Method :
                 /\ FullName(d) = call.name
                 /\ call.reached =
                      IF /\ FullServiceName(d) \in Served
                         /\ call.endpoint \/ FullServiceName(d) \notin Blocked
                        THEN d ELSE Null
    <3>1. PICK d \in Method : call.name = FullName(d)
      BY <2>3, ShownIsNamed
    <3>2. call.reached = Reached(FullName(d), call.endpoint)
      BY <2>1, <3>1
    <3> QED BY <2>1, <3>1, <3>2, ReachedByName
  <2> QED BY <2>2, <2>3 DEF CallsReach
<1> QED BY AlwaysDocument, AlwaysPageAndCall, <1>1, PTL
=============================================================================
