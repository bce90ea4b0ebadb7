--------------------------- MODULE DocumentedCalls ---------------------------
(***************************************************************************)
(* From the page of a service back to its methods.  A page is a view of a  *)
(* finished document (SwaggerV2DocumentView); a call posts to one of its   *)
(* paths, and GrpcController.invokeMethod takes the name in it apart, finds *)
(* the server and the method.  A name is the sequence of its parts between *)
(* the dots; of its letters only what one part may end with matters.       *)
(***************************************************************************)
EXTENDS OpenApiDoc, Integers, Sequences

CONSTANTS
  Part,       \* parts of names
  EndsWith,   \* pairs of a part and one that it ends with
  Blocked,    \* names of services that are never registered
  Served,     \* names of services the server lists
  Typed       \* names a client may post to without a page

ASSUME NamesAssumption ==
  /\ Method \subseteq [package : Seq(Part), service : Part, method : Part]
  /\ EndsWith \subseteq Part \X Part
  /\ \A p \in Part : <<p, p>> \in EndsWith
  /\ Typed \subseteq Seq(Part)
  /\ Null \notin Method \cup Seq(Part) \cup [name : Seq(Part), endpoint : BOOLEAN,
                                             reached : Method \cup {Null}]

VARIABLES
  viewed,   \* the service whose page is shown, or Null
  shown,    \* the paths on it, without their slash
  call      \* the last call: its name, whether it gave an endpoint, what it reached

callVars == <<vars, viewed, shown, call>>

\* GrpcMethodDefinition.getFullServiceName, and ServiceDescriptor.getFullName.
FullServiceName(d) == d.package \o <<d.service>>

FullName(d) == FullServiceName(d) \o <<d.method>>

Services == {FullServiceName(d) : d \in Method}

\* getServiceNames: what a registration of these files enters, with an endpoint.
Registered == Services \ Blocked

CallInit ==
  /\ Init
  /\ viewed = Null /\ shown = {} /\ call = Null

-----------------------------------------------------------------------------
\* A fault: the name must follow a dot.
ContainsInside(n, s) ==
  \E i \in 2..(Len(n) - Len(s)) : SubSeq(n, i, i + Len(s) - 1) = s

\* n.contains(s + "."): s, followed by a further part, anywhere in n, where the
\* first part may be the end of a longer one.
Contains(n, s) ==
  \E i \in 1..(Len(n) - Len(s)) :
    /\ <<n[i], s[1]>> \in EndsWith
    /\ \A j \in 2..Len(s) : n[i + j - 1] = s[j]

\* groupResponse, and getPaths of the view it returns.
View(s) ==
  /\ pass = "done"
  /\ viewed' = s
  /\ shown' = {FullName(d) : d \in {m \in DOMAIN paths : Contains(FullName(m), s)}}
  /\ UNCHANGED <<vars, call>>

\* A fault: the package ends at the first dot.
ParseAtFirstDot(n) ==
  [package |-> SubSeq(n, 1, IF Len(n) > 2 THEN 1 ELSE 0),
   service |-> n[Len(n) - 1], method |-> n[Len(n)]]

\* parseToMethodDefinition, for a name with a dot: the method after the last one,
\* the service after the one before, if there is one.
ParseToMethodDefinition(n) ==
  [package |-> SubSeq(n, 1, Len(n) - 2),
   service |-> n[Len(n) - 1], method |-> n[Len(n)]]

\* resolveServiceMethod: a file of the package that declares the service, and in it
\* the method.
ResolveServiceMethod(d) ==
  LET found == {m \in Method : /\ m.package = d.package /\ m.service = d.service
                               /\ m.method = d.method}
  IN  IF found = {} THEN Null ELSE CHOOSE m \in found : TRUE

\* invokeMethod: an exception for a name without a dot and for a service or method
\* that the server does not have, and a refusal for a service without an endpoint.
Reached(n, endpoint) ==
  LET definition == ParseToMethodDefinition(n)
      service == FullServiceName(definition)
  IN  IF Len(n) > 1 /\ (endpoint \/ service \in Registered) /\ service \in Served
        THEN ResolveServiceMethod(definition) ELSE Null

Call(n, endpoint) ==
  /\ pass = "done"
  /\ call' = [name |-> n, endpoint |-> endpoint, reached |-> Reached(n, endpoint)]
  /\ UNCHANGED <<vars, viewed, shown>>

CallNext ==
  \/ Next /\ UNCHANGED <<viewed, shown, call>>
  \/ \E s \in Services : View(s)
  \/ \E n \in shown \cup Typed, endpoint \in BOOLEAN : Call(n, endpoint)

CallSpec == CallInit /\ [][CallNext]_callVars

-----------------------------------------------------------------------------
(***************************************************************************)
(* Properties.                                                             *)
(***************************************************************************)

\* The page of a service has every method of it, whatever other services of the
\* document are called like, and shows nothing the document does not have.
PageComplete ==
  viewed # Null =>
    /\ \A d \in Method : FullServiceName(d) = viewed => FullName(d) \in shown
    /\ shown \subseteq {FullName(d) : d \in DOMAIN paths}

\* A path on a page, the page's own or one of another service that slipped in,
\* calls the very method it was written for, if the server has its service and
\* either that is not blocked or the caller says where it is; and no other method.
CallsReach ==
  call # Null =>
    /\ call.reached # Null => FullName(call.reached) = call.name
    /\ call.name \in shown =>
         \E d \in Method :
           /\ FullName(d) = call.name
           /\ call.reached =
                IF /\ FullServiceName(d) \in Served
                   /\ call.endpoint \/ FullServiceName(d) \notin Blocked
                  THEN d ELSE Null
=============================================================================
