--------------------------- MODULE RegistryPromise ---------------------------
(***************************************************************************)
(* What the web application promises of each service to those who look it  *)
(* up: /v2/api-docs shows the document of a server that offers it, and     *)
(* calls go to a server that offers it.  Documents come before endpoints:  *)
(* where nothing expires, a service that can be called has a document, and *)
(* where registrations do not run side by side, no endpoint is put next to *)
(* a document of another server.                                           *)
(***************************************************************************)
CONSTANTS
  Service, Endpoint,
  Hidden,     \* services that are never to be called
  OfferedBy   \* for each endpoint the services it offers

VARIABLES
  keeps,     \* whether the storages keep what is put; never changes
  orderly,   \* whether registrations are one after another; never changes
  document,  \* for a service that has a document: the server it describes
  route      \* for a service that can be called: the server called

vars == <<keeps, orderly, document, route>>

Init ==
  /\ document = [s \in {} |-> {}]
  /\ route = [s \in {} |-> {}]

\* Entries may be dropped to make room for that of s.
Entered(new, old, s, e) ==
  \E kept \in SUBSET DOMAIN old :
    /\ keeps => kept = DOMAIN old
    /\ new = [x \in kept \cup {s} |-> IF x = s THEN e ELSE old[x]]

PutDocument(s, e) ==
  /\ s \in OfferedBy[e]
  /\ Entered(document', document, s, e)
  /\ UNCHANGED <<keeps, orderly, route>>

PutRoute(s, e) ==
  /\ s \in OfferedBy[e] \ Hidden
  /\ keeps => s \in DOMAIN document
  /\ orderly /\ s \in DOMAIN document => document[s] = e
  /\ Entered(route', route, s, e)
  /\ UNCHANGED <<keeps, orderly, document>>

\* Services that nobody has asked for are forgotten.
Forget ==
  /\ ~keeps
  /\ \E S \in SUBSET DOMAIN document : document' = [s \in S |-> document[s]]
  /\ \E S \in SUBSET DOMAIN route : route' = [s \in S |-> route[s]]
  /\ UNCHANGED <<keeps, orderly>>

Next ==
  \/ Forget
  \/ \E s \in Service, e \in Endpoint : PutDocument(s, e) \/ PutRoute(s, e)

Spec == Init /\ [][Next]_vars
=============================================================================
