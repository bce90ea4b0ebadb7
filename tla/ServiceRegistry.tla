--------------------------- MODULE ServiceRegistry ---------------------------
(***************************************************************************)
(* The web application's shared state and the HTTP requests that use it:   *)
(* DocumentRegistry maps a service to its swagger document,                *)
(* ServiceConfigManager maps it to its endpoint.  /register fills both,    *)
(* one entry at a time; /v2/api-docs reads the one, calls of gRPC methods  *)
(* the other.  Requests run on a thread each and there is no lock.         *)
(***************************************************************************)
EXTENDS Naturals, Sequences, FiniteSets, ServiceStore

CONSTANTS
  Service,           \* full names of gRPC services
  Endpoint,          \* host:port of gRPC servers
  Host,              \* Host headers of HTTP requests
  DefaultHost,       \* the host of a document no request has set
  Thread,            \* HTTP threads
  Blocked,           \* services getServiceNames leaves out
  Offers,            \* for each service an endpoint lists, in the order listed,
                     \* the services in the file set a lookup returns
  Setups,            \* the installations considered
  MaxRegistrations   \* bound on the /register requests of a behaviour

(***************************************************************************)
(* An installation: the limits both storages are created with, which       *)
(* threads serve /register and which the other requests, and whether the   *)
(* file sets of some endpoint may be impossible to resolve.                *)
(***************************************************************************)
SetupType ==
  [limits : Limits, registrars : SUBSET Thread, readers : SUBSET Thread,
   aborts : BOOLEAN]

ASSUME RegistryAssumption ==
  /\ IsFiniteSet(Service)
  /\ Blocked \subseteq Service
  /\ Endpoint # {}
  /\ DefaultHost \notin Host
  /\ Offers \in [Endpoint -> Seq(SUBSET Service)]
  /\ Setups \subseteq SetupType
  /\ MaxRegistrations \in Nat

NoDoc == 0

VARIABLES
  setup,     \* the installation
  heap,      \* the SwaggerV2Documentation objects made so far
  docs,      \* DocumentRegistry: a service's document, as an index of heap
  configs,   \* ServiceConfigManager: a service's endpoint
  since,     \* time since a service was last accessed through either
  started,   \* /register requests so far
  pc,        \* where each thread is
  endpoint,  \* the endpoint a thread registers
  found,     \* the file sets it has yet to turn into documents, by number
  names,     \* the services it will report as registered
  todo,      \* the services it has yet to put into the current storage
  doc,       \* the document it has in hand
  asked      \* the Host header of its /v2/api-docs request

stores == <<docs, configs, since>>
registering == <<endpoint, found, names, todo>>
vars == <<setup, heap, stores, started, pc, registering, doc, asked>>

Document == [from : Endpoint, host : Host \cup {DefaultHost}]

TypeOK ==
  /\ setup \in Setups
  /\ heap \in Seq(Document)
  /\ IsStore(docs, Service, 1..Len(heap))
  /\ IsStore(configs, Service \ Blocked, Endpoint)
  /\ since \in [Service -> Nat]
  /\ started \in 0..MaxRegistrations
  /\ pc \in [Thread -> {"idle", "resolving", "docs", "configs", "setHost", "render"}]
  /\ endpoint \in [Thread -> Endpoint]
  /\ found \in [Thread -> SUBSET Nat]
  /\ names \in [Thread -> SUBSET (Service \ Blocked)]
  /\ todo \in [Thread -> SUBSET Service]
  /\ doc \in [Thread -> 0..Len(heap)]
  /\ asked \in [Thread -> Host \cup {DefaultHost}]

AnEndpoint == CHOOSE e \in Endpoint : TRUE

Init ==
  /\ setup \in Setups
  /\ heap = <<>>
  /\ docs = NewStorage /\ configs = NewStorage
  /\ since = [s \in Service |-> setup.limits.expire]
  /\ started = 0
  /\ pc = [t \in Thread |-> "idle"]
  /\ endpoint = [t \in Thread |-> AnEndpoint]
  /\ found = [t \in Thread |-> {}]
  /\ names = [t \in Thread |-> {}] /\ todo = [t \in Thread |-> {}]
  /\ doc = [t \in Thread |-> NoDoc]
  /\ asked = [t \in Thread |-> DefaultHost]

\* The services in those of e's file sets that are numbered in S.
Covered(e, S) == UNION {Offers[e][i] : i \in S}

Accessed(s) == since' = [since EXCEPT ![s] = 0]

\* The request is over, and its thread keeps nothing of it.
Answered(t) ==
  /\ pc' = [pc EXCEPT ![t] = "idle"]
  /\ endpoint' = [endpoint EXCEPT ![t] = AnEndpoint]
  /\ found' = [found EXCEPT ![t] = {}]
  /\ names' = [names EXCEPT ![t] = {}]
  /\ todo' = [todo EXCEPT ![t] = {}]
  /\ doc' = [doc EXCEPT ![t] = NoDoc]
  /\ asked' = [asked EXCEPT ![t] = DefaultHost]

-----------------------------------------------------------------------------
(***************************************************************************)
(* /register: GrpcController.registerServices.                             *)
(***************************************************************************)
Register(t, e) ==
  /\ pc[t] = "idle" /\ t \in setup.registrars
  /\ started < MaxRegistrations
  /\ started' = started + 1
  /\ pc' = [pc EXCEPT ![t] = "resolving"]
  /\ endpoint' = [endpoint EXCEPT ![t] = e]
  /\ UNCHANGED <<setup, heap, stores, found, names, todo, doc, asked>>

\* The services cannot be listed, an exception; or there are none, or every lookup
\* fails, "no services find".
ResolveFails(t) ==
  /\ pc[t] = "resolving"
  /\ Answered(t)
  /\ UNCHANGED <<setup, heap, stores, started>>

\* Resolve without blockServiceSet.
ResolveUnfiltered(t) ==
  /\ pc[t] = "resolving"
  /\ \E ok \in (SUBSET DOMAIN Offers[endpoint[t]]) \ {{}} :
       /\ found' = [found EXCEPT ![t] = ok]
       /\ names' = [names EXCEPT ![t] = Covered(endpoint[t], ok)]
  /\ pc' = [pc EXCEPT ![t] = "docs"]
  /\ UNCHANGED <<setup, heap, stores, started, endpoint, todo, doc, asked>>

\* The services are listed and looked up one after another; a lookup that fails
\* is logged and left out.
Resolve(t) ==
  /\ pc[t] = "resolving"
  /\ \E ok \in (SUBSET DOMAIN Offers[endpoint[t]]) \ {{}} :
       /\ found' = [found EXCEPT ![t] = ok]
       /\ names' = [names EXCEPT ![t] = Covered(endpoint[t], ok) \ Blocked]
  /\ pc' = [pc EXCEPT ![t] = "docs"]
  /\ UNCHANGED <<setup, heap, stores, started, endpoint, todo, doc, asked>>

\* parseDefinition makes one document for all services of the next file set.
BuildDoc(t) ==
  /\ pc[t] = "docs" /\ todo[t] = {}
  /\ \E i \in found[t] :
       /\ \A j \in found[t] : i <= j
       /\ found' = [found EXCEPT ![t] = @ \ {i}]
       /\ todo' = [todo EXCEPT ![t] = Offers[endpoint[t]][i]]
  /\ heap' = Append(heap, [from |-> endpoint[t], host |-> DefaultHost])
  /\ doc' = [doc EXCEPT ![t] = Len(heap) + 1]
  /\ UNCHANGED <<setup, stores, started, pc, endpoint, names, asked>>

\* The file set lacks an import: the exception of ServiceResolver ends the
\* request, and what has been put stays.
BuildAborts(t) ==
  /\ pc[t] = "docs" /\ todo[t] = {} /\ found[t] # {}
  /\ setup.aborts
  /\ Answered(t)
  /\ UNCHANGED <<setup, heap, stores, started>>

\* PutDoc unless the service has a document already.
PutDocIfAbsent(t, s) ==
  /\ pc[t] = "docs" /\ s \in todo[t]
  /\ IF Exists(docs, s) THEN UNCHANGED docs
     ELSE docs' \in AfterPut(docs, s, doc[t], setup.limits)
  /\ todo' = [todo EXCEPT ![t] = @ \ {s}]
  /\ Accessed(s)
  /\ UNCHANGED <<setup, heap, configs, started, pc, endpoint, found, names, doc, asked>>

\* registerService: blocked services get a document too.
PutDoc(t, s) ==
  /\ pc[t] = "docs" /\ s \in todo[t]
  /\ docs' \in AfterPut(docs, s, doc[t], setup.limits)
  /\ todo' = [todo EXCEPT ![t] = @ \ {s}]
  /\ Accessed(s)
  /\ UNCHANGED <<setup, heap, configs, started, pc, endpoint, found, names, doc, asked>>

\* ListNames before the documents are made.
ListNamesEarly(t) ==
  /\ pc[t] = "docs"
  /\ pc' = [pc EXCEPT ![t] = "configs"]
  /\ todo' = [todo EXCEPT ![t] = names[t]]
  /\ UNCHANGED <<setup, heap, stores, started, endpoint, found, names, doc, asked>>

\* getServiceNames, once all file sets have been dealt with.
ListNames(t) ==
  /\ pc[t] = "docs" /\ todo[t] = {} /\ found[t] = {}
  /\ pc' = [pc EXCEPT ![t] = "configs"]
  /\ todo' = [todo EXCEPT ![t] = names[t]]
  /\ UNCHANGED <<setup, heap, stores, started, endpoint, found, names, doc, asked>>

\* PutConfig with the endpoint in a field that all threads share.
PutConfigShared(t, s) ==
  /\ pc[t] = "configs" /\ s \in todo[t]
  /\ \E u \in Thread : configs' \in AfterPut(configs, s, endpoint[u], setup.limits)
  /\ todo' = [todo EXCEPT ![t] = @ \ {s}]
  /\ Accessed(s)
  /\ UNCHANGED <<setup, heap, docs, started, pc, endpoint, found, names, doc, asked>>

\* addServiceConfig, for one name after another.
PutConfig(t, s) ==
  /\ pc[t] = "configs" /\ s \in todo[t]
  /\ configs' \in AfterPut(configs, s, endpoint[t], setup.limits)
  /\ todo' = [todo EXCEPT ![t] = @ \ {s}]
  /\ Accessed(s)
  /\ UNCHANGED <<setup, heap, docs, started, pc, endpoint, found, names, doc, asked>>

\* Registered before all endpoints are put.
RegisteredEarly(t) ==
  /\ pc[t] = "configs"
  /\ Answered(t)
  /\ UNCHANGED <<setup, heap, stores, started>>

\* The answer: names[t] are registered.
Registered(t) ==
  /\ pc[t] = "configs" /\ todo[t] = {}
  /\ Answered(t)
  /\ UNCHANGED <<setup, heap, stores, started>>

-----------------------------------------------------------------------------
(***************************************************************************)
(* /v2/api-docs: DocumentService.getDocumentation, then the view that is   *)
(* serialized after the handler has returned.                              *)
(***************************************************************************)
GetDocument(t, s, h) ==
  /\ pc[t] = "idle" /\ t \in setup.readers
  /\ asked' = [asked EXCEPT ![t] = h]
  /\ \/ /\ Exists(docs, s)
        /\ doc' = [doc EXCEPT ![t] = docs[s].value]
        /\ docs' = AfterGet(docs, s)
        /\ Accessed(s)
        /\ pc' = [pc EXCEPT ![t] = "setHost"]
     \/ /\ ~Exists(docs, s)
        /\ doc' = [doc EXCEPT ![t] = NoDoc]
        /\ pc' = [pc EXCEPT ![t] = "render"]
        /\ UNCHANGED <<docs, since>>
  /\ UNCHANGED <<setup, heap, configs, started, registering>>

\* The Host header is written into the document all requests share.
SetHost(t) ==
  /\ pc[t] = "setHost"
  /\ heap' = [heap EXCEPT ![doc[t]] = [from |-> @.from, host |-> asked[t]]]
  /\ pc' = [pc EXCEPT ![t] = "render"]
  /\ UNCHANGED <<setup, stores, started, registering, doc, asked>>

\* The getters of SwaggerV2DocumentView read the document as it is now; without
\* one they throw a NullPointerException.
Render(t) ==
  /\ pc[t] = "render"
  /\ Answered(t)
  /\ UNCHANGED <<setup, heap, stores, started>>

(***************************************************************************)
(* invokeMethod without an explicit endpoint looks the endpoint up.  With  *)
(* one it touches nothing here, nor does /listServices, which reads what   *)
(* the storage holds without counting as an access.                        *)
(***************************************************************************)
GetEndPoint(t, s) ==
  /\ pc[t] = "idle" /\ t \in setup.readers
  /\ Exists(configs, s)
  /\ configs' = AfterGet(configs, s)
  /\ Accessed(s)
  /\ UNCHANGED <<setup, heap, docs, started, pc, registering, doc, asked>>

Listed == DOMAIN configs

-----------------------------------------------------------------------------
\* Time goes by in units that are long against the puts of one registration.
Tick ==
  /\ setup.limits.expire > 0
  /\ \A t \in Thread : pc[t] \notin {"docs", "configs"}
  /\ docs' = AfterTick(docs, setup.limits)
  /\ configs' = AfterTick(configs, setup.limits)
  /\ since' = [s \in Service |->
       IF since[s] < setup.limits.expire THEN since[s] + 1 ELSE since[s]]
  /\ UNCHANGED <<setup, heap, started, pc, registering, doc, asked>>

Registration(t) ==
  \/ \E e \in Endpoint : Register(t, e)
  \/ ResolveFails(t) \/ Resolve(t)
  \/ BuildDoc(t) \/ BuildAborts(t) \/ ListNames(t) \/ Registered(t)
  \/ \E s \in Service : PutDoc(t, s) \/ PutConfig(t, s)

Reading(t) ==
  \/ \E s \in Service, h \in Host : GetDocument(t, s, h)
  \/ \E s \in Service : GetEndPoint(t, s)
  \/ SetHost(t) \/ Render(t)

Next == Tick \/ \E t \in Thread : Registration(t) \/ Reading(t)

Spec == Init /\ [][Next]_vars

-----------------------------------------------------------------------------
(***************************************************************************)
(* Properties.                                                             *)
(***************************************************************************)

Registering(t) == t \in setup.registrars /\ pc[t] # "idle"

\* At most one thread serves requests of a kind.
Sole(S) == \A t, u \in S : t = u

\* No put makes a storage drop what another put has just added.
RoomForAll == setup.limits.expire = 0 \/ setup.limits.max >= Cardinality(Service)

\* The document and the endpoint of a service are of the same server.
Match(s) == heap[docs[s].value].from = configs[s].value

\* README_CN, "/v2/api-docs": its argument is a service /listServices returns, so
\* a listed service has a document.
Documented == Listed \subseteq DOMAIN docs

\* This is so at all times where nothing expires, because documents are put
\* before endpoints, whatever aborts and whatever requests run side by side.
DocumentedWithoutExpiry == setup.limits.expire = 0 => Documented

\* Calls that follow a document go to the server it describes, unless an endpoint
\* is being registered, two were at the same time, or a registration was aborted.
DocMatchesEndpoint ==
  /\ ~setup.aborts /\ Sole(setup.registrars)
  /\ \A t \in Thread : ~Registering(t)
  => \A s \in DOMAIN docs \cap Listed : Match(s)

\* README, "--service.expired.seconds": a service expires when nobody accesses it,
\* from the list, the endpoints and the documents alike.
ForgetsIdle ==
  \A s \in Service :
    setup.limits.expire > 0 /\ since[s] >= setup.limits.expire
    => s \notin DOMAIN docs \cup Listed

\* The answer of /register names services that can be called and have a document,
\* if the storages have room for all services.
RegisteredIsServed ==
  [][\A t \in Thread :
       Registered(t) /\ RoomForAll => names[t] \subseteq DOMAIN docs \cap Listed]_vars

\* Their documents and endpoints are those of the server registered, whatever other
\* registrations have put before, the ones included that were aborted between a document
\* and its endpoint; only one that runs at the same time can mix its own in.
RegisteredIsOwn ==
  [][\A t \in Thread :
       Registered(t) /\ Sole(setup.registrars) =>
         \A s \in names[t] :
           /\ s \in DOMAIN docs => heap[docs[s].value].from = endpoint[t]
           /\ s \in Listed => configs[s].value = endpoint[t]]_vars

\* All an endpoint's server offers.
Offered(e) == Covered(e, DOMAIN Offers[e])

\* The two storages as those who look services up see them, and the servers that
\* offer each: whatever requests run side by side and whatever is forgotten, no
\* service is shown or called at a server that does not have it.
Promise == INSTANCE RegistryPromise WITH
  Hidden <- Blocked,
  OfferedBy <- [e \in Endpoint |-> Offered(e)],
  keeps <- setup.limits.expire = 0,
  orderly <- Sole(setup.registrars),
  document <- [s \in DOMAIN docs |-> heap[docs[s].value].from],
  route <- [s \in Listed |-> configs[s].value]

KeepsPromise == Promise!Spec

-----------------------------------------------------------------------------
(***************************************************************************)
(* The invariant behind these properties.                                  *)
(***************************************************************************)

\* Where a thread is in its request.
Phase(t) ==
  /\ pc[t] \in {"resolving", "docs", "configs"} => t \in setup.registrars
  /\ pc[t] \in {"setHost", "render"} => t \in setup.readers
  /\ pc[t] \in {"idle", "resolving"} => todo[t] = {}
  /\ pc[t] = "setHost" => doc[t] # NoDoc
  /\ pc[t] = "docs" =>
       /\ found[t] \subseteq DOMAIN Offers[endpoint[t]]
       /\ Covered(endpoint[t], found[t]) \cup todo[t] \subseteq names[t] \cup Blocked
       /\ todo[t] # {} => doc[t] # NoDoc /\ heap[doc[t]].from = endpoint[t]
  /\ pc[t] = "configs" => todo[t] \subseteq names[t]

PhaseOK == \A t \in Thread : Phase(t)

\* A registration deals with what its endpoint offers.
OffersOK ==
  \A t \in Thread :
    pc[t] \in {"docs", "configs"} => names[t] \cup todo[t] \subseteq Offered(endpoint[t])

\* The services whose documents t has put.
Put(t) ==
  CASE pc[t] = "docs" ->
         names[t] \ (todo[t] \cup Covered(endpoint[t], found[t]))
    [] pc[t] = "configs" -> names[t]
    [] OTHER -> {}

\* What a registration has put is there.
PutOK ==
  RoomForAll =>
    \A t \in Thread :
      /\ Put(t) \subseteq DOMAIN docs
      /\ pc[t] = "configs" => names[t] \ todo[t] \subseteq Listed

\* A registration may yet put the endpoint of s.
UnderWay(t, s) ==
  \/ pc[t] = "docs" /\ s \in names[t]
  \/ pc[t] = "configs" /\ s \in todo[t]

\* What a registration that runs alone has put is of its own server.
OwnOK ==
  Sole(setup.registrars) =>
    \A t \in Thread :
      /\ \A s \in DOMAIN docs : s \in Put(t) => heap[docs[s].value].from = endpoint[t]
      /\ \A s \in Listed :
           pc[t] = "configs" /\ s \in names[t] \ todo[t] => configs[s].value = endpoint[t]

\* Only a registration under way can hold a document and an endpoint that differ.
MatchOK ==
  ~setup.aborts /\ Sole(setup.registrars) =>
    \A s \in DOMAIN docs \cap Listed :
      Match(s) \/ \E t \in Thread : UnderWay(t, s)

\* No entry is fresher than the last access to its service.
FreshOK ==
  setup.limits.expire > 0 =>
    /\ \A s \in DOMAIN docs : since[s] <= docs[s].idle /\ docs[s].idle < setup.limits.expire
    /\ \A s \in Listed : since[s] <= configs[s].idle /\ configs[s].idle < setup.limits.expire

Invariant ==
  PhaseOK /\ PutOK /\ DocumentedWithoutExpiry /\ OwnOK /\ MatchOK /\ FreshOK
=============================================================================
