# A verification development for grpc-swagger

grpc-swagger is a web application that shows the methods of gRPC servers in
swagger-ui and calls them.  It asks a server for its services and their
descriptors by gRPC server reflection, makes a swagger document of them, and
turns HTTP requests with JSON bodies into gRPC calls.

This directory holds TLA+ models of its core logic, the TLC configurations that
check them on small instances, and proofs, checked by TLAPS, of the most
important properties for all instances.  Paths below are relative to `src/`;
`core/` stands for `grpc-swagger-core/src/main/java/io/grpc/grpcswagger/` and
`web/` for `grpc-swagger-web/src/main/java/io/grpc/grpcswagger/`.

## The system

```
 /register --> GrpcController.registerServices
                 |  ServiceRegisterUtils.registerByIpAndPort
                 |     GrpcReflectionUtils.resolveServices
                 |        ServerReflectionClient.listServices, then one lookupService
                 |        per service            [ServiceResolution, ReflectionLookup]
                 |     ServiceResolver.fromFileDescriptorSet       [DescriptorBuild]
                 |     OpenApiParser.parseDefinition               [OpenApiDoc]
                 |        DocumentRegistry.put                     \
                 |  ServiceConfigManager.addServiceConfig           |
 /v2/api-docs -> DocumentService -> DocumentRegistry.get            | [ServiceRegistry,
                 setHost                                            |  ServiceStore]
                 SwaggerV2DocumentView        [DocumentedCalls]     |
 /listServices > ServiceConfigManager.getServiceConfigs             |
 /{method} ----> ServiceConfigManager.getEndPoint                  /
                 ChannelFactory.create
                 GrpcProxyService.invokeMethod                      [Invocation]
                   GrpcReflectionUtils.resolveService          [ServiceResolution]
                   ServiceResolver.resolveServiceMethod          [DocumentedCalls]
                   GrpcClientService.call: CompositeStreamObserver of
                   MessageWriter -> CallResults and DoneObserver

 index.html (swagger-ui): /v2/api-docs, then /{method} for what the user executes
                 download, resolve, execute                            [ApiPage]
```

### Inventory

| Component | State | Operations | What is hard | What makes it correct |
|---|---|---|---|---|
| Service lookup (`core/grpc/ServerReflectionClient`, `LookupServiceHandler`) | a future, a counter of outstanding requests, files requested, files resolved, the request stream | `start`, `onNext`, `processDependencies`, `onError`, `onCompleted` | the counter is a plain int of two threads; answers batch files, omit them, or are errors; half-close; a deadline | a result has the service's file and all it imports; the lookup notices its end; the stream is not used after the half-close; no file is asked for twice; the caller comes back |
| Service listing (same file, `ListServicesHandler`) | a future | `start`, `onNext`, `onError`, `onCompleted` | second answers, unexpected ends, silence | settled once |
| Resolution (`core/utils/GrpcReflectionUtils`) | the list, the file sets so far | `resolveServices`, `resolveService` | lookups that fail one by one, deadlines in a row, interrupts | every service whose lookup succeeds is there; it ends, in bounded time |
| Descriptor linking (`core/grpc/ServiceResolver`) | none across calls; recursion, a cache | `fromFileDescriptorSet`, `descriptorFromProto`, queries | bad files, missing imports, cycles, order | exactly the usable files, whatever the order |
| Registry (`web/manager/ServiceConfigManager`, `web/openapi/v2/DocumentRegistry`, `web/service/DocumentService`, `web/controller/GrpcController`) | two static storages, documents shared by requests | `/register`, `/v2/api-docs`, `/listServices`, endpoint lookup | non-atomic registration, concurrent requests, expiry, eviction, aborts, a shared mutable host | listed services are documented, documents and endpoints match, what is reported as registered is served, and from the server registered; idle services go |
| Storages (`web/store`) | a map or a Guava cache | `put`, `get`, `getAll`, (`remove`, `exists` unused) | expiry after access, maximum size | see the registry |
| Invocation (`GrpcController.invokeMethod`, `core/service`, observers, `MessageWriter`, `CallResults`) | a channel, a future, a list of results | resolve, call, callbacks, answer, shutdown | callback thread against HTTP thread; failures at every step; streaming | the answer has all results of a call that ended well; the channel is shut down |
| Method names (`GrpcReflectionUtils.parseToMethodDefinition`, `SwaggerV2DocumentView`, `ServiceResolver.resolveServiceMethod`) | none | the view of a document, a call by name | names that end alike, packages of several parts or none; a name taken apart and put together in several places | a page has all methods of its service, and each path on it calls the method it was written for |
| OpenAPI generation (`web/openapi/v2/OpenApiDefinitionHandler`) | tables local to one document | pure | nested types, maps, references | no dangling reference; types, fields and methods all there, whatever the order |
| API page (`public/index.html`, vendored swagger-ui) | the document, which of its operations are on display and which are open, what is resolved, a batch of requests for the rest, calls and responses | `loadSpec`, download, `requestResolvedSubtree`, `debResolveSubtrees`, toggle, fold, execute, clear | promises and answers that overtake each other; a shared batch; components that come and go; an exception in a resolution | no open operation on display waits for ever; what is shown belongs to the document shown; a page that waits has a call under way |
| Configuration, wiring, register page, demo server | none that changes | | | |

`PROJECT.json` lists the components with their status, the hazards with the lines
where they bite, and the map from every definition to the lines it models.

## Modules

| Module | Models | Notes |
|---|---|---|
| `ReflectionLookup` | one lookup | two threads, environment |
| `LookupPromise` | what `lookupService` promises its caller | refined by `ReflectionLookup` |
| `ServiceResolution` | the listing of services and the loop over their lookups | a thread, callbacks, time |
| `ResolutionPromise` | what `resolveServices` and `resolveService` promise their callers | refined by `ServiceResolution` |
| `DescriptorBuild` | `ServiceResolver.fromFileDescriptorSet` | the recursion as an explicit stack |
| `ServiceStore` | `BaseStorage` and its two implementations | operators on a store |
| `ServiceRegistry` | the web application's shared state and its requests | extends `ServiceStore` |
| `RegistryPromise` | what the application promises those who look a service up | refined by `ServiceRegistry` |
| `Invocation` | one call of a gRPC method | two threads, environment |
| `OpenApiDoc` | the making of one swagger document | three passes in any order of their tables |
| `DocumentedCalls` | pages of the finished document and calls from them | extends `OpenApiDoc` |
| `ApiPage` | the swagger-ui page | one thread of callbacks, a user, servers |
| `MC*` | instances for TLC | |
| `*Proofs` | theorems about the module of that name | |

The operators whose comments call them a fault (`TestZeroEarly`, `InitShared`,
`OnNextSettles` and so on) are not part of any specification.  Each is a
definition with a plausible bug in it; put in place of the definition it follows,
TLC finds the property named in `PROJECT.json` violated, which shows that the
property depends on that code.

### ReflectionLookup

State: `future` and `value` are `resultFuture`, `outstanding` is
`outstandingRequests`, `requested` and `resolved` are the two collections of file
names, `unanswered` is what is on the way to the server and back, `stream` is the
state of the call.  The calling thread (`caller`) sends the request, loads and
stores the counter (`start`, lines 149 and 150), and waits in `Future.get`.  The
callback thread (`pc`) takes one answer at a time; `processDependencies` is the
loop `ProcessDependencies`, `LoadOutstanding`, `RequestDependency`,
`ReleaseStore`, `TestZero`.  `++` and `--` on the field are a load and a store,
because both threads write it without synchronisation.  The read in
`if (outstandingRequests == 0)` may see memory or the value just stored: the
compiler is free to do either.

The environment is a record `server`: an import graph, how answers are packed
(grpc-java sends one file; others, such as C++ or Go servers, send a file with
its imports, some without those sent before), the files it does not find or
leaves out, the files whose bytes do not parse, and whether it is `slow`: then
answers arrive only after `start` has returned, as they nearly always do.  A lookup
is `Orderly` if its server is slow and loses nothing (or sends a file per answer);
what fails without that carries it as a premise, and everything else is stated of
every server.  The order of a `HashSet` or
of the files of an answer carries no meaning and is left open.  An
`IllegalStateException` in the callback (the stream is used after the half-close)
makes gRPC cancel the call (`CancelCall`).

`LookupPromise` states the javadoc of `lookupService` as a specification of its
own: one future, pending, then settled once, with a set of files closed under
imports that has the service's file, or with an exception.  `ReflectionLookup`
implements it (`Promise == INSTANCE LookupPromise WITH ...`, `KeepsPromise`).  Where a
lookup is not orderly the result may lack files (`sound` is FALSE), but it is still one
future that is settled once and whose value never changes.

### ServiceResolution

`goal` is `All` for `resolveServices` and a service's name for `resolveService`.
`listCall`, `listFuture` and `listed` are `ListServicesHandler`: `OnNextList` settles the
future and half-closes, and a second answer half-closes again, which throws and
cancels the call; `ListEnds` is `onError` and `onCompleted`.  The thread waits for
the list, then starts lookup after lookup, each a future that is done or has failed
by its deadline: that is what `LookupPromise` and `Settles` of `ReflectionLookup` say of
one.  `now` goes on only while the thread waits, and not beyond `due`.  `lost` is a
history variable: the lookups that failed or whose `get` was interrupted.

`ResolutionPromise` is what callers rely on: the list is taken once, and then one
result is made of it, or an exception thrown.  `ServiceResolution` implements it
(`INSTANCE ResolutionPromise WITH state <- ..., list <- ..., files <- Handed`); the
mapping hides callbacks, lookups and time, and shows the file sets only once they are
handed over.  `Resolve` and `ResolveFails` of `ServiceRegistry` and of `Invocation` are
the `Return` and `Throw` of that promise: `ServiceRegistry` takes some of the services
an endpoint offers, `Invocation` the one wanted, and neither sees a step in between.

### DescriptorBuild

`fromFileDescriptorSet` and `descriptorFromProto`, with the recursion as a stack of
frames (the file, and the number of its import next in turn).  `MissingImport` is
the `IllegalArgumentException`, which aborts everything; `Reject` the
`DescriptorValidationException`, which the loop catches, so that all frames are
popped; `Overflow` the `StackOverflowError` at `MaxDepth` frames.  Which files
`buildFrom` rejects is the environment's choice.  The order of the files is open:
the set lists the values of a `HashMap`.

What comes of a set is said without any order of files.  `Usable` files are the greatest
set of valid files closed under imports: these are in the resolver (`ResultExact`).  `Breaks`
is a least set: a file breaks whose imports, built in turn, come to one that is missing,
or that breaks, before one that is not usable.  A file `Descends` a chain of files each of
which the recursion reaches from the one before.  `OutcomeFixed` says that there is a
resolver only if no file of the set breaks or goes deeper than the stack, and that an exception has a
file that explains it.  Only which exception it is may depend on the order, if the set has
both faults.  `AbortJustified` draws the plain conclusion.

### ServiceStore and ServiceRegistry

A storage maps a key to a value and the time since its last access.  `expire = 0`
is a `MapStorage`, anything else a `LocalCacheStorage` with
`expireAfterAccess` and `maximumSize`.  Guava divides its maximum between the
segments of the cache and evicts the entry of a segment not used for longest; the
model is of the keys of one segment.  `getAll` does not count as an access.
`remove` and `exists` are never called.

`docs` is `DocumentRegistry`, with documents as references into `heap`, because
all services of a file set, and all requests, share one mutable object.
`configs` is `ServiceConfigManager`.  Each HTTP request is a thread with a `pc`.
`/register` goes through `Register`, `Resolve` (or `ResolveFails`), for each file
set `BuildDoc` and `PutDoc` (or `BuildAborts`), then `ListNames`, `PutConfig` for
each name, `Registered`.  A lookup that fails is left out, so that `Resolve`
chooses a non-empty part of what the endpoint offers.  `/v2/api-docs` goes
through `GetDocument`, `SetHost` and `Render`, since the view reads the document
when the answer is serialized.  The puts of one file set come in some order; the
code has a fixed one, of which the model allows more.

`since` is a history variable: the time since a service was last accessed through
either storage.

A registration that is aborted between the documents and the endpoints leaves documents
of its server next to endpoints of an older one, so `DocMatchesEndpoint` has the premise
that there are none; `RegisteredIsOwn` says that the next registration repairs that, as far
as its own services go.  `SetHost` and `Render` are steps of their own since two readers of
a document overwrite each other's host.  No property is about the host: nothing in the
repository says what a page must get, and with one reader at a time there is nothing to
say (see the hazards).

`RegistryPromise` is what those who look services up rely on, with nothing left of
threads, file sets and storages: for each service perhaps a `document`, the server it
describes, and perhaps a `route`, the server that is called.  Either is of a server that
offers the service and is put in one step; some may be dropped to make room or forgotten,
but not where the storages keep everything, and there no service is called that has no
document; and where registrations come one by one, aborted or not, no route is put next to a
document of another server.  `ServiceRegistry` implements it: `document` is the
server the entry's object in the heap was made from, `route` the endpoint of a listed
service, `keeps` the installation without expiry.

### Invocation

The HTTP thread parses, looks the endpoint up, creates a channel, resolves, starts
the call, sends the one request, waits, converts the results, and shuts the channel
down in `finally`.  The callback thread hands responses to `CompositeStreamObserver`,
which calls `MessageWriter` (adds what can be printed to `CallResults`) and then
`DoneObserver` (settles the future at the end).  A `script` is the method's declared
streaming and what its server does: responses that print as an object, print as
something else (`asJSON` then throws), are rejected by the printer (and skipped), or
do not parse (and fail the call), and how it ends the call.  An error may come at any
time.  `MethodType` is `fetchMethodType`, which makes client-streaming methods
server-streaming; the branch for `CLIENT_STREAMING` in `GrpcClientService` is never
taken.  gRPC refuses a second response to a unary call.

### OpenApiDoc

`schema` is what the resolver's files declare: which type is nested in which, the
types protoc generates for maps, fields and methods.  `defined` are the keys of the two
lookup tables (always the same), `properties` the `FieldProperty` objects of all
types by field, `paths` the two `$ref`s of each method.  A pass visits the types or
methods one by one, in any order, since files and tables come from hash maps.  A
`FieldProperty` is reduced to its shape (plain, array, map), its type and its `$ref`.

### DocumentedCalls

A name is the sequence of its parts between the dots.  `View` is `/v2/api-docs`: the
paths that contain the name of the service followed by a dot, anywhere in them, which
for sequences means a run of equal parts, followed by another one, whose first part may
be the end of a longer one (`EndsWith`; `/MyGreeter.Greet` contains `Greeter.`).  `Call`
is `/{rawFullMethodName}` up to the method's descriptor: `ParseToMethodDefinition`, an
endpoint from the payload or the registry (which has no blocked services), the server's
list, and `ResolveServiceMethod`.  A page does show methods of services other than its
own; what must hold is that it lacks none of its own, and that all it shows can be called.

### ApiPage

The page runs one JavaScript callback at a time, so that an action is a callback, and
what a callback starts (a download, a timer, a resolution, a call) ends in another.
`RequestResolvedSubtree`, `DebResolveSubtrees`, `Resolve` and `ResolveThrows` are the
batch of swagger-ui: asking adds to the batch and starts the timer anew; a run takes the
batch, the document and the subtrees resolved so far; when its promises are settled it
empties the *whole* batch and writes back the subtrees it began with.  An exception is
logged in the catch block, after which the code goes on, reads the result it does not
have, and so throws again.

An operation asks for its subtree when it is drawn open and has none, and it is drawn only
while it is mounted.  `StandaloneLayout.render` mounts the list of operations while
`loadingStatus` is `"success"` (unset, it has no document to show), and the list needs a
text and a document (`Mounted`); a folded tag has its operations unmounted too (`OnDisplay`).
Every change of the store draws what is mounted (`Draw`).  That, and the order, first empty
the batch, then draw, is what makes the batch safe for operations on display.  The others
nothing asks for: one that is open when a run empties the batch during a download that then
fails, or while its tag is folded, is in no batch and no run.  It asks anew once it is
mounted again, because mounting draws it.  Hence `NothingLost` and `OpenResolves` are about
operations on display, and cover that `LoadSpec`, `DownloadFails` and `Fold` take operations
off it.  What a component knows by itself, that it waits for an answer (`busy`), is lost
when it is unmounted.

`Downloaded` is `updateSpec` and `updateJsonSpec` with the answer; `DownloadedText` is an
answer that is not an object, `DownloadedBlank` an empty one.  `Schemes` stands for all that
is asked for and is no operation's: the security schemes of a document, and models.  `visit`
limits the documents and calls of a user, the tags folded and the runs that overlap, and says
whether answers to calls of one operation arrive in the order of the calls.

swagger-ui is vendored: its code is minified into a handful of very long lines, so that
the lines the map names for it stand for more than one function; the symbols say which.

## Runs

| Run | Checks | Bounds |
|---|---|---|
| `lookup` | `TypeOK`, `OrderlyComplete`, `ResultOfService`, `NoticesEnd`, `NoUseAfterHalfClose`, `AsksOnce`, `KeepsPromise`, `Settles`, `Succeeds` | three files, every acyclic import graph and two with cycles, all packings, any files missing or garbled, answers that may or may not overtake `start` |
| `race_incomplete` | `CompleteResult` is violated | faultless servers, answers may overtake `start` |
| `lost_file_incomplete` | `AllReceived` is violated | servers that pack several files, some left out |
| `resolver` | `TypeOK`, `ResultExact`, `OutcomeFixed`, `Terminates` | three files in every order of imports, any of them missing, any invalid; two graphs with cycles; four stack frames |
| `resolver_cache` | `BuiltOnce` is violated | complete sets of valid files |
| `registry` | `TypeOK`, `DocumentedWithoutExpiry`, `DocMatchesEndpoint`, `ForgetsIdle`, `RegisteredIsServed`, `RegisteredIsOwn`, `KeepsPromise` | two threads, two endpoints, three services (one blocked), two registrations, five installations |
| `registry_expiry` | `Documented` is violated | the installation that expires entries |
| `invocation` | `TypeOK`, `AnswerExact`, `NoLateWrites`, `Released` | every method kind, up to three responses of every kind, every ending |
| `resolution` | `TypeOK`, `ResolveExact`, `TimeBound`, `KeepsPromise`, `Returns` | lists of up to three of two services, empty, with one twice, or without the one wanted; a deadline of two units; two list answers, after which the call is closed |
| `openapi` | `TypeOK`, `NoDangling`, `RefsComplete`, `PageComplete`, `CallsReach` | four types nested up to three deep, one of them perhaps a map entry; two fields; four methods of services called `Greeter`, `demo.Greeter`, `MyGreeter` and `demo.Greeter.MyGreeter`, one blocked and one not served |
| `openapi_null_ref` | `ObjectsAreRefs` is violated | the same |
| `api_page` | `TypeOK`, `NothingLost`, `AddressOfText`, `CallsSettle`, `StaleOnlyIfOvertaken`, `OpenResolves` | two addresses, one of a document that cannot be resolved; two operations under a tag each, one of which may be folded; visits with two downloads, two overlapping runs and no call, with two downloads and one call, and with one download and three calls, answered in order or not |

The inductive invariants (`Invariant` of each module, `CallsInvariant` of `ApiPage`,
`Progress` of `ServiceResolution`) are proved for all instances and not run again.

Why the bounds are enough to mean something.  Three files give a shared import, a
chain, a cycle of two and a cycle through the root; the counter's increments and
decrements need no more to overtake each other.  Four frames are one more than the
longest chain without a cycle.  Two registrations are the least that can interleave
or follow each other, on overlapping services; storage limits are two (eviction) and
three (room for all).  Three responses tell the first, a middle and the last one
apart.  Three services in a list let a lookup fail before, between and after others.
Nesting three deep is one level more than the code descends.  Names of two to four parts
tell the first, an inner and the last dots apart.  Two overlapping runs are what it
takes for one to undo the other, and two documents for one to be overtaken or to take
the operations off the page.  One call is enough to be under way while that happens;
three calls of two operations overtake each other and an answer that is there, and no
run is of interest to them beyond the one that resolves the operation.
The theorems below do not have these bounds.

Deadlock checking is off where a request comes to an end, after which the model has
nothing left to do; in the registry this is the bound `MaxRegistrations`.

What the violations show:

* `race_incomplete`: with root `r0` importing others, the answer to the first request
  is handled between the send and the `++` of `start`.  The decrement then brings the
  counter to 0 although an import has been asked for, or the caller stores a
  stale value.  The lookup *succeeds* without the import.  Other interleavings of the
  same race leave the counter too high: the handler does not notice its end, and the
  lookup waits for its deadline.
* `lost_file_incomplete`: the counter goes up per request and down per descriptor.
  `r0` imports `a`, `a` imports `b`, and the answer to the first request has `r0` and `b`
  without `a`.  Processing `r0` asks for `a` (the counter goes from 1 to 2 and back to 1);
  processing `b`, which has nothing to ask for, brings it to 0.  The stream is half-closed
  and the lookup succeeds while the request for `a` is unanswered.
* `resolver_cache`: the cache is never filled.
* `registry_expiry`: method calls keep the endpoint alive while the document of the
  same service expires; `/listServices` then names a service whose document request
  ends in a `NullPointerException`.
* `openapi_null_ref`: a type nested in a nested type is not in the table, and a field of
  it has neither a type nor a `$ref`, against the comment on `processMessageFields`.
  `RefsComplete` says what does hold: references to all types but those.

## Fairness

* `FairSpec` of `ReflectionLookup`: both threads run (`WF` of `Caller` and `Handler`), and
  nothing else.  `Settles` has the premise `DeadlineFires`: the deadline set with
  `withDeadlineAfter` ends a call that nothing else ends.  `Succeeds` has the premise
  `ServerAnswers`: every request is answered; no help from the deadline.
* `FairSpec` of `ApiPage`: the timer fires (`DebResolveSubtrees`) and a run's promises are
  settled (`Resolve`, `ResolveThrows`).  No server need answer a download or a call.
* `FairSpec` of `DescriptorBuild`: a single thread runs to its end.
* `FairSpec` of `Invocation`: the HTTP thread runs, and gRPC delivers what the server does.
  The call has no deadline, hence the premise `script.end # "never"` of `Released`: a
  server that does not end the call holds the thread and the channel for ever.  That
  the thread is interrupted is possible and not assumed.
* `FairSpec` of `ServiceResolution`: the thread runs, time passes (`WF` of `Tick`), and at its
  deadline a call fails (`WF` of `Expires`).  `Returns` holds with a server that never answers.
* `ServiceRegistry` and `OpenApiDoc` have safety properties only.

## Proofs

All theorems are about the specifications TLC checks, for every value of the constants
that meets the module's named assumption.

* `ReflectionLookupProofs`.  `ResultIsOfService` (from `WithinClosure`, `RootFirst` and
  `AskedFor`) and `EachFileAskedOnce` (from `FreshIsNew`) hold for any server and any
  interleaving: they say what the race on the counter cannot spoil.
  `SettledOnce`, on which the refinement `LookupKeepsPromise` rests, and without which
  the deadline of `Settles` would have no call to end, holds for any server too.  `ResultIsComplete`,
  `EndIsNoticed` and `StreamUsedProperly` are about orderly lookups: otherwise what they
  say is false, as the two violating runs show.  Their inductive invariant is
  `Invariant`, which `CounterCounts` proves.  For a server that sends a file
  per answer, the counter equals the number of files *owed* (asked for and not there,
  or there and not processed) plus one for a file in hand: this is what makes 0 mean
  that nothing is left.  For a server that sends everything at once the counter is 1
  until the first file is processed, and goes below 0 afterwards, which is harmless only
  because nothing compares it with 0 again.  `Cardinality` steps rest on a lemma on adding
  to and removing from a finite set.
* `DescriptorBuildProofs`.  `ResolverIsExact` says that the result is the greatest set of
  valid files closed under imports, in any order.  The invariant says of each frame that
  the imports built so far are usable, that it builds the import its caller waits for, and
  that it is needed by the file the loop has taken, so that a rejected file makes exactly
  that file unusable.  With valid files only, none is ever skipped (`NoneSkipped`), hence all
  or none.  Together with `ResultIsOfService` this bounds what the race of a lookup costs: if the
  files are valid, a registration with an incomplete set is aborted, and no document is made
  of a part.
  `OutcomeIsFixed` rests on `Verdicts`.  That a file breaks is passed on from frame to frame:
  as long as no invalid file is met, the file the loop has taken breaks only if the
  innermost does (`BreakOK`).  The chain of frames is itself a chain of `Descends`, and what
  was built below a frame left no longer chain behind (`DepthOK`).  Files finished earlier
  have neither fault (`FinishedOK`).  Least and greatest sets take the place of recursion in
  these definitions, so that cycles need no case of their own.
* `ServiceRegistryProofs`, for any number of threads, services, endpoints and any limits.
  The invariant follows what a registration has put (`PutOK`), what is still to be put
  (`PhaseOK`), that what it has put is of its own server (`OwnOK`, from which `ReportedIsOwn`
  follows) and what may be in conflict with an older one (`MatchOK`), and relates
  the entries' ages to the last access (`FreshOK`).  `RegistryKeepsPromise` is the refinement.  `OffersOK` (a
  registration deals with nothing but what its endpoint offers) is needed for it besides
  the invariant: it makes every put one of an offered service.  `StoresSteps` sorts the
  steps by what they do to the storages, `Documents` and `Routes` say what the mapping makes of
  that, and `StepIsPromised` maps each step to one of `RegistryPromise` or a stutter.
* `InvocationProofs`, for responses of any number.  The list of results keeps up with
  what has been delivered, and the future is done only when that is everything.
* `ServiceResolutionProofs`, for any services, lists and deadline.  Types and `Progress` are
  proved together: that a lookup's number is one of the list's rests on the list being
  settled by then.  The time bound rests on `Punctual`: the deadline waited for is at most
  one `Deadline` per call so far.  `ResolutionKeepsPromise` is the refinement: `StepKinds`
  sorts the steps by what they change of what the caller sees, `StepIsPromised` maps each
  kind to a step of `ResolutionPromise` or a stutter.
* `OpenApiDocProofs`, for any number of types, fields and methods, nested and referring to each
  other in any way.  The invariant says what each pass has done; the table does not
  change after the first pass, so that a description does not depend on when it is made.
  `DocAssumption` has what protoc guarantees of map entries: they are nested, their
  fields are repeated, and their values are no maps.
* `DocumentedCallsProofs`, for names of any length.  Taking the name of a method apart gives
  the method (`ParseOfName`) and putting the parts of any name together gives the name
  (`NameOfParse`).  `CallsLeaveDocuments` carries the theorems about documents over.
* `ApiPageProofs`, for any number of documents, operations, overlapping runs and calls.
  `RequestsAreKept` is inductive with the types: a step that puts an open operation on
  display, or that empties the batch, asks for it in the same step, and the steps that ask
  for nothing either leave nothing on display or change nothing of it.  `CallsAreSettled`
  rests on `CallsInvariant`: who waits has a call under way, the request shown is the latest, and in
  order, answers leave only later calls open.

Only model-checked is all liveness (`Succeeds`, `Settles`, `Terminates`, `Released`, `Returns`,
`OpenResolves`), which is outside the prover's reach, and what the violating runs refute.

## What is not modelled

* The bytes on the wire, HTTP, Spring, JSON and protobuf as such: how the code treats them
  is a choice of the environment.
* `Tick` does not fall between the puts of one registration: the unit of time is a
  fraction of an expiry of hours, the puts take milliseconds.
* The channel a registration opens, which nothing ever shuts down: see the hazards.
* Titles, enum values and the fixed headers parameter of a document.
* An answer to the list request before `start` has stored the stream: no server answers
  a request it has not got.
* Of the page: search, authorization, models, the editor, deep links, the merging of what
  several patched plugins do to a document, and rendering, except for which operations
  are mounted, and so may ask for their subtrees.  The three JavaScript files are a vendored build of swagger-ui 3.20.4,
  all libraries included, and only the parts named above are code of the page's own logic.
* Numbers of protobuf types: a type `FieldTypeEnum` has no entry for is `UNKNOWN`; no document
  says what it should be.
* The register page sends one request and shows its answer; configuration is read at
  start-up; the demo server keeps no state.

## Further work

* `Registration`: the registry's `Resolve` and `BuildDoc` fed by `ServiceResolution` and
  `DescriptorBuild` in place of a choice.  The promises say what the composition rests on.
* `ServiceResolution` with `LookupPromise` as an instance for each lookup.
* The counter's bounds under the race: how far below or above the truth it can be.
