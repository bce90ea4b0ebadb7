------------------------------- MODULE ApiPage -------------------------------
(***************************************************************************)
(* index.html: the swagger-ui page that downloads a document, resolves the *)
(* operations a user opens and calls them.  JavaScript runs one callback   *)
(* at a time; between the steps of a download, of a resolution or of a     *)
(* call any other callback may run.  Operations are on display while the   *)
(* latest news of a download is its success, unless their tag is folded.   *)
(* A change of the store draws those on display, and drawing one that is   *)
(* open and not resolved asks for it; nothing asks for the others.         *)
(***************************************************************************)
EXTENDS Naturals, Sequences

CONSTANTS
  Url,          \* addresses of documents
  Unresolvable, \* those whose document makes resolveSubtree throw
  Operation,    \* operations, which all the documents have
  Tag,          \* the tags under which the page lists them
  TagOf,        \* the tag of each
  Schemes,      \* what is no operation's: ["components","securitySchemes"], models
  Slot,         \* the runs of debResolveSubtrees that may overlap
  Visits        \* the visits considered

(***************************************************************************)
(* A visit to the page: how many documents and calls the user asks for at  *)
(* most, which tags the user may fold, which runs there may be, and whether *)
(* answers to calls of an operation come in order.                         *)
(***************************************************************************)
VisitType == [downloads : Nat, calls : Nat, tags : SUBSET Tag,
              slots : SUBSET Slot \ {{}}, inOrder : BOOLEAN]

ASSUME PageAssumption ==
  /\ Unresolvable \subseteq Url
  /\ Schemes \notin Operation
  /\ TagOf \in [Operation -> Tag]
  /\ Visits \subseteq VisitType

None == 0

VARIABLES
  visit,      \* the visit
  downloads,  \* the addresses asked for, in order; a document is known by its index
  fetching,   \* downloads not answered yet
  url,        \* spec.url
  loading,    \* spec.loadingStatus
  text,       \* spec.spec: the download whose text it is; None is the empty text
  json,       \* spec.json: the document the page shows
  resolved,   \* spec.resolvedSubtrees: the document an operation was resolved with
  shown,      \* operations that are open
  folded,     \* tags that are folded
  batch,      \* requestBatch: what has been asked for and not been dealt with
  system,     \* requestBatch.system is there
  timer,      \* the debounced call is due
  running,    \* the runs of debResolveSubtrees that have begun
  calls,      \* the operations called, in order; a call is known by its index
  pending,    \* calls not answered yet
  request,    \* spec.mutatedRequests: the latest call of an operation
  response,   \* spec.responses: the call whose answer is there
  busy        \* executeInProgress, of an operation on display

docVars == <<downloads, fetching, url, loading, text, json>>
viewVars == <<shown, folded>>
batchVars == <<batch, system, timer>>
resolveVars == <<resolved, running, batchVars>>
callVars == <<calls, pending, request, response, busy>>
vars == <<visit, docVars, resolveVars, viewVars, callVars>>

\* The document, what was resolved, and the batch when a run began.
Run == [doc : 0..Len(downloads), base : [Operation -> 0..Len(downloads)],
        paths : SUBSET (Operation \cup {Schemes})]

Idle == [doc |-> None, base |-> [p \in Operation |-> None], paths |-> {}]

DocTypes ==
  /\ visit \in Visits
  /\ downloads \in Seq(Url)
  /\ fetching \subseteq 1..Len(downloads)
  /\ url \in Url \cup {None}
  /\ {text, json} \subseteq 0..Len(downloads)
  /\ loading \in {"none", "loading", "failed", "success"}

ResolveTypes ==
  /\ resolved \in [Operation -> 0..Len(downloads)]
  /\ shown \subseteq Operation /\ folded \subseteq Tag
  /\ batch \subseteq Operation \cup {Schemes}
  /\ system \in BOOLEAN /\ timer \in BOOLEAN
  /\ running \in [Slot -> Run]

CallTypes ==
  /\ calls \in Seq(Operation)
  /\ pending \subseteq 1..Len(calls)
  /\ request \in [Operation -> 0..Len(calls)]
  /\ response \in [Operation -> 0..Len(calls)]
  /\ busy \subseteq Operation

TypeOK == DocTypes /\ ResolveTypes /\ CallTypes

Init ==
  /\ visit \in Visits
  /\ downloads = <<>> /\ fetching = {} /\ url = None /\ loading = "none"
  /\ text = None /\ json = None
  /\ resolved = [p \in Operation |-> None] /\ shown = {} /\ folded = {}
  /\ batch = {} /\ system = FALSE /\ timer = FALSE
  /\ running = [s \in Slot |-> Idle]
  /\ calls = <<>> /\ pending = {}
  /\ request = [p \in Operation |-> None] /\ response = [p \in Operation |-> None]
  /\ busy = {}

-----------------------------------------------------------------------------
\* StandaloneLayout: there is a list of operations only after a successful download,
\* with a document and a text; while another one is under way, or if it fails, the
\* components of all operations are unmounted.
Mounted == loading = "success" /\ text # None /\ json # None

\* Those of a folded tag are unmounted too.
OnDisplay == IF Mounted THEN {p \in Operation : TagOf[p] \notin folded} ELSE {}

\* Open operations on display without a resolved subtree: drawing them asks for it.
Unresolved == {p \in OnDisplay \cap shown : resolved[p] = None}

\* requestResolvedSubtree, for some paths: they join what is left of the batch, and
\* the timer starts anew.
RequestResolvedSubtree(paths, left, owner) ==
  /\ batch' = left \cup paths
  /\ system' = (owner \/ paths # {})
  /\ timer' = (timer \/ paths # {})

\* The store has changed: the page is drawn as it is now.
Draw == RequestResolvedSubtree(Unresolved', batch, system)

-----------------------------------------------------------------------------
(***************************************************************************)
(* Documents: SwaggerUIBundle on loading the page, and "Explore" in the    *)
(* top bar, which does not wait for a download under way.                  *)
(***************************************************************************)
\* A fault: the download is known by the number of those before it.
LoadSpecFromZero(u) ==
  /\ Len(downloads) < visit.downloads
  /\ downloads' = Append(downloads, u)
  /\ fetching' = fetching \cup {Len(downloads)}
  /\ url' = u
  /\ loading' = "loading"
  /\ busy' = {}
  /\ UNCHANGED <<visit, text, json, resolveVars, viewVars, calls, pending, request, response>>

\* The operations are unmounted; what they know of themselves is lost.
LoadSpec(u) ==
  /\ Len(downloads) < visit.downloads
  /\ downloads' = Append(downloads, u)
  /\ fetching' = fetching \cup {Len(downloads) + 1}
  /\ url' = u
  /\ loading' = "loading"
  /\ busy' = {}
  /\ UNCHANGED <<visit, text, json, resolveVars, viewVars, calls, pending, request, response>>

\* No answer, or one with an error status.
DownloadFails(n) ==
  /\ n \in fetching
  /\ fetching' = fetching \ {n}
  /\ loading' = "failed"
  /\ busy' = {}
  /\ UNCHANGED <<visit, downloads, url, text, json, resolveVars, viewVars,
                 calls, pending, request, response>>

\* Faults: what has been resolved is kept; the address stays that of the latest
\* download.
DownloadedKeeps(n) ==
  /\ n \in fetching
  /\ fetching' = fetching \ {n}
  /\ loading' = "success"
  /\ text' = n /\ json' = n /\ url' = downloads[n]
  /\ UNCHANGED <<visit, downloads, resolved, running, viewVars, callVars>>
  /\ RequestResolvedSubtree(Unresolved' \cup {Schemes}, batch, system)

DownloadedElsewhere(n) ==
  /\ n \in fetching
  /\ fetching' = fetching \ {n}
  /\ loading' = "success"
  /\ text' = n /\ json' = n
  /\ resolved' = [p \in Operation |-> None]
  /\ UNCHANGED <<visit, downloads, url, running, viewVars, callVars>>
  /\ RequestResolvedSubtree(Unresolved' \cup {Schemes}, batch, system)

\* updateSpec, updateJsonSpec: the document replaces the one before, what has been
\* resolved is forgotten, and the address is that of the answer again.  Operations that
\* another answer has put on display stay mounted.
Downloaded(n) ==
  /\ n \in fetching
  /\ fetching' = fetching \ {n}
  /\ loading' = "success"
  /\ text' = n /\ json' = n /\ url' = downloads[n]
  /\ resolved' = [p \in Operation |-> None]
  /\ UNCHANGED <<visit, downloads, running, viewVars, callVars>>
  /\ RequestResolvedSubtree(Unresolved' \cup {Schemes}, batch, system)

\* A text that is no object, like that of a page of HTML: parseToJson leaves the
\* document as it is, and its operations are on display again.
DownloadedText(n) ==
  /\ n \in fetching
  /\ fetching' = fetching \ {n}
  /\ loading' = "success"
  /\ text' = n /\ url' = downloads[n]
  /\ UNCHANGED <<visit, downloads, json, resolved, running, viewVars, callVars>>
  /\ Draw

\* An empty text: the operations are mounted again with the status, while the text is
\* still the one before, and unmounted with the text.
DownloadedBlank(n) ==
  /\ n \in fetching
  /\ fetching' = fetching \ {n}
  /\ loading' = "success"
  /\ text' = None /\ url' = downloads[n]
  /\ busy' = {}
  /\ LET again == {p \in shown : /\ loading # "success" /\ text # None /\ json # None
                                 /\ TagOf[p] \notin folded /\ resolved[p] = None}
     IN  RequestResolvedSubtree(again, batch, system)
  /\ UNCHANGED <<visit, downloads, json, resolved, running, viewVars,
                 calls, pending, request, response>>

-----------------------------------------------------------------------------
(***************************************************************************)
(* Operations: toggleShown, and debResolveSubtrees, which a timer starts   *)
(* and which goes on when the resolver's promises are fulfilled.           *)
(***************************************************************************)
Toggle(p) ==
  /\ p \in OnDisplay
  /\ shown' = IF p \in shown THEN shown \ {p} ELSE shown \cup {p}
  /\ UNCHANGED <<visit, docVars, resolved, running, folded, callVars>>
  /\ Draw

\* The operations of a tag are unmounted, or mounted again.
Fold(t) ==
  /\ Mounted /\ t \in visit.tags
  /\ folded' = IF t \in folded THEN folded \ {t} ELSE folded \cup {t}
  /\ busy' = {p \in busy : TagOf[p] # t}
  /\ UNCHANGED <<visit, docVars, resolved, running, shown, calls, pending, request, response>>
  /\ Draw

\* Any other change of the store; one that opens a model asks for the model.
OtherChange ==
  /\ UNCHANGED <<visit, docVars, resolved, running, viewVars, callVars>>
  /\ \/ Draw
     \/ Mounted /\ RequestResolvedSubtree(Unresolved' \cup {Schemes}, batch, system)

\* The timer is due.  A run takes along the batch, which stays as it is, and what is
\* resolved now; without a system there is nothing to do.
DebResolveSubtrees(s) ==
  /\ timer /\ timer' = FALSE
  /\ \/ /\ system /\ running[s] = Idle /\ s \in visit.slots
        /\ running' = [running EXCEPT ![s] =
                         [doc |-> json, base |-> resolved, paths |-> batch]]
     \/ ~system /\ UNCHANGED running
  /\ UNCHANGED <<visit, docVars, resolved, batch, system, viewVars, callVars>>

\* A fault: the batch is emptied after the page is drawn.
ResolveEmptiesLate(s) ==
  LET run == running[s]
  IN  /\ run # Idle /\ downloads[run.doc] \notin Unresolvable
      /\ resolved' = [p \in Operation |-> IF p \in run.paths THEN run.doc ELSE run.base[p]]
      /\ running' = [running EXCEPT ![s] = Idle]
      /\ UNCHANGED <<visit, docVars, viewVars, callVars>>
      /\ batch' = {} /\ system' = FALSE
      /\ timer' = (timer \/ Unresolved' # {})

\* The subtrees are there.  The batch is emptied, whatever has joined it meanwhile,
\* and all subtrees of the run become those of the page, on display or not.
Resolve(s) ==
  LET run == running[s]
  IN  /\ run # Idle /\ downloads[run.doc] \notin Unresolvable
      /\ resolved' = [p \in Operation |-> IF p \in run.paths THEN run.doc ELSE run.base[p]]
      /\ running' = [running EXCEPT ![s] = Idle]
      /\ UNCHANGED <<visit, docVars, viewVars, callVars>>
      /\ RequestResolvedSubtree(Unresolved', {}, FALSE)

\* The catch block logs the error, and the statement after it throws another one:
\* neither the batch is emptied nor the page drawn.
ResolveThrows(s) ==
  /\ running[s] # Idle /\ downloads[running[s].doc] \in Unresolvable
  /\ running' = [running EXCEPT ![s] = Idle]
  /\ UNCHANGED <<visit, docVars, resolved, batchVars, viewVars, callVars>>

-----------------------------------------------------------------------------
(***************************************************************************)
(* Calls: "Execute", which a call under way does not disable, and "Clear". *)
(***************************************************************************)
Execute(p) ==
  /\ Len(calls) < visit.calls
  /\ p \in OnDisplay \cap shown /\ resolved[p] # None
  /\ calls' = Append(calls, p)
  /\ pending' = pending \cup {Len(calls) + 1}
  /\ request' = [request EXCEPT ![p] = Len(calls) + 1]
  /\ busy' = busy \cup {p}
  /\ UNCHANGED <<visit, docVars, resolved, running, viewVars, response>>
  /\ Draw

\* A fault: an answer does not replace one that is there.
RespondOnce(c) ==
  /\ c \in pending
  /\ visit.inOrder => \A d \in pending : calls[d] = calls[c] => c <= d
  /\ pending' = pending \ {c}
  /\ response' = [response EXCEPT ![calls[c]] = IF @ = None THEN c ELSE @]
  /\ busy' = busy \ {calls[c]}
  /\ UNCHANGED <<visit, docVars, resolved, running, viewVars, calls, request>>
  /\ Draw

\* setResponse: an answer or an error; the page stops waiting, whichever call it is.
Respond(c) ==
  /\ c \in pending
  /\ visit.inOrder => \A d \in pending : calls[d] = calls[c] => c <= d
  /\ pending' = pending \ {c}
  /\ response' = [response EXCEPT ![calls[c]] = c]
  /\ busy' = busy \ {calls[c]}
  /\ UNCHANGED <<visit, docVars, resolved, running, viewVars, calls, request>>
  /\ Draw

\* The request shown stays, for that is the mutated one.
Clear(p) ==
  /\ p \in OnDisplay \cap shown /\ resolved[p] # None /\ response[p] # None
  /\ response' = [response EXCEPT ![p] = None]
  /\ busy' = busy \ {p}
  /\ UNCHANGED <<visit, docVars, resolved, running, viewVars, calls, pending, request>>
  /\ Draw

-----------------------------------------------------------------------------
Answer(n) == DownloadFails(n) \/ Downloaded(n) \/ DownloadedText(n) \/ DownloadedBlank(n)

Resolving(s) == DebResolveSubtrees(s) \/ Resolve(s) \/ ResolveThrows(s)

User ==
  \/ \E u \in Url : LoadSpec(u)
  \/ \E p \in Operation : Toggle(p) \/ Execute(p) \/ Clear(p)
  \/ \E t \in Tag : Fold(t)
  \/ OtherChange

Next ==
  \/ User
  \/ \E n \in fetching : Answer(n)
  \/ \E s \in Slot : Resolving(s)
  \/ \E c \in pending : Respond(c)

Spec == Init /\ [][Next]_vars

\* Timers fire and the resolver's promises are settled; no server need answer.
FairSpec ==
  /\ Spec
  /\ WF_vars(\E s \in Slot : DebResolveSubtrees(s))
  /\ \A s \in Slot : WF_vars(Resolve(s) \/ ResolveThrows(s))

-----------------------------------------------------------------------------
(***************************************************************************)
(* Properties.                                                             *)
(***************************************************************************)
Resolvable == json # None /\ downloads[json] \notin Unresolvable

\* Runs of debResolveSubtrees empty the batch of requests they have not dealt with, and
\* while an operation is not on display nothing asks for it again.  Yet no request is
\* lost: an open operation on display, of a document that can be resolved, is resolved,
\* in a run, or in a batch that the timer will start.
NothingLost ==
  Resolvable => \A p \in Unresolved :
    \/ p \in batch /\ system /\ timer
    \/ \E s \in Slot : p \in running[s].paths /\ downloads[running[s].doc] \notin Unresolvable

\* An operation that stays open and on display does not show the loading picture for
\* ever, whatever has been folded, downloaded or dropped from the batch before.
OpenResolves ==
  \A p \in Operation :
    p \in Unresolved /\ Resolvable ~> p \notin Unresolved \/ ~Resolvable

\* What the page shows and what is being resolved is of the document of the page.
Current ==
  /\ \A p \in Operation : resolved[p] \in {None, json}
  /\ \A s \in Slot : running[s] # Idle =>
       /\ running[s].doc = json
       /\ \A p \in Operation : running[s].base[p] \in {None, json}

\* It ceases to be only when a document arrives while subtrees are being resolved: the
\* run brings those of the document before onto the page.
StaleOnlyIfOvertaken ==
  [][Current /\ ~Current' =>
       \E n \in fetching, s \in Slot : Downloaded(n) /\ running[s] # Idle]_vars

\* The address in the top bar is that of the text the page has loaded, though several
\* downloads may be answered in any order.
AddressOfText == loading = "success" /\ text # None => url = downloads[text]

\* When all calls of an operation are answered the page does not wait, and if the
\* answers came in order, the one it shows is that of the request it shows.
CallsSettle ==
  \A p \in Operation : (\A c \in pending : calls[c] # p) =>
    /\ p \notin busy
    /\ visit.inOrder => response[p] \in {None, request[p]}
-----------------------------------------------------------------------------
\* The invariant behind CallsSettle: who waits has a call under way, a request shown
\* is the latest of its operation, and in order, answers leave only later calls open.
Waiting == \A p \in busy : \E c \in pending : calls[c] = p

Latest ==
  /\ \A c \in 1..Len(calls) : c <= request[calls[c]]
  /\ \A p \in Operation :
       /\ request[p] # None => calls[request[p]] = p
       /\ response[p] # None => calls[response[p]] = p

Ordered ==
  visit.inOrder =>
    /\ \A c \in pending : \A d \in 1..Len(calls) \ pending : calls[c] = calls[d] => d < c
    /\ \A c \in 1..Len(calls) \ pending : response[calls[c]] # None => c <= response[calls[c]]

CallsInvariant == Waiting /\ Latest /\ Ordered
=============================================================================
