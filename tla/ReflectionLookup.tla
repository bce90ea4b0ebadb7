-------------------------- MODULE ReflectionLookup --------------------------
(***************************************************************************)
(* ServerReflectionClient.lookupService: one bidirectional reflection call *)
(* that collects the descriptor of the file declaring a service and, by    *)
(* asking for one imported file after another, of all it depends on.       *)
(*                                                                         *)
(* Two threads run the handler.  The caller (an HTTP thread) sends the     *)
(* first request and only then increments outstandingRequests; a gRPC      *)
(* callback thread handles the answers one at a time and both increments   *)
(* and decrements the same plain int.  Each ++ and -- is therefore a load  *)
(* and a store, and the two threads' loads and stores interleave.          *)
(*                                                                         *)
(* The server, the transport and the 10 s deadline are the environment.    *)
(***************************************************************************)
EXTENDS Integers, FiniteSets

CONSTANTS
  File,         \* .proto files the server may know
  Root,         \* the file that declares the service looked up
  Symbol,       \* the request for the file containing the service's name
  Servers       \* the remote servers considered

Batching == {"single", "closure", "unsent"}

(***************************************************************************)
(* A server: the import graph, how it packs answers ("single": the file    *)
(* asked for; "closure": with everything it imports; "unsent": the same    *)
(* without files already sent on this stream), the files it cannot find by *)
(* name or leaves out, the files whose bytes the client cannot parse, and  *)
(* whether it is so slow that no answer comes before start() has returned. *)
(***************************************************************************)
ServerType ==
  [deps : [File -> SUBSET File], batching : Batching,
   missing : SUBSET File, garbled : SUBSET File, slow : BOOLEAN]

ASSUME LookupAssumption ==
  /\ IsFiniteSet(File)
  /\ Root \in File
  /\ Symbol \notin File
  /\ Servers \subseteq ServerType

VARIABLES
  server,       \* the server this lookup talks to
  caller,       \* where the calling thread is
  callerLoad,   \* the value of outstandingRequests the caller loaded
  future,       \* resultFuture: "pending", "done" or "failed"
  value,        \* the files resultFuture was set with
  outstanding,  \* outstandingRequests
  requested,    \* requestedDescriptors
  resolved,     \* keys of resolvedDescriptors
  unanswered,   \* requests sent and not answered yet
  stream,       \* "open", "halfClosed" (onCompleted sent) or "closed"
  pc,           \* where the callback thread is
  todo,         \* descriptors of the current answer still to process
  fresh,        \* imports of the current descriptor still to ask for
  loaded        \* the value of outstandingRequests the callback loaded

callerVars   == <<caller, callerLoad>>
futureVars   == <<future, value>>
callbackVars == <<pc, todo, fresh, loaded>>
vars == <<server, callerVars, futureVars, outstanding, requested, resolved,
          unanswered, stream, callbackVars>>

Request == File \cup {Symbol}
Target(r) == IF r = Symbol THEN Root ELSE r

\* The callback is inside processDependencies.
Processing == {"deps", "request", "release", "test"}

TypeOK ==
  /\ server \in Servers
  /\ caller \in {"new", "sent", "loaded", "waiting", "returned"}
  /\ callerLoad \in Int
  /\ future \in {"pending", "done", "failed"}
  /\ value \subseteq File
  /\ outstanding \in Int
  /\ requested \subseteq File
  /\ resolved \subseteq File
  /\ unanswered \subseteq Request
  /\ stream \in {"open", "halfClosed", "closed"}
  /\ pc \in {"idle", "next"} \cup Processing
  /\ todo \subseteq File
  /\ fresh \subseteq File
  /\ loaded \in Int

\* A fault: resolvedDescriptors shared between lookups (a static field).
InitShared ==
  /\ server \in Servers
  /\ caller = "new" /\ callerLoad = 0
  /\ future = "pending" /\ value = {}
  /\ outstanding = 0
  /\ requested = {} /\ resolved \in SUBSET File
  /\ unanswered = {}
  /\ stream = "open"
  /\ pc = "idle" /\ todo = {} /\ fresh = {} /\ loaded = 0

Init ==
  /\ server \in Servers
  /\ caller = "new" /\ callerLoad = 0
  /\ future = "pending" /\ value = {}
  /\ outstanding = 0
  /\ requested = {} /\ resolved = {}
  /\ unanswered = {}
  /\ stream = "open"
  /\ pc = "idle" /\ todo = {} /\ fresh = {} /\ loaded = 0

-----------------------------------------------------------------------------
(***************************************************************************)
(* The calling thread: start(), then Future.get().  A request written to a *)
(* call that has already failed is dropped.                                *)
(***************************************************************************)
\* A fault: the service's name sent as a file name.
StartSendName ==
  /\ caller = "new"
  /\ caller' = "sent"
  /\ unanswered' = IF stream = "open" THEN {"service.Name"} ELSE {}
  /\ UNCHANGED <<server, callerLoad, futureVars, outstanding, requested,
                 resolved, stream, callbackVars>>

StartSend ==
  /\ caller = "new"
  /\ caller' = "sent"
  /\ unanswered' = IF stream = "open" THEN {Symbol} ELSE {}
  /\ UNCHANGED <<server, callerLoad, futureVars, outstanding, requested,
                 resolved, stream, callbackVars>>

StartLoad ==
  /\ caller = "sent"
  /\ caller' = "loaded"
  /\ callerLoad' = outstanding
  /\ UNCHANGED <<server, futureVars, outstanding, requested, resolved,
                 unanswered, stream, callbackVars>>

StartStore ==
  /\ caller = "loaded"
  /\ caller' = "waiting"
  /\ outstanding' = callerLoad + 1
  /\ UNCHANGED <<server, callerLoad, futureVars, requested, resolved,
                 unanswered, stream, callbackVars>>

\* get() returns the value, or throws the ExecutionException.
Get ==
  /\ caller = "waiting"
  /\ future # "pending"
  /\ caller' = "returned"
  /\ UNCHANGED <<server, callerLoad, futureVars, outstanding, requested,
                 resolved, unanswered, stream, callbackVars>>

Started == caller \in {"waiting", "returned"}

-----------------------------------------------------------------------------
(***************************************************************************)
(* The callback thread.                                                    *)
(***************************************************************************)

\* All files reachable from f through imports, f included.
Closure(f) ==
  {g \in File : \A S \in SUBSET File :
     (f \in S /\ \A h \in S : server.deps[h] \subseteq S) => g \in S}

\* The descriptors parseDescriptors gets out of the answer to r: bytes that do
\* not parse are skipped with a warning.
Parsed(r) ==
  LET packed == IF server.batching = "single" THEN {Target(r)}
                                              ELSE Closure(Target(r))
      sent == IF server.batching = "unsent" THEN resolved ELSE {}
  IN  packed \ (sent \cup server.missing \cup server.garbled)

CanAnswer(r) ==
  /\ stream # "closed" /\ pc = "idle"
  /\ r \in unanswered
  /\ server.slow => Started

\* onNext, case FILE_DESCRIPTOR_RESPONSE: store every descriptor, then go on
\* to process the dependencies of each.
OnNextDescriptors(r) ==
  /\ CanAnswer(r)
  /\ Target(r) \notin server.missing
  /\ unanswered' = unanswered \ {r}
  /\ resolved' = resolved \cup Parsed(r)
  /\ todo' = Parsed(r)
  /\ pc' = IF Parsed(r) = {} THEN "idle" ELSE "next"
  /\ UNCHANGED <<server, callerVars, futureVars, outstanding, requested,
                 stream, fresh, loaded>>

\* onNext, default branch: an ERROR_RESPONSE is logged and forgotten.
OnNextOther(r) ==
  /\ CanAnswer(r)
  /\ Target(r) \in server.missing
  /\ unanswered' = unanswered \ {r}
  /\ UNCHANGED <<server, callerVars, futureVars, outstanding, requested,
                 resolved, stream, callbackVars>>

\* Faults: a file asked for already is asked for again; a file without imports
\* is returned from early, before the decrement.
ProcessDependenciesAgain(d) ==
  /\ pc = "next"
  /\ d \in todo
  /\ todo' = todo \ {d}
  /\ fresh' = server.deps[d] \ resolved
  /\ pc' = "deps"
  /\ UNCHANGED <<server, callerVars, futureVars, outstanding, requested,
                 resolved, unanswered, stream, loaded>>

ProcessDependenciesLeaf(d) ==
  /\ pc = "next"
  /\ d \in todo
  /\ todo' = todo \ {d}
  /\ fresh' = server.deps[d] \ (resolved \cup requested)
  /\ pc' = IF server.deps[d] # {} THEN "deps"
           ELSE IF todo' = {} THEN "idle" ELSE "next"
  /\ UNCHANGED <<server, callerVars, futureVars, outstanding, requested,
                 resolved, unanswered, stream, loaded>>

\* processDependencies(d): the imports neither received nor asked for.
ProcessDependencies(d) ==
  /\ pc = "next"
  /\ d \in todo
  /\ todo' = todo \ {d}
  /\ fresh' = server.deps[d] \ (resolved \cup requested)
  /\ pc' = "deps"
  /\ UNCHANGED <<server, callerVars, futureVars, outstanding, requested,
                 resolved, unanswered, stream, loaded>>

\* The load half of ++outstandingRequests (an import is left to ask for) or of
\* --outstandingRequests (none is).
LoadOutstanding ==
  /\ pc = "deps"
  /\ loaded' = outstanding
  /\ pc' = IF fresh = {} THEN "release" ELSE "request"
  /\ UNCHANGED <<server, callerVars, futureVars, outstanding, requested,
                 resolved, unanswered, stream, todo, fresh>>

\* The request stream throws IllegalStateException once it is half closed:
\* gRPC then cancels the call and reports onError before anything else.
CancelCall ==
  /\ stream = "halfClosed"
  /\ stream' = "closed"
  /\ future' = IF future = "pending" THEN "failed" ELSE future
  /\ pc' = "idle" /\ todo' = {} /\ fresh' = {}
  /\ UNCHANGED <<value, loaded>>

\* requestedDescriptors.add(dep); the store of ++; the request for dep.
RequestDependency(dep) ==
  /\ pc = "request"
  /\ dep \in fresh
  /\ requested' = requested \cup {dep}
  /\ outstanding' = loaded + 1
  /\ \/ /\ stream = "open"
        /\ unanswered' = unanswered \cup {dep}
        /\ fresh' = fresh \ {dep}
        /\ pc' = "deps"
        /\ UNCHANGED <<futureVars, stream, todo, loaded>>
     \/ CancelCall /\ UNCHANGED unanswered
  /\ UNCHANGED <<server, callerVars, resolved>>

\* The store of --outstandingRequests.
ReleaseStore ==
  /\ pc = "release"
  /\ outstanding' = loaded - 1
  /\ pc' = "test"
  /\ UNCHANGED <<server, callerVars, futureVars, requested, resolved,
                 unanswered, stream, todo, fresh, loaded>>

\* Faults: the test passes with one request still outstanding; the test sees the
\* value from before the decrement.
TestZeroEarly ==
  /\ pc = "test"
  /\ \E seen \in {loaded - 1, outstanding} :
       \/ /\ seen > 1
          /\ pc' = IF todo = {} THEN "idle" ELSE "next"
          /\ UNCHANGED <<futureVars, stream, todo, fresh, loaded>>
       \/ /\ seen <= 1
          /\ stream = "open"
          /\ future' = "done" /\ value' = resolved
          /\ stream' = "halfClosed"
          /\ pc' = IF todo = {} THEN "idle" ELSE "next"
          /\ UNCHANGED <<todo, fresh, loaded>>
       \/ seen <= 1 /\ CancelCall
  /\ UNCHANGED <<server, callerVars, outstanding, requested, resolved,
                 unanswered>>

TestZeroLate ==
  /\ pc = "test"
  /\ \/ /\ loaded # 0
        /\ pc' = IF todo = {} THEN "idle" ELSE "next"
        /\ UNCHANGED <<futureVars, stream, todo, fresh, loaded>>
     \/ /\ loaded = 0
        /\ stream = "open"
        /\ future' = "done" /\ value' = resolved
        /\ stream' = "halfClosed"
        /\ pc' = IF todo = {} THEN "idle" ELSE "next"
        /\ UNCHANGED <<todo, fresh, loaded>>
     \/ loaded = 0 /\ CancelCall
  /\ UNCHANGED <<server, callerVars, outstanding, requested, resolved,
                 unanswered>>

\* if (outstandingRequests == 0): the field is read again, or the value just
\* stored is reused.  SettableFuture.set has no effect on a settled future.
TestZero ==
  /\ pc = "test"
  /\ \E seen \in {loaded - 1, outstanding} :
       \/ /\ seen # 0
          /\ pc' = IF todo = {} THEN "idle" ELSE "next"
          /\ UNCHANGED <<futureVars, stream, todo, fresh, loaded>>
       \/ /\ seen = 0
          /\ stream = "open"
          /\ future' = "done" /\ value' = resolved
          /\ stream' = "halfClosed"
          /\ pc' = IF todo = {} THEN "idle" ELSE "next"
          /\ UNCHANGED <<todo, fresh, loaded>>
       \/ seen = 0 /\ CancelCall
  /\ UNCHANGED <<server, callerVars, outstanding, requested, resolved,
                 unanswered>>

\* A fault: the failure is logged and the future left pending.
OnErrorSilent ==
  /\ stream # "closed" /\ pc = "idle"
  /\ stream' = "closed"
  /\ UNCHANGED <<server, callerVars, futureVars, outstanding, requested, resolved,
                 unanswered, callbackVars>>

\* The call fails: deadline, connection loss, or an error status.
OnError ==
  /\ stream # "closed" /\ pc = "idle"
  /\ stream' = "closed"
  /\ future' = IF future = "pending" THEN "failed" ELSE future
  /\ UNCHANGED <<server, callerVars, value, outstanding, requested, resolved,
                 unanswered, callbackVars>>

\* The server ends the call with status OK, when asked to or unasked.
OnCompleted ==
  /\ stream # "closed" /\ pc = "idle"
  /\ caller # "new"
  /\ stream' = "closed"
  /\ future' = IF future = "pending" THEN "failed" ELSE future
  /\ UNCHANGED <<server, callerVars, value, outstanding, requested, resolved,
                 unanswered, callbackVars>>

-----------------------------------------------------------------------------
Caller == StartSend \/ StartLoad \/ StartStore \/ Get

Handler ==
  \/ \E d \in File : ProcessDependencies(d)
  \/ LoadOutstanding
  \/ \E dep \in File : RequestDependency(dep)
  \/ ReleaseStore
  \/ TestZero

Arrival ==
  \/ \E r \in Request : OnNextDescriptors(r) \/ OnNextOther(r)
  \/ OnCompleted

Next == Caller \/ Handler \/ Arrival \/ OnError

Spec == Init /\ [][Next]_vars

\* Both threads are scheduled.  Answers may never come; that the deadline of
\* withDeadlineAfter ends the call, or that a server answers, is assumed by the
\* properties that depend on it.
FairSpec == Spec /\ WF_vars(Caller) /\ WF_vars(Handler)

DeadlineFires == WF_vars(OnError)

ServerAnswers == \A r \in Request : WF_vars(OnNextDescriptors(r) \/ OnNextOther(r))

-----------------------------------------------------------------------------
(***************************************************************************)
(* Properties.                                                             *)
(***************************************************************************)

\* A server nothing of whose answers is lost on the way into resolved; one that
\* sends a file per answer may fail to find or garble any of them.
Clean(s) == s.batching = "single" \/ (s.missing = {} /\ s.garbled = {})

\* No answer overtakes start(), and none is lost: without either, outstandingRequests
\* no longer counts what is outstanding.
Orderly == server.slow /\ Clean(server)

\* lookupService's javadoc: a result holds the file that declares the service
\* and all it imports, directly or not.
CompleteResult ==
  future = "done" => /\ Root \in value
                     /\ \A f \in value : server.deps[f] \subseteq value

\* The comment on outstandingRequests: the handler ends the rpc when it has received all
\* the files it has asked for.
AllReceived == stream = "halfClosed" => requested \subseteq value

\* It does as long as the counter counts.
OrderlyComplete == Orderly => CompleteResult

\* What the race on the counter and a server that leaves files out cannot spoil: a
\* result holds no file the service does not need, and the service's own file unless
\* that is lost; and where each file comes in an answer of its own, the imports it
\* lacks have been asked for.
ResultOfService ==
  future = "done" =>
    /\ value \subseteq Closure(Root)
    /\ Root \notin server.missing \cup server.garbled => Root \in value
    /\ server.batching = "single" =>
         \A f \in value : server.deps[f] \subseteq value \cup requested

\* The comment on outstandingRequests: the counter notices that every file
\* asked for has been received, so that the rpc ends without the deadline.
NoticesEnd ==
  Orderly /\ Started /\ pc = "idle" /\ Root \in resolved /\ requested \subseteq resolved
    => future # "pending"

\* After it has half-closed the request stream the handler neither sends on it
\* nor half-closes it again (either throws and turns the call into a failure).
NoUseAfterHalfClose ==
  Orderly /\ stream = "halfClosed" =>
    ~(pc = "request" \/ (pc = "test" /\ (loaded = 1 \/ outstanding = 0)))

\* A file is asked for at most once and never when it is already there: an
\* import shared by several files, or an import cycle, costs one request.
AsksOnce ==
  [][\A f \in File : f \in unanswered' \ unanswered
        => f \notin requested \cup resolved]_vars

\* The thread in Future.get() comes back, with a result or an exception: the deadline
\* ends every call that nothing else has ended, whatever the counter has come to.
Settles == DeadlineFires => (caller # "new" ~> caller = "returned")

\* With every request answered and no file missing or garbled, an orderly lookup
\* succeeds without waiting for the deadline, unless the call is ended from outside.
Succeeds ==
  ServerAnswers =>
    (caller # "new" /\ Orderly /\ server.missing = {} /\ server.garbled = {}
       ~> future = "done" \/ stream = "closed")

\* The lookup is the future LookupPromise describes: settled once, and with a
\* complete result or an exception if it is orderly.
Promise == INSTANCE LookupPromise WITH deps <- server.deps, sound <- Orderly
KeepsPromise == Promise!Spec

-----------------------------------------------------------------------------
(***************************************************************************)
(* The invariant behind OrderlyComplete, NoticesEnd, NoUseAfterHalfClose.  *)
(***************************************************************************)

\* Files still to be received or received and still to be processed.
Owed == (({Root} \cup requested) \ resolved) \cup todo

\* The file in hand has not given its own request back yet.
Holding == pc \in {"deps", "request", "release"}

\* A server that sends a file per answer: the counter is what is owed.
SingleCounts ==
  server.batching = "single" =>
    /\ Root \notin requested
    /\ unanswered \subseteq {Symbol} \cup requested
    /\ \A r \in unanswered : Target(r) \in Owed \ todo
    /\ Started => outstanding = Cardinality(Owed) + (IF Holding THEN 1 ELSE 0)
    /\ \A f \in resolved \ todo :
         server.deps[f] \subseteq resolved \cup requested \cup fresh
    /\ stream = "halfClosed" => pc = "idle" /\ Owed = {}
    /\ stream = "open" /\ pc = "idle" => Owed # {}

\* A server that sends a file with all it imports: one request, one answer, and
\* the first file processed brings the counter to zero.
ClosureCounts ==
  server.batching # "single" =>
    /\ requested = {} /\ fresh = {}
    /\ pc # "request"
    /\ unanswered \subseteq {Symbol}
    /\ resolved = {} => outstanding = (IF Started THEN 1 ELSE 0)
    /\ resolved # {} => resolved = Closure(Root) /\ unanswered = {}
    /\ resolved = {} => todo = {} /\ stream # "halfClosed"
    /\ stream = "open" /\ resolved # {} =>
         pc # "idle" /\ outstanding = (IF pc = "test" THEN 0 ELSE 1)
    /\ stream = "halfClosed" => outstanding < (IF pc = "test" THEN 0 ELSE 1)

\* The future is settled in the step that closes or half-closes the stream.
SettledWithStream == future = "pending" <=> stream = "open"

\* The bookkeeping both rest on.
Bookkeeping ==
  /\ pc # "idle" => Started /\ Root \in resolved
  /\ pc \in {"request", "release"} => loaded = outstanding
  /\ pc = "test" => loaded = outstanding + 1
  /\ pc = "idle" => todo = {}
  /\ pc \notin {"deps", "request"} => fresh = {}
  /\ pc = "request" => fresh # {}
  /\ pc = "release" => fresh = {}
  /\ pc # "idle" => stream # "closed"
  /\ todo \subseteq resolved
  /\ fresh \cap (resolved \cup requested) = {}
  /\ future = "pending" <=> stream = "open"
  /\ caller = "new" => unanswered = {}
  /\ ~Started => resolved = {} /\ requested = {} /\ outstanding = 0
  /\ caller = "loaded" => callerLoad = 0
  /\ requested # {} => Root \in resolved

Accounts == Bookkeeping /\ SingleCounts /\ ClosureCounts /\ CompleteResult

Invariant == Orderly => Accounts

\* The invariants behind ResultOfService, for any server and any interleaving.
WithinClosure ==
  /\ resolved \cup requested \cup fresh \subseteq Closure(Root)
  /\ unanswered \subseteq {Symbol} \cup requested
  /\ todo \subseteq resolved
  /\ value \subseteq Closure(Root)

\* The file of the service comes before all others.
RootFirst ==
  Root \notin server.missing \cup server.garbled =>
    /\ pc # "idle" \/ requested # {} => Root \in resolved
    /\ future = "done" => Root \in value

\* The imports of the files received are received or asked for.
AskedFor ==
  server.batching = "single" =>
    /\ pc # "next" => todo = {}
    /\ \A f, g \in todo : f = g
    /\ stream # "closed" => \A f \in resolved \ todo :
         server.deps[f] \subseteq resolved \cup requested \cup fresh
    /\ future = "done" =>
         \A f \in value : server.deps[f] \subseteq value \cup requested

\* The invariant behind AsksOnce.
FreshIsNew ==
  /\ fresh \cap (resolved \cup requested) = {}
  /\ pc \notin {"deps", "request"} => fresh = {}
=============================================================================
