----------------------------- MODULE Invocation -----------------------------
(***************************************************************************)
(* GrpcController.invokeMethod: one HTTP request that calls one gRPC       *)
(* method.  The HTTP thread opens a channel of its own, has the service    *)
(* resolved, sends the request and waits for a future without a timeout;   *)
(* gRPC's callback thread writes the responses into a plain list and       *)
(* settles the future; a finally block shuts the channel down.             *)
(***************************************************************************)
EXTENDS Naturals, Sequences

CONSTANTS
  Scripts   \* the methods and the behaviours of their servers considered

(***************************************************************************)
(* A response: one that prints as a JSON object, one that prints as other  *)
(* JSON (the wrapper types do), one the printer rejects (an Any of a type  *)
(* not in the registry), one whose bytes do not parse.                     *)
(***************************************************************************)
Response == {"object", "scalar", "unprintable", "garbled"}

\* The method as declared, what its server answers, and how it ends the call.
ScriptType ==
  [clientStreaming : BOOLEAN, serverStreaming : BOOLEAN,
   responses : Seq(Response), end : {"ok", "error", "never"}]

ASSUME InvocationAssumption == Scripts \subseteq ScriptType

VARIABLES
  script,     \* the method and its server
  pc,         \* where the HTTP thread is
  channel,    \* "none", "open" or "shutdown"
  call,       \* the gRPC call: "none", "open" or "closed"
  delivered,  \* responses handed to the observers so far
  results,    \* CallResults: numbers of the responses in it
  future,     \* DoneObserver's doneFuture: "pending", "done" or "failed"
  outcome,    \* what the HTTP client gets
  answer      \* the results in it

vars == <<script, pc, channel, call, delivered, results, future, outcome, answer>>
callbackVars == <<call, delivered, results, future>>

TypeOK ==
  /\ script \in Scripts
  /\ pc \in {"new", "resolving", "calling", "sending", "waiting", "closing", "ended"}
  /\ channel \in {"none", "open", "shutdown"}
  /\ call \in {"none", "open", "closed"}
  /\ delivered \in 0..Len(script.responses)
  /\ results \in Seq(1..Len(script.responses))
  /\ future \in {"pending", "done", "failed"}
  /\ outcome \in {"none", "noEndpoint", "exception", "answer"}
  /\ answer \in Seq(1..Len(script.responses))

Init ==
  /\ script \in Scripts
  /\ pc = "new" /\ channel = "none"
  /\ call = "none" /\ delivered = 0 /\ results = <<>> /\ future = "pending"
  /\ outcome = "none" /\ answer = <<>>

\* fetchMethodType: CLIENT_STREAMING is never the answer.
MethodType ==
  IF script.clientStreaming /\ script.serverStreaming THEN "BIDI_STREAMING"
  ELSE IF ~script.clientStreaming /\ ~script.serverStreaming THEN "UNARY"
  ELSE "SERVER_STREAMING"

-----------------------------------------------------------------------------
(***************************************************************************)
(* The HTTP thread.                                                        *)
(***************************************************************************)

\* Names, payload, headers or endpoint that do not parse: an exception before
\* there is a channel.
BadRequest ==
  /\ pc = "new"
  /\ pc' = "ended" /\ outcome' = "exception"
  /\ UNCHANGED <<script, channel, callbackVars, answer>>

\* No endpoint in the payload and none registered.
NoEndpoint ==
  /\ pc = "new"
  /\ pc' = "ended" /\ outcome' = "noEndpoint"
  /\ UNCHANGED <<script, channel, callbackVars, answer>>

CreateChannel ==
  /\ pc = "new"
  /\ pc' = "resolving" /\ channel' = "open"
  /\ UNCHANGED <<script, callbackVars, outcome, answer>>

\* The service cannot be looked up or built, has no such method, or the payload
\* is not one of its requests.
ResolveFails ==
  /\ pc = "resolving"
  /\ pc' = "closing" /\ outcome' = "exception"
  /\ UNCHANGED <<script, channel, callbackVars, answer>>

Resolve ==
  /\ pc = "resolving"
  /\ pc' = "calling"
  /\ UNCHANGED <<script, channel, callbackVars, outcome, answer>>

\* The call is started with the composite observer; from now on callbacks come.
StartCall ==
  /\ pc = "calling"
  /\ pc' = "sending" /\ call' = "open"
  /\ UNCHANGED <<script, channel, delivered, results, future, outcome, answer>>

\* The one request and the half-close.
SendRequest ==
  /\ pc = "sending"
  /\ pc' = "waiting"
  /\ UNCHANGED <<script, channel, callbackVars, outcome, answer>>

IsObject(i) == script.responses[i] = "object"

\* get() returns; asJSON wants every result to be an object.
GetResults ==
  /\ pc = "waiting" /\ future = "done"
  /\ pc' = "closing"
  /\ IF \A i \in 1..Len(results) : IsObject(results[i])
     THEN outcome' = "answer" /\ answer' = results
     ELSE outcome' = "exception" /\ UNCHANGED answer
  /\ UNCHANGED <<script, channel, callbackVars>>

\* get() throws because the call has failed.
GetThrows ==
  /\ pc = "waiting" /\ future = "failed"
  /\ pc' = "closing" /\ outcome' = "exception"
  /\ UNCHANGED <<script, channel, callbackVars, answer>>

\* The thread is interrupted in get().
Interrupted ==
  /\ pc = "waiting"
  /\ pc' = "closing" /\ outcome' = "exception"
  /\ UNCHANGED <<script, channel, callbackVars, answer>>

\* A fault: the shutdown outside of a finally block.
ShutdownUnlessThrown ==
  /\ pc = "closing"
  /\ pc' = "ended"
  /\ channel' = IF outcome = "exception" THEN channel ELSE "shutdown"
  /\ UNCHANGED <<script, callbackVars, outcome, answer>>

\* The finally block.
Shutdown ==
  /\ pc = "closing"
  /\ pc' = "ended" /\ channel' = "shutdown"
  /\ UNCHANGED <<script, callbackVars, outcome, answer>>

-----------------------------------------------------------------------------
(***************************************************************************)
(* The callback thread, which runs one callback at a time, in order.       *)
(***************************************************************************)

\* The server of a method declared with one request answers it, and no sooner.
ServerActs == pc \in {"waiting", "closing", "ended"} \/ script.clientStreaming

Coming == delivered + 1

\* gRPC does not hand over bytes that do not parse, nor a second response to a
\* unary call: it cancels the call and reports an error.
Refused ==
  \/ script.responses[Coming] = "garbled"
  \/ MethodType = "UNARY" /\ delivered > 0

\* Faults: a message counted twice; the future done with the first message.
OnNextTwice ==
  /\ call = "open" /\ ServerActs
  /\ delivered < Len(script.responses) /\ ~Refused
  /\ delivered' = delivered + 2
  /\ UNCHANGED <<script, pc, channel, call, results, future, outcome, answer>>

OnNextSettles ==
  /\ call = "open" /\ ServerActs
  /\ delivered < Len(script.responses) /\ ~Refused
  /\ delivered' = Coming
  /\ results' = IF script.responses[Coming] = "unprintable" THEN results
                                                           ELSE Append(results, Coming)
  /\ future' = "done"
  /\ UNCHANGED <<script, pc, channel, call, outcome, answer>>

\* onNext: MessageWriter adds what it can print, and DoneObserver does nothing.
OnNext ==
  /\ call = "open" /\ ServerActs
  /\ delivered < Len(script.responses) /\ ~Refused
  /\ delivered' = Coming
  /\ results' = IF script.responses[Coming] = "unprintable" THEN results
                                                           ELSE Append(results, Coming)
  /\ UNCHANGED <<script, pc, channel, call, future, outcome, answer>>

\* onCompleted: a call that ends well has delivered all responses.
OnCompleted ==
  /\ call = "open" /\ ServerActs
  /\ script.end = "ok" /\ delivered = Len(script.responses)
  /\ call' = "closed" /\ future' = "done"
  /\ UNCHANGED <<script, pc, channel, delivered, results, outcome, answer>>

\* onError: a response refused, an error the server ends the call with, or a lost
\* connection, which may come at any time.
OnError ==
  /\ call = "open"
  /\ call' = "closed" /\ future' = "failed"
  /\ UNCHANGED <<script, pc, channel, delivered, results, outcome, answer>>

\* The errors that are bound to come.
MustFail ==
  \/ script.end = "error" /\ delivered = Len(script.responses)
  \/ ServerActs /\ delivered < Len(script.responses) /\ Refused

-----------------------------------------------------------------------------
Http ==
  \/ BadRequest \/ NoEndpoint \/ CreateChannel \/ ResolveFails \/ Resolve
  \/ StartCall \/ SendRequest \/ GetResults \/ GetThrows \/ Shutdown

Callback == OnNext \/ OnCompleted \/ OnError

Next == Http \/ Interrupted \/ Callback

Spec == Init /\ [][Next]_vars

\* The thread runs, calls of the reflection client meet their deadline, and gRPC
\* delivers what the server does.
FairSpec ==
  /\ Spec
  /\ WF_vars(Http)
  /\ WF_vars(OnNext \/ OnCompleted \/ (MustFail /\ OnError))

-----------------------------------------------------------------------------
(***************************************************************************)
(* Properties.                                                             *)
(***************************************************************************)

\* The sequence lists the numbers of S in ascending order.
Lists(seq, S) ==
  /\ {seq[k] : k \in 1..Len(seq)} = S
  /\ \A j, k \in 1..Len(seq) : j < k => seq[j] < seq[k]

Printable == {i \in 1..Len(script.responses) : script.responses[i] # "unprintable"}

\* The results answered are those of a call that ended well, and all of them, in
\* order: a call that fails half-way answers none, a response that cannot be
\* printed is missing without a trace.
AnswerExact ==
  outcome = "answer" =>
    /\ script.end = "ok"
    /\ \A i \in Printable : IsObject(i)
    /\ MethodType = "UNARY" => Len(script.responses) <= 1
    /\ Lists(answer, Printable)

\* CallResults is a plain list filled by one thread and read by another: it does
\* not change once the future lets the reader go.
NoLateWrites ==
  [][future # "pending" => UNCHANGED results]_vars

\* If the server ends the call, the request is answered in the end, and the channel
\* it has opened is shut down whatever went wrong.
Released ==
  script.end # "never" => <>(pc = "ended" /\ channel # "open")

\* Why the answer is exact: the list keeps up with what has been delivered, and the
\* future is done only when that is everything.
Invariant ==
  /\ Lists(results, {i \in Printable : i <= delivered})
  /\ MethodType = "UNARY" => delivered <= 1
  /\ pc \in {"new", "resolving", "calling"} => call = "none"
  /\ future # "pending" => call = "closed"
  /\ future = "done" => script.end = "ok" /\ delivered = Len(script.responses)
  /\ AnswerExact
=============================================================================
