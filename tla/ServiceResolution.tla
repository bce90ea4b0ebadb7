-------------------------- MODULE ServiceResolution --------------------------
(***************************************************************************)
(* GrpcReflectionUtils: resolveServices (a registration: all services of a *)
(* server) and resolveService (a method call: the one service wanted), on  *)
(* top of ServerReflectionClient.  The thread has the services listed by   *)
(* ListServicesHandler, whose callbacks run on a thread of gRPC's, and     *)
(* then has them looked up one after another.  A lookup is the future that *)
(* LookupPromise describes.  No call outlives its deadline.                *)
(***************************************************************************)
EXTENDS Naturals, Sequences

CONSTANTS
  Service,   \* full names of services
  All,       \* the goal of resolveServices
  Goals,     \* the goals considered: All, or the service wanted
  Lists,     \* the lists of services a server may answer with
  Deadline   \* LIST_RPC_DEADLINE_MS = LOOKUP_RPC_DEADLINE_MS, in units of time

ASSUME ResolutionAssumption ==
  /\ All \notin Service
  /\ Goals \subseteq Service \cup {All}
  /\ Lists \subseteq Seq(Service)
  /\ Deadline \in Nat \ {0}

VARIABLES
  goal,        \* what the thread is asked for
  pc,          \* where it is
  listCall,    \* the list rpc: "none", "open", "halfClosed" or "closed"
  listFuture,  \* resultFuture of ListServicesHandler
  listed,      \* the list it was set with
  index,       \* number of the current lookup, 0 before the first
  lookup,      \* its future
  lost,        \* numbers of the lookups that failed or were not waited for
  result,      \* numbers of the services whose file set the thread has
  now, due     \* time, and the deadline of the call waited for

listVars == <<listCall, listFuture, listed>>
threadVars == <<goal, pc, index, result, due>>
vars == <<threadVars, listVars, lookup, lost, now>>

Outcome == {"pending", "done", "failed"}

TypeOK ==
  /\ goal \in Goals
  /\ pc \in {"new", "listing", "looking", "returned", "threw"}
  /\ listCall \in {"none", "open", "halfClosed", "closed"}
  /\ listFuture \in Outcome
  /\ listed \in Seq(Service)
  /\ index \in 0..Len(listed)
  /\ lookup \in Outcome
  /\ lost \subseteq 1..Len(listed)
  /\ result \subseteq 1..Len(listed)
  /\ now \in Nat /\ due \in Nat

Init ==
  /\ goal \in Goals
  /\ pc = "new"
  /\ listCall = "none" /\ listFuture = "pending" /\ listed = <<>>
  /\ index = 0 /\ lookup = "pending" /\ lost = {} /\ result = {}
  /\ now = 0 /\ due = 0

-----------------------------------------------------------------------------
(***************************************************************************)
(* The thread: in resolveServices if goal = All, else in resolveService.   *)
(***************************************************************************)
ListServices ==
  /\ pc = "new"
  /\ pc' = "listing" /\ listCall' = "open" /\ due' = now + Deadline
  /\ UNCHANGED <<goal, index, result, listFuture, listed, lookup, lost, now>>

IsListed(s) == \E i \in 1..Len(listed) : listed[i] = s

StartLookup(i) ==
  /\ pc' = "looking"
  /\ index' = i /\ lookup' = "pending" /\ due' = now + Deadline

Leave(how) ==
  /\ pc' = how
  /\ UNCHANGED <<index, lookup, due>>

\* The list is there: a first service to look up, no service to register, or
\* NOT_FOUND for a call of a service the server does not have.
GotList ==
  /\ pc = "listing" /\ listFuture = "done"
  /\ \/ (IF goal = All THEN listed # <<>> ELSE IsListed(goal)) /\ StartLookup(1)
     \/ goal = All /\ listed = <<>> /\ Leave("returned")
     \/ goal # All /\ ~IsListed(goal) /\ Leave("threw")
  /\ UNCHANGED <<goal, result, listVars, lost, now>>

NoList ==
  /\ pc = "listing" /\ listFuture = "failed"
  /\ Leave("threw")
  /\ UNCHANGED <<goal, result, listVars, lost, now>>

\* A fault: one service too many.
NextServicePast ==
  IF goal = All /\ index <= Len(listed) THEN StartLookup(index + 1)
                                        ELSE Leave("returned")

\* The next service of the list, or back to the caller.
NextService ==
  IF goal = All /\ index < Len(listed) THEN StartLookup(index + 1)
                                       ELSE Leave("returned")

GotFiles ==
  /\ pc = "looking" /\ lookup = "done"
  /\ result' = result \cup {index}
  /\ NextService
  /\ UNCHANGED <<goal, listVars, lost, now>>

\* Faults: a failed lookup ends the registration, or is tried again.
NoFilesLast ==
  /\ pc = "looking" /\ lookup = "failed"
  /\ Leave(IF goal = All THEN "returned" ELSE "threw")
  /\ UNCHANGED <<goal, result, listVars, lost, now>>

NoFilesAgain ==
  /\ pc = "looking" /\ lookup = "failed"
  /\ IF goal = All THEN StartLookup(index) ELSE Leave("threw")
  /\ UNCHANGED <<goal, result, listVars, lost, now>>

\* A registration logs the failure and goes on; a call is over.
NoFiles ==
  /\ pc = "looking" /\ lookup = "failed"
  /\ IF goal = All THEN NextService ELSE Leave("threw")
  /\ UNCHANGED <<goal, result, listVars, lost, now>>

\* The thread is interrupted in get(), which then throws whether the future is
\* done or not: an exception while the services are listed, a lost lookup later.
Interrupted ==
  /\ \/ pc = "listing" /\ Leave("threw") /\ UNCHANGED lost
     \/ /\ pc = "looking"
        /\ lost' = lost \cup {index}
        /\ IF goal = All THEN NextService ELSE Leave("threw")
  /\ UNCHANGED <<goal, result, listVars, now>>

-----------------------------------------------------------------------------
(***************************************************************************)
(* The callbacks of the list call.  An answer of another type is logged.   *)
(***************************************************************************)
\* A fault: the list in a plain field, which a later answer overwrites.
OnNextListLatest(l) ==
  /\ listCall \in {"open", "halfClosed"}
  /\ listed' = l
  /\ listFuture' = IF listFuture = "pending" THEN "done" ELSE listFuture
  /\ listCall' = IF listCall = "open" THEN "halfClosed" ELSE "closed"
  /\ UNCHANGED <<threadVars, lookup, lost, now>>

\* handleListServiceResponse: the first answer settles the future and half-closes
\* the stream; half-closing it again throws, and gRPC cancels the call.
OnNextList(l) ==
  /\ listCall \in {"open", "halfClosed"}
  /\ listed' = IF listFuture = "pending" THEN l ELSE listed
  /\ listFuture' = IF listFuture = "pending" THEN "done" ELSE listFuture
  /\ listCall' = IF listCall = "open" THEN "halfClosed" ELSE "closed"
  /\ UNCHANGED <<threadVars, lookup, lost, now>>

\* A fault: the end of the call is logged only.
ListEndsSilent ==
  /\ listCall \in {"open", "halfClosed"}
  /\ listCall' = "closed"
  /\ UNCHANGED <<threadVars, listFuture, listed, lookup, lost, now>>

\* onError and onCompleted: a call that ends without an answer has failed.
ListEnds ==
  /\ listCall \in {"open", "halfClosed"}
  /\ listCall' = "closed"
  /\ listFuture' = IF listFuture = "pending" THEN "failed" ELSE listFuture
  /\ UNCHANGED <<threadVars, listed, lookup, lost, now>>

-----------------------------------------------------------------------------
(***************************************************************************)
(* The lookup the thread waits for, and time, which the thread spends only *)
(* waiting: a call that is not over at its deadline fails there.           *)
(***************************************************************************)
LookupDone ==
  /\ pc = "looking" /\ lookup = "pending"
  /\ lookup' = "done"
  /\ UNCHANGED <<threadVars, listVars, lost, now>>

LookupFails ==
  /\ pc = "looking" /\ lookup = "pending"
  /\ lookup' = "failed" /\ lost' = lost \cup {index}
  /\ UNCHANGED <<threadVars, listVars, now>>

Waiting ==
  \/ pc = "listing" /\ listFuture = "pending"
  \/ pc = "looking" /\ lookup = "pending"

Tick ==
  /\ Waiting /\ now < due
  /\ now' = now + 1
  /\ UNCHANGED <<threadVars, listVars, lookup, lost>>

Expires ==
  /\ now = due
  /\ \/ pc = "listing" /\ listFuture = "pending" /\ ListEnds
     \/ LookupFails

-----------------------------------------------------------------------------
Thread == ListServices \/ GotList \/ NoList \/ GotFiles \/ NoFiles

ListCallback == (\E l \in Lists : OnNextList(l)) \/ ListEnds

Next == Thread \/ Interrupted \/ ListCallback \/ LookupDone \/ LookupFails \/ Tick

Spec == Init /\ [][Next]_vars

\* The thread runs, time passes, and a deadline is kept; no server need answer.
FairSpec ==
  /\ Spec
  /\ WF_vars(Thread) /\ WF_vars(Tick) /\ WF_vars(Expires)

-----------------------------------------------------------------------------
(***************************************************************************)
(* Properties.                                                             *)
(***************************************************************************)

\* A registration gets the file set of every listed service but those whose own
\* lookup is lost: a failure costs no other service.  A call gets the file set of
\* a service that the server has listed, or an exception.
ResolveExact ==
  pc = "returned" =>
    IF goal = All THEN result = (1..Len(listed)) \ lost
                  ELSE IsListed(goal) /\ result = {1} /\ lost = {}

\* The list a thread works through does not change under its hands, however many
\* answers follow the first one and however the call ends.
StableList ==
  [][listFuture # "pending" => UNCHANGED <<listFuture, listed>>]_vars

Ended == pc \in {"returned", "threw"}

\* The services whose file sets a return hands over.
Handed ==
  IF pc # "returned" THEN {}
  ELSE IF goal = All THEN {listed[i] : i \in result} ELSE {goal}

\* To its caller a resolution is what ResolutionPromise says: one list, taken once
\* whatever the server sends after it, and one result made of it.
Promise == INSTANCE ResolutionPromise WITH
  state <- IF Ended THEN pc ELSE IF listFuture = "done" THEN "listed" ELSE "asked",
  list <- IF pc = "threw" THEN <<>> ELSE listed,
  files <- Handed

KeepsPromise == Promise!Spec

\* The lookups of a resolution, at most.
Lookups == IF goal = All THEN Len(listed) ELSE 1

\* An HTTP request waits for one deadline for the list and for one more for each
\* service of it, and never longer, with a server that says nothing.
TimeBound == now <= Deadline * (Lookups + 1)

\* Every resolution ends, with a result or an exception.
Returns == <>(pc \in {"returned", "threw"})

-----------------------------------------------------------------------------
\* Where the thread is in the list.
Progress ==
  /\ pc = "new" <=> listCall = "none"
  /\ pc \in {"new", "listing"} => index = 0 /\ lost = {} /\ result = {}
  /\ pc \in {"looking", "returned"} => listFuture = "done"
  /\ pc = "looking" => /\ index >= 1 /\ index <= Lookups
                       /\ lost \subseteq 1..index
                       /\ result = (1..(index - 1)) \ lost
                       /\ index \in lost <=> lookup = "failed"
                       /\ goal # All => IsListed(goal)
  /\ listFuture # "done" => listed = <<>>
  /\ ResolveExact

\* What time each deadline allows.
Punctual ==
  /\ now <= due
  /\ due <= Deadline * (index + 1)
  /\ index <= Lookups
  /\ pc = "new" => due = 0

Invariant == Progress /\ Punctual
=============================================================================
